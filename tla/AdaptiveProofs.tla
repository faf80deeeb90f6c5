---------------------------- MODULE AdaptiveProofs ----------------------------
(***************************************************************************)
(* Proofs about Adaptive, for every ladder, every load and every number of *)
(* retry windows.                                                          *)
(*                                                                         *)
(* RetriesAreSpaced is about a step, and about what several earlier ones   *)
(* left behind: after a failed step the limit that blocks it may be        *)
(* replaced by another failed step, or moved by settling.  The invariant   *)
(* says that the limit in force always stands for every step that still    *)
(* has to wait.                                                            *)
(***************************************************************************)
EXTENDS Adaptive, TLAPS

(* The limit blocks every failed step as long as the step has to wait.     *)
StepsBlocked ==
  \A g \in Goals, i \in Indices : failed[g][i] > 0 =>
    limit[g].left >= failed[g][i] /\ Beyond(g, i, limit[g].index)

(* A pending step went no further than the limit.                          *)
PendingAllowed ==
  \A p \in probe : limit[p.goal].left > 0 =>
    ~Beyond(p.goal, index, limit[p.goal].index)

IInv == TypeOK /\ StepsBlocked /\ PendingAllowed

-----------------------------------------------------------------------------
(* A window that passes keeps the types.                                   *)
LEMMA WindowTypes ==
  ASSUME TypeOK
  PROVE  /\ Older \in [Indices -> 0 .. Retry]
         /\ Measured \in [Indices -> 0 .. Retry]
         /\ Limits \in [Goals -> [index : Indices, left : 0 .. Retry]]
         /\ Waiting \in [Goals -> [Indices -> 0 .. Retry]]
<1>1. \A n \in 0 .. Retry : Passed(n) \in 0 .. Retry
  BY ConstantsAssumption DEF Passed
<1>2. Older \in [Indices -> 0 .. Retry]
  BY ConstantsAssumption DEF TypeOK, Older
<1>3. Measured \in [Indices -> 0 .. Retry]
  BY <1>2, ConstantsAssumption DEF TypeOK, Measured
<1>4. Limits \in [Goals -> [index : Indices, left : 0 .. Retry]]
  BY <1>1 DEF TypeOK, Limits
<1>5. Waiting \in [Goals -> [Indices -> 0 .. Retry]]
  BY <1>1 DEF TypeOK, Waiting
<1>6. QED  BY <1>2, <1>3, <1>4, <1>5

(* Limits and waiting times run down together.                             *)
LEMMA WindowBlocks ==
  ASSUME TypeOK, StepsBlocked,
         NEW g \in Goals, NEW i \in Indices, Waiting[g][i] > 0
  PROVE  Limits[g].left >= Waiting[g][i] /\ Beyond(g, i, Limits[g].index)
<1>1. /\ Waiting[g][i] = Passed(failed[g][i])
      /\ Limits[g].left = Passed(limit[g].left)
      /\ Limits[g].index = limit[g].index
  BY DEF Waiting, Limits, TypeOK
<1>2. failed[g][i] \in Nat /\ limit[g].left \in Nat
  BY ConstantsAssumption DEF TypeOK
<1>3. failed[g][i] > 0
  BY <1>1, <1>2 DEF Passed
<1>4. limit[g].left >= failed[g][i] /\ Beyond(g, i, limit[g].index)
  BY <1>3 DEF StepsBlocked
<1>5. QED  BY <1>1, <1>2, <1>3, <1>4 DEF Passed

(* A limit may be set anew, not past the one in force.                     *)
LEMMA LimitMayMove ==
  ASSUME TypeOK, StepsBlocked,
         NEW goal \in Goals, NEW x \in Indices,
         Limits[goal].left > 0 => ~Beyond(goal, x, Limits[goal].index),
         NEW g \in Goals, NEW i \in Indices, Waiting[g][i] > 0
  PROVE  Limited(goal, x)[g].left >= Waiting[g][i] /\ Beyond(g, i, Limited(goal, x)[g].index)
<1>1. Limits[g].left >= Waiting[g][i] /\ Beyond(g, i, Limits[g].index)
  BY WindowBlocks
<1>2. Waiting[g][i] \in 0 .. Retry /\ Limits[g] \in [index : Indices, left : 0 .. Retry]
  BY WindowTypes
<1>3. CASE g # goal
  <2>1. Limited(goal, x)[g] = Limits[g]
    BY <1>3, WindowTypes DEF Limited
  <2>2. QED  BY <1>1, <2>1
<1>4. CASE g = goal
  <2>1. Limited(goal, x)[g] = [index |-> x, left |-> Retry]
    BY <1>4, WindowTypes DEF Limited
  <2>2. Limits[g].left > 0
    BY <1>1, <1>2, ConstantsAssumption
  <2>3. ~Beyond(g, x, Limits[g].index)
    BY <1>4, <2>2
  <2>4. Beyond(g, i, x)
    BY <1>1, <1>2, <2>3, ConstantsAssumption DEF Beyond, Indices
  <2>5. Retry >= Waiting[g][i]
    BY <1>2, ConstantsAssumption
  <2>6. QED  BY <2>1, <2>4, <2>5
<1>5. QED  BY <1>3, <1>4

-----------------------------------------------------------------------------
LEMMA InitInv == ASSUME Init PROVE IInv
<1>1. TypeOK
  BY ConstantsAssumption DEF Init, TypeOK, Indices
<1>2. StepsBlocked /\ PendingAllowed
  BY DEF Init, StepsBlocked, PendingAllowed
<1>3. QED  BY <1>1, <1>2 DEF IInv

LEMMA EmptyWindowInv == ASSUME IInv, EmptyWindow PROVE IInv'
<1> USE DEF IInv, EmptyWindow
<1>1. TypeOK'
  BY WindowTypes DEF TypeOK
<1>2. StepsBlocked'
  BY WindowBlocks DEF StepsBlocked, Indices
<1>3. PendingAllowed'
  <2> SUFFICES ASSUME NEW p \in probe, Limits[p.goal].left > 0
               PROVE  ~Beyond(p.goal, index, Limits[p.goal].index)
    BY DEF PendingAllowed, Beyond
  <2>1. p.goal \in Goals /\ limit[p.goal].left \in Nat
    BY ConstantsAssumption DEF TypeOK
  <2>2. /\ Limits[p.goal].left = Passed(limit[p.goal].left)
        /\ Limits[p.goal].index = limit[p.goal].index
    BY <2>1 DEF Limits, TypeOK
  <2>3. limit[p.goal].left > 0
    BY <2>1, <2>2 DEF Passed
  <2>4. QED  BY <2>2, <2>3 DEF PendingAllowed
<1>4. QED  BY <1>1, <1>2, <1>3

LEMMA RevertInv == ASSUME IInv, NEW b, Revert(b) PROVE IInv'
<1> USE DEF IInv
<1>1. PICK p \in probe :
        /\ limit' = Limited(p.goal, p.from)
        /\ index' = p.from
        /\ failed' = [Waiting EXCEPT ![p.goal][index] = Retry]
  BY DEF Revert
<1>2. /\ p.goal \in Goals /\ p.from \in Indices /\ index \in Indices
      /\ Beyond(p.goal, index, p.from)
  <2>1. p.goal \in Goals /\ p.from \in Indices /\ index \in Indices
    BY DEF TypeOK
  <2>2. index = IF p.goal = "Ratio" THEN p.from + 1 ELSE p.from - 1
    BY DEF TypeOK
  <2>3. QED  BY <2>1, <2>2, ConstantsAssumption DEF Beyond, Indices
<1>3. Limited(p.goal, p.from) \in [Goals -> [index : Indices, left : 0 .. Retry]]
  BY <1>2, WindowTypes, ConstantsAssumption DEF Limited
<1>4. failed' \in [Goals -> [Indices -> 0 .. Retry]]
  BY <1>1, <1>2, WindowTypes, ConstantsAssumption
<1>5. TypeOK'
  BY <1>1, <1>2, <1>3, <1>4, WindowTypes DEF TypeOK, Revert
<1>6. Limits[p.goal].left > 0 => ~Beyond(p.goal, p.from, Limits[p.goal].index)
  <2>1. /\ Limits[p.goal].left = Passed(limit[p.goal].left)
        /\ Limits[p.goal].index = limit[p.goal].index
        /\ limit[p.goal] \in [index : Indices, left : 0 .. Retry]
    BY <1>2 DEF Limits, TypeOK
  <2>2. Limits[p.goal].left > 0 => ~Beyond(p.goal, index, limit[p.goal].index)
    BY <2>1, ConstantsAssumption DEF PendingAllowed, Passed
  <2>3. QED
    BY <1>2, <2>1, <2>2, ConstantsAssumption DEF Beyond, Indices
<1>7. StepsBlocked'
  <2> SUFFICES ASSUME NEW g \in Goals, NEW i \in Indices, failed'[g][i] > 0
               PROVE  limit'[g].left >= failed'[g][i] /\ Beyond(g, i, limit'[g].index)
    BY DEF StepsBlocked, Beyond, Indices
  <2>1. CASE g = p.goal /\ i = index
    <3>1. failed'[g][i] = Retry
      BY <1>1, <1>2, <2>1, WindowTypes
    <3>2. limit'[g] = [index |-> p.from, left |-> Retry]
      BY <1>1, <1>2, <2>1, WindowTypes DEF Limited
    <3>3. QED  BY <1>2, <2>1, <3>1, <3>2, ConstantsAssumption
  <2>2. CASE ~(g = p.goal /\ i = index)
    <3>1. failed'[g][i] = Waiting[g][i]
      BY <1>1, <1>2, <2>2, WindowTypes
    <3>2. QED  BY <1>1, <1>2, <1>6, <3>1, LimitMayMove
  <2>3. QED  BY <2>1, <2>2
<1>8. PendingAllowed'
  BY DEF Revert, PendingAllowed
<1>9. QED  BY <1>5, <1>7, <1>8

LEMMA HoldInv == ASSUME IInv, Hold PROVE IInv'
<1> USE DEF IInv, Hold
<1>1. TypeOK'
  BY WindowTypes DEF TypeOK
<1>2. StepsBlocked'
  BY WindowBlocks DEF StepsBlocked, Indices
<1>3. QED  BY <1>1, <1>2 DEF PendingAllowed

LEMMA StepInv == ASSUME IInv, NEW goal \in Goals, Step(goal) PROVE IInv'
<1> USE DEF IInv, Step
<1>1. TypeOK'
  <2>1. index' \in Indices /\ index \in Indices
    BY DEF StepOpen, TypeOK
  <2>2. probe' \in SUBSET [from : Indices, goal : Goals]
    BY <2>1
  <2>3. \A p \in probe' : index' = IF p.goal = "Ratio" THEN p.from + 1 ELSE p.from - 1
    BY DEF Next1
  <2>4. QED  BY <2>1, <2>2, <2>3, WindowTypes DEF TypeOK
<1>2. StepsBlocked'
  BY WindowBlocks DEF StepsBlocked, Indices
<1>3. PendingAllowed'
  BY DEF PendingAllowed, StepOpen, Beyond
<1>4. QED  BY <1>1, <1>2, <1>3

LEMMA SettleInv == ASSUME IInv, NEW goal \in Goals, Settle(goal) PROVE IInv'
<1> USE DEF IInv
<1>1. PICK i \in Indices :
        /\ Settled(goal, i)
        /\ index' = i
        /\ limit' = IF i # index \/ Limits[goal].left = 0 THEN Limited(goal, i) ELSE Limits
  BY DEF Settle
<1>2. Limited(goal, i) \in [Goals -> [index : Indices, left : 0 .. Retry]]
  BY WindowTypes, ConstantsAssumption DEF Limited
<1>3. TypeOK'
  BY <1>1, <1>2, WindowTypes DEF TypeOK, Settle
<1>4. StepsBlocked'
  <2>1. CASE limit' = Limits
    BY <2>1, WindowBlocks DEF StepsBlocked, Settle, Indices
  <2>2. CASE limit' = Limited(goal, i) /\ (i # index \/ Limits[goal].left = 0)
    <3>1. Limits[goal] \in [index : Indices, left : 0 .. Retry]
      BY WindowTypes
    <3>2. Limits[goal].left > 0 => ~Beyond(goal, i, Limits[goal].index)
      BY <1>1, <2>2, <3>1, ConstantsAssumption DEF Settled, Candidates
    <3>3. QED
      BY <2>2, <3>2, LimitMayMove DEF StepsBlocked, Settle, Indices
  <2>3. QED  BY <1>1, <2>1, <2>2
<1>5. PendingAllowed'
  BY DEF Settle, PendingAllowed
<1>6. QED  BY <1>3, <1>4, <1>5

(* Every window is one of these.                                           *)
LEMMA UpdateCases ==
  ASSUME Window, demand \in Bottlenecks \cup {"moving"}
  PROVE  \/ \E b \in Bottlenecks \cup {"None"} : Revert(b)
         \/ Hold
         \/ \E goal \in Goals : Step(goal) \/ Settle(goal)
<1>1. ASSUME NEW b \in Bottlenecks, Update(b)
      PROVE  Revert(b) \/ \E goal \in Goals : Step(goal) \/ Settle(goal)
  BY <1>1 DEF Update, Goal, Goals
<1>2. CASE demand = "moving"
  BY <1>1, <1>2 DEF Window, UpdateUnclear
<1>3. CASE demand \in Bottlenecks /\ demand # "moving"
  BY <1>1, <1>3 DEF Window
<1>4. QED  BY <1>2, <1>3

LEMMA NextInv == ASSUME IInv, [Next]_vars PROVE IInv'
<1>1. CASE EmptyWindow
  BY <1>1, EmptyWindowInv
<1>2. CASE Window
  BY <1>2, UpdateCases, RevertInv, HoldInv, StepInv, SettleInv DEF IInv, TypeOK
<1>3. ASSUME NEW b \in Bottlenecks, BottleneckStays(b) PROVE IInv'
  BY <1>3 DEF BottleneckStays, IInv, TypeOK, StepsBlocked, PendingAllowed, Beyond, Indices
<1>4. CASE UNCHANGED vars
  BY <1>4 DEF vars, IInv, TypeOK, StepsBlocked, PendingAllowed, Beyond, Indices
<1>5. QED  BY <1>1, <1>2, <1>3, <1>4 DEF Next

(* The invariant holds: the limit in force stands for every failed step    *)
(* that still has to wait.                                                 *)
THEOREM Invariance == Spec => []IInv
<1>1. Init => IInv  BY InitInv
<1>2. IInv /\ [Next]_vars => IInv'  BY NextInv
<1>3. QED  BY <1>1, <1>2, PTL DEF Spec

(* The level stays on the ladder and pending steps are single steps.       *)
THEOREM TypesHold == Spec => []TypeOK
<1>1. IInv => TypeOK  BY DEF IInv
<1>2. QED  BY <1>1, Invariance, PTL

(* A step that hurt is not tried again before its retry windows have       *)
(* passed, whatever walks and settles in between.                          *)
THEOREM RetriesWait == Spec => RetriesAreSpaced
<1>1. ASSUME IInv, Next
      PROVE  \A p \in probe' \ probe : failed'[p.goal][index'] = 0
  <2>1. ASSUME NEW goal \in Goals, Step(goal)
        PROVE  \A p \in probe' \ probe : failed'[p.goal][index'] = 0
    <3>1. /\ probe' = {[from |-> index, goal |-> goal]}
          /\ index' = Next1(goal) /\ failed' = Waiting
      BY <2>1 DEF Step
    <3>2. Next1(goal) \in Indices
          /\ ~(Limits[goal].left > 0 /\ Beyond(goal, Next1(goal), Limits[goal].index))
      BY <2>1 DEF Step, StepOpen
    <3>3. /\ Waiting[goal][Next1(goal)] \in 0 .. Retry
          /\ Limits[goal].left \in 0 .. Retry
      BY <1>1, <3>2, WindowTypes DEF IInv
    <3>4. Waiting[goal][Next1(goal)] > 0 =>
            /\ Limits[goal].left >= Waiting[goal][Next1(goal)]
            /\ Beyond(goal, Next1(goal), Limits[goal].index)
      BY <1>1, <3>2, WindowBlocks DEF IInv
    <3>5. Waiting[goal][Next1(goal)] = 0
      BY <3>2, <3>3, <3>4, ConstantsAssumption
    <3>6. QED  BY <3>1, <3>5
  <2>2. ASSUME probe' = {} \/ probe' = probe
        PROVE  \A p \in probe' \ probe : failed'[p.goal][index'] = 0
    BY <2>2
  <2>3. CASE EmptyWindow
    BY <2>3, <2>2 DEF EmptyWindow
  <2>4. CASE Window
    BY <1>1, <2>4, <2>1, <2>2, UpdateCases DEF IInv, TypeOK, Revert, Hold, Settle
  <2>5. CASE \E b \in Bottlenecks : BottleneckStays(b)
    BY <2>5, <2>2 DEF BottleneckStays
  <2>6. QED  BY <1>1, <2>3, <2>4, <2>5 DEF Next
<1>2. ASSUME IInv, [Next]_vars
      PROVE  [\A p \in probe' \ probe : failed'[p.goal][index'] = 0]_vars
  BY <1>1, <1>2
<1>3. QED  BY <1>2, Invariance, PTL DEF Spec, RetriesAreSpaced
=============================================================================
