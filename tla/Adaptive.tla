------------------------------- MODULE Adaptive -------------------------------
(***************************************************************************)
(* AdaptiveLevel: a hill climb over compression levels (adaptive.rs).      *)
(*                                                                         *)
(* Once per window of work the sender says what limited it.  The level     *)
(* walks one step at a time toward more ratio or more speed, a step is     *)
(* judged by the next window and taken back if it hurt, and a finished     *)
(* walk settles on the best level measured recently and blocks further     *)
(* steps for a while.  Neither quantity is monotonic in the level.         *)
(*                                                                         *)
(* The data is steady here: a level always measures the same, so a sample  *)
(* decayed into an older one is the level's own.  What moves is the        *)
(* bottleneck.  Window numbers are kept as ages and remaining times.       *)
(***************************************************************************)
EXTENDS Integers

CONSTANTS
  Len,      \* levels in range, at most LADDER
  Retry,    \* RETRY_WINDOWS
  Loads     \* what levels may measure: compressed size and speed per level

Indices == 0 .. Len - 1

ASSUME ConstantsAssumption ==
  /\ Len \in Nat \ {0}
  /\ Retry \in Nat \ {0}
  /\ Loads \subseteq [Indices -> [size : Nat \ {0}, speed : Nat \ {0}]]

VARIABLES
  load,     \* what the levels measure
  index,    \* the level in use
  age,      \* windows since a level was measured, Retry if not recently
  probe,    \* the step waiting for its verdict, if any
  limit,    \* ceiling (for Ratio) and floor (for Speed); none when left is 0
  failed,   \* history: windows until a failed step may be tried again
  demand    \* history: the bottleneck once it no longer moves, or "moving"

vars == << load, index, age, probe, limit, failed, demand >>

Goals == {"Ratio", "Speed"}
Bottlenecks == {"Output", "Cpu", "Input"}
Goal(b) == IF b = "Cpu" THEN "Speed" ELSE "Ratio"

-----------------------------------------------------------------------------
(* Comparing two levels: by compressed size and by speed, in thousandths.  *)
RatioWithin(i, j, num) == load[i].size * 1000 <= load[j].size * num
SpeedWithin(i, j, num) == load[i].speed * 1000 >= load[j].speed * num

(* RATIO_STEP, SPEED_STEP: what a step may lose.                           *)
Kept(goal, from, to, b) ==
  \/ goal = "Ratio" /\ b # "Cpu" /\ RatioWithin(to, from, 1020)
  \/ goal = "Speed" /\ b # "Output" /\ SpeedWithin(to, from, 900)

-----------------------------------------------------------------------------
(* One window passes.                                                      *)
Passed(n) == IF n > 0 THEN n - 1 ELSE 0
Older == [i \in Indices |-> IF age[i] < Retry THEN age[i] + 1 ELSE Retry]
Measured == [Older EXCEPT ![index] = 0]
Limits == [g \in Goals |-> [limit[g] EXCEPT !.left = Passed(limit[g].left)]]
Waiting == [g \in Goals |-> [i \in Indices |-> Passed(failed[g][i])]]

(* set_limit.                                                              *)
Limited(goal, i) == [Limits EXCEPT ![goal] = [index |-> i, left |-> Retry]]

(* next: where a step toward the goal leads, if it is not blocked.         *)
(* (Plausible slips: the end of the ladder does not block, or limits do    *)
(* not.)                                                                   *)
Next1(goal) == IF goal = "Ratio" THEN index + 1 ELSE index - 1
Beyond(goal, i, bound) == IF goal = "Ratio" THEN i > bound ELSE i < bound
StepOpenUnbounded(goal) ==
  ~(Limits[goal].left > 0 /\ Beyond(goal, Next1(goal), Limits[goal].index))
StepOpenUnlimited(goal) == Next1(goal) \in Indices
StepOpen(goal) ==
  /\ Next1(goal) \in Indices
  /\ ~(Limits[goal].left > 0 /\ Beyond(goal, Next1(goal), Limits[goal].index))

(* settle looks at recent measurements that the limit allows.  (A          *)
(* plausible slip: it looks at all of them.)                               *)
CandidatesUnlimited(goal) == {i \in Indices : Measured[i] < Retry}
Candidates(goal) ==
  {i \in Indices : /\ Measured[i] < Retry
                   /\ ~(Limits[goal].left > 0 /\ Beyond(goal, i, Limits[goal].index))}

(* RATIO_TIE: the lowest of the densest.  SPEED_TIE: the densest of the    *)
(* fastest, the lowest of those.                                           *)
Densest(S, i) == \A j \in S : RatioWithin(i, j, 1005)
Fastest(S, i) == \A j \in S : SpeedWithin(i, j, 950)

Preferred(goal, S, i) ==
  IF goal = "Ratio"
  THEN Densest(S, i) /\ \A j \in S : Densest(S, j) => i <= j
  ELSE /\ Fastest(S, i)
       /\ \A j \in S : Fastest(S, j) =>
            \/ load[i].size < load[j].size
            \/ load[i].size = load[j].size /\ i <= j

(* Without a candidate the level stays.                                    *)
Settled(goal, i) ==
  LET S == Candidates(goal) IN
    IF S = {} THEN i = index ELSE i \in S /\ Preferred(goal, S, i)

-----------------------------------------------------------------------------
(* update.                                                                 *)

(* A window without work, or without a measurable time.                    *)
EmptyWindow ==
  /\ demand = "moving"
  /\ age' = Older
  /\ limit' = Limits
  /\ failed' = Waiting
  /\ UNCHANGED << load, index, probe, demand >>

Hurt(b) == \E p \in probe : ~Kept(p.goal, p.from, index, b)

(* The step before this window hurt.                                       *)
Revert(b) ==
  /\ Hurt(b)
  /\ \E p \in probe :
       /\ limit' = Limited(p.goal, p.from)
       /\ index' = p.from
       /\ failed' = [Waiting EXCEPT ![p.goal][index] = Retry]
  /\ probe' = {}
  /\ age' = Measured
  /\ UNCHANGED << load, demand >>

(* No clear bottleneck: the level holds.                                   *)
Hold ==
  /\ probe' = {}
  /\ age' = Measured
  /\ limit' = Limits
  /\ failed' = Waiting
  /\ UNCHANGED << load, index, demand >>

Step(goal) ==
  /\ StepOpen(goal)
  /\ index' = Next1(goal)
  /\ probe' = {[from |-> index, goal |-> goal]}
  /\ age' = Measured
  /\ limit' = Limits
  /\ failed' = Waiting
  /\ UNCHANGED << load, demand >>

(* A finished walk.  A limit in force is renewed only by a move.           *)
Settle(goal) ==
  /\ ~StepOpen(goal)
  /\ \E i \in Indices :
       /\ Settled(goal, i)
       /\ index' = i
       /\ limit' = IF i # index \/ Limits[goal].left = 0 THEN Limited(goal, i) ELSE Limits
  /\ probe' = {}
  /\ age' = Measured
  /\ failed' = Waiting
  /\ UNCHANGED << load, demand >>

Update(b) == Revert(b) \/ (~Hurt(b) /\ (Step(Goal(b)) \/ Settle(Goal(b))))
UpdateUnclear == Revert("None") \/ (~Hurt("None") /\ Hold)

(* The sender: the bottleneck moves freely, until it no longer does.       *)
Window ==
  IF demand = "moving" THEN (\E b \in Bottlenecks : Update(b)) \/ UpdateUnclear
  ELSE Update(demand)

BottleneckStays(b) ==
  /\ demand = "moving"
  /\ demand' = b
  /\ UNCHANGED << load, index, age, probe, limit, failed >>

Init ==
  /\ load \in Loads
  /\ index \in Indices
  /\ age = [i \in Indices |-> Retry]
  /\ probe = {}
  /\ limit = [g \in Goals |-> [index |-> 0, left |-> 0]]
  /\ failed = [g \in Goals |-> [i \in Indices |-> 0]]
  /\ demand = "moving"

Next == EmptyWindow \/ Window \/ \E b \in Bottlenecks : BottleneckStays(b)

(* The sender goes on recording windows.                                   *)
Spec == Init /\ [][Next]_vars /\ WF_vars(Window)

-----------------------------------------------------------------------------
(* Properties.                                                             *)

(* Types.  The level stays on the ladder, and a pending step is one step.  *)
TypeOK ==
  /\ load \in Loads
  /\ index \in Indices
  /\ age \in [Indices -> 0 .. Retry]
  /\ probe \in SUBSET [from : Indices, goal : Goals]
  /\ \A p \in probe : index = IF p.goal = "Ratio" THEN p.from + 1 ELSE p.from - 1
  /\ limit \in [Goals -> [index : Indices, left : 0 .. Retry]]
  /\ failed \in [Goals -> [Indices -> 0 .. Retry]]
  /\ demand \in Bottlenecks \cup {"moving"}

(* "A finished walk blocks steps past `index`": a step that hurt is not    *)
(* tried again for Retry windows, however the bottleneck moves meanwhile,  *)
(* whatever walks the other way and settling do in between.                *)
RetriesAreSpaced ==
  [][\A p \in probe' \ probe : failed'[p.goal][index'] = 0]_vars

(* Between a finished walk and the next one.                               *)
Resting(goal) == probe = {} /\ limit[goal].left \in 1 .. Retry - 1

(* Once the bottleneck stays, the level comes to rest again and again:     *)
(* steps, reversals and settling (which may move the level more than once) *)
(* never chase each other for good.                                        *)
WalksEnd == demand # "moving" ~> Resting(Goal(demand))

(* The levels a walk toward speed from i crosses.                          *)
SpeedWalk(i) ==
  {j \in 0 .. i : \A k \in j + 1 .. i : SpeedWithin(k - 1, k, 900)}

(* DESIGN.md: the level "settles on the best measured level"; adaptive.rs: *)
(* "Speeds within 5% tie".  While the CPU is the bottleneck the level      *)
(* before long rests only where no level its walk crosses is faster by     *)
(* more than a tie.                                                        *)
SettlesOnFastest ==
  demand = "Cpu" ~>
    [](Resting("Speed") => \A j \in SpeedWalk(index) : SpeedWithin(index, j, 950))
=============================================================================
