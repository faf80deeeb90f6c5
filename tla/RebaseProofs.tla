----------------------------- MODULE RebaseProofs -----------------------------
(***************************************************************************)
(* Proofs about Rebase, for every span, block size, window, dictionary and *)
(* input length.                                                           *)
(*                                                                         *)
(* Everything follows from one equation, EntriesMoved: an entry is its     *)
(* position less the base, or 0 once that is negative.  BaseBehind and     *)
(* WithinSpan say how far behind the block the base may be.  LongRebase's   *)
(* loop is Rebase's as far as those are concerned, and LongMoved is the    *)
(* same equation for its table.                                            *)
(***************************************************************************)
EXTENDS LongRebase, TLAPS

EntriesMoved ==
  \A s \in Slots : table[s] = IF plain[s] >= base THEN plain[s] - base ELSE 0

BlockShape ==
  /\ end <= start + blockSize /\ end <= len
  /\ pc # "done" => start < end

BaseBehind == base = 0 \/ base + window <= start

WithinSpan ==
  /\ shift <= MaxSpan
  /\ pc = "advance" => \/ start - base <= MaxSpan
                       \/ start - base <= window + MaxBlock
  /\ pc = "search" => \/ end - base <= MaxSpan
                      \/ end - base <= window + MaxBlock

IInv == TypeOK /\ EntriesMoved /\ BlockShape /\ BaseBehind /\ WithinSpan

USE ConstantsAssumption

(* The prefilled tables count from 0.                                      *)
LEMMA InitIInv == Init => IInv
<1> SUFFICES ASSUME Init PROVE IInv
  OBVIOUS
<1> USE DEF Init
<1>1. start \in Nat /\ start <= MaxSpan
  OBVIOUS
<1>2. window \in Nat \ {0} /\ blockSize \in 1 .. MaxBlock
  BY DEF LesserOf
<1>3. len \in Nat /\ start < len
  BY <1>1
<1>4. end \in Nat /\ start < end /\ end <= start + blockSize /\ end <= len
  BY <1>1, <1>2, <1>3 DEF BlockEnd, LesserOf
<1>5. table \in [Slots -> Nat]
  BY <1>1 DEF GreaterOf
<1>6. TypeOK
  BY <1>1, <1>2, <1>3, <1>4, <1>5 DEF TypeOK
<1>7. EntriesMoved
  BY <1>5 DEF EntriesMoved
<1>8. BlockShape /\ BaseBehind /\ WithinSpan
  BY <1>1, <1>2, <1>4 DEF BlockShape, BaseBehind, WithinSpan
<1> QED
  BY <1>6, <1>7, <1>8 DEF IInv

(* advance moves the base at most to one window behind the block, by no    *)
(* more than the span.                                                     *)
LEMMA AdvanceBounds ==
  ASSUME IInv, pc = "advance"
  PROVE  /\ Advance \in Nat
         /\ Advance <= MaxSpan
         /\ Advance = 0 \/ base + Advance + window = start
         /\ \/ end - (base + Advance) <= MaxSpan
            \/ end - (base + Advance) <= window + MaxBlock
<1>1. /\ base \in Nat /\ start \in Nat /\ end \in Nat /\ window \in Nat
      /\ blockSize \in Nat /\ blockSize <= MaxBlock
      /\ start < end /\ end <= start + blockSize
  BY DEF IInv, TypeOK, BlockShape
<1>2. \/ start - base <= MaxSpan
      \/ start - base <= window + MaxBlock
  BY DEF IInv, WithinSpan
<1>3. CASE end - base <= MaxSpan
  BY <1>1, <1>3 DEF Advance
<1>4. CASE ~(end - base <= MaxSpan)
  BY <1>1, <1>2, <1>4 DEF Advance, GreaterOf
<1> QED
  BY <1>3, <1>4

(* Moving the base and the entries together keeps the equation.            *)
LEMMA RebaseKeeps == IInv /\ Rebase => IInv'
<1> SUFFICES ASSUME IInv, Rebase PROVE IInv'
  OBVIOUS
<1>1. /\ shift' = Advance /\ base' = base + shift'
      /\ table' = [s \in Slots |-> ReduceEntry(table[s], shift')]
      /\ pc = "advance" /\ pc' = "search"
      /\ UNCHANGED << window, blockSize, skips, len, start, end, plain >>
  BY DEF Rebase
<1>2. /\ shift' \in Nat /\ shift' <= MaxSpan
      /\ shift' = 0 \/ base' + window = start
      /\ end - base' <= MaxSpan \/ end - base' <= window + MaxBlock
  BY <1>1, AdvanceBounds, base \in Nat DEF IInv, TypeOK
<1>3. TypeOK'
  <2>1. \A s \in Slots : ReduceEntry(table[s], shift') \in Nat
    BY <1>2 DEF IInv, TypeOK, ReduceEntry
  <2>2. table' \in [Slots -> Nat]
    BY <1>1, <2>1
  <2> QED
    BY <1>1, <1>2, <2>2 DEF IInv, TypeOK
<1>4. EntriesMoved'
  <2> SUFFICES ASSUME NEW s \in Slots
               PROVE  table'[s] = IF plain'[s] >= base' THEN plain'[s] - base' ELSE 0
    BY DEF EntriesMoved
  <2>1. table'[s] = ReduceEntry(table[s], shift') /\ plain'[s] = plain[s]
    BY <1>1
  <2>2. table[s] = IF plain[s] >= base THEN plain[s] - base ELSE 0
    BY DEF IInv, EntriesMoved
  <2>3. plain[s] \in Nat /\ base \in Nat /\ shift' \in Nat /\ base' = base + shift'
    BY <1>1, <1>2 DEF IInv, TypeOK
  <2> QED
    BY <2>1, <2>2, <2>3 DEF ReduceEntry
<1>5. BlockShape' /\ BaseBehind' /\ WithinSpan'
  BY <1>1, <1>2 DEF IInv, TypeOK, BlockShape, BaseBehind, WithinSpan
<1> QED
  BY <1>3, <1>4, <1>5 DEF IInv

(* The next block starts where this one ends; the tables stay behind it.   *)
LEMMA NextBlockKeeps ==
  ASSUME IInv, NextBlock, pc = "search",
         table' \in [Slots -> Nat], plain' \in [Slots -> Nat], EntriesMoved'
  PROVE  IInv'
<1>1. /\ start' = end /\ end' = BlockEnd(end) /\ shift' = 0
      /\ pc' = (IF end = len THEN "done" ELSE "advance")
      /\ UNCHANGED << window, base, blockSize, skips, len >>
  BY DEF NextBlock
<1>2. /\ base \in Nat /\ start \in Nat /\ end \in Nat /\ len \in Nat
      /\ window \in Nat /\ blockSize \in Nat \ {0} /\ start < end
  BY DEF IInv, TypeOK, BlockShape
<1>3. /\ end' \in Nat /\ end' <= end + blockSize /\ end' <= len
      /\ end # len => end < end'
  BY <1>1, <1>2 DEF BlockEnd, LesserOf, IInv, BlockShape
<1>4. TypeOK'
  BY <1>1, <1>2, <1>3 DEF IInv, TypeOK
<1>5. BlockShape'
  BY <1>1, <1>2, <1>3 DEF BlockShape
<1>6. BaseBehind' /\ WithinSpan'
  BY <1>1, <1>2 DEF IInv, BaseBehind, WithinSpan
<1> QED
  BY <1>4, <1>5, <1>6 DEF IInv

(* A search stores positions at or past the base.                          *)
LEMMA SearchKeeps == IInv /\ Search => IInv'
<1> SUFFICES ASSUME IInv, Search PROVE IInv'
  OBVIOUS
<1>1. PICK stored \in SUBSET Slots, p \in start .. end - 1 :
        /\ table' = [s \in Slots |-> IF s \in stored THEN p - base ELSE table[s]]
        /\ plain' = [s \in Slots |-> IF s \in stored THEN p ELSE plain[s]]
  BY DEF Search
<1>2. pc = "search" /\ NextBlock /\ base' = base
  BY DEF Search, NextBlock
<1>3. base \in Nat /\ p \in Nat /\ base <= p
  BY DEF IInv, TypeOK, BaseBehind
<1>4. table' \in [Slots -> Nat] /\ plain' \in [Slots -> Nat]
  BY <1>1, <1>3 DEF IInv, TypeOK
<1>5. EntriesMoved'
  BY <1>1, <1>2, <1>3 DEF IInv, EntriesMoved
<1> QED
  BY <1>2, <1>4, <1>5, NextBlockKeeps

LEMMA SkipKeeps == IInv /\ Skip => IInv'
<1> SUFFICES ASSUME IInv, Skip PROVE IInv'
  OBVIOUS
<1>1. pc = "search" /\ NextBlock /\ UNCHANGED << table, plain, base >>
  BY DEF Skip, NextBlock
<1>2. table' \in [Slots -> Nat] /\ plain' \in [Slots -> Nat] /\ EntriesMoved'
  BY <1>1 DEF IInv, TypeOK, EntriesMoved
<1> QED
  BY <1>1, <1>2, NextBlockKeeps

(* The induction: everything below is read off this invariant.             *)
THEOREM Moved == Spec => []IInv
<1>1. IInv /\ [Next]_vars => IInv'
  <2> SUFFICES ASSUME IInv, [Next]_vars PROVE IInv'
    OBVIOUS
  <2>1. CASE UNCHANGED vars
    BY <2>1 DEF vars, IInv, TypeOK, EntriesMoved, BlockShape, BaseBehind, WithinSpan
  <2> QED
    BY <2>1, RebaseKeeps, SearchKeeps, SkipKeeps DEF Next
<1> QED
  BY <1>1, InitIInv, PTL DEF Spec

(* advance's result fits the table's type, and a search stores only        *)
(* positions that do: the promise of debug_assert_fits.                    *)
THEOREM SearchesFit == Spec => []PositionsFit
<1>1. IInv => PositionsFit
  BY DEF IInv, TypeOK, WithinSpan, PositionsFit, GreaterOf
<1> QED
  BY <1>1, Moved, PTL

(* Every position and entry stays a natural number.                        *)
THEOREM TypesHold == Spec => []TypeOK
<1>1. IInv => TypeOK  BY DEF IInv
<1> QED
  BY <1>1, Moved, PTL

(* Moving the base loses the finders no candidate within reach.            *)
THEOREM CandidatesKept == Spec => []NoneLost
<1>1. IInv => NoneLost
  <2> SUFFICES ASSUME IInv, pc = "search", NEW s \in Slots, NEW ip \in start .. end - 1,
                      UsableDfast(plain[s]) \/ UsableFast(ip, plain[s])
               PROVE  base + table[s] = plain[s]
    BY DEF NoneLost
  <2>1. /\ base \in Nat /\ start \in Nat /\ end \in Nat /\ window \in Nat
        /\ plain[s] \in Nat /\ ip \in Int
    BY DEF IInv, TypeOK
  <2>2. plain[s] >= base
    BY <2>1 DEF IInv, BaseBehind, UsableDfast, UsableFast
  <2> QED
    BY <2>1, <2>2 DEF IInv, EntriesMoved
<1> QED
  BY <1>1, Moved, PTL

(* And a cleared entry is accepted at the block's first position at most.  *)
THEOREM ClearedUnused == Spec => []NoneGained
<1>1. IInv => NoneGained
  <2> SUFFICES ASSUME IInv, pc = "search", NEW s \in Slots, base + table[s] # plain[s]
               PROVE  /\ table[s] = 0
                      /\ ~UsableDfast(base)
                      /\ \A ip \in start .. end - 1 :
                           UsableFast(ip, base) => ip = start /\ start - base = window
    BY DEF NoneGained
  <2>1. /\ base \in Nat /\ start \in Nat /\ end \in Nat /\ window \in Nat
        /\ plain[s] \in Nat /\ start < end
    BY DEF IInv, TypeOK, BlockShape
  <2>2. table[s] = 0 /\ plain[s] < base
    BY <2>1 DEF IInv, EntriesMoved
  <2>3. base + window <= start
    BY <2>1, <2>2 DEF IInv, BaseBehind
  <2> QED
    BY <2>1, <2>2, <2>3 DEF UsableDfast, UsableFast
<1> QED
  BY <1>1, Moved, PTL

-----------------------------------------------------------------------------
(***************************************************************************)
(* The loop with the long-distance table.                                  *)
(***************************************************************************)

(* 0 is empty there, so that an entry at the base is lost.                 *)
LongMoved ==
  /\ long \in [LongSlots -> [pos : Nat, sum : Nat]]
  /\ plainLong \in [LongSlots -> [pos : Nat, sum : Nat]]
  /\ \A s \in LongSlots :
       long[s].pos = IF plainLong[s].pos > base THEN plainLong[s].pos - base ELSE 0

LongIInv == IInv /\ LongMoved

(* reduce_positions moves an entry or empties it.                          *)
LEMMA ReducedEntry ==
  ASSUME NEW e \in [pos : Nat, sum : Nat], NEW by \in Nat
  PROVE  /\ ReduceLdm(e, by) \in [pos : Nat, sum : Nat]
         /\ ReduceLdm(e, by).pos = IF e.pos > by THEN e.pos - by ELSE 0
<1>1. CASE e.pos = 0 \/ e.pos < by
  BY <1>1 DEF ReduceLdm, NoEntry
<1>2. CASE ~(e.pos = 0 \/ e.pos < by)
  <2>1. ReduceLdm(e, by) = [pos |-> e.pos - by, sum |-> e.sum] /\ e.pos - by \in Nat
    BY <1>2 DEF ReduceLdm
  <2> QED
    BY <1>2, <2>1
<1> QED
  BY <1>1, <1>2

LEMMA LongShiftKeeps == LongIInv /\ LongShift => LongIInv'
<1> SUFFICES ASSUME LongIInv, LongShift PROVE LongIInv'
  OBVIOUS
<1>1. IInv /\ IInv'
  BY RebaseKeeps DEF LongIInv, LongShift
<1>2. shift' \in Nat /\ base \in Nat /\ base' = base + shift'
  BY <1>1 DEF IInv, TypeOK, LongShift, Rebase
<1>3. /\ long' = [s \in LongSlots |-> ReduceLdm(long[s], shift')]
      /\ plainLong' = plainLong
  BY DEF LongShift
<1>4. long' \in [LongSlots -> [pos : Nat, sum : Nat]]
  BY <1>2, <1>3, ReducedEntry DEF LongIInv, LongMoved
<1>5. ASSUME NEW s \in LongSlots
      PROVE  long'[s].pos = IF plainLong'[s].pos > base' THEN plainLong'[s].pos - base' ELSE 0
  <2>1. long[s] \in [pos : Nat, sum : Nat] /\ plainLong[s].pos \in Nat
    BY DEF LongIInv, LongMoved
  <2>2. long'[s].pos = IF long[s].pos > shift' THEN long[s].pos - shift' ELSE 0
    BY <1>2, <1>3, <2>1, ReducedEntry
  <2>3. long[s].pos = IF plainLong[s].pos > base THEN plainLong[s].pos - base ELSE 0
    BY DEF LongIInv, LongMoved
  <2> QED
    BY <1>2, <1>3, <2>1, <2>2, <2>3
<1> QED
  BY <1>1, <1>3, <1>4, <1>5 DEF LongIInv, LongMoved

LEMMA LongSearchKeeps == LongIInv /\ LongSearch => LongIInv'
<1> SUFFICES ASSUME LongIInv, LongSearch PROVE LongIInv'
  OBVIOUS
<1>1. IInv /\ IInv' /\ base' = base
  BY SearchKeeps DEF LongIInv, LongSearch, Search, NextBlock
<1>2. PICK stored \in SUBSET LongSlots, p \in start .. end - 1 :
        /\ long' = [s \in LongSlots |-> IF s \in stored THEN Entry(p - base) ELSE long[s]]
        /\ plainLong' = [s \in LongSlots |-> IF s \in stored THEN Entry(p) ELSE plainLong[s]]
  BY DEF LongSearch
<1>3. base \in Nat /\ p \in Nat /\ base <= p
  BY <1>1 DEF IInv, TypeOK, BaseBehind
<1>4. /\ Entry(p) \in [pos : Nat, sum : Nat] /\ Entry(p).pos = p
      /\ Entry(p - base) \in [pos : Nat, sum : Nat] /\ Entry(p - base).pos = p - base
  BY <1>3 DEF Entry
<1>5. LongMoved'
  <2> HIDE DEF Entry
  <2> QED
    BY <1>1, <1>2, <1>3, <1>4 DEF LongIInv, LongMoved
<1> QED
  BY <1>1, <1>5 DEF LongIInv

(* The induction for the loop with both kinds of table.                    *)
THEOREM AllMoved == LongSpec => []LongIInv
<1>1. LongInit => LongIInv
  BY InitIInv DEF LongInit, LongIInv, LongMoved, NoEntry, Init
<1>2. LongIInv /\ [LongNext]_<< vars, longVars >> => LongIInv'
  <2> SUFFICES ASSUME LongIInv, [LongNext]_<< vars, longVars >> PROVE LongIInv'
    OBVIOUS
  <2>1. CASE UNCHANGED << vars, longVars >>
    BY <2>1 DEF vars, longVars, LongIInv, LongMoved, IInv, TypeOK, EntriesMoved, BlockShape,
                BaseBehind, WithinSpan
  <2>2. CASE LongSkip
    <3>1. IInv' /\ base' = base
      BY <2>2, SkipKeeps DEF LongSkip, LongIInv, Skip, NextBlock
    <3> QED
      BY <2>2, <3>1 DEF LongSkip, longVars, LongIInv, LongMoved
  <2> QED
    BY <2>1, <2>2, LongShiftKeeps, LongSearchKeeps DEF LongNext
<1> QED
  BY <1>1, <1>2, PTL DEF LongSpec

(* compress_frame's long-distance table moves along: no long match is lost *)
(* but one a full window ahead of the block's first byte.                  *)
THEOREM LongEntriesKept == LongSpec => []LongEntriesMove
<1>1. LongIInv => LongEntriesMove
  <2> SUFFICES ASSUME LongIInv, pc = "search", NEW s \in LongSlots
               PROVE  /\ long[s].pos # 0 => base + long[s].pos = plainLong[s].pos
                      /\ long[s].pos = 0 /\ plainLong[s].pos # 0 =>
                           \A ip \in start .. end - 1 :
                             UsableFast(ip, plainLong[s].pos) =>
                               /\ ip = start /\ plainLong[s].pos = base
                               /\ start - base = window
    BY DEF LongEntriesMove
  <2>1. /\ base \in Nat /\ start \in Nat /\ end \in Nat /\ window \in Nat
        /\ plainLong[s].pos \in Nat
        /\ base = 0 \/ base + window <= start
        /\ long[s].pos = IF plainLong[s].pos > base THEN plainLong[s].pos - base ELSE 0
    BY DEF LongIInv, LongMoved, IInv, TypeOK, BaseBehind
  <2> QED
    BY <2>1 DEF UsableFast
<1> QED
  BY <1>1, AllMoved, PTL

(* That loop is Rebase's, and what holds of its other tables holds here.   *)
THEOREM LongIsRebase == LongSpec => Spec
<1>1. LongInit => Init
  BY DEF LongInit
<1>2. [LongNext]_<< vars, longVars >> => [Next]_vars
  BY DEF LongNext, LongShift, LongSearch, LongSkip, Next, longVars
<1> QED
  BY <1>1, <1>2, PTL DEF LongSpec, Spec
=============================================================================
