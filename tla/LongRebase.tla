----------------------------- MODULE LongRebase -----------------------------
(***************************************************************************)
(* The same block loop when compress_frame also matches at long distances: *)
(* a third table, whose entries advance moves with the others.  An entry   *)
(* at position 0 is an empty one there, so a cleared entry never reads as  *)
(* the base.                                                               *)
(***************************************************************************)
EXTENDS Rebase, LongTable

CONSTANT LongSlots      \* entries of the long-distance table

VARIABLES
  long,        \* LdmState.table
  plainLong    \* history: its entries without rebasing

longVars == << long, plainLong >>

Entry(p) == [pos |-> p, sum |-> 0]

LongInit ==
  /\ Init
  /\ long = [s \in LongSlots |-> NoEntry]
  /\ plainLong = long

LongShift ==
  /\ Rebase
  /\ long' = [s \in LongSlots |-> ReduceLdm(long[s], shift')]
  /\ UNCHANGED plainLong

(* Of the loops over a PositionBase only compress_frame, which has no      *)
(* dictionary, has the table (FrameEncoder's is in StreamEncoder).  (The   *)
(* last minMatch - 1 bytes of a block start no entry; that they may here   *)
(* only adds behaviours.)                                                  *)
LongSearch ==
  /\ Search
  /\ \E stored \in SUBSET (IF skips THEN LongSlots ELSE {}), p \in start .. end - 1 :
       /\ long' = [s \in LongSlots |-> IF s \in stored THEN Entry(p - base) ELSE long[s]]
       /\ plainLong' = [s \in LongSlots |-> IF s \in stored THEN Entry(p) ELSE plainLong[s]]

LongSkip == Skip /\ UNCHANGED longVars

LongNext ==
  LongShift \/ LongSearch \/ LongSkip \/ (pc = "done" /\ UNCHANGED << vars, longVars >>)

LongSpec == LongInit /\ [][LongNext]_<< vars, longVars >>

-----------------------------------------------------------------------------
(* Where a block is searched, an entry of the long table is the position   *)
(* it was stored with, or empty; and none that a match of this block could *)
(* use is emptied, but for one a full window before the block's start.     *)
LongEntriesMove ==
  pc = "search" =>
    \A s \in LongSlots :
      /\ long[s].pos # 0 => base + long[s].pos = plainLong[s].pos
      /\ long[s].pos = 0 /\ plainLong[s].pos # 0 =>
           \A ip \in start .. end - 1 :
             UsableFast(ip, plainLong[s].pos) =>
               ip = start /\ plainLong[s].pos = base /\ start - base = window
=============================================================================
