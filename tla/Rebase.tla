-------------------------------- MODULE Rebase --------------------------------
(***************************************************************************)
(* PositionBase: how the one-shot encoders keep 32-bit table positions in  *)
(* range on longer inputs (rebase.rs).                                     *)
(*                                                                         *)
(* The block loops of compress_frame, compress_with_dict and compress_core *)
(* search the whole input.  Table entries count from a base; before every  *)
(* block advance may move the base up to one window behind the block, and  *)
(* the caller moves the entries down with it.  The module runs the tables  *)
(* beside ones that never move (history variable `plain`), which is what   *)
(* the finders should see.                                                 *)
(***************************************************************************)
EXTENDS Integers

CONSTANTS
  MaxSpan,     \* MAX_SPAN, the largest table position
  MaxBlock,    \* MAX_BLOCK_SIZE
  Windows,     \* 1 << window_log
  Prefixes,    \* lengths of dictionary content; 0 is no dictionary
  Slots,       \* the slots of the match finder's tables
  MaxInput     \* bound on the input, prefix included

ASSUME ConstantsAssumption ==
  /\ MaxSpan \in Nat /\ MaxBlock \in Nat \ {0} /\ MaxBlock <= MaxSpan
  /\ Windows \subseteq Nat \ {0}
  /\ Prefixes \subseteq 0 .. MaxSpan
  /\ MaxInput \in Nat

VARIABLES
  window,      \* PositionBase.window
  base,        \* PositionBase.base
  blockSize,   \* of all blocks but the last
  skips,       \* whether the loop skips searches (not with a dictionary)
  len,         \* length of prefix and input
  start, end,  \* the block
  shift,       \* what advance returned, 0 for None
  table,       \* table entries; 0 is also an empty one
  plain,       \* history: the entries without rebasing
  pc           \* "advance", "search", "done"

vars == << window, base, blockSize, skips, len, start, end, shift, table, plain, pc >>

LesserOf(a, b) == IF a < b THEN a ELSE b
GreaterOf(a, b) == IF a > b THEN a ELSE b
BlockEnd(at) == LesserOf(at + blockSize, len)

(* advance.  (A plausible slip: the window is kept behind the end.)        *)
AdvanceFromEnd ==
  IF end - base <= MaxSpan THEN 0 ELSE GreaterOf(end - base - window, 0)
Advance ==
  IF end - base <= MaxSpan THEN 0 ELSE GreaterOf(start - base - window, 0)

(* reduce_hash_table, one entry.  (Plausible slips: entries that fall off  *)
(* keep their value, or wrap.)                                             *)
ReduceEntryKept(e, by) == IF e < by THEN e ELSE e - by
ReduceEntryWrapped(e, by) == e - by
ReduceEntry(e, by) == IF e < by THEN 0 ELSE e - by

Rebase ==
  /\ pc = "advance"
  /\ shift' = Advance
  /\ base' = base + shift'
  /\ table' = [s \in Slots |-> ReduceEntry(table[s], shift')]
  /\ pc' = "search"
  /\ UNCHANGED << window, blockSize, skips, len, start, end, plain >>

NextBlock ==
  /\ start' = end
  /\ end' = BlockEnd(end)
  /\ shift' = 0
  /\ pc' = IF end = len THEN "done" ELSE "advance"
  /\ UNCHANGED << window, base, blockSize, skips, len >>

(* A search leaves some of the block's positions in some slots.            *)
Search ==
  /\ pc = "search"
  /\ \E stored \in SUBSET Slots, p \in start .. end - 1 :
       /\ table' = [s \in Slots |-> IF s \in stored THEN p - base ELSE table[s]]
       /\ plain' = [s \in Slots |-> IF s \in stored THEN p ELSE plain[s]]
  /\ NextBlock

(* skip_match_search: the block is stored raw, after advance all the same. *)
(* (A plausible slip: it is not called for those.)                         *)
SkipUnadvanced ==
  /\ pc = "advance"
  /\ skips
  /\ UNCHANGED << table, plain >>
  /\ NextBlock
Skip ==
  /\ pc = "search"
  /\ skips
  /\ UNCHANGED << table, plain >>
  /\ NextBlock

(* Prefilled with some positions of the prefix, or cleared.                *)
Init ==
  /\ window \in Windows
  /\ base = 0
  /\ blockSize \in {MaxBlock, LesserOf(MaxBlock, window)}
  /\ start \in Prefixes
  /\ skips = (start = 0)
  /\ len \in start + 1 .. MaxInput
  /\ end = BlockEnd(start)
  /\ shift = 0
  /\ table \in [Slots -> 0 .. GreaterOf(start - 1, 0)]
  /\ plain = table
  /\ pc = "advance"

Next == Rebase \/ Search \/ Skip \/ (pc = "done" /\ UNCHANGED vars)

Spec == Init /\ [][Next]_vars

-----------------------------------------------------------------------------
(* Properties.                                                             *)

TypeOK ==
  /\ window \in Windows
  /\ base \in Nat /\ start \in Nat /\ end \in Nat /\ len \in Nat /\ shift \in Nat
  /\ blockSize \in 1 .. MaxBlock
  /\ skips \in BOOLEAN
  /\ table \in [Slots -> Nat]
  /\ plain \in [Slots -> Nat]
  /\ pc \in {"advance", "search", "done"}

(* "so the shift always fits a `u32`", and debug_assert_fits: a search     *)
(* stores only positions that the tables can hold.                         *)
PositionsFit ==
  /\ shift <= MaxSpan
  /\ pc = "search" =>
       end - base <= GreaterOf(MaxSpan, 2 * window + MaxBlock)

(* What the finders accept of an entry: dfast one not before the window of *)
(* the block's end, fast one at most a window before the cursor.           *)
UsableDfast(p) == p >= end - window
UsableFast(ip, p) == ip - p >= 1 /\ ip - p <= window

(* No candidate is lost: an entry within reach anywhere in the block is    *)
(* still there, at its moved position.                                     *)
NoneLost ==
  pc = "search" =>
    \A s \in Slots : \A ip \in start .. end - 1 :
      UsableDfast(plain[s]) \/ UsableFast(ip, plain[s]) => base + table[s] = plain[s]

(* None is gained: a cleared entry reads as the base, which dfast never    *)
(* accepts; fast does at one cursor only, the block's first, a full window *)
(* ahead.                                                                  *)
NoneGained ==
  pc = "search" =>
    \A s \in Slots : base + table[s] # plain[s] =>
      /\ table[s] = 0
      /\ ~UsableDfast(base)
      /\ \A ip \in start .. end - 1 :
           UsableFast(ip, base) => ip = start /\ start - base = window
=============================================================================
