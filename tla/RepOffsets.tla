------------------------------ MODULE RepOffsets ------------------------------
(***************************************************************************)
(* Repeat-offset codes, both directions.                                   *)
(*                                                                         *)
(* A match offset travels as an "offset value": 1..3 name one of the three *)
(* most recent offsets, larger values carry the offset itself plus 3.  The *)
(* encoder's pack_sequences_and_literals picks the value and updates its   *)
(* history with selects; the decoder's compute_offset (and the copy of it  *)
(* inside SeqDecoder::decode) turns the value back with a different case   *)
(* split.  The two must agree for every history, for every offset, and for *)
(* sequences with and without literals.                                    *)
(*                                                                         *)
(* A history is a triple <<rep0, rep1, rep2>>.  Word is 2^32 in the code;  *)
(* the runs use a small Word so that the wrapping edge is inside the model.*)
(***************************************************************************)
EXTENDS Naturals

CONSTANT Word               \* 2^w for the w-bit unsigned integers of the code

ASSUME WordAssumption == Word \in Nat /\ Word > 4

(* Offsets a match finder can return: offset + 3 still fits a word.        *)
Offset == 1 .. (Word - 4)

(* Histories.  Dictionary::from_bytes only requires its three offsets to   *)
(* be non-zero words.                                                      *)
Rep     == 1 .. (Word - 1)
History == Rep \X Rep \X Rep

(* u32::wrapping_sub(1).                                                   *)
WrappingPred(x) == IF x = 0 THEN Word - 1 ELSE x - 1

-----------------------------------------------------------------------------
(* A plausible slip: the no-literals shift is forgotten.                   *)
CandidatesUnshifted(rep, noLits) == <<rep[1], rep[2], rep[3]>>

(* Encoder: what codes 1, 2 and 3 stand for.                               *)
Candidates(rep, noLits) ==
  IF noLits THEN <<rep[2], rep[3], rep[1] - 1>> ELSE <<rep[1], rep[2], rep[3]>>

(* A plausible slip: the bias is one too many.                             *)
OffsetValueBiased(rep, off, noLits) ==
  LET c == Candidates(rep, noLits) IN
    IF off = c[1] THEN 1
    ELSE IF off = c[2] THEN 2
    ELSE IF off = c[3] THEN 3
    ELSE off + 4

(* The offset value sent for `off`; the lowest matching code wins.         *)
OffsetValue(rep, off, noLits) ==
  LET c == Candidates(rep, noLits) IN
    IF off = c[1] THEN 1
    ELSE IF off = c[2] THEN 2
    ELSE IF off = c[3] THEN 3
    ELSE off + 3

(* Encoder: the history after sending `off`.  Code 1 with literals keeps   *)
(* it, the code naming the second offset swaps the first two, every other  *)
(* code shifts `off` in.                                                   *)
PackedHistory(rep, off, noLits) ==
  LET ov   == OffsetValue(rep, off, noLits)
      keep == ~noLits /\ ov = 1
      swap == ov = (IF noLits THEN 1 ELSE 2)
  IN  << off,
         IF keep THEN rep[2] ELSE rep[1],
         IF keep \/ swap THEN rep[3] ELSE rep[2] >>

-----------------------------------------------------------------------------
(* Decoder: which history slot an offset value of at most 3 names; 3 means *)
(* the first offset minus one.                                             *)
RepIndex(ov, noLits) == (ov - 1) + (IF noLits THEN 1 ELSE 0)

(* Decoder: the offset an offset value stands for.                         *)
ComputeOffset(rep, ov, noLits) ==
  IF ov > 3 THEN ov - 3
  ELSE LET i == RepIndex(ov, noLits) IN
         IF i < 3 THEN rep[i + 1] ELSE WrappingPred(rep[1])

(* Decoder: the history after decoding `ov`.                               *)
ComputedHistory(rep, ov, noLits) ==
  IF ov > 3 THEN << ov - 3, rep[1], rep[2] >>
  ELSE LET i == RepIndex(ov, noLits) IN
         << ComputeOffset(rep, ov, noLits),
            IF i >= 1 THEN rep[1] ELSE rep[2],
            IF i >= 2 THEN rep[2] ELSE rep[3] >>
=============================================================================
