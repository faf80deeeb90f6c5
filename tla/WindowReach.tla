---------------------------- MODULE WindowReach -----------------------------
(***************************************************************************)
(* What an encoder's match finder refers to, and what the decoder still    *)
(* has.                                                                    *)
(*                                                                         *)
(* A finder takes matches from its tables, which it limits to the window,  *)
(* and at the two most recent offsets, which it limits to its input only.  *)
(* Both sides drop old bytes, the encoder by the length of its buffer, the *)
(* decoder by the length of the frame.  A match must reach nothing that    *)
(* the decoder no longer shows.  One frame, whose blocks are searched,     *)
(* packed, and decoded by a FrameDecoder in turn.                          *)
(***************************************************************************)
EXTENDS SlidingWindow, RepOffsets

CONSTANTS
  Windows,         \* 1 << window_log
  MaxBlock,        \* MAX_BLOCK_SIZE
  MaxWindow,       \* MAX_WINDOW_SIZE, the longest single segment
  DictLens,        \* lengths of dictionary content; 0 is no dictionary
  PlainHistory,    \* <<1, 4, 8>> in the code
  DictHistories,   \* repeat offsets of dictionaries
  MaxFrame         \* bound on the frame's content

ASSUME ConstantsAssumption ==
  /\ Windows \subseteq Nat \ {0} /\ \A w \in Windows : w < Word - 3
  /\ MaxBlock \in Nat \ {0} /\ MaxWindow \in Nat
  /\ DictLens \subseteq Nat
  /\ PlainHistory \in History
  /\ DictHistories \subseteq History
  /\ MaxFrame \in Nat \ {0}

VARIABLES
  streaming,   \* a FrameEncoder, or one of the calls that see the whole input
  window,      \* the encoder's window
  declared,    \* the window the frame header declares
  total,       \* length of the frame's content
  started,     \* the offsets the frame started with, a dictionary's if it has one
  buf,         \* encoder: bytes before the block
  reps,        \* encoder: rep_offsets
  phase,       \* "between", "search", "sent", "done" or "rejected"
  block,       \* length of the block
  anchor,      \* search: the end of the last match in it
  rep0, rep1,  \* search: the finder's own recent offsets
  packed,      \* rep_offsets once the sequences found are packed
  found,       \* the block's matches: where they start in it, their offset
  done,        \* decoder: frame_bytes
  history      \* decoder: decode_history.len()

encoderVars == << streaming, window, declared, total, started >>
searchVars  == << block, anchor, rep0, rep1, packed, found >>
decoderVars == << done, history >>
vars == << encoderVars, buf, reps, phase, searchVars, decoderVars >>

Phases == {"between", "search", "sent", "done", "rejected"}
Match == [at : Nat, off : Rep]

LesserOf(a, b) == IF a < b THEN a ELSE b

-----------------------------------------------------------------------------
(* The search.                                                             *)

(* The next block.  FrameEncoder cuts blocks no longer than the window; a  *)
(* flush may cut any shorter one.  The calls cut full ones and a rest; they *)
(* keep to the declared window too, except with a dictionary.              *)
(* (A plausible slip: the rest is taken for a full block.)                 *)
FullBlocks == {MaxBlock, LesserOf(MaxBlock, declared)}
BlockLengthsFull ==
  IF streaming THEN 1 .. LesserOf(LesserOf(MaxBlock, window), total - done) ELSE FullBlocks
BlockLengths ==
  IF streaming THEN 1 .. LesserOf(LesserOf(MaxBlock, window), total - done)
               ELSE {LesserOf(n, total - done) : n \in FullBlocks}

StartBlock(n) ==
  /\ phase = "between"
  /\ done < total
  /\ block' = n
  /\ anchor' = 0
  /\ rep0' = reps[1] /\ rep1' = reps[2]
  /\ packed' = reps
  /\ found' = {}
  /\ phase' = "search"
  /\ UNCHANGED << encoderVars, buf, reps, decoderVars >>

(* A match at `at` with its length; the packer sees whether literals       *)
(* stand before it.                                                        *)
Found(at, off, len) ==
  /\ phase = "search"
  /\ at + len <= block
  /\ anchor' = at + len
  /\ packed' = PackedHistory(packed, off, at = anchor)
  /\ found' = found \cup {[at |-> at, off |-> off]}
  /\ UNCHANGED << encoderVars, buf, reps, phase, block, decoderVars >>

(* A table's candidate: a position of the input at most a window back.     *)
(* (dfast keeps to the window of the block's end, which is less.)          *)
(* (A plausible slip: any position of the input will do.)                  *)
CandidateAnywhere(at, off) == off <= buf + at
Candidate(at, off) == off <= buf + at /\ off <= window

TableMatch(at, off, len) ==
  /\ Candidate(at, off)
  /\ Found(at, off, len)
  /\ rep1' = rep0 /\ rep0' = off

(* The most recent offset, tried ahead of the cursor, if it stays in the   *)
(* input.                                                                  *)
RepMatch(at, len) ==
  /\ at > anchor
  /\ buf + at >= rep0
  /\ Found(at, rep0, len)
  /\ UNCHANGED << rep0, rep1 >>

(* The other one, right behind a match.                                    *)
SwapMatch(len) ==
  /\ anchor > 0
  /\ buf + anchor >= rep1
  /\ Found(anchor, rep1, len)
  /\ rep0' = rep1 /\ rep1' = rep0

-----------------------------------------------------------------------------
(* The block is sent.                                                      *)

(* What the encoder keeps in front of the next block.                      *)
BufferAfter == IF streaming THEN buf + block - CompactionShift(buf + block, window)
                            ELSE buf + block

(* Compressed, with the offsets packed; or raw, with those of before.      *)
SendBlock ==
  /\ phase = "search"
  /\ \/ reps' = packed /\ found' = found
     \/ reps' = reps /\ found' = {}
  /\ buf' = BufferAfter
  /\ phase' = "sent"
  /\ UNCHANGED << encoderVars, block, anchor, rep0, rep1, packed, decoderVars >>

(* copy_match_from_history: an offset may reach what the block has         *)
(* produced and what the decoder shows of the past.                        *)
Shown == history - ShownFrom(history, done, declared)
Reachable(m) == m.off <= Shown + m.at

HistoryAfter == Kept(history + block, done + block, declared)

DecodeBlock ==
  /\ phase = "sent"
  /\ IF \A m \in found : Reachable(m)
     THEN /\ history' = HistoryAfter
          /\ done' = done + block
          /\ phase' = IF done' = total THEN "done" ELSE "between"
     ELSE /\ phase' = "rejected"
          /\ UNCHANGED decoderVars
  /\ UNCHANGED << encoderVars, buf, reps, searchVars >>

-----------------------------------------------------------------------------
(* FrameEncoder and frames with a dictionary declare the window; other     *)
(* calls declare the content as a single segment, if it is not too long.   *)
Init ==
  /\ streaming \in BOOLEAN
  /\ window \in Windows
  /\ total \in 1 .. MaxFrame
  /\ buf \in DictLens
  /\ declared = IF streaming \/ buf > 0 \/ total > MaxWindow THEN window ELSE total
  /\ reps \in IF buf > 0 THEN DictHistories ELSE {PlainHistory}
  /\ started = reps
  /\ phase = "between"
  /\ block = 0 /\ anchor = 0 /\ rep0 = reps[1] /\ rep1 = reps[2]
  /\ packed = reps /\ found = {}
  /\ done = 0
  /\ history = buf

Next ==
  \/ \E n \in BlockLengths : StartBlock(n)
  \/ \E len \in 1 .. block :
       \/ \E at \in anchor .. block - 1 :
            \/ \E off \in 1 .. buf + at : TableMatch(at, off, len)
            \/ RepMatch(at, len)
       \/ SwapMatch(len)
  \/ SendBlock
  \/ DecodeBlock
  \/ phase \in {"done", "rejected"} /\ UNCHANGED vars

Spec == Init /\ [][Next]_vars

-----------------------------------------------------------------------------
(* Properties.                                                             *)

TypeOK ==
  /\ streaming \in BOOLEAN
  /\ window \in Windows
  /\ declared \in Nat \ {0} /\ total \in Nat \ {0}
  /\ buf \in Nat
  /\ started \in History /\ reps \in History /\ packed \in History
  /\ phase \in Phases
  /\ block \in Nat /\ anchor \in 0 .. block
  /\ rep0 \in Rep /\ rep1 \in Rep
  /\ found \subseteq Match
  /\ done \in 0 .. total
  /\ history \in Nat

(* The offsets a search may try without having found them: nothing compares *)
(* a dictionary's with the window.                                         *)
Brought == {started[1], started[2]}

(* The streaming decoder has every byte a match refers to, whichever       *)
(* encoder wrote the frame and wherever its blocks end.  It refuses no     *)
(* block but one with an offset that the dictionary brought and that is    *)
(* larger than the window.                                                 *)
OffsetsReach ==
  phase \in {"sent", "rejected"} =>
    \A m \in found : Reachable(m) \/ (m.off \in Brought /\ m.off > declared)

(* README.md: "window_log controls the maximum match distance".  Only a    *)
(* dictionary may be farther away, while the frame is shorter than that,   *)
(* and after that only a match at an offset the dictionary brought.        *)
DistanceWithinWindow ==
  phase \in {"search", "sent", "rejected"} =>
    \A m \in found : done + m.at >= declared => m.off <= declared \/ m.off \in Brought
=============================================================================
