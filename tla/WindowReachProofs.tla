-------------------------- MODULE WindowReachProofs --------------------------
(***************************************************************************)
(* No match reaches what the decoder has dropped, for every window, block  *)
(* size, dictionary and frame, but one at an offset that the dictionary    *)
(* brought and that is larger than the window.                             *)
(*                                                                         *)
(* Two facts carry the argument.  An offset that the finder or the packer  *)
(* keeps in its first two places is one that the frame started with or     *)
(* lies within the window (NearInv), and while the frame is shorter than   *)
(* that the decoder has at least what the encoder has in front of the      *)
(* block (CoverInv).                                                       *)
(***************************************************************************)
EXTENDS WindowReach, TLAPS

(* What a finder may use as an offset.                                     *)
Near(off) == off <= window \/ off \in Brought

NearInv ==
  /\ Near(reps[1]) /\ Near(reps[2])
  /\ Near(packed[1]) /\ Near(packed[2])
  /\ Near(rep0) /\ Near(rep1)
  /\ \A m \in found : Near(m.off)

(* A block in progress lies in the frame, and its matches in the block.    *)
BlockInv ==
  /\ declared = window \/ declared = total
  /\ phase \in {"search", "sent", "rejected"} => block \in 1 .. total - done
  /\ \A m \in found : m.at < block

(* Bytes in front of the block, before it is appended.                     *)
Front == IF phase \in {"sent", "rejected"} THEN buf - block ELSE buf

CoverInv ==
  /\ done < declared => Front <= history /\ done <= history
  /\ done >= declared => history >= declared
  /\ phase \in {"search", "sent", "rejected"} /\ done < declared =>
       \A m \in found : m.off <= history + m.at

IInv == TypeOK /\ NearInv /\ BlockInv /\ CoverInv

-----------------------------------------------------------------------------
(* A history written as its three components.                              *)
LEMMA HistoryParts ==
  ASSUME NEW rep \in History
  PROVE  /\ rep[1] \in Rep /\ rep[2] \in Rep /\ rep[3] \in Rep
         /\ rep = <<rep[1], rep[2], rep[3]>>
  BY DEF History

(* The encoder's history stays a history, whichever offset it packs.       *)
LEMMA PackedHistoryType ==
  ASSUME NEW rep \in History, NEW off \in Rep, NEW noLits \in BOOLEAN
  PROVE  PackedHistory(rep, off, noLits) \in History
  BY HistoryParts DEF PackedHistory, History

LEMMA WindowType ==
  ASSUME TypeOK
  PROVE  /\ window \in Nat /\ window > 0 /\ window < Word - 3 /\ Word \in Nat
         /\ \A x \in Rep : x \in Nat /\ x > 0
  BY ConstantsAssumption, WordAssumption DEF TypeOK, Rep

(***************************************************************************)
(* Types, whatever offsets a frame starts with.                            *)
(***************************************************************************)

(* A block in progress lies in the frame.                                  *)
TypeInv == TypeOK /\ (phase \in {"search", "sent"} => block \in 1 .. total - done)

LEMMA InitType == Init => TypeInv
<1> SUFFICES ASSUME Init PROVE TypeInv
  OBVIOUS
<1>1. window \in Windows /\ window \in Nat /\ window > 0
  BY ConstantsAssumption DEF Init
<1>2. reps \in History /\ total \in Nat /\ total > 0 /\ buf \in Nat
  BY ConstantsAssumption DEF Init
<1>3. reps[1] \in Rep /\ reps[2] \in Rep
  BY <1>2, HistoryParts
<1> QED
  BY <1>1, <1>2, <1>3 DEF Init, TypeInv, TypeOK, Phases

(* Every block has a length, and no more than is left of the frame.        *)
LEMMA BlockFits ==
  ASSUME TypeOK, done < total, NEW n \in BlockLengths
  PROVE  n \in 1 .. total - done
<1>1. total \in Nat /\ done \in Nat /\ window \in Nat /\ window > 0
  BY WindowType DEF TypeOK
<1>2. declared \in Nat /\ declared > 0 /\ MaxBlock \in Nat /\ MaxBlock > 0
  BY ConstantsAssumption DEF TypeOK
<1>3. \A f \in FullBlocks : f \in Nat /\ f > 0
  BY <1>2 DEF FullBlocks, LesserOf
<1>4. CASE streaming
  BY <1>1, <1>2, <1>4 DEF BlockLengths, LesserOf
<1>5. CASE ~streaming
  <2>1. PICK f \in FullBlocks : n = LesserOf(f, total - done)
    BY <1>5 DEF BlockLengths
  <2> QED
    BY <1>1, <1>3, <2>1 DEF LesserOf
<1> QED
  BY <1>4, <1>5

LEMMA StartBlockType ==
  ASSUME TypeInv, NEW n \in BlockLengths, StartBlock(n)
  PROVE  TypeInv'
<1>1. TypeOK /\ done < total /\ n \in 1 .. total - done
  BY BlockFits DEF TypeInv, StartBlock
<1>2. rep0' \in Rep /\ rep1' \in Rep
  BY <1>1, HistoryParts DEF StartBlock, TypeOK
<1> QED
  BY <1>1, <1>2 DEF StartBlock, TypeInv, TypeOK, Phases, encoderVars, decoderVars

LEMMA FoundType ==
  ASSUME TypeInv, NEW at \in anchor .. block, NEW len \in 1 .. block, NEW off \in Rep,
         Found(at, off, len), rep0' \in Rep, rep1' \in Rep
  PROVE  TypeInv'
<1>1. at \in Nat /\ at + len <= block /\ (at = anchor) \in BOOLEAN
  BY DEF Found, TypeInv, TypeOK
<1>2. packed' \in History
  BY <1>1, PackedHistoryType DEF Found, TypeInv, TypeOK
<1>3. anchor' \in 0 .. block /\ block' = block
  BY <1>1 DEF Found
<1>4. found' \subseteq Match
  BY <1>1 DEF Found, Match, TypeInv, TypeOK
<1> QED
  BY <1>2, <1>3, <1>4 DEF Found, TypeInv, TypeOK, encoderVars, decoderVars

LEMMA NextType ==
  ASSUME TypeInv, [Next]_vars
  PROVE  TypeInv'
<1> USE DEF TypeInv
<1>1. CASE UNCHANGED vars
  BY <1>1 DEF vars, encoderVars, searchVars, decoderVars, TypeOK
<1>2. CASE \E n \in BlockLengths : StartBlock(n)
  BY <1>2, StartBlockType
<1>3. ASSUME NEW len \in 1 .. block, NEW at \in anchor .. block - 1,
             NEW off \in 1 .. buf + at, TableMatch(at, off, len)
      PROVE  TypeInv'
  <2>1. at \in anchor .. block /\ off \in Rep
    BY <1>3, WindowType DEF TableMatch, Candidate, TypeOK, Rep
  <2> QED
    BY <1>3, <2>1, FoundType DEF TableMatch, TypeOK
<1>4. ASSUME NEW len \in 1 .. block, NEW at \in anchor .. block - 1, RepMatch(at, len)
      PROVE  TypeInv'
  <2>1. at \in anchor .. block
    BY DEF TypeOK
  <2> QED
    BY <1>4, <2>1, FoundType DEF RepMatch, TypeOK
<1>5. ASSUME NEW len \in 1 .. block, SwapMatch(len)
      PROVE  TypeInv'
  <2>1. anchor \in anchor .. block
    BY DEF TypeOK
  <2> QED
    BY <1>5, <2>1, FoundType DEF SwapMatch, TypeOK
<1>6. CASE SendBlock
  <2>1. buf' \in Nat
    BY <1>6, WindowType DEF SendBlock, BufferAfter, CompactionShift, TypeOK
  <2>2. reps' \in History /\ found' \subseteq Match /\ phase' = "sent"
    BY <1>6 DEF SendBlock, TypeOK
  <2> QED
    BY <1>6, <2>1, <2>2 DEF SendBlock, TypeOK, Phases, encoderVars, decoderVars
<1>7. CASE DecodeBlock
  <2>1. /\ phase = "sent" /\ block \in 1 .. total - done
        /\ UNCHANGED << encoderVars, buf, reps, searchVars >>
    BY <1>7 DEF DecodeBlock
  <2>2. CASE /\ history' = HistoryAfter /\ done' = done + block
             /\ phase' \in {"done", "between"}
    <3>1. history' \in Nat
      BY <2>1, <2>2 DEF HistoryAfter, Kept, TypeOK
    <3>2. done' \in 0 .. total
      BY <2>1, <2>2 DEF TypeOK
    <3> QED
      BY <2>1, <2>2, <3>1, <3>2 DEF TypeOK, Phases, encoderVars, searchVars
  <2>3. CASE phase' = "rejected" /\ UNCHANGED decoderVars
    BY <2>1, <2>3 DEF TypeOK, Phases, encoderVars, searchVars, decoderVars
  <2> QED
    BY <1>7, <2>2, <2>3 DEF DecodeBlock
<1> QED
  BY <1>1, <1>2, <1>3, <1>4, <1>5, <1>6, <1>7 DEF Next

(* Offsets stay words that are not zero, and the frame's bytes are decoded *)
(* once, also when a frame starts with offsets that reach nothing.         *)
THEOREM TypesHold == Spec => []TypeOK
<1>1. TypeInv => TypeOK
  BY DEF TypeInv
<1> QED
  BY <1>1, InitType, NextType, PTL DEF Spec

(***************************************************************************)
(* The reach of matches.                                                   *)
(***************************************************************************)
LEMMA InitIInv == Init => IInv
<1> SUFFICES ASSUME Init PROVE IInv
  OBVIOUS
<1>1. window \in Windows /\ window \in Nat /\ window > 0
  BY ConstantsAssumption DEF Init
<1>2. total \in Nat /\ total > 0 /\ buf \in Nat
  BY ConstantsAssumption DEF Init
<1>3. TypeOK
  BY InitType DEF TypeInv
<1>4. NearInv
  BY DEF Init, NearInv, Near, Brought
<1>5. BlockInv /\ CoverInv
  BY <1>1, <1>2 DEF Init, BlockInv, CoverInv, Front
<1> QED
  BY <1>3, <1>4, <1>5 DEF IInv

LEMMA StartBlockIInv ==
  ASSUME IInv, NEW n \in BlockLengths, StartBlock(n)
  PROVE  IInv'
<1> USE DEF IInv
<1>1. total \in Nat /\ done \in Nat /\ done < total /\ window \in Nat /\ window > 0
  BY WindowType DEF TypeOK, StartBlock
<1>2. n \in 1 .. total - done
  BY <1>1, BlockFits
<1>3. rep0' \in Rep /\ rep1' \in Rep
  BY HistoryParts DEF StartBlock, TypeOK
<1>4. /\ block' = n /\ anchor' = 0 /\ packed' = reps /\ found' = {}
      /\ rep0' = reps[1] /\ rep1' = reps[2]
      /\ phase = "between" /\ phase' = "search"
      /\ streaming' = streaming /\ window' = window /\ declared' = declared /\ total' = total
      /\ started' = started
      /\ buf' = buf /\ reps' = reps /\ done' = done /\ history' = history
  BY DEF StartBlock, encoderVars, decoderVars
<1>5. TypeOK'
  BY <1>1, <1>2, <1>3, <1>4 DEF TypeOK, Phases
<1>6. NearInv'
  BY <1>4 DEF NearInv, Near, Brought
<1>7. BlockInv'
  BY <1>2, <1>4 DEF BlockInv
<1>8. CoverInv'
  BY <1>4 DEF CoverInv, Front
<1> QED
  BY <1>4, <1>5, <1>6, <1>7, <1>8

(* Any near match within the input keeps the invariant.                    *)
LEMMA FoundIInv ==
  ASSUME IInv, NEW at \in anchor .. block - 1, NEW len \in 1 .. block, NEW off \in Rep,
         Near(off), off <= buf + at, Found(at, off, len),
         rep0' \in Rep, rep1' \in Rep, Near(rep0'), Near(rep1')
  PROVE  IInv'
<1> USE DEF IInv
<1>1. /\ at \in Nat /\ block \in Nat /\ at + len <= block /\ at < block
      /\ phase = "search" /\ (at = anchor) \in BOOLEAN
  BY DEF Found, TypeOK
<1>2. UNCHANGED << encoderVars, buf, reps, phase, block, decoderVars >>
  BY DEF Found
<1>3. packed' = PackedHistory(packed, off, at = anchor)
  BY DEF Found
<1>4. packed' \in History
  BY <1>1, <1>3, PackedHistoryType DEF TypeOK
<1>5. Near(packed'[1]) /\ Near(packed'[2])
  BY <1>3 DEF PackedHistory, NearInv
<1>6. found' = found \cup {[at |-> at, off |-> off]} /\ anchor' = at + len
  BY DEF Found
<1>7. TypeOK'
  BY <1>1, <1>2, <1>4, <1>6 DEF TypeOK, Match, encoderVars, decoderVars
<1>8. NearInv'
  <2>1. window' = window /\ started' = started /\ reps' = reps
    BY <1>2 DEF encoderVars
  <2>2. \A m \in found' : Near(m.off)
    BY <1>6 DEF NearInv
  <2> QED
    BY <1>5, <2>1, <2>2 DEF NearInv, Near, Brought
<1>9. BlockInv'
  BY <1>1, <1>2, <1>6 DEF BlockInv, encoderVars, decoderVars
<1>10. CoverInv'
  <2>1. done < declared => off <= history + at
    <3>1. done < declared => buf <= history
      BY <1>1 DEF CoverInv, Front
    <3> QED
      BY <1>1, <3>1 DEF TypeOK, Rep
  <2>2. done < declared => \A m \in found' : m.off <= history + m.at
    BY <1>1, <1>6, <2>1 DEF CoverInv
  <2>3. /\ phase = "search" /\ phase' = "search"
        /\ declared' = declared /\ buf' = buf /\ done' = done /\ history' = history
    BY <1>1, <1>2 DEF encoderVars, decoderVars
  <2> QED
    BY <2>2, <2>3 DEF CoverInv, Front
<1> QED
  BY <1>2, <1>7, <1>8, <1>9, <1>10

(* The three ways a finder takes a match.                                  *)
LEMMA MatchIInv ==
  ASSUME IInv, NEW len \in 1 .. block,
         \/ \E at \in anchor .. block - 1 :
              \/ \E off \in 1 .. buf + at : TableMatch(at, off, len)
              \/ RepMatch(at, len)
         \/ SwapMatch(len)
  PROVE  IInv'
<1>1. ASSUME NEW at \in anchor .. block - 1, NEW off \in 1 .. buf + at,
             TableMatch(at, off, len)
      PROVE  IInv'
  <2>1. at \in Nat /\ buf \in Nat /\ Near(off) /\ off <= buf + at /\ off \in Rep
    BY <1>1, WindowType DEF IInv, TypeOK, TableMatch, Candidate, Rep, Near
  <2>2. rep0' = off /\ rep1' = rep0 /\ Found(at, off, len)
    BY <1>1 DEF TableMatch
  <2>3. rep0 \in Rep /\ Near(rep0)
    BY DEF IInv, TypeOK, NearInv
  <2> QED
    BY <2>1, <2>2, <2>3, FoundIInv
<1>2. ASSUME NEW at \in anchor .. block - 1, RepMatch(at, len)
      PROVE  IInv'
  <2>1. /\ rep0' = rep0 /\ rep1' = rep1 /\ Found(at, rep0, len)
        /\ rep0 <= buf + at
    BY <1>2, WindowType DEF RepMatch, IInv, TypeOK
  <2>2. rep0 \in Rep /\ Near(rep0) /\ rep1 \in Rep /\ Near(rep1)
    BY DEF IInv, TypeOK, NearInv
  <2> QED
    BY <2>1, <2>2, FoundIInv
<1>3. ASSUME SwapMatch(len)
      PROVE  IInv'
  <2>1. /\ rep0' = rep1 /\ rep1' = rep0 /\ Found(anchor, rep1, len)
        /\ rep1 <= buf + anchor /\ anchor \in anchor .. block - 1
    BY <1>3, WindowType DEF SwapMatch, Found, IInv, TypeOK
  <2>2. rep0 \in Rep /\ Near(rep0) /\ rep1 \in Rep /\ Near(rep1)
    BY DEF IInv, TypeOK, NearInv
  <2> QED
    BY <2>1, <2>2, FoundIInv
<1> QED
  BY <1>1, <1>2, <1>3

LEMMA LessInFront ==
  ASSUME NEW after \in Nat, NEW before \in Nat, NEW sent \in Nat, NEW kept \in Nat,
         after <= before + sent, before <= kept
  PROVE  after - sent <= kept
  OBVIOUS

(* Packed or raw, the block leaves near offsets and a buffer no longer     *)
(* than before and the block together.                                     *)
LEMMA SendBlockIInv ==
  ASSUME IInv, SendBlock
  PROVE  IInv'
<1> USE DEF IInv
<1>1. /\ phase = "search" /\ phase' = "sent"
      /\ UNCHANGED << encoderVars, block, anchor, rep0, rep1, packed, decoderVars >>
      /\ found' \subseteq found
      /\ reps' = packed \/ reps' = reps
  BY DEF SendBlock
<1>2. buf \in Nat /\ block \in Nat /\ window \in Nat /\ window > 0
  BY WindowType DEF TypeOK
<1>3. buf' \in Nat /\ buf' <= buf + block
  BY <1>2 DEF SendBlock, BufferAfter, CompactionShift
<1>4. TypeOK'
  BY <1>1, <1>3 DEF TypeOK, Phases, encoderVars, decoderVars
<1>5. NearInv'
  BY <1>1 DEF NearInv, Near, Brought, encoderVars
<1>6. BlockInv'
  BY <1>1 DEF BlockInv, encoderVars, decoderVars
<1>7. CoverInv'
  <2>1. /\ declared' = declared /\ block' = block /\ done' = done /\ history' = history
        /\ history \in Nat
    BY <1>1 DEF TypeOK, encoderVars, decoderVars
  <2>2. done < declared => buf' - block <= history
    <3>1. phase = "search"
      BY <1>1
    <3>2. done < declared => buf <= history
      BY <3>1 DEF CoverInv, Front
    <3> QED
      BY <1>2, <1>3, <2>1, <3>2, LessInFront
  <2>3. done < declared => \A m \in found' : m.off <= history + m.at
    BY <1>1 DEF CoverInv
  <2> QED
    BY <1>1, <2>1, <2>2, <2>3 DEF CoverInv, Front
<1> QED
  BY <1>1, <1>4, <1>5, <1>6, <1>7

(* The decoder shows everything in a block of the encoder's, but for       *)
(* offsets larger than the window.                                         *)
LEMMA AllReachable ==
  ASSUME IInv, phase \in {"sent", "rejected"}
  PROVE  \A m \in found : Reachable(m) \/ (m.off \in Brought /\ m.off > declared)
<1> USE DEF IInv
<1>1. /\ done \in Nat /\ total \in Nat /\ declared \in Nat /\ history \in Nat
      /\ window \in Nat /\ window > 0 /\ block \in 1 .. total - done
  BY WindowType DEF TypeOK, BlockInv
<1>2. TAKE m \in found
<1>3. m.at \in Nat /\ m.off \in Nat /\ Near(m.off)
  BY WindowType DEF TypeOK, Match, NearInv
<1>4. CASE done < declared
  BY <1>1, <1>3, <1>4 DEF CoverInv, Reachable, Shown, ShownFrom
<1>5. CASE done >= declared
  <2>1. declared = window /\ history >= declared
    BY <1>1, <1>5 DEF BlockInv, CoverInv
  <2>2. CASE m.off <= declared
    BY <1>1, <1>3, <1>5, <2>1, <2>2 DEF Reachable, Shown, ShownFrom, AtLeastZero
  <2> QED
    BY <1>1, <1>3, <2>1, <2>2 DEF Near
<1> QED
  BY <1>1, <1>4, <1>5

LEMMA DecodeBlockIInv ==
  ASSUME IInv, DecodeBlock
  PROVE  IInv'
<1> USE DEF IInv
<1>1. /\ phase = "sent"
      /\ UNCHANGED << encoderVars, buf, reps, searchVars >>
  BY DEF DecodeBlock
<1>2. /\ done \in Nat /\ total \in Nat /\ declared \in Nat /\ declared > 0
      /\ history \in Nat /\ buf \in Nat /\ block \in Nat /\ block <= total - done
  BY <1>1 DEF TypeOK, BlockInv
<1>3. NearInv'
  BY <1>1 DEF NearInv, Near, Brought, encoderVars, searchVars
<1>4. CASE /\ history' = HistoryAfter /\ done' = done + block
           /\ phase' \in {"done", "between"}
  <2>1. history' = IF done + block >= declared /\ history + block > 2 * declared
                   THEN declared ELSE history + block
    BY <1>4 DEF HistoryAfter, Kept
  <2>2. TypeOK'
    BY <1>1, <1>2, <1>4, <2>1 DEF TypeOK, Phases, encoderVars, searchVars
  <2>3. BlockInv'
    BY <1>1, <1>4 DEF BlockInv, encoderVars, searchVars
  <2>4. CoverInv'
    BY <1>1, <1>2, <1>4, <2>1 DEF CoverInv, Front, encoderVars, searchVars
  <2> QED
    BY <1>3, <2>2, <2>3, <2>4
<1>5. CASE phase' = "rejected" /\ UNCHANGED decoderVars
  <2>1. TypeOK'
    BY <1>1, <1>5 DEF TypeOK, Phases, encoderVars, searchVars, decoderVars
  <2>2. BlockInv'
    BY <1>1, <1>5 DEF BlockInv, encoderVars, searchVars, decoderVars
  <2>3. CoverInv'
    BY <1>1, <1>5 DEF CoverInv, Front, encoderVars, searchVars, decoderVars
  <2> QED
    BY <1>3, <2>1, <2>2, <2>3
<1> QED
  BY <1>4, <1>5 DEF DecodeBlock

LEMMA NextIInv ==
  ASSUME IInv, [Next]_vars
  PROVE  IInv'
<1>1. CASE UNCHANGED vars
  BY <1>1 DEF vars, encoderVars, searchVars, decoderVars, IInv, TypeOK, NearInv, Near,
     Brought, BlockInv, CoverInv, Front
<1>2. CASE \E n \in BlockLengths : StartBlock(n)
  BY <1>2, StartBlockIInv
<1>3. CASE \E len \in 1 .. block :
             \/ \E at \in anchor .. block - 1 :
                  \/ \E off \in 1 .. buf + at : TableMatch(at, off, len)
                  \/ RepMatch(at, len)
             \/ SwapMatch(len)
  BY <1>3, MatchIInv
<1>4. CASE SendBlock
  BY <1>4, SendBlockIInv
<1>5. CASE DecodeBlock
  BY <1>5, DecodeBlockIInv
<1> QED
  BY <1>1, <1>2, <1>3, <1>4, <1>5 DEF Next

-----------------------------------------------------------------------------
(* The inductive invariant: what the recent offsets are, and that the      *)
(* decoder has what the encoder has until the frame has filled a window.   *)
THEOREM Covered == Spec => []IInv
<1>1. IInv /\ [Next]_vars => IInv'
  BY NextIInv
<1> QED
  BY <1>1, InitIInv, PTL DEF Spec

(* Whichever encoder wrote the frame and wherever its blocks end,          *)
(* FrameDecoder has every byte that copy_match_from_history asks for, but  *)
(* at an offset that a dictionary brought from beyond the window.          *)
THEOREM MatchesReach == Spec => []OffsetsReach
<1>1. IInv => OffsetsReach
  BY AllReachable DEF OffsetsReach
<1> QED
  BY <1>1, Covered, PTL

(* With a dictionary whose first two offsets lie within the window, or     *)
(* none, no block of the encoder's is refused.                             *)
Tame == \A h \in DictHistories \cup {PlainHistory}, w \in Windows : h[1] <= w /\ h[2] <= w

THEOREM NeverRefused ==
  ASSUME Tame
  PROVE  Spec => [](phase # "rejected")
<1> DEFINE Inv == /\ IInv /\ started[1] <= window /\ started[2] <= window
                  /\ phase # "rejected"
<1>1. ASSUME Init
      PROVE  Inv
  <2>1. started[1] <= window /\ started[2] <= window /\ phase = "between"
    BY <1>1, Tame DEF Init, Tame
  <2> QED
    BY <1>1, <2>1, InitIInv
<1>2. ASSUME Inv, [Next]_vars
      PROVE  Inv'
  <2>1. IInv'
    BY <1>2, NextIInv
  <2>2. started' = started /\ window' = window
    BY <1>2 DEF Next, vars, StartBlock, TableMatch, RepMatch, SwapMatch, Found, SendBlock,
      DecodeBlock, encoderVars
  <2>3. ASSUME phase = "sent", DecodeBlock
        PROVE  phase' # "rejected"
    <3>1. /\ window \in Nat /\ total \in Nat /\ done \in Nat /\ declared \in Nat
          /\ started[1] \in Nat /\ started[2] \in Nat
      BY <1>2, WindowType, HistoryParts DEF IInv, TypeOK
    <3>2. \A m \in found : Reachable(m)
      <4>1. TAKE m \in found
      <4>2. Reachable(m) \/ (m.off \in Brought /\ m.off > declared)
        BY <1>2, <2>3, AllReachable
      <4>3. CASE done < declared
        BY <1>2, <2>3, <3>1, <4>3, WindowType
          DEF IInv, CoverInv, TypeOK, Match, Reachable, Shown, ShownFrom
      <4>4. CASE done >= declared
        <5>1. declared = window
          BY <1>2, <2>3, <3>1, <4>4 DEF IInv, BlockInv
        <5> QED
          BY <1>2, <3>1, <4>2, <5>1 DEF Brought
      <4> QED
        BY <3>1, <4>3, <4>4
    <3> QED
      BY <2>3, <3>2 DEF DecodeBlock
  <2>4. phase' # "rejected"
    BY <1>2, <2>3 DEF Next, vars, StartBlock, TableMatch, RepMatch, SwapMatch, Found, SendBlock,
      DecodeBlock
  <2> QED
    BY <1>2, <2>1, <2>2, <2>4
<1>3. Inv => phase # "rejected"
  OBVIOUS
<1> QED
  BY <1>1, <1>2, <1>3, PTL DEF Spec

(* Once a frame has a full window, no match of fast, dfast or the repeat   *)
(* offsets is farther away than the window its header declares, but at an  *)
(* offset that a dictionary brought.                                       *)
THEOREM DistancesBounded == Spec => []DistanceWithinWindow
<1>1. ASSUME IInv
      PROVE  DistanceWithinWindow
  <2> SUFFICES ASSUME phase \in {"search", "sent", "rejected"}, NEW m \in found,
                      done + m.at >= declared
               PROVE  m.off <= declared \/ m.off \in Brought
    BY DEF DistanceWithinWindow
  <2>1. /\ done \in Nat /\ total \in Nat /\ declared \in Nat /\ m.at \in Nat
        /\ block \in 1 .. total - done /\ m.at < block
    BY <1>1 DEF IInv, TypeOK, Match, BlockInv
  <2>2. declared = window
    BY <1>1, <2>1 DEF IInv, BlockInv
  <2> QED
    BY <1>1, <2>2 DEF IInv, NearInv, Near
<1> QED
  BY <1>1, Covered, PTL
=============================================================================
