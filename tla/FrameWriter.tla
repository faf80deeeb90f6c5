----------------------------- MODULE FrameWriter -----------------------------
(***************************************************************************)
(* What a streaming encoder promises its caller and the reader of its      *)
(* output.                                                                 *)
(*                                                                         *)
(* The writer receives, per frame, one header, blocks that carry every     *)
(* byte handed over, in order, the last of them marked, and a checksum of  *)
(* exactly those bytes.  An error tears the frame, and nothing is ever     *)
(* written behind a torn frame.                                            *)
(***************************************************************************)
EXTENDS Naturals

VARIABLES
  stage,    \* what the writer received last of the current frame
  given,    \* bytes of the frame handed over (and hashed)
  written   \* bytes its blocks carry

vars == << stage, given, written >>

Stages == {"start", "blocks", "checksum", "complete", "torn"}

Init ==
  /\ stage = "start"
  /\ given = 0
  /\ written = 0

Header ==
  /\ stage = "start"
  /\ stage' = "blocks"
  /\ UNCHANGED << given, written >>

(* The caller hands over bytes, once the header is out.                    *)
Hand ==
  /\ stage = "blocks"
  /\ given' \in Nat /\ given' >= given
  /\ UNCHANGED << stage, written >>

(* A header that needs no writing any more and the hand-over are one step. *)
HeaderAndHand ==
  /\ stage = "start"
  /\ stage' = "blocks"
  /\ given' \in Nat /\ given' >= given
  /\ UNCHANGED written

(* A block carries the next bytes; only a last block may be empty.         *)
Block ==
  /\ stage = "blocks"
  /\ written' \in Nat /\ written' > written /\ written' <= given
  /\ UNCHANGED << stage, given >>

(* The last block leaves nothing behind.                                   *)
LastBlock ==
  /\ stage = "blocks"
  /\ written' = given
  /\ stage' = "checksum"
  /\ UNCHANGED given

(* The checksum is over what was given, which is what was written.         *)
Checksum ==
  /\ stage = "checksum"
  /\ written = given
  /\ stage' = "complete"
  /\ UNCHANGED << given, written >>

(* A new frame goes to a new writer.                                       *)
Renew ==
  /\ stage = "complete"
  /\ stage' = "start"
  /\ given' = 0
  /\ written' = 0

(* An error; possibly part of an item was written.                         *)
Tear ==
  /\ stage \in {"start", "blocks", "checksum"}
  /\ stage' = "torn"
  /\ UNCHANGED << given, written >>

Next ==
  \/ Header \/ Hand \/ HeaderAndHand \/ Block \/ LastBlock
  \/ Checksum \/ Renew \/ Tear

Spec == Init /\ [][Next]_vars
=============================================================================
