----------------------------- MODULE DecoderPair -----------------------------
(***************************************************************************)
(* The one-shot decoder (decompress_with_dict_and_limit and its siblings)  *)
(* beside the streaming one, on the same source.                           *)
(*                                                                         *)
(* Two implementations of one format: they check the declared size, the    *)
(* limit and the checksum in different places and in different order.      *)
(* Here both take every item; the question is whether they agree on which  *)
(* sources are good and on what those hold.                                *)
(***************************************************************************)
EXTENDS StreamDecoder

VARIABLE shot  \* the one-shot decoder:
               \*   status  where it is; "frames": it returns Ok if the input ends
               \*   total   bytes of output, start: those before this frame
               \*   limit   the frame's max_output
               \*   fcs, sum, bad: the frame's size, whether it has a checksum,
               \*           whether the content is not the checksum's

NewShot == [status |-> "frames", total |-> 0, start |-> 0, limit |-> 0,
            fcs |-> NoSize, sum |-> FALSE, bad |-> FALSE]
ShotFails == [shot EXCEPT !.status = "failed"]

(* What is left of the limit for a frame.  (A plausible slip: all of it.)  *)
RemainingLimitWhole == MaxOutput
RemainingLimit == MaxOutput - shot.total

(* A declared size is the frame's limit.                                   *)
ShotHeader(w, s, single, sum, dictOk) ==
  IF shot.status # "frames" THEN shot
  ELSE IF \/ w > MaxWindow /\ ~single
          \/ ~dictOk
          \/ s # NoSize /\ s > RemainingLimit
  THEN ShotFails
  ELSE [shot EXCEPT !.status = "blocks", !.start = shot.total, !.fcs = s, !.sum = sum,
                    !.limit = IF s = NoSize THEN RemainingLimit ELSE s, !.bad = FALSE]

ShotBlockHeader(kind, n) ==
  IF shot.status = "blocks" /\ kind = "Stored" /\ n > MaxBlock THEN ShotFails ELSE shot

(* The frame is over: was it as long as it said?  (A plausible slip: the   *)
(* limit on each block is taken for that check.)                           *)
FrameEndUnchecked(t) == [t EXCEPT !.status = "frames"]
FrameEnd(t) ==
  IF t.fcs # NoSize /\ t.total - t.start # t.fcs THEN [t EXCEPT !.status = "failed"]
  ELSE [t EXCEPT !.status = "frames"]

ShotBlock(n, last, bad) ==
  LET t == [shot EXCEPT !.total = @ + n, !.bad = @ \/ bad]
  IN  IF shot.status # "blocks" THEN shot
      ELSE IF t.total - t.start > t.limit THEN ShotFails
      ELSE IF ~last THEN t
      ELSE IF t.sum THEN [t EXCEPT !.status = "checksum"]
      ELSE FrameEnd(t)

ShotChecksum ==
  IF shot.status # "checksum" THEN shot
  ELSE IF shot.bad THEN ShotFails ELSE FrameEnd(shot)

-----------------------------------------------------------------------------
(* Truncated or damaged data stops both; what a call returns is streaming's *)
(* alone.                                                                  *)

PairFill ==
  \/ (ReturnBytes \/ ReturnEnd \/ ReadFailed \/ SourceEnds \/ SkippableFrame) /\ UNCHANGED shot
  \/ SourceFails /\ shot' = ShotFails
  \/ \E w \in Windows \cup Sizes, s \in Sizes \cup {NoSize}, single, sum, dictOk \in BOOLEAN :
       FrameHeader(w, s, single, sum, dictOk) /\ shot' = ShotHeader(w, s, single, sum, dictOk)
  \/ \E kind \in Kinds, n \in 0 .. MaxBlock + 1, last \in BOOLEAN :
       BlockHeader(kind, n, last) /\ shot' = ShotBlockHeader(kind, n)
  \/ \E bad \in BOOLEAN : StoredBlock(bad) /\ shot' = ShotBlock(block.size, block.last, bad)
  \/ \E n \in 0 .. MaxBlock, bad \in BOOLEAN :
       CompressedBlock(n, bad) /\ shot' = ShotBlock(n, block.last, bad)
  \/ Checksum /\ shot' = ShotChecksum

PairInit == Init /\ shot = NewShot

PairNext ==
  \/ (\E n \in 1 .. MaxRead : ReadBuffered(n) \/ StartRead(n)) /\ UNCHANGED shot
  \/ ReadAfterEnd /\ UNCHANGED shot
  \/ PairFill
  \/ Reset /\ shot' = NewShot

PairSpec == PairInit /\ [][PairNext]_<< vars, shot >> /\ WF_<< vars, shot >>(PairFill)

-----------------------------------------------------------------------------
(* "decompress" and FrameDecoder read one format: where the streaming      *)
(* decoder reports the end, the one-shot decoder accepts the same input    *)
(* with as many bytes; where it fails, the one-shot decoder has failed too *)
(* or is behind the last block of a frame whose size is wrong, which it    *)
(* reports after the checksum.                                             *)
SameVerdict ==
  /\ eof => shot.status = "frames" /\ shot.total = delivered
  /\ state = "Failed" =>
       \/ shot.status = "failed"
       \/ shot.status = "checksum" /\ shot.fcs # NoSize /\ shot.total - shot.start # shot.fcs
=============================================================================
