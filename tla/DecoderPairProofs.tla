-------------------------- MODULE DecoderPairProofs --------------------------
(***************************************************************************)
(* What FrameDecoder tells its caller, and that the one-shot decoder says  *)
(* the same, for every limit, window, dictionary and source.               *)
(*                                                                         *)
(* The streaming decoder's properties rest on a ledger of bytes (Ledger),  *)
(* on what its state says of the source (Standing), and on the history's   *)
(* length (HistoryKept).  The two decoders are compared by Together: they  *)
(* are at the same place of the same frame, or the one-shot decoder has    *)
(* refused a frame that the streaming one is bound to refuse (Doomed).     *)
(***************************************************************************)
EXTENDS DecoderPair, TLAPS

(* Every byte of a decoded block is buffered or delivered, until a call    *)
(* fails, which drops what is buffered.                                    *)
Ledger ==
  /\ bytesOutput = content
  /\ delivered + (output - pos) <= MaxOutput
  /\ IF state = "Failed" THEN output = 0
     ELSE content <= MaxOutput /\ delivered + (output - pos) = content

(* Between frames nothing is owed and nothing was damaged; inside one,     *)
(* only its checksum can still tell.                                       *)
Standing ==
  /\ block.size <= MaxBlock
  /\ state \in {"FrameHeader", "Done"} => rest = "nothing" /\ ~damaged
  /\ state \in {"BlockHeader", "BlockData"} => (damaged => checksum)
  /\ state = "Checksum" => checksum
  /\ eof => state = "Done" /\ pos >= output /\ want = 0

(* All of dictionary and frame until that passes a window, then at least   *)
(* one window and at most two, or one in front of a long dictionary.       *)
HistoryKept ==
  state \in {"BlockHeader", "BlockData"} /\ window > 0 =>
    IF frameBytes < window THEN history = dictLen + frameBytes
    ELSE window <= history /\ history <= MostOf(2 * window, dictLen + window)

StreamInv == TypeOK /\ Ledger /\ Standing /\ HistoryKept

-----------------------------------------------------------------------------
ShotType ==
  shot \in [status : {"frames", "blocks", "checksum", "failed"}, total : Nat, start : Nat,
            limit : Nat, fcs : Sizes \cup {NoSize}, sum : BOOLEAN, bad : BOOLEAN]

(* The one-shot decoder is in the same frame.                              *)
Alongside ==
  /\ shot.total = bytesOutput /\ shot.start + frameBytes = bytesOutput
  /\ shot.fcs = size /\ shot.sum = checksum
  /\ IF size = NoSize THEN shot.start + shot.limit = MaxOutput
     ELSE shot.limit = size /\ shot.start + size <= MaxOutput
  /\ checksum => (shot.bad <=> damaged)

(* A frame that declares more than the limit leaves, or holds more than it *)
(* declares.                                                               *)
Doomed ==
  /\ size # NoSize
  /\ frameBytes > size \/ bytesOutput - frameBytes + size > MaxOutput

Together ==
  /\ state \in {"FrameHeader", "Done"} => shot.status = "frames" /\ shot.total = bytesOutput
  /\ state \in {"BlockHeader", "BlockData"} =>
       \/ shot.status = "failed" /\ Doomed
       \/ shot.status = "blocks" /\ Alongside
  /\ state = "Checksum" =>
       /\ shot.status = "checksum" /\ Alongside
       /\ size # NoSize => frameBytes = size
  /\ state = "Failed" =>
       \/ shot.status = "failed"
       \/ shot.status = "checksum" /\ shot.fcs # NoSize /\ shot.total - shot.start # shot.fcs

PairInv == StreamInv /\ ShotType /\ Together

-----------------------------------------------------------------------------
USE ConstantsAssumption

LEMMA InitStreamInv == Init => StreamInv
<1> SUFFICES ASSUME Init PROVE StreamInv
  OBVIOUS
<1>1. TypeOK
  <2> USE DEF Init
  <2>1. dictLen \in DictLens /\ state \in States /\ rest \in {"nothing", "blocks", "checksum"}
    BY DEF States
  <2>2. block \in [kind : Kinds, size : Nat, last : BOOLEAN]
    BY DEF NoBlock, Kinds
  <2>3. output \in 0 .. MaxBlock /\ pos \in 0 .. output /\ window \in 0 .. MaxWindow /\ want \in 0 .. MaxRead
    OBVIOUS
  <2>4. checksum \in BOOLEAN /\ size \in Sizes \cup {NoSize} /\ damaged \in BOOLEAN /\ eof \in BOOLEAN
    OBVIOUS
  <2> QED
    BY <2>1, <2>2, <2>3, <2>4 DEF TypeOK
<1>2. Ledger /\ Standing /\ HistoryKept
  BY DEF Init, Ledger, Standing, HistoryKept, NoBlock
<1> QED
  BY <1>1, <1>2 DEF StreamInv

(* The calls that read no item of the source.                              *)
LEMMA CallsKeep ==
  ASSUME StreamInv, NEW n \in 1 .. MaxRead,
         ReadBuffered(n) \/ StartRead(n) \/ ReadAfterEnd \/ ReturnBytes \/ ReturnEnd
  PROVE  StreamInv'
<1> USE DEF StreamInv, TypeOK, Ledger, Standing, HistoryKept, Deliver, LeastOf, Filling,
            frameVars, sourceVars
<1>1. CASE ReadBuffered(n)
  BY <1>1 DEF ReadBuffered
<1>2. CASE StartRead(n)
  BY <1>2 DEF StartRead
<1>3. CASE ReadAfterEnd
  BY <1>3 DEF ReadAfterEnd
<1>4. CASE ReturnBytes
  BY <1>4 DEF ReturnBytes
<1>5. CASE ReturnEnd
  BY <1>5 DEF ReturnEnd, EndSeen
<1> QED
  BY <1>1, <1>2, <1>3, <1>4, <1>5

(* A call that fails: nothing is buffered any more.                        *)
LEMMA FailKeeps ==
  ASSUME StreamInv, Fail,
         frameBytes' \in Nat, bytesOutput' \in Nat, history' \in Nat, content' \in Nat,
         rest' \in {"nothing", "blocks", "checksum"}, damaged' \in BOOLEAN, items' \in Nat,
         bytesOutput' = content', UNCHANGED frameVars, state # "Done"
  PROVE  StreamInv'
<1> USE DEF StreamInv, Fail, frameVars
<1>1. TypeOK'
  BY DEF TypeOK, States
<1>2. Ledger'
  BY DEF TypeOK, Ledger
<1>3. Standing' /\ HistoryKept'
  BY DEF TypeOK, Standing, HistoryKept
<1> QED
  BY <1>1, <1>2, <1>3

LEMMA FailuresKeep ==
  ASSUME StreamInv, ReadFailed \/ SourceFails
  PROVE  StreamInv'
<1>1. Fail /\ state # "Done" /\ UNCHANGED << frameVars, frameBytes, bytesOutput, history, sourceVars, items >>
  BY DEF ReadFailed, SourceFails
<1> QED
  BY <1>1, FailKeeps DEF StreamInv, TypeOK, Ledger, sourceVars

(* The ends of sources, and frames that are skipped.                       *)
LEMMA NothingReadKeeps ==
  ASSUME StreamInv, SourceEnds \/ SkippableFrame
  PROVE  StreamInv'
<1> USE DEF StreamInv, TypeOK, Ledger, Standing, HistoryKept, Filling, Consume, Continue,
            frameVars, sourceVars
<1>1. CASE SourceEnds
  BY <1>1 DEF SourceEnds, States
<1>2. CASE SkippableFrame
  BY <1>2 DEF SkippableFrame
<1> QED
  BY <1>1, <1>2

(* A frame begins with the dictionary as its history.                      *)
LEMMA FrameHeaderKeeps ==
  ASSUME StreamInv, NEW w \in Windows \cup Sizes, NEW s \in Sizes \cup {NoSize},
         NEW single \in BOOLEAN, NEW sum \in BOOLEAN, NEW dictOk \in BOOLEAN,
         FrameHeader(w, s, single, sum, dictOk)
  PROVE  StreamInv'
<1>1. /\ Filling /\ items' = items + 1 /\ items' \in Nat
      /\ state = "FrameHeader" /\ rest' = "blocks" /\ w \in Nat
  BY DEF FrameHeader, Consume, StreamInv, TypeOK
<1>2. CASE HeaderRefused(w, s, single, dictOk)
  <2>1. Fail /\ UNCHANGED << frameVars, frameBytes, bytesOutput, history, content, damaged >>
    BY <1>2 DEF FrameHeader
  <2> QED
    BY <1>1, <2>1, FailKeeps DEF StreamInv, TypeOK, Ledger
<1>3. CASE ~HeaderRefused(w, s, single, dictOk)
  <2>1. /\ window' = LeastOf(w, MaxWindow) /\ size' = s /\ checksum' = sum
        /\ frameBytes' = 0 /\ history' = dictLen /\ state' = "BlockHeader"
        /\ UNCHANGED << block, output, pos, bytesOutput, content, damaged >>
        /\ Continue
    BY <1>3 DEF FrameHeader
  <2>2. window' \in 0 .. MaxWindow
    BY <1>1, <2>1 DEF LeastOf
  <2>3. TypeOK'
    BY <1>1, <2>1, <2>2 DEF StreamInv, TypeOK, States, Continue
  <2> QED
    BY <1>1, <2>1, <2>2, <2>3
    DEF StreamInv, TypeOK, Ledger, Standing, HistoryKept, Continue, Filling
<1> QED
  BY <1>2, <1>3

(* A stored block that is let through is no longer than a block.           *)
LEMMA BlockHeaderKeeps ==
  ASSUME StreamInv, NEW kind \in Kinds, NEW n \in 0 .. MaxBlock + 1, NEW last \in BOOLEAN,
         BlockHeader(kind, n, last)
  PROVE  StreamInv'
<1>1. /\ Filling /\ items' = items + 1 /\ items' \in Nat
      /\ state = "BlockHeader" /\ n \in Nat
      /\ UNCHANGED << frameVars, frameBytes, bytesOutput, history, sourceVars >>
  BY DEF BlockHeader, Consume, StreamInv, TypeOK
<1>2. CASE BlockTooLarge(kind, n)
  <2>1. Fail
    BY <1>2 DEF BlockHeader
  <2> QED
    BY <1>1, <2>1, FailKeeps DEF StreamInv, TypeOK, Ledger, sourceVars
<1>3. CASE ~BlockTooLarge(kind, n)
  <2>1. /\ state' = "BlockData" /\ block' = [kind |-> kind, size |-> n, last |-> last]
        /\ UNCHANGED << output, pos >> /\ Continue
    BY <1>3 DEF BlockHeader
  <2>2. n <= MaxBlock
    BY <1>1, <1>3 DEF BlockHeader, BlockTooLarge, Kinds
  <2>3. block' \in [kind : Kinds, size : Nat, last : BOOLEAN]
    BY <1>1, <2>1
  <2>4. TypeOK'
    BY <1>1, <2>1, <2>3 DEF StreamInv, TypeOK, States, Continue, frameVars, sourceVars
  <2> QED
    BY <1>1, <2>1, <2>2, <2>4
    DEF StreamInv, TypeOK, Ledger, Standing, HistoryKept, Continue, Filling, frameVars, sourceVars
<1> QED
  BY <1>2, <1>3

(* What append_history leaves: everything while the frame is shorter than  *)
(* a window, then between one and two windows.                             *)
LEMMA AppendedKeeps ==
  ASSUME StreamInv, state = "BlockData", window > 0, NEW n \in Nat
  PROVE  /\ Appended(n) \in Nat
         /\ IF frameBytes + n < window THEN Appended(n) = dictLen + (frameBytes + n)
            ELSE window <= Appended(n) /\ Appended(n) <= MostOf(2 * window, dictLen + window)
<1>1. window \in Nat /\ history \in Nat /\ frameBytes \in Nat /\ dictLen \in Nat
  BY DEF StreamInv, TypeOK
<1>2. IF frameBytes < window THEN history = dictLen + frameBytes
      ELSE window <= history /\ history <= MostOf(2 * window, dictLen + window)
  BY DEF StreamInv, HistoryKept
<1> QED
  BY <1>1, <1>2 DEF Appended, Kept, MostOf

(* A block enters the ledger, or is refused with the call.                 *)
LEMMA BlockKeeps ==
  ASSUME StreamInv, Consume, state = "BlockData", NEW n \in 0 .. MaxBlock,
         NEW bad \in BOOLEAN, BlockDecoded(n, bad)
  PROVE  StreamInv'
<1>1. /\ Filling /\ items' = items + 1 /\ items' \in Nat /\ n \in Nat
      /\ content' = content + n /\ bytesOutput' = bytesOutput + n
      /\ frameBytes' = frameBytes + n
      /\ content' \in Nat /\ bytesOutput' \in Nat /\ frameBytes' \in Nat
      /\ content' = bytesOutput'
      /\ UNCHANGED frameVars
  BY DEF BlockDecoded, Consume, StreamInv, TypeOK, Ledger
<1>2. /\ rest' = RestAfter(block.last) /\ rest' \in {"nothing", "blocks", "checksum"}
      /\ damaged' = (damaged \/ (bad /\ checksum) \/ SizeIsWrong(block.last, n))
      /\ damaged' \in BOOLEAN
  BY DEF BlockDecoded, RestAfter
<1>3. CASE OverLimit(n)
  <2>1. Fail /\ UNCHANGED history
    BY <1>3 DEF BlockDecoded
  <2> QED
    BY <1>1, <1>2, <2>1, FailKeeps DEF StreamInv, TypeOK
<1>4. CASE ~OverLimit(n)
  <2>1. history' = (IF window > 0 THEN Appended(n) ELSE history) /\ history' \in Nat
    BY <1>1, <1>4, AppendedKeeps DEF BlockDecoded, StreamInv, TypeOK
  <2>2. CASE SizeIsWrong(block.last, n)
    <3>1. Fail
      BY <1>4, <2>2 DEF BlockDecoded
    <3> QED
      BY <1>1, <1>2, <2>1, <3>1, FailKeeps
  <2>3. CASE ~SizeIsWrong(block.last, n)
    <3>1. /\ output' = n /\ pos' = 0 /\ UNCHANGED block /\ Continue
          /\ state' = (IF ~block.last THEN "BlockHeader"
                       ELSE IF checksum THEN "Checksum" ELSE "FrameHeader")
      BY <1>4, <2>3 DEF BlockDecoded
    <3>2. TypeOK'
      BY <1>1, <1>2, <2>1, <3>1 DEF StreamInv, TypeOK, States, Continue, frameVars
    <3>3. Ledger'
      BY <1>1, <1>4, <3>1 DEF StreamInv, TypeOK, Ledger, OverLimit, Continue, Filling
    <3>4. Standing'
      BY <1>1, <1>2, <2>3, <3>1
      DEF StreamInv, TypeOK, Standing, RestAfter, Continue, Filling, frameVars
    <3>5. HistoryKept'
      BY <1>1, <2>1, <3>1, AppendedKeeps
      DEF StreamInv, TypeOK, HistoryKept, Continue, frameVars
    <3> QED
      BY <3>2, <3>3, <3>4, <3>5 DEF StreamInv
  <2> QED
    BY <2>2, <2>3
<1> QED
  BY <1>3, <1>4

LEMMA BlocksKeep ==
  ASSUME StreamInv, NEW bad \in BOOLEAN,
         StoredBlock(bad) \/ \E n \in 0 .. MaxBlock : CompressedBlock(n, bad)
  PROVE  StreamInv'
<1>1. CASE StoredBlock(bad)
  <2>1. block.size \in 0 .. MaxBlock
    BY DEF StreamInv, TypeOK, Standing
  <2> QED
    BY <1>1, <2>1, BlockKeeps DEF StoredBlock
<1>2. CASE \E n \in 0 .. MaxBlock : CompressedBlock(n, bad)
  BY <1>2, BlockKeeps DEF CompressedBlock
<1> QED
  BY <1>1, <1>2

LEMMA ChecksumKeeps ==
  ASSUME StreamInv, Checksum
  PROVE  StreamInv'
<1>1. /\ Filling /\ items' = items + 1 /\ items' \in Nat
      /\ state = "Checksum" /\ rest' = "nothing"
      /\ UNCHANGED << frameVars, frameBytes, bytesOutput, history, content, damaged >>
  BY DEF Checksum, Consume, StreamInv, TypeOK
<1>2. CASE ChecksumAccepts
  <2>1. state' = "FrameHeader" /\ UNCHANGED << block, output, pos >> /\ Continue
    BY <1>2 DEF Checksum
  <2> QED
    BY <1>1, <1>2, <2>1
    DEF StreamInv, TypeOK, Ledger, Standing, HistoryKept, States, Continue, Filling,
        ChecksumAccepts, frameVars
<1>3. CASE ~ChecksumAccepts
  <2>1. Fail
    BY <1>3 DEF Checksum
  <2> QED
    BY <1>1, <2>1, FailKeeps DEF StreamInv, TypeOK, Ledger
<1> QED
  BY <1>2, <1>3

LEMMA ResetKeeps ==
  ASSUME StreamInv, Reset
  PROVE  StreamInv'
<1> USE DEF Reset
<1>1. block' \in [kind : Kinds, size : Nat, last : BOOLEAN] /\ block'.size = 0
  BY DEF NoBlock, Kinds
<1>2. resets' \in Nat
  BY DEF StreamInv, TypeOK
<1>3. /\ dictLen' \in DictLens /\ state' \in States /\ want' \in 0 .. MaxRead
      /\ output' \in 0 .. MaxBlock /\ pos' \in 0 .. output' /\ window' \in 0 .. MaxWindow
  BY DEF StreamInv, TypeOK, States
<1>4. TypeOK'
  BY <1>1, <1>2, <1>3 DEF TypeOK
<1> QED
  BY <1>1, <1>4 DEF StreamInv, Ledger, Standing, HistoryKept

-----------------------------------------------------------------------------
LEMMA StreamInvKept == StreamInv /\ [Next]_vars => StreamInv'
<1> SUFFICES ASSUME StreamInv, [Next]_vars PROVE StreamInv'
  OBVIOUS
<1>1. CASE UNCHANGED vars
  BY <1>1 DEF vars, frameVars, sourceVars, StreamInv, TypeOK, Ledger, Standing, HistoryKept
<1>2. CASE Fill
  BY <1>2, CallsKeep, FailuresKeep, NothingReadKeeps, FrameHeaderKeeps, BlockHeaderKeeps,
     BlocksKeep, ChecksumKeeps DEF Fill
<1>3. CASE Next /\ ~Fill
  BY <1>3, CallsKeep, ResetKeeps DEF Next
<1> QED
  BY <1>1, <1>2, <1>3

(* The streaming decoder's inductive invariant.                            *)
THEOREM StreamInvariant == Spec => []StreamInv
  BY InitStreamInv, StreamInvKept, PTL DEF Spec

LEMMA StreamTypes == StreamInv => TypeOK
  BY DEF StreamInv

(* Every variable keeps its type; among them, a block never yields more    *)
(* than MaxBlock bytes and what is delivered never passes what is buffered. *)
THEOREM TypesHold == Spec => []TypeOK
  BY StreamInvariant, StreamTypes, PTL

LEMMA StreamEnds == StreamInv => EndMeansComplete
  BY DEF StreamInv, TypeOK, Ledger, Standing, EndMeansComplete

(* A read that returns 0 has seen complete, undamaged frames only, all of  *)
(* them delivered.                                                         *)
THEOREM EndsAreComplete == Spec => []EndMeansComplete
  BY StreamInvariant, StreamEnds, PTL

LEMMA StreamLimits == StreamInv => WithinLimit
  BY DEF StreamInv, Ledger, WithinLimit

(* The limit is over all frames, and holds while a refused block is        *)
(* dropped.                                                                *)
THEOREM LimitHolds == Spec => []WithinLimit
  BY StreamInvariant, StreamLimits, PTL

LEMMA StreamShows == StreamInv => HistorySuffices
<1> SUFFICES ASSUME StreamInv, state = "BlockData", window > 0
             PROVE  IF frameBytes < window THEN Visible = dictLen + frameBytes
                    ELSE Visible = window
  BY DEF HistorySuffices
<1>1. /\ window \in Nat /\ history \in Nat /\ frameBytes \in Nat /\ dictLen \in Nat
      /\ IF frameBytes < window THEN history = dictLen + frameBytes ELSE window <= history
  BY DEF StreamInv, TypeOK, HistoryKept
<1> QED
  BY <1>1 DEF Visible, HistoryStart, ShownFrom, AtLeastZero

(* A compressed block sees all that came before it, or exactly a window.   *)
THEOREM HistoryShown == Spec => []HistorySuffices
  BY StreamInvariant, StreamShows, PTL

LEMMA StreamBounds == StreamInv => HistoryBounded
  BY DEF StreamInv, TypeOK, HistoryKept, HistoryBounded, MostOf

(* The history never outgrows two windows, or the dictionary and one.      *)
THEOREM HistoryStaysBounded == Spec => []HistoryBounded
  BY StreamInvariant, StreamBounds, PTL

-----------------------------------------------------------------------------
(* The two decoders.                                                       *)

LEMMA InitPairInv == PairInit => PairInv
<1> SUFFICES ASSUME PairInit PROVE PairInv
  OBVIOUS
<1>1. Init /\ shot = NewShot
  BY DEF PairInit
<1>2. ShotType
  BY <1>1 DEF NewShot, ShotType
<1>3. Together
  BY <1>1 DEF Init, NewShot, Together
<1> QED
  BY <1>1, <1>2, <1>3, InitStreamInv DEF PairInv

LEMMA PairStepsStream == PairNext => Next
  BY DEF PairNext, PairFill, Next, Fill

(* Where the streaming decoder fails, the one-shot decoder fails.          *)
LEMMA FailTogether ==
  ASSUME PairInv, Fail, shot' = ShotFails
  PROVE  ShotType' /\ Together'
<1>1. shot'.status = "failed"
  BY DEF PairInv, ShotType, ShotFails
<1>2. ShotType'
  BY DEF PairInv, ShotType, ShotFails
<1> QED
  BY <1>1, <1>2 DEF Fail, Together

LEMMA CallsTogether ==
  ASSUME PairInv, UNCHANGED shot, NEW n \in 1 .. MaxRead,
         \/ ReadBuffered(n) \/ StartRead(n) \/ ReadAfterEnd \/ ReturnBytes \/ ReturnEnd
         \/ ReadFailed \/ SourceEnds \/ SkippableFrame
  PROVE  ShotType' /\ Together'
<1>1. \/ UNCHANGED << state, frameVars, frameBytes, bytesOutput, damaged >>
      \/ /\ state = "FrameHeader" /\ state' = "Done"
         /\ UNCHANGED << frameVars, frameBytes, bytesOutput, damaged >>
  BY DEF ReadBuffered, StartRead, ReadAfterEnd, ReturnBytes, ReturnEnd, ReadFailed, Fail,
         SourceEnds, SkippableFrame, sourceVars
<1>2. ShotType'
  BY DEF PairInv, ShotType
<1> QED
  BY <1>1, <1>2 DEF PairInv, Together, Alongside, Doomed, frameVars

(* A header that passes the streaming decoder's test and not the one-shot  *)
(* decoder's declares more than the limit leaves.                          *)
LEMMA HeadersTogether ==
  ASSUME PairInv, NEW w \in Windows \cup Sizes, NEW s \in Sizes \cup {NoSize},
         NEW single \in BOOLEAN, NEW sum \in BOOLEAN, NEW dictOk \in BOOLEAN,
         FrameHeader(w, s, single, sum, dictOk),
         shot' = ShotHeader(w, s, single, sum, dictOk)
  PROVE  ShotType' /\ Together'
<1>1. /\ state = "FrameHeader" /\ shot.status = "frames" /\ shot.total = bytesOutput
      /\ shot.total \in Nat /\ bytesOutput \in Nat /\ bytesOutput <= MaxOutput /\ ~damaged
      /\ s \in Nat \/ s = NoSize
  BY DEF FrameHeader, PairInv, Together, ShotType, StreamInv, TypeOK, Ledger, Standing
<1>2. CASE HeaderRefused(w, s, single, dictOk)
  <2>1. Fail
    BY <1>2 DEF FrameHeader
  <2>2. shot' = ShotFails
    BY <1>1, <1>2 DEF HeaderRefused, ShotHeader, RemainingLimit, NoSize
  <2> QED
    BY <2>1, <2>2, FailTogether
<1>3. CASE ~HeaderRefused(w, s, single, dictOk)
  <2>1. /\ size' = s /\ checksum' = sum /\ frameBytes' = 0 /\ state' = "BlockHeader"
        /\ UNCHANGED << bytesOutput, damaged >>
    BY <1>3 DEF FrameHeader
  <2>2. CASE s # NoSize /\ s > RemainingLimit
    <3>1. shot' = ShotFails
      BY <1>1, <2>2 DEF ShotHeader
    <3>2. ShotType' /\ shot'.status = "failed"
      BY <3>1 DEF PairInv, ShotType, ShotFails
    <3>3. Doomed'
      BY <1>1, <2>1, <2>2 DEF Doomed, RemainingLimit, NoSize
    <3> QED
      BY <2>1, <3>2, <3>3 DEF Together
  <2>3. CASE ~(s # NoSize /\ s > RemainingLimit)
    <3>1. shot' = [shot EXCEPT !.status = "blocks", !.start = shot.total, !.fcs = s, !.sum = sum,
                               !.limit = IF s = NoSize THEN RemainingLimit ELSE s, !.bad = FALSE]
      BY <1>1, <1>3, <2>3 DEF ShotHeader, HeaderRefused
    <3>2. RemainingLimit \in Nat /\ RemainingLimit = MaxOutput - bytesOutput
      BY <1>1 DEF RemainingLimit
    <3>3. /\ shot'.status = "blocks" /\ shot'.total = shot.total /\ shot'.start = shot.total
          /\ shot'.fcs = s /\ shot'.sum = sum /\ shot'.bad = FALSE
          /\ shot'.limit = IF s = NoSize THEN RemainingLimit ELSE s
      BY <3>1 DEF PairInv, ShotType
    <3>4. ShotType'
      BY <1>1, <3>1, <3>2 DEF PairInv, ShotType
    <3>5. Alongside'
      BY <1>1, <2>1, <2>3, <3>2, <3>3 DEF Alongside, NoSize
    <3> QED
      BY <2>1, <3>3, <3>4, <3>5 DEF Together
  <2> QED
    BY <2>2, <2>3
<1> QED
  BY <1>2, <1>3

LEMMA BlockHeadersTogether ==
  ASSUME PairInv, NEW kind \in Kinds, NEW n \in 0 .. MaxBlock + 1, NEW last \in BOOLEAN,
         BlockHeader(kind, n, last), shot' = ShotBlockHeader(kind, n)
  PROVE  ShotType' /\ Together'
<1>1. /\ state = "BlockHeader"
      /\ UNCHANGED << frameVars, frameBytes, bytesOutput, sourceVars >>
  BY DEF BlockHeader
<1>2. \/ shot.status = "failed" /\ Doomed
      \/ shot.status = "blocks" /\ Alongside
  BY <1>1 DEF PairInv, Together
<1>3. CASE BlockTooLarge(kind, n)
  <2>1. Fail
    BY <1>3 DEF BlockHeader
  <2>2. ShotType' /\ shot'.status = "failed"
    BY <1>2, <1>3 DEF BlockTooLarge, ShotBlockHeader, ShotFails, PairInv, ShotType
  <2> QED
    BY <2>1, <2>2 DEF Fail, Together
<1>4. CASE ~BlockTooLarge(kind, n)
  <2>1. state' = "BlockData" /\ shot' = shot
    BY <1>4 DEF BlockHeader, BlockTooLarge, ShotBlockHeader
  <2> QED
    BY <1>1, <1>2, <2>1
    DEF PairInv, ShotType, Together, Alongside, Doomed, frameVars, sourceVars
<1> QED
  BY <1>3, <1>4

LEMMA ChecksumsTogether ==
  ASSUME PairInv, Checksum, shot' = ShotChecksum
  PROVE  ShotType' /\ Together'
<1>1. /\ state = "Checksum" /\ shot.status = "checksum" /\ Alongside
      /\ size # NoSize => frameBytes = size
      /\ UNCHANGED << frameVars, frameBytes, bytesOutput, damaged >>
  BY DEF Checksum, PairInv, Together
<1>2. checksum /\ (shot.bad <=> damaged)
  BY <1>1 DEF PairInv, StreamInv, Standing, Alongside
<1>3. CASE ChecksumAccepts
  <2>1. state' = "FrameHeader"
    BY <1>3 DEF Checksum
  <2>2. shot' = FrameEnd(shot)
    BY <1>1, <1>2, <1>3 DEF ShotChecksum, ChecksumAccepts
  <2>3. ~(shot.fcs # NoSize /\ shot.total - shot.start # shot.fcs)
    BY <1>1 DEF Alongside, PairInv, ShotType, StreamInv, TypeOK
  <2>4. shot' = [shot EXCEPT !.status = "frames"]
    BY <2>2, <2>3 DEF FrameEnd
  <2> QED
    BY <1>1, <2>1, <2>4 DEF PairInv, ShotType, Together, Alongside
<1>4. CASE ~ChecksumAccepts
  <2>1. Fail /\ shot' = ShotFails
    BY <1>1, <1>2, <1>4 DEF Checksum, ShotChecksum, ChecksumAccepts
  <2> QED
    BY <2>1, FailTogether
<1> QED
  BY <1>3, <1>4

(* A block past the limit, or past the declared size, ends both frames or  *)
(* leaves the streaming decoder with one it cannot finish.                 *)
LEMMA BlockTogether ==
  ASSUME PairInv, state = "BlockData", NEW n \in 0 .. MaxBlock, NEW bad \in BOOLEAN,
         BlockDecoded(n, bad), shot' = ShotBlock(n, block.last, bad)
  PROVE  ShotType' /\ Together'
<1> DEFINE t == [shot EXCEPT !.total = @ + n, !.bad = @ \/ bad]
<1>1. /\ \/ shot.status = "failed" /\ Doomed
         \/ shot.status = "blocks" /\ Alongside
      /\ damaged => checksum
  BY DEF PairInv, StreamInv, Standing, Together
<1>2. /\ n \in Nat /\ bytesOutput \in Nat /\ frameBytes \in Nat /\ MaxOutput \in Nat
      /\ size \in Nat \/ size = NoSize
      /\ shot.total \in Nat /\ shot.start \in Nat /\ shot.limit \in Nat
      /\ checksum \in BOOLEAN /\ damaged \in BOOLEAN /\ block.last \in BOOLEAN
      /\ shot.bad \in BOOLEAN /\ shot.sum \in BOOLEAN
  BY DEF PairInv, ShotType, StreamInv, TypeOK
<1>3. /\ bytesOutput' = bytesOutput + n /\ frameBytes' = frameBytes + n
      /\ damaged' = (damaged \/ (bad /\ checksum) \/ SizeIsWrong(block.last, n))
      /\ UNCHANGED << checksum, size >>
  BY DEF BlockDecoded, frameVars
<1>4. /\ OverLimit(n) \/ SizeIsWrong(block.last, n) => state' = "Failed"
      /\ ~OverLimit(n) /\ ~SizeIsWrong(block.last, n) =>
           state' = IF ~block.last THEN "BlockHeader"
                    ELSE IF checksum THEN "Checksum" ELSE "FrameHeader"
  BY DEF BlockDecoded, Fail
<1>5. CASE shot.status = "failed" /\ Doomed
  <2>1. shot' = shot
    BY <1>5 DEF ShotBlock
  <2>2. Doomed'
    BY <1>2, <1>3, <1>5 DEF Doomed
  <2>3. OverLimit(n) \/ SizeIsWrong(block.last, n) \/ ~block.last
    BY <1>2, <1>5 DEF Doomed, OverLimit, SizeIsWrong
  <2> QED
    BY <1>4, <1>5, <2>1, <2>2, <2>3 DEF PairInv, ShotType, Together
<1>6. CASE shot.status = "blocks" /\ Alongside
  <2>1. /\ t.status = "blocks" /\ t.total = shot.total + n /\ t.start = shot.start
        /\ t.limit = shot.limit /\ t.fcs = shot.fcs /\ t.sum = shot.sum
        /\ t.bad = (shot.bad \/ bad)
    BY <1>6 DEF PairInv, ShotType
  <2>2. t.total - t.start = frameBytes + n
    BY <1>2, <1>6, <2>1 DEF Alongside
  <2>3. CASE frameBytes + n > shot.limit
    <3>1. shot' = ShotFails
      BY <1>6, <2>1, <2>2, <2>3 DEF ShotBlock
    <3>2. ShotType' /\ shot'.status = "failed"
      BY <3>1 DEF PairInv, ShotType, ShotFails
    <3>3. OverLimit(n) \/ Doomed'
      BY <1>2, <1>3, <1>6, <2>3 DEF Alongside, OverLimit, Doomed
    <3>4. OverLimit(n) \/ SizeIsWrong(block.last, n) \/ ~block.last
      BY <1>2, <1>6, <2>3 DEF Alongside, OverLimit, SizeIsWrong
    <3> QED
      BY <1>4, <3>2, <3>3, <3>4 DEF Together
  <2>4. CASE ~(frameBytes + n > shot.limit)
    <3>1. ~OverLimit(n)
      BY <1>2, <1>6, <2>4 DEF Alongside, OverLimit
    <3>2. t.total \in Nat /\ t.bad \in BOOLEAN
      BY <1>2, <2>1
    <3>3. CASE ~block.last
      <4>1. shot' = t /\ state' = "BlockHeader"
        BY <1>4, <1>6, <2>1, <2>2, <2>4, <3>1, <3>3 DEF ShotBlock, SizeIsWrong
      <4>2. ShotType'
        BY <4>1, <3>2 DEF PairInv, ShotType
      <4>3. Alongside'
        BY <1>2, <1>3, <1>6, <2>1, <3>3, <4>1 DEF Alongside, SizeIsWrong
      <4> QED
        BY <4>1, <4>2, <4>3, <2>1 DEF Together
    <3>4. CASE block.last /\ checksum
      <4>1. shot' = [t EXCEPT !.status = "checksum"]
        BY <1>6, <2>1, <2>2, <2>4, <3>4 DEF ShotBlock, Alongside
      <4>2. ShotType'
        BY <4>1, <3>2 DEF PairInv, ShotType
      <4>3. /\ shot'.status = "checksum" /\ shot'.total = t.total /\ shot'.start = t.start
            /\ shot'.limit = t.limit /\ shot'.fcs = t.fcs /\ shot'.sum = t.sum
            /\ shot'.bad = t.bad
        BY <4>1, <1>6 DEF PairInv, ShotType
      <4>4. CASE SizeIsWrong(block.last, n)
        <5>1. shot'.fcs # NoSize /\ shot'.total - shot'.start # shot'.fcs
          BY <1>6, <2>1, <2>2, <4>3, <4>4 DEF SizeIsWrong, Alongside
        <5> QED
          BY <1>4, <4>2, <4>3, <4>4, <5>1 DEF Together
      <4>5. CASE ~SizeIsWrong(block.last, n)
        <5>1. Alongside'
          BY <1>2, <1>3, <1>6, <2>1, <4>3, <4>5 DEF Alongside
        <5>2. state' = "Checksum" /\ (size' # NoSize => frameBytes' = size')
          BY <1>3, <1>4, <3>1, <3>4, <4>5 DEF SizeIsWrong
        <5> QED
          BY <4>2, <4>3, <5>1, <5>2 DEF Together
      <4> QED
        BY <4>4, <4>5
    <3>5. CASE block.last /\ ~checksum
      <4>1. shot' = FrameEnd(t)
        BY <1>6, <2>1, <2>2, <2>4, <3>5 DEF ShotBlock, Alongside
      <4>2. CASE SizeIsWrong(block.last, n)
        <5>1. shot' = [t EXCEPT !.status = "failed"]
          BY <1>6, <2>1, <2>2, <4>1, <4>2 DEF FrameEnd, SizeIsWrong, Alongside
        <5> QED
          BY <1>4, <4>2, <5>1, <3>2 DEF PairInv, ShotType, Together
      <4>3. CASE ~SizeIsWrong(block.last, n)
        <5>1. shot' = [t EXCEPT !.status = "frames"]
          BY <1>6, <2>1, <2>2, <3>5, <4>1, <4>3 DEF FrameEnd, SizeIsWrong, Alongside
        <5>2. state' = "FrameHeader"
          BY <1>4, <3>1, <3>5, <4>3
        <5>3. ShotType' /\ shot'.status = "frames" /\ shot'.total = bytesOutput'
          BY <1>3, <1>6, <2>1, <3>2, <5>1 DEF PairInv, ShotType, Alongside
        <5> QED
          BY <5>2, <5>3 DEF Together
      <4> QED
        BY <4>2, <4>3
    <3> QED
      BY <3>3, <3>4, <3>5
  <2> QED
    BY <2>3, <2>4
<1> QED
  BY <1>1, <1>5, <1>6

LEMMA PairInvKept == PairInv /\ [PairNext]_<< vars, shot >> => PairInv'
<1> SUFFICES ASSUME PairInv, [PairNext]_<< vars, shot >> PROVE PairInv'
  OBVIOUS
<1>1. StreamInv'
  BY StreamInvKept, PairStepsStream DEF PairInv
<1>2. CASE UNCHANGED << vars, shot >>
  <2>1. UNCHANGED << shot, state, frameVars, frameBytes, bytesOutput, damaged >>
    BY <1>2 DEF vars, sourceVars
  <2>2. ShotType' /\ Together'
    BY <2>1 DEF PairInv, ShotType, Together, Alongside, Doomed, frameVars
  <2> QED
    BY <1>1, <2>2 DEF PairInv
<1>3. CASE PairFill
  <2>1. CASE (ReturnBytes \/ ReturnEnd \/ ReadFailed \/ SourceEnds \/ SkippableFrame) /\ UNCHANGED shot
    BY <1>1, <2>1, CallsTogether, 1 \in 1 .. MaxRead DEF PairInv
  <2>2. CASE SourceFails /\ shot' = ShotFails
    BY <1>1, <2>2, FailTogether DEF SourceFails, PairInv
  <2>3. ASSUME NEW w \in Windows \cup Sizes, NEW s \in Sizes \cup {NoSize},
               NEW single \in BOOLEAN, NEW sum \in BOOLEAN, NEW dictOk \in BOOLEAN,
               FrameHeader(w, s, single, sum, dictOk),
               shot' = ShotHeader(w, s, single, sum, dictOk)
        PROVE  PairInv'
    BY <1>1, <2>3, HeadersTogether DEF PairInv
  <2>4. ASSUME NEW kind \in Kinds, NEW n \in 0 .. MaxBlock + 1, NEW last \in BOOLEAN,
               BlockHeader(kind, n, last), shot' = ShotBlockHeader(kind, n)
        PROVE  PairInv'
    BY <1>1, <2>4, BlockHeadersTogether DEF PairInv
  <2>5. ASSUME NEW bad \in BOOLEAN, StoredBlock(bad),
               shot' = ShotBlock(block.size, block.last, bad)
        PROVE  PairInv'
    <3>1. block.size \in 0 .. MaxBlock
      BY DEF PairInv, StreamInv, TypeOK, Standing
    <3> QED
      BY <1>1, <2>5, <3>1, BlockTogether DEF StoredBlock, PairInv
  <2>6. ASSUME NEW n \in 0 .. MaxBlock, NEW bad \in BOOLEAN, CompressedBlock(n, bad),
               shot' = ShotBlock(n, block.last, bad)
        PROVE  PairInv'
    BY <1>1, <2>6, BlockTogether DEF CompressedBlock, PairInv
  <2>7. CASE Checksum /\ shot' = ShotChecksum
    BY <1>1, <2>7, ChecksumsTogether DEF PairInv
  <2> QED
    BY <1>3, <2>1, <2>2, <2>3, <2>4, <2>5, <2>6, <2>7 DEF PairFill
<1>4. CASE (\E n \in 1 .. MaxRead : ReadBuffered(n) \/ StartRead(n)) /\ UNCHANGED shot
  BY <1>1, <1>4, CallsTogether DEF PairInv
<1>5. CASE ReadAfterEnd /\ UNCHANGED shot
  BY <1>1, <1>5, CallsTogether, 1 \in 1 .. MaxRead DEF PairInv
<1>6. CASE Reset /\ shot' = NewShot
  <2>1. ShotType' /\ Together'
    BY <1>6 DEF Reset, NewShot, ShotType, Together
  <2> QED
    BY <1>1, <2>1 DEF PairInv
<1> QED
  BY <1>2, <1>3, <1>4, <1>5, <1>6 DEF PairNext

(* The invariant of both.                                                  *)
THEOREM PairInvariant == PairSpec => []PairInv
  BY InitPairInv, PairInvKept, PTL DEF PairSpec

(* Both decoders accept the same sources with as many bytes, and refuse    *)
(* the same.                                                               *)
THEOREM VerdictsAgree == PairSpec => []SameVerdict
<1>1. PairInv => SameVerdict
  BY DEF PairInv, StreamInv, TypeOK, Ledger, Standing, Together, SameVerdict
<1> QED
  BY <1>1, PairInvariant, PTL

(* Beside the one-shot decoder the streaming one keeps its properties.     *)
THEOREM PairStreams ==
  PairSpec => [](TypeOK /\ EndMeansComplete /\ WithinLimit /\ HistorySuffices /\ HistoryBounded)
<1>1. PairInv => TypeOK /\ EndMeansComplete /\ WithinLimit /\ HistorySuffices /\ HistoryBounded
  BY StreamTypes, StreamEnds, StreamLimits, StreamShows, StreamBounds DEF PairInv
<1> QED
  BY <1>1, PairInvariant, PTL
=============================================================================
