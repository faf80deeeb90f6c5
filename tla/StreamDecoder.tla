---------------------------- MODULE StreamDecoder ----------------------------
(***************************************************************************)
(* FrameDecoder: a Read over a stream of frames.                           *)
(*                                                                         *)
(* A read with nothing buffered runs fill_output, a loop over the decoder  *)
(* state that consumes one item of the source per round: a frame header or *)
(* skippable frame, a block header, a block, a checksum.  It stops when a  *)
(* block produced bytes, at the end of the source, or at an error.  What   *)
(* the source holds is not known in advance: every item is chosen when it  *)
(* is read, and so are damage, truncation and reader errors.               *)
(*                                                                         *)
(* Bytes are counted.  History variables record what the source really     *)
(* delivered, so that the properties can compare it with what the caller   *)
(* was told.                                                               *)
(***************************************************************************)
EXTENDS SlidingWindow

CONSTANTS
  MaxOutput,   \* max_output
  MaxBlock,    \* MAX_BLOCK_SIZE
  MaxWindow,   \* MAX_WINDOW_SIZE
  Windows,     \* window sizes a frame header may declare
  Sizes,       \* content sizes a frame header may declare
  DictLens,    \* lengths of dictionary content; 0 is no dictionary
  MaxRead,     \* bound on the length of the caller's buffer
  MaxItems,    \* bound on the items of one source
  MaxResets    \* bound on the sources of one decoder

ASSUME ConstantsAssumption ==
  /\ MaxOutput \in Nat /\ MaxBlock \in Nat \ {0} /\ MaxWindow \in Nat
  /\ Windows \subseteq Nat /\ Sizes \subseteq Nat /\ DictLens \subseteq Nat
  /\ MaxRead \in Nat \ {0} /\ MaxItems \in Nat /\ MaxResets \in Nat

VARIABLES
  dictLen,      \* length of the dictionary's content, fixed
  state,        \* State
  block,        \* the fields of State::BlockData
  output,       \* output_buf.len()
  pos,          \* output_pos
  checksum,     \* content_checksum
  size,         \* frame_content_size, NoSize if absent
  window,       \* window_size
  frameBytes,
  bytesOutput,
  history,      \* decode_history.len()
  want,         \* length of the buffer of the read in progress, 0 if none
  delivered,    \* history: bytes handed to the caller since reset
  content,      \* history: bytes of the blocks consumed since reset
  rest,         \* history: what the source still owes of the frame
  damaged,      \* history: a frame was not what its checksum or size says
  eof,          \* history: a read has returned 0
  items,        \* items consumed since reset
  resets

frameVars  == << checksum, size, window >>
sourceVars == << content, rest, damaged >>
vars == << dictLen, state, block, output, pos, frameVars, frameBytes, bytesOutput,
           history, want, delivered, sourceVars, eof, items, resets >>

NoSize == -1
States == {"FrameHeader", "BlockHeader", "BlockData", "Checksum", "Done", "Failed"}
Kinds  == {"Stored", "Compressed"}      \* Raw and Rle yield `size` bytes alike
NoBlock == [kind |-> "Stored", size |-> 0, last |-> FALSE]

LeastOf(a, b) == IF a < b THEN a ELSE b
MostOf(a, b)  == IF a > b THEN a ELSE b

-----------------------------------------------------------------------------
(* Calls.                                                                  *)

(* read copies what is buffered.                                           *)
Deliver(n) ==
  LET k == LeastOf(n, output - pos) IN
    /\ pos' = pos + k
    /\ delivered' = delivered + k

ReadBuffered(n) ==
  /\ want = 0
  /\ pos < output
  /\ Deliver(n)
  /\ UNCHANGED << dictLen, state, block, output, frameVars, frameBytes, bytesOutput,
                  history, want, sourceVars, eof, items, resets >>

(* Once Done, read returns 0 for good.                                     *)
ReadAfterEnd ==
  /\ want = 0
  /\ pos >= output
  /\ state = "Done"
  /\ eof' = TRUE
  /\ UNCHANGED << dictLen, state, block, output, pos, frameVars, frameBytes, bytesOutput,
                  history, want, delivered, sourceVars, items, resets >>

(* Otherwise it runs fill_output.                                          *)
StartRead(n) ==
  /\ want = 0
  /\ pos >= output
  /\ state # "Done"
  /\ output' = 0 /\ pos' = 0
  /\ want' = n
  /\ UNCHANGED << dictLen, state, block, frameVars, frameBytes, bytesOutput, history,
                  delivered, sourceVars, eof, items, resets >>

(* fill_output goes on while there is nothing to deliver and the source    *)
(* has not ended.                                                          *)
Filling == want > 0 /\ output = 0

(* It returned: bytes, or 0 at the end.                                    *)
ReturnBytes ==
  /\ want > 0
  /\ pos < output
  /\ Deliver(want)
  /\ want' = 0
  /\ UNCHANGED << dictLen, state, block, output, frameVars, frameBytes, bytesOutput,
                  history, sourceVars, eof, items, resets >>

(* (A plausible slip: only read looks at Done, before the loop.)           *)
EndSeenByReadOnly == FALSE
EndSeen == state = "Done"

ReturnEnd ==
  /\ Filling
  /\ EndSeen
  /\ want' = 0
  /\ eof' = TRUE
  /\ UNCHANGED << dictLen, state, block, output, pos, frameVars, frameBytes, bytesOutput,
                  history, delivered, sourceVars, items, resets >>

(* It failed: read drops the output and the decoder is Failed.             *)
Fail ==
  /\ output' = 0 /\ pos' = 0
  /\ state' = "Failed"
  /\ want' = 0
  /\ UNCHANGED << dictLen, block, delivered, eof, resets >>

ReadFailed ==
  /\ Filling
  /\ state = "Failed"
  /\ Fail
  /\ UNCHANGED << frameVars, frameBytes, bytesOutput, history, sourceVars, items >>

(* The reader fails, or ends inside an item: read_exact reports it.        *)
SourceFails ==
  /\ Filling
  /\ state \in {"FrameHeader", "BlockHeader", "BlockData", "Checksum"}
  /\ Fail
  /\ UNCHANGED << frameVars, frameBytes, bytesOutput, history, sourceVars, items >>

(* One item is consumed and the call goes on.                              *)
Consume ==
  /\ Filling
  /\ items < MaxItems
  /\ items' = items + 1
Continue == UNCHANGED << dictLen, want, delivered, eof, resets >>

-----------------------------------------------------------------------------
(* read_frame_header.                                                      *)

(* The source ends before the first byte of a header.                      *)
SourceEnds ==
  /\ Filling
  /\ state = "FrameHeader"
  /\ state' = "Done"
  /\ UNCHANGED << block, output, pos, frameVars, frameBytes, bytesOutput, history,
                  sourceVars, items >>
  /\ Continue

SkippableFrame ==
  /\ Consume
  /\ state = "FrameHeader"
  /\ UNCHANGED << state, block, output, pos, frameVars, frameBytes, bytesOutput,
                  history, sourceVars >>
  /\ Continue

(* A header that names another dictionary, a window past the maximum       *)
(* without a single segment, or a size past the limit is refused.          *)
HeaderRefused(w, s, single, dictOk) ==
  \/ ~dictOk
  \/ w > MaxWindow /\ ~single
  \/ s # NoSize /\ s > MaxOutput

(* A single segment's window is its content size.                          *)
FrameHeader(w, s, single, sum, dictOk) ==
  /\ Consume
  /\ state = "FrameHeader"
  /\ single => s # NoSize /\ w = s
  /\ rest' = "blocks"
  /\ IF HeaderRefused(w, s, single, dictOk)
     THEN /\ Fail
          /\ UNCHANGED << frameVars, frameBytes, bytesOutput, history, content, damaged >>
     ELSE /\ window' = LeastOf(w, MaxWindow)
          /\ size' = s
          /\ checksum' = sum
          /\ frameBytes' = 0
          /\ history' = dictLen
          /\ state' = "BlockHeader"
          /\ UNCHANGED << block, output, pos, bytesOutput, content, damaged >>
          /\ Continue

(* read_block_header.  (The size of a compressed block plays no part: what *)
(* matters is what it decodes to.)                                         *)
(* (A plausible slip: Raw and Rle blocks of any size are accepted.)        *)
BlockTooLargeNever(kind, n) == FALSE
BlockTooLarge(kind, n) == kind = "Stored" /\ n > MaxBlock

BlockHeader(kind, n, last) ==
  /\ Consume
  /\ state = "BlockHeader"
  /\ kind = "Compressed" => n = 0
  /\ IF BlockTooLarge(kind, n)
     THEN Fail
     ELSE /\ state' = "BlockData"
          /\ block' = [kind |-> kind, size |-> n, last |-> last]
          /\ UNCHANGED << output, pos >>
          /\ Continue
  /\ UNCHANGED << frameVars, frameBytes, bytesOutput, history, sourceVars >>

-----------------------------------------------------------------------------
(* read_block_data.                                                        *)

(* decode_compressed_block hands the sequences the last window bytes of    *)
(* the history, or all of it until the frame has a full window.  (A        *)
(* plausible slip: the dictionary is forgotten with the first block.)      *)
HistoryStartEarly ==
  IF frameBytes > 0 THEN MostOf(history - window, 0) ELSE 0
HistoryStart == ShownFrom(history, frameBytes, window)
Visible == history - HistoryStart

(* append_history: two windows are kept before one is dropped.  (A         *)
(* plausible slip: the length is taken before the block is appended.)      *)
AppendedLate(n) ==
  IF frameBytes + n >= window /\ history > 2 * window THEN window ELSE history + n
Appended(n) == Kept(history + n, frameBytes + n, window)

(* The limit is on all frames of a source together.  (A plausible slip: on *)
(* each frame.)                                                            *)
OverLimitPerFrame(n) == frameBytes + n > MaxOutput
OverLimit(n) == bytesOutput + n > MaxOutput

(* What the source owes after a block, and after the last one whether the  *)
(* frame had the declared size.                                            *)
RestAfter(last) == IF ~last THEN "blocks" ELSE IF checksum THEN "checksum" ELSE "nothing"
SizeIsWrong(last, n) == last /\ size # NoSize /\ frameBytes + n # size

(* A block of n bytes is decoded; `bad` if they are not the frame's.       *)
BlockDecoded(n, bad) ==
  /\ content' = content + n
  /\ rest' = RestAfter(block.last)
  /\ damaged' = (damaged \/ (bad /\ checksum) \/ SizeIsWrong(block.last, n))
  /\ bytesOutput' = bytesOutput + n
  /\ frameBytes' = frameBytes + n
  /\ IF OverLimit(n)
     THEN Fail /\ UNCHANGED history
     ELSE /\ history' = IF window > 0 THEN Appended(n) ELSE history
          /\ IF SizeIsWrong(block.last, n)
             THEN Fail
             ELSE /\ output' = n /\ pos' = 0
                  /\ state' = IF ~block.last THEN "BlockHeader"
                              ELSE IF checksum THEN "Checksum" ELSE "FrameHeader"
                  /\ UNCHANGED block
                  /\ Continue
  /\ UNCHANGED frameVars

StoredBlock(bad) ==
  /\ Consume
  /\ state = "BlockData"
  /\ block.kind = "Stored"
  /\ BlockDecoded(block.size, bad)

(* A compressed block yields any number of bytes up to a full block.       *)
CompressedBlock(n, bad) ==
  /\ Consume
  /\ state = "BlockData"
  /\ block.kind = "Compressed"
  /\ BlockDecoded(n, bad)

(* read_checksum.  (A plausible slip: a mismatch is let through.)          *)
ChecksumAcceptsAll == TRUE
ChecksumAccepts == ~damaged

Checksum ==
  /\ Consume
  /\ state = "Checksum"
  /\ rest' = "nothing"
  /\ IF ChecksumAccepts
     THEN /\ state' = "FrameHeader"
          /\ UNCHANGED << block, output, pos >>
          /\ Continue
     ELSE Fail
  /\ UNCHANGED << frameVars, frameBytes, bytesOutput, history, content, damaged >>

(* reset, between two reads.                                               *)
Reset ==
  /\ want = 0
  /\ resets < MaxResets
  /\ resets' = resets + 1
  /\ state' = "FrameHeader" /\ block' = NoBlock
  /\ output' = 0 /\ pos' = 0
  /\ checksum' = FALSE /\ size' = NoSize /\ window' = 0
  /\ frameBytes' = 0 /\ bytesOutput' = 0 /\ history' = 0
  /\ delivered' = 0 /\ content' = 0 /\ rest' = "nothing" /\ damaged' = FALSE
  /\ eof' = FALSE /\ items' = 0
  /\ UNCHANGED << dictLen, want >>

-----------------------------------------------------------------------------
Init ==
  /\ dictLen \in DictLens
  /\ state = "FrameHeader" /\ block = NoBlock
  /\ output = 0 /\ pos = 0
  /\ checksum = FALSE /\ size = NoSize /\ window = 0
  /\ frameBytes = 0 /\ bytesOutput = 0 /\ history = 0
  /\ want = 0 /\ delivered = 0 /\ content = 0 /\ rest = "nothing" /\ damaged = FALSE
  /\ eof = FALSE /\ items = 0 /\ resets = 0

Fill ==
  \/ ReturnBytes \/ ReturnEnd \/ ReadFailed \/ SourceFails \/ SourceEnds
  \/ SkippableFrame
  \/ \E w \in Windows \cup Sizes, s \in Sizes \cup {NoSize},
        single, sum, dictOk \in BOOLEAN : FrameHeader(w, s, single, sum, dictOk)
  \/ \E kind \in Kinds, n \in 0 .. MaxBlock + 1, last \in BOOLEAN :
       BlockHeader(kind, n, last)
  \/ \E bad \in BOOLEAN : StoredBlock(bad)
  \/ \E n \in 0 .. MaxBlock, bad \in BOOLEAN : CompressedBlock(n, bad)
  \/ Checksum

Next ==
  \/ \E n \in 1 .. MaxRead : ReadBuffered(n) \/ StartRead(n)
  \/ ReadAfterEnd
  \/ Fill
  \/ Reset

(* A call in progress runs on: fill_output is a plain loop.                *)
Spec == Init /\ [][Next]_vars /\ WF_vars(Fill)

-----------------------------------------------------------------------------
(* Properties.                                                             *)

TypeOK ==
  /\ dictLen \in DictLens
  /\ state \in States
  /\ block \in [kind : Kinds, size : Nat, last : BOOLEAN]
  /\ output \in 0 .. MaxBlock
  /\ pos \in 0 .. output
  /\ checksum \in BOOLEAN /\ size \in Sizes \cup {NoSize} /\ window \in 0 .. MaxWindow
  /\ frameBytes \in Nat /\ bytesOutput \in Nat /\ history \in Nat
  /\ want \in 0 .. MaxRead
  /\ delivered \in Nat /\ content \in Nat
  /\ rest \in {"nothing", "blocks", "checksum"}
  /\ damaged \in BOOLEAN /\ eof \in BOOLEAN
  /\ items \in Nat /\ resets \in Nat

(* A read returns 0 only when every frame begun is complete, had the size  *)
(* it declared and the content its checksum says, and all of it was        *)
(* delivered.                                                              *)
EndMeansComplete ==
  eof => rest = "nothing" /\ ~damaged /\ delivered = content

(* The caller never holds more than the limit, over all frames, and never  *)
(* a byte of a block that was refused.                                     *)
WithinLimit ==
  /\ delivered + (output - pos) <= MaxOutput
  /\ state # "Failed" => delivered + (output - pos) = content

(* A compressed block sees at least a window of what came before it (all   *)
(* of it, with the dictionary, while the frame is shorter than that) and   *)
(* never more than the window after that.                                  *)
HistorySuffices ==
  state = "BlockData" /\ window > 0 =>
    IF frameBytes < window THEN Visible = dictLen + frameBytes
    ELSE Visible = window

(* append_history's `most`, "the most the history can hold", leaves room   *)
(* for one more block.                                                     *)
HistoryBounded ==
  state = "BlockData" /\ window > 0 =>
    history <= MostOf(2 * window, dictLen + window)

(* Every read returns.                                                     *)
ReadsReturn == want > 0 ~> want = 0
=============================================================================
