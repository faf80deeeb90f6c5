---------------------------- MODULE StreamEncoder ----------------------------
(***************************************************************************)
(* FrameEncoder: a Write that compresses what it is given, block by block. *)
(*                                                                         *)
(* Every call first sets the state to Failed and restores it only when     *)
(* everything succeeded, so that an error from the inner writer, or a      *)
(* panic in it, leaves the encoder unusable.  A call is therefore several  *)
(* steps here, one for each item the writer receives, and each of those    *)
(* may fail.                                                               *)
(*                                                                         *)
(* Bytes are counted, not represented.  Two things make the buffers more   *)
(* than counters: the window is compacted once it passes two windows,      *)
(* which renumbers every position in the match finder's tables, and the    *)
(* tables outlive the frame.  A table entry carries, beside its position,  *)
(* the byte it was stored for (a history variable).                        *)
(***************************************************************************)
EXTENDS SlidingWindow

CONSTANTS
  Window,         \* 1 << window_log
  MaxBlock,       \* MAX_BLOCK_SIZE
  SkipMin,        \* shortest block that skip_match_search looks at
  DictLens,       \* lengths of dictionary content; 0 is no dictionary
  TableNames,     \* hash_table, hash_long for DFast, and the tables of
  LongTables,     \* ldm_state, when the options ask for it
  MaxWrite,       \* bound on the bytes of one write call
  MaxFrameBytes,  \* bound on the bytes of one frame
  MaxFrames       \* bound on the frames of one encoder

ASSUME ConstantsAssumption ==
  /\ Window \in Nat \ {0}
  /\ MaxBlock \in Nat \ {0}
  /\ SkipMin \in Nat
  /\ DictLens \subseteq Nat
  /\ LongTables \subseteq TableNames
  /\ MaxWrite \in Nat
  /\ MaxFrameBytes \in Nat
  /\ MaxFrames \in Nat

VARIABLES
  dictLen,     \* length of the dictionary's content, fixed
  state,       \* EncoderState
  call,        \* the call in progress and where it is
  left,        \* bytes of a write call not yet buffered
  buffer,      \* buffer.len()
  headerWritten,
  firstBlock,
  window,      \* window_buf.len()
  base,        \* history: which byte of dictionary and frame window_buf starts at
  table,       \* the hash tables, one entry each
  search,      \* history: the last match search
  hashed,      \* bytes the hasher has seen
  wire,        \* history: what the writer of this frame received last
  written,     \* history: bytes in the blocks it received
  frames       \* frames begun

vars == << dictLen, state, call, left, buffer, headerWritten, firstBlock, window,
           base, table, search, hashed, wire, written, frames >>

(* block_size of write.                                                    *)
BlockSize == IF MaxBlock < Window THEN MaxBlock ELSE Window

NoByte == -1

(* A cleared entry reads as position 0 and stands for no byte.  Reset      *)
(* leaves entries that stand for no byte of the new frame.                 *)
Cleared == [pos |-> 0, byte |-> NoByte]
Entry   == [pos : Nat, byte : Nat \cup {NoByte}]

NoSearch == [from |-> 0, to |-> 0, cands |-> {}]

Calls ==
  {"none", "write.header", "write.fill", "write.block", "flush.block", "flush.inner",
   "finish.header", "finish.block", "finish.checksum",
   "reset.header", "reset.block", "reset.checksum", "reset.swap", "consumed"}

-----------------------------------------------------------------------------
(* Tables.                                                                 *)

(* reduce_hash_table, one entry.  (A plausible slip: it keeps what falls   *)
(* off.)                                                                   *)
ReducedKept(e, shift) == [e EXCEPT !.pos = IF e.pos < shift THEN e.pos ELSE e.pos - shift]
Reduced(e, shift) ==
  IF e.pos < shift THEN Cleared ELSE [e EXCEPT !.pos = e.pos - shift]

(* The hash tables a search from `plen` starts with: prefilled with        *)
(* dictionary positions (prefill_hash_table(s)), zeroed, or as they are.   *)
(* The long-distance table is neither filled nor zeroed there.             *)
SearchTables(plen) ==
  LET HashTables(entries) ==
        { [s \in TableNames |-> IF s \in LongTables THEN table[s] ELSE h[s]] :
            h \in [TableNames \ LongTables -> entries] }
  IN  IF firstBlock /\ dictLen > 0
      THEN HashTables({Cleared} \cup {[pos |-> p, byte |-> base + p] : p \in 0 .. plen - 1})
      ELSE IF plen = 0 THEN HashTables({Cleared})
      ELSE {table}

(* And those it may end with: any entry may now be a position of the      *)
(* block, which the search has passed.                                     *)
SearchedTables(t, plen, len) ==
  LET new == {[pos |-> p, byte |-> base + p] : p \in plen .. len - 1} IN
    {u \in [TableNames -> new \cup {t[s] : s \in TableNames}] :
       \A s \in TableNames : u[s] \in new \cup {t[s]}}

(* flush_block compacts once the window buffer passes two windows: it      *)
(* keeps one.  (A plausible slip: it keeps one block.)                     *)
ShiftToBlock(len) == IF len > 2 * Window THEN len - BlockSize ELSE 0
Shift(len) == CompactionShift(len, Window)

-----------------------------------------------------------------------------
(* The inner writer.                                                       *)

(* An item is written, or the writer fails: the call returns the error and *)
(* the state stays Failed.                                                 *)
Wrote(item, next) == wire' = item /\ call' = next
WriterFails == wire' = "torn" /\ call' = "none" /\ left' = 0

(* flush_block of a non-empty buffer: `next` is where the call goes on.    *)
FlushBlock(last, next) ==
  /\ buffer > 0
  /\ buffer' = 0
  /\ firstBlock' = FALSE
  /\ LET len   == window + buffer
         shift == Shift(len)
     IN
       /\ window' = len - shift
       /\ base' = base + shift
       /\ \/ /\ buffer >= SkipMin              \* skip_match_search
             /\ table' = [s \in TableNames |-> Reduced(table[s], shift)]
             /\ search' = NoSearch
          \/ \E t \in SearchTables(window) : \E u \in SearchedTables(t, window, len) :
               /\ search' = [from |-> window, to |-> len,
                             cands |-> {t[s].pos : s \in TableNames}]
               /\ table' = [s \in TableNames |-> Reduced(u[s], shift)]
  /\ \/ /\ Wrote(IF last THEN "checksum" ELSE "blocks", next)
        /\ written' = written + buffer
        /\ UNCHANGED left
     \/ WriterFails /\ UNCHANGED written
  /\ UNCHANGED << dictLen, state, headerWritten, hashed, frames >>

(* flush_block of an empty buffer at the end: an empty raw block.  (A      *)
(* plausible slip: an empty buffer always returns early.)                  *)
FlushEmptyLastDropped(next) ==
  /\ buffer = 0
  /\ call' = next
  /\ UNCHANGED << dictLen, state, left, buffer, headerWritten, firstBlock, window, base,
                  table, search, hashed, wire, written, frames >>

FlushEmptyLast(next) ==
  /\ buffer = 0
  /\ \/ Wrote("checksum", next) /\ UNCHANGED left
     \/ WriterFails
  /\ UNCHANGED << dictLen, state, buffer, headerWritten, firstBlock, window, base,
                  table, search, hashed, written, frames >>

-----------------------------------------------------------------------------
(* Calls.  A call on a Failed encoder returns an error and changes nothing.*)

Start(pc) ==
  /\ call = "none"
  /\ state = "Ready"
  /\ state' = "Failed"       \* until the call succeeds
  /\ call' = pc
  /\ UNCHANGED << dictLen, buffer, headerWritten, firstBlock, window, base, table,
                  search, hashed, wire, written, frames >>

StartWrite(n) ==
  /\ hashed + n <= MaxFrameBytes
  /\ Start("write.header")
  /\ left' = n

(* flush skips the block when nothing is buffered.  (A plausible slip: it  *)
(* waits for a full one.)                                                  *)
FlushEntryWhenFull == IF buffer >= BlockSize THEN "flush.block" ELSE "flush.inner"
FlushEntry == IF buffer > 0 THEN "flush.block" ELSE "flush.inner"

StartFlush ==
  /\ Start(FlushEntry)
  /\ UNCHANGED left

StartFinish ==
  /\ Start("finish.header")
  /\ UNCHANGED left

StartReset ==
  /\ frames < MaxFrames
  /\ Start("reset.header")
  /\ UNCHANGED left

Succeed == call' = "none" /\ state' = "Ready"

(* write_header, unless it was written; write then hashes its input.       *)
WriteHeader(pc, next) ==
  /\ call = pc
  /\ \/ /\ headerWritten /\ call' = next
        /\ UNCHANGED << left, wire >>
        /\ hashed' = hashed + left
     \/ /\ ~headerWritten /\ Wrote("blocks", next)
        /\ UNCHANGED left
        /\ hashed' = hashed + left
     \/ /\ ~headerWritten /\ WriterFails
        /\ UNCHANGED hashed
  /\ headerWritten' = (wire' # "torn")
  /\ UNCHANGED << dictLen, state, buffer, firstBlock, window, base, table, search,
                  written, frames >>

(* write: what one round of the copy loop takes.  (A plausible slip: the   *)
(* space left in the buffer is forgotten.)                                 *)
PortionWhole == IF BlockSize < left THEN BlockSize ELSE left
Portion == IF BlockSize - buffer < left THEN BlockSize - buffer ELSE left

FillBuffer ==
  /\ call = "write.fill"
  /\ left > 0
  /\ buffer' = buffer + Portion
  /\ left' = left - Portion
  /\ call' = IF buffer' >= BlockSize THEN "write.block" ELSE "write.fill"
  /\ UNCHANGED << dictLen, state, headerWritten, firstBlock, window, base, table,
                  search, hashed, wire, written, frames >>

WriteBlock == call = "write.block" /\ FlushBlock(FALSE, "write.fill")

EndWrite ==
  /\ call = "write.fill"
  /\ left = 0
  /\ Succeed
  /\ UNCHANGED << dictLen, left, buffer, headerWritten, firstBlock, window, base,
                  table, search, hashed, wire, written, frames >>

(* flush: the partial block, then the inner writer.                        *)
SyncBlock == call = "flush.block" /\ FlushBlock(FALSE, "flush.inner")

SyncInner ==
  /\ call = "flush.inner"
  /\ \/ Succeed /\ UNCHANGED << left, wire >>
     \/ WriterFails /\ UNCHANGED state
  /\ UNCHANGED << dictLen, buffer, headerWritten, firstBlock, window, base,
                  table, search, hashed, written, frames >>

(* finish_frame: the last block, the checksum, and then either the encoder *)
(* is consumed or, in reset, the next writer is installed.                 *)
LastBlock(pc, next) == call = pc /\ (FlushBlock(TRUE, next) \/ FlushEmptyLast(next))

WriteChecksum(pc, next) ==
  /\ call = pc
  /\ \/ Wrote("complete", next) /\ state' = "Finished" /\ UNCHANGED left
     \/ WriterFails /\ UNCHANGED state
  /\ UNCHANGED << dictLen, buffer, headerWritten, firstBlock, window, base, table,
                  search, hashed, written, frames >>

(* What reset makes of the hash tables: nothing.  Their entries stay and   *)
(* no longer stand for bytes of the frame to come.  The long-distance      *)
(* table is cleared.                                                       *)
TablesAfterReset ==
  [s \in TableNames |-> IF s \in LongTables THEN Cleared ELSE [table[s] EXCEPT !.byte = NoByte]]

SwapWriter ==
  /\ call = "reset.swap"
  /\ Succeed
  /\ wire' = "start" /\ written' = 0 /\ hashed' = 0
  /\ headerWritten' = FALSE
  /\ firstBlock' = (dictLen > 0)
  /\ window' = dictLen /\ base' = 0
  /\ table' = TablesAfterReset
  /\ search' = NoSearch
  /\ frames' = frames + 1
  /\ UNCHANGED << dictLen, left, buffer >>

-----------------------------------------------------------------------------
Init ==
  /\ dictLen \in DictLens
  /\ state = "Ready" /\ call = "none" /\ left = 0
  /\ buffer = 0 /\ headerWritten = FALSE
  /\ firstBlock = (dictLen > 0)
  /\ window = dictLen /\ base = 0
  /\ table = [s \in TableNames |-> Cleared]
  /\ search = NoSearch
  /\ hashed = 0 /\ wire = "start" /\ written = 0 /\ frames = 1

Next ==
  \/ \E n \in 0 .. MaxWrite : StartWrite(n)
  \/ StartFlush \/ StartFinish \/ StartReset
  \/ WriteHeader("write.header", "write.fill")
  \/ WriteHeader("finish.header", "finish.block")
  \/ WriteHeader("reset.header", "reset.block")
  \/ FillBuffer \/ WriteBlock \/ EndWrite
  \/ SyncBlock \/ SyncInner
  \/ LastBlock("finish.block", "finish.checksum")
  \/ LastBlock("reset.block", "reset.checksum")
  \/ WriteChecksum("finish.checksum", "consumed")
  \/ WriteChecksum("reset.checksum", "reset.swap")
  \/ SwapWriter

Spec == Init /\ [][Next]_vars

-----------------------------------------------------------------------------
(* Properties.                                                             *)

TypeOK ==
  /\ dictLen \in DictLens
  /\ state \in {"Ready", "Finished", "Failed"}
  /\ call \in Calls
  /\ left \in 0 .. MaxWrite
  /\ buffer \in 0 .. BlockSize
  /\ headerWritten \in BOOLEAN
  /\ firstBlock \in BOOLEAN
  /\ window \in Nat /\ base \in Nat
  /\ table \in [TableNames -> Entry]
  /\ search \in [from : Nat, to : Nat, cands : SUBSET Nat]
  /\ hashed \in Nat /\ written \in Nat
  /\ wire \in {"start", "blocks", "checksum", "complete", "torn"}
  /\ frames \in Nat

(* Compaction renumbers all tables with the window: a position stored      *)
(* during this frame still names the byte it was stored for.  The          *)
(* long-distance table, where 0 is empty, has no other positions.          *)
EntriesTrackWindow ==
  /\ \A s \in TableNames :
       table[s].byte # NoByte => table[s].byte = base + table[s].pos
  /\ \A s \in LongTables : table[s].byte = NoByte => table[s].pos = 0

(* The window buffer is the end of dictionary and frame, at least a window *)
(* of it and, once the first block is in, at most two.                     *)
WindowCoversHistory ==
  wire # "torn" =>
    /\ base + window = dictLen + written
    /\ base > 0 => window >= Window
    /\ written > 0 => window <= 2 * Window

(* Every byte is in exactly one place, and the blocks carry them in order  *)
(* under the checksum of what was given: see FrameWriter.                  *)
Abstract == INSTANCE FrameWriter WITH stage <- wire, given <- hashed
ImplementsFrameWriter == Abstract!Spec

(* When flush returns, the writer has every byte given so far.             *)
FlushDelivers ==
  [][call = "flush.inner" /\ state' = "Ready" => written = hashed]_vars

(* dfast.rs: "Table entries always lie behind the current position".  The  *)
(* first position searched is `from`, or 1 at the start of the input; only *)
(* candidates within a window of the end are looked at.                    *)
EntriesBehindSearch ==
  LET first == IF search.from = 0 THEN 1 ELSE search.from IN
    \A m \in search.cands : m >= search.to - Window => m < first
=============================================================================
