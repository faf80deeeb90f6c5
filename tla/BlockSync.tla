------------------------------ MODULE BlockSync ------------------------------
(***************************************************************************)
(* The coding state an encoder and a decoder must keep in step.            *)
(*                                                                         *)
(* A zstd block may refer to earlier blocks in three ways: a treeless      *)
(* literals section uses the last Huffman table, repeat mode uses the last *)
(* sequence tables, and an offset value of 1..3 names a recent offset.     *)
(* The encoder therefore mirrors the decoder in BlockEncodeWorkspace       *)
(* (prev_huffman, prev_ll/of/ml) and in rep_offsets.  The hazard is that   *)
(* the encoder commits state for a block and then emits something else:    *)
(* every compressed block may still fall back to a raw one, a frame may be *)
(* abandoned half way, and the workspace outlives the frame.               *)
(*                                                                         *)
(* One encoder and one decoder; a block is in flight between them.  Tables *)
(* are abstract values.  prev_ll, prev_of and prev_ml are only ever used   *)
(* together (has_repeat), so they are one value here.                      *)
(***************************************************************************)
EXTENDS RepOffsets, Sequences

CONSTANTS
  Tables,        \* tables a block can describe
  DictTable,     \* the table a dictionary carries
  Predefined,    \* the format's predefined sequence tables
  NoTable,       \* None, or a table whose *_set / huf_valid flag is off
  PlainHistory,  \* <<1, 4, 8>> in the code
  DictHistory,   \* the dictionary's repeat offsets
  MatchOffsets,  \* offsets the match finder returns
  MaxSeqs        \* bound on the sequences of one block

ASSUME ConstantsAssumption ==
  /\ PlainHistory \in History
  /\ DictHistory \in History
  /\ MatchOffsets \subseteq Offset
  /\ MaxSeqs \in Nat
  /\ NoTable \notin Tables \cup {DictTable, Predefined}

VARIABLES
  owner,     \* whose workspace this is: a FrameEncoder or a CompressContext
  rawMode,   \* params.force_raw_literals, fixed for a frame
  enc,       \* encoder: rep_offsets, prev_huffman, prev_ll/of/ml
  dec,       \* decoder: rep_offsets, huf_table, sequence tables
  phase,     \* where the pair is, see Phases
  saved,     \* saved_rep of the block being encoded
  ops,       \* packed_seqs of the block being encoded or in flight
  block,     \* the block in flight
  decoded,   \* offsets the decoder has computed for the block in flight
  decRep     \* SeqDecoder.rep, committed only when the block ends

vars == << owner, rawMode, enc, dec, phase, saved, ops, block, decoded, decRep >>

Owners == {"stream", "context"}
Phases == {"outside", "between", "packing", "sent", "decoding", "rejected"}

AllTables == Tables \cup {DictTable, Predefined, NoTable}

CodingState == [reps : History, huf : AllTables, seq : AllTables]

(* A packed sequence: what is sent (ov, noLits), and the history variables *)
(* off, before and after that say what the encoder meant.                  *)
PackedSeq ==
  [ ov : 1 .. (Word - 1), noLits : BOOLEAN, off : Offset,
    before : History, after : History ]

(* lit and mode are the section headers; huf and seq the tables the        *)
(* sections were coded with, present in the block when lit is "fresh" or   *)
(* mode is "custom".                                                       *)
RawBlock == [kind |-> "raw", lit |-> "raw", huf |-> NoTable,
             mode |-> "none", seq |-> NoTable]

Block ==
  [ kind : {"raw", "compressed"}, lit : {"raw", "fresh", "treeless"},
    huf : AllTables, mode : {"none", "predefined", "custom", "repeat"},
    seq : AllTables ]

(* What is local to encoding or decoding one block ends with it.           *)
BlockDone ==
  /\ saved' = PlainHistory
  /\ ops' = << >>
  /\ block' = RawBlock
  /\ decoded' = << >>
  /\ decRep' = PlainHistory

-----------------------------------------------------------------------------
(* Frame start.                                                            *)

(* The decoder's side of every frame header: without a dictionary nothing  *)
(* can be repeated, with one its tables and offsets are in force.          *)
DecoderAtFrameStart(dict) ==
  IF dict THEN [reps |-> DictHistory, huf |-> DictTable, seq |-> DictTable]
          ELSE [reps |-> PlainHistory, huf |-> NoTable, seq |-> NoTable]

(* A plausible slip: reset keeps the Huffman table of the last frame.      *)
StreamWorkspaceKept(dict) ==
  [ reps |-> IF dict THEN DictHistory ELSE PlainHistory,
    huf |-> enc.huf, seq |-> enc.seq ]

(* FrameEncoder: from_params builds a fresh workspace and reset clears     *)
(* prev_huffman; neither touches prev_ll/of/ml.                            *)
StreamWorkspace(dict) ==
  [ reps |-> IF dict THEN DictHistory ELSE PlainHistory,
    huf |-> NoTable, seq |-> enc.seq ]

(* A plausible slip: a frame without a dictionary keeps the tables.        *)
ContextWorkspacesKept(dict) ==
  IF dict
  THEN [reps : {DictHistory}, huf : {DictTable, NoTable}, seq : {DictTable, NoTable}]
  ELSE [reps : {PlainHistory}, huf : {enc.huf}, seq : {enc.seq}]

(* CompressContext: every entry point assigns all four tables.  A table    *)
(* that cannot be used for encoding, or a frame that keeps raw literals,   *)
(* leaves None; compress_core clears all four when the prefix is empty.    *)
ContextWorkspaces(dict) ==
  IF dict
  THEN [reps : {DictHistory}, huf : {DictTable, NoTable}, seq : {DictTable, NoTable}]
  ELSE [reps : {PlainHistory}, huf : {NoTable}, seq : {NoTable}]

StartFrame(dict, raw) ==
  /\ phase = "outside"
  /\ \/ owner = "stream"  /\ enc' = StreamWorkspace(dict)
     \/ owner = "context" /\ enc' \in ContextWorkspaces(dict)
  /\ dec' = DecoderAtFrameStart(dict)
  /\ owner = "stream" => raw = rawMode   \* only a context has set_level
  /\ rawMode' = raw
  /\ phase' = "between"
  /\ UNCHANGED << owner, saved, ops, block, decoded, decRep >>

-----------------------------------------------------------------------------
(* Encoder.                                                                *)

(* encode_literals_section: the literals are left raw and the table is     *)
(* dropped, the previous table is reused, or a fresh one is described.     *)
(* Each result is the section's header, its table and prev_huffman after.  *)
LiteralsSections(huf) ==
  {[lit |-> "raw", huf |-> NoTable, prev |-> NoTable]}
  \cup {[lit |-> "treeless", huf |-> t, prev |-> t] : t \in {huf} \ {NoTable}}
  \cup {[lit |-> "fresh", huf |-> t, prev |-> t] : t \in Tables}

(* The sequence section: predefined tables always work, custom ones need   *)
(* policy.custom_tables and 64 sequences, repeat mode needs all three.     *)
SequenceSections(seq) ==
  {[mode |-> "predefined", seq |-> Predefined]}
  \cup {[mode |-> "custom", seq |-> t] : t \in Tables}
  \cup {[mode |-> "repeat", seq |-> t] : t \in {seq} \ {NoTable}}

Send(b, packed) ==
  /\ block' = b
  /\ ops' = packed
  /\ phase' = "sent"
  /\ UNCHANGED << owner, rawMode, dec, decoded, decRep >>

(* skip_match_search: the block is stored raw before any search.           *)
SkipSearch ==
  /\ phase = "between"
  /\ Send(RawBlock, << >>)
  /\ UNCHANGED << enc, saved >>

(* encode_literals_only_block, taken when there are no sequences or they   *)
(* save too little.  Falling back to a raw block forgets the table the     *)
(* decoder never saw.                                                      *)
PrevAfterLiteralsFallbackKept(s) == s.prev     \* a plausible slip
PrevAfterLiteralsFallback(s) == NoTable

EncodeLiteralsOnly ==
  /\ phase = "between"
  /\ ~rawMode
  /\ \E s \in LiteralsSections(enc.huf) :
       \/ /\ s.lit # "raw"
          /\ Send([kind |-> "compressed", lit |-> s.lit, huf |-> s.huf,
                   mode |-> "none", seq |-> NoTable], << >>)
          /\ enc' = [enc EXCEPT !.huf = s.prev]
       \/ /\ Send(RawBlock, << >>)
          /\ enc' = [enc EXCEPT !.huf = PrevAfterLiteralsFallback(s)]
  /\ UNCHANGED saved

(* encode_compressed_block_raw without useful sequences.                   *)
StoreUnmatched ==
  /\ phase = "between"
  /\ rawMode
  /\ Send(RawBlock, << >>)
  /\ UNCHANGED << enc, saved >>

(* pack_sequences_and_literals, one sequence at a time: the first one also *)
(* takes saved_rep.                                                        *)
PackSequence(off, noLits) ==
  /\ phase \in {"between", "packing"}
  /\ IF phase = "between"
     THEN saved' = enc.reps /\ ops' = << [ov |-> OffsetValue(enc.reps, off, noLits),
             noLits |-> noLits, off |-> off, before |-> enc.reps,
             after |-> PackedHistory(enc.reps, off, noLits)] >>
     ELSE /\ Len(ops) < MaxSeqs
          /\ UNCHANGED saved
          /\ ops' = Append(ops, [ov |-> OffsetValue(enc.reps, off, noLits),
               noLits |-> noLits, off |-> off, before |-> enc.reps,
               after |-> PackedHistory(enc.reps, off, noLits)])
  /\ enc' = [enc EXCEPT !.reps = PackedHistory(enc.reps, off, noLits)]
  /\ phase' = "packing"
  /\ UNCHANGED << owner, rawMode, dec, block, decoded, decRep >>

(* encode_compressed_block after packing: literals, sequences, and the     *)
(* comparison with the raw size.  prev_ll/of/ml are cleared either way.    *)
(* (A plausible slip: they survive the first block.)                       *)
WorkspaceAfterBlockKept(s) == [reps |-> enc.reps, huf |-> s.prev, seq |-> enc.seq]
WorkspaceAfterBlock(s) == [reps |-> enc.reps, huf |-> s.prev, seq |-> NoTable]
WorkspaceAfterFallback == [reps |-> saved, huf |-> NoTable, seq |-> NoTable]

EncodeBlock ==
  /\ phase = "packing"
  /\ ~rawMode
  /\ \E s \in LiteralsSections(enc.huf), q \in SequenceSections(enc.seq) :
       \/ /\ Send([kind |-> "compressed", lit |-> s.lit, huf |-> s.huf,
                   mode |-> q.mode, seq |-> q.seq], ops)
          /\ enc' = WorkspaceAfterBlock(s)
       \/ /\ Send(RawBlock, << >>)
          /\ enc' = WorkspaceAfterFallback
  /\ UNCHANGED saved

(* encode_compressed_block_raw after packing: raw literals, predefined     *)
(* tables; the fallback restores the history and no table was touched.     *)
EncodeBlockRaw ==
  /\ phase = "packing"
  /\ rawMode
  /\ \/ /\ Send([kind |-> "compressed", lit |-> "raw", huf |-> NoTable,
                 mode |-> "predefined", seq |-> Predefined], ops)
        /\ UNCHANGED enc
     \/ /\ Send(RawBlock, << >>)
        /\ enc' = [enc EXCEPT !.reps = saved]
  /\ UNCHANGED saved

-----------------------------------------------------------------------------
(* Decoder.                                                                *)

DecodeRawBlock ==
  /\ phase = "sent"
  /\ block.kind = "raw"
  /\ phase' = "between"
  /\ BlockDone
  /\ UNCHANGED << owner, rawMode, enc, dec >>

(* decode_literals_ws and parse_sequence_tables_ws.  A treeless section    *)
(* needs huf_valid, repeat mode needs the *_set flags.                     *)
ReferencesMissing ==
  \/ block.lit = "treeless" /\ dec.huf = NoTable
  \/ block.mode = "repeat" /\ dec.seq = NoTable

DecodeSections ==
  /\ phase = "sent"
  /\ block.kind = "compressed"
  /\ IF ReferencesMissing
     THEN phase' = "rejected" /\ UNCHANGED << dec, decoded, decRep >>
     ELSE /\ phase' = "decoding"
          /\ dec' = [reps |-> dec.reps,
                     huf |-> IF block.lit = "fresh" THEN block.huf ELSE dec.huf,
                     seq |-> IF block.mode \in {"predefined", "custom"}
                             THEN block.seq ELSE dec.seq]
          /\ decRep' = dec.reps
          /\ decoded' = << >>
  /\ UNCHANGED << owner, rawMode, enc, saved, ops, block >>

(* SeqDecoder::decode, one sequence.                                       *)
DecodeSequence ==
  /\ phase = "decoding"
  /\ Len(decoded) < Len(ops)
  /\ LET op == ops[Len(decoded) + 1] IN
       /\ decoded' = Append(decoded, ComputeOffset(decRep, op.ov, op.noLits))
       /\ decRep' = ComputedHistory(decRep, op.ov, op.noLits)
  /\ UNCHANGED << owner, rawMode, enc, dec, phase, saved, ops, block >>

(* run_sequences writes the offsets back once the whole block decoded.     *)
CommittedHistoryForgotten == dec.reps          \* a plausible slip
CommittedHistory == decRep

FinishBlock ==
  /\ phase = "decoding"
  /\ Len(decoded) = Len(ops)
  /\ dec' = [dec EXCEPT !.reps = CommittedHistory]
  /\ phase' = "between"
  /\ BlockDone
  /\ UNCHANGED << owner, rawMode, enc >>

EndFrame ==
  /\ phase = "between"
  /\ phase' = "outside"
  /\ UNCHANGED << owner, rawMode, enc, dec, saved, ops, block, decoded, decRep >>

(* CompressContext::compress_into: the output slice is full, the error     *)
(* leaves the frame half written and the workspace as it was.  (A          *)
(* FrameEncoder refuses further use after an error.)                       *)
AbortFrame ==
  /\ owner = "context"
  /\ phase \in {"between", "packing", "sent", "decoding"}
  /\ phase' = "outside"
  /\ BlockDone
  /\ UNCHANGED << owner, rawMode, enc, dec >>

-----------------------------------------------------------------------------
Init ==
  /\ owner \in Owners
  /\ rawMode \in BOOLEAN
  /\ enc = [reps |-> PlainHistory, huf |-> NoTable, seq |-> NoTable]
  /\ dec = DecoderAtFrameStart(FALSE)
  /\ phase = "outside"
  /\ saved = PlainHistory
  /\ ops = << >>
  /\ block = RawBlock
  /\ decoded = << >>
  /\ decRep = PlainHistory

Next ==
  \/ \E dict, raw \in BOOLEAN : StartFrame(dict, raw)
  \/ SkipSearch
  \/ EncodeLiteralsOnly
  \/ StoreUnmatched
  \/ \E off \in MatchOffsets, noLits \in BOOLEAN : PackSequence(off, noLits)
  \/ EncodeBlock
  \/ EncodeBlockRaw
  \/ DecodeRawBlock
  \/ DecodeSections
  \/ DecodeSequence
  \/ FinishBlock
  \/ EndFrame
  \/ AbortFrame

Spec == Init /\ [][Next]_vars

-----------------------------------------------------------------------------
(* Properties.                                                             *)

(* Types.  In particular every offset value fits the word it is sent in,   *)
(* and no history ever holds a zero offset (assert_rep_valid panics on     *)
(* one).                                                                   *)
TypeOK ==
  /\ owner \in Owners
  /\ rawMode \in BOOLEAN
  /\ enc \in CodingState
  /\ dec \in CodingState
  /\ phase \in Phases
  /\ saved \in History
  /\ ops \in Seq(PackedSeq)
  /\ block \in Block
  /\ decoded \in Seq(Nat)
  /\ decRep \in History

(* Between two blocks the decoder's history is the encoder's, and every    *)
(* table the encoder may still refer to is the decoder's, whatever the     *)
(* blocks so far fell back to.  (A frame of raw literals refers to none:   *)
(* encode_compressed_block_raw leaves the dictionary's tables in the       *)
(* workspace while the decoder moves on to predefined ones.)               *)
InStep ==
  phase = "between" =>
    /\ dec.reps = enc.reps
    /\ ~rawMode /\ enc.huf # NoTable => dec.huf = enc.huf
    /\ ~rawMode /\ enc.seq # NoTable => dec.seq = enc.seq

(* The decoder reads each section with the table it was written with; a    *)
(* treeless or repeat section never resolves to another table.             *)
SameTables ==
  phase = "decoding" =>
    /\ block.lit # "raw" => dec.huf = block.huf
    /\ block.mode # "none" => dec.seq = block.seq

(* Every offset comes back as the match finder meant it.                   *)
OffsetsSurvive ==
  \A i \in 1 .. Len(decoded) : i <= Len(ops) /\ decoded[i] = ops[i].off

(* No block of this encoder refers to a table the decoder lacks.           *)
NeverRejected == phase # "rejected"

=============================================================================
