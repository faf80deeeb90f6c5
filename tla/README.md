# zrip, verified

TLA+ models of zrip (a zstd codec in Rust), model-checked with TLC, with
proofs that TLAPS checks. The models follow `src/crates/{core,encode,decode}`;
`PROJECT.json` maps every definition to the lines it stands for.

    tlc -config MCBlockSync.cfg MCBlockSync      # any run below
    tlapm BlockProofs.tla                        # any *Proofs module

## 1. The system

zrip compresses and decompresses zstd frames, in one call, with a reusable
context, or as a stream. Nothing runs concurrently and nothing is persisted.
What is hard is *state that outlives the step that made it*: an encoder that
mirrors the decoder it will never meet, workspaces and tables reused across
blocks, frames and errors, positions that are renumbered under the tables that
hold them, and calls that fail half way. And what is hard are *algorithms that
exist several times*: an encoder's and a decoder's half, a plain and a fast form, a
core's and a block encoder's copy, which have to agree at every boundary of a
table, a field or a buffer.

### Components

| component | source | state it keeps | operations |
|---|---|---|---|
| Block encoding | `encode/src/block_encoder.rs` | `BlockEncodeWorkspace`: `prev_huffman`, `prev_ll/of/ml`; `rep_offsets` | encode a block, fall back to literals only or to raw, pack sequences |
| Streaming encoder | `encode/src/streaming.rs` `FrameEncoder` | `EncoderState`, input buffer, window buffer, hash tables, long-distance table, hasher, header flag | `write`, `flush`, `finish`, `reset` |
| One-shot compression, contexts | `encode/src/lib.rs`, `context.rs` | hash tables, workspace, prepared dictionary | `compress*`, `CompressContext::*` |
| Position rebasing | `encode/src/rebase.rs` | `PositionBase` | `advance`, `reduce_hash_table` |
| Match finders | `encode/src/fast.rs`, `dfast.rs` | none beyond the tables given | search a block |
| Long distance matching | `encode/src/ldm.rs` | bucket table, rolling hash | generate, reduce, reset |
| Adaptive level | `encode/src/adaptive.rs` | ladder index, recent samples, pending probe, limits | `update` once per window |
| Streaming decoder | `decode/src/streaming.rs` `FrameDecoder` | `State`, output buffer, history, limits, hasher | `read`, `reset` |
| One-shot decompression | `decode/src/lib.rs`, `context.rs` | workspace | `decompress*`, `DecompressContext::*` |
| Decoder workspace | `decode/src/lib.rs`, `literals.rs`, `sequences.rs` | Huffman table, pair table, weights and header caches; sequence tables and their cache | decode literals, parse sequence tables, frame start and end |
| Repeat offsets | `block_encoder.rs`, `sequences.rs`, `exec.rs` | three recent offsets on both sides | choose and resolve an offset code |
| Entropy coders | `core/src/{bitstream,fse,huffman}`, `block_encoder.rs`, `exec.rs` | none (pure); bit containers | normalise, describe, build tables, code and decode streams |
| Headers | `core/src/{frame,block}`, `encode/src/lib.rs`, `literals.rs` | none (pure) | write and parse |
| Sequence execution | `decode/src/exec.rs`, `fast_vec.rs` | the output buffer of a block | decode a sequence, copy literals and matches |
| Dictionaries | `core/src/dict/*` | none | parse, train, finalise |
| Checksum | `core/src/xxhash` | 64-bit accumulators | update, finish |

### How they interact

`FrameEncoder`, `compress*` and `CompressContext` cut the input into blocks, let
a match finder fill sequences from hash tables they own, and hand them to the
block encoder, which decides what is sent and updates the workspace. A dictionary
installs tables and offsets at frame start on both sides. The decoders read what
the encoder wrote, block by block; the only channel between the two is the
frame, so everything a block *refers to* instead of *carrying* (Huffman table,
sequence tables, recent offsets, history bytes) must be equal on both sides by
construction. `FrameDecoder` and the one-shot decoders share the workspace code,
and have a frame loop each.

### What makes each correct

* **Block encoding.** Whatever a block falls back to, the decoder has the tables
  and the offsets that the next block may refer to.
* **Repeat offsets.** The decoder's case split inverts the encoder's, for every
  history, including wrap-around and the no-literals shift.
* **Contexts.** A call sees nothing of the calls before it: tables of its size,
  its own dictionary, no other entry.
* **Streaming encoder.** The writer receives whole frames or one torn frame and
  nothing behind it; `flush` delivers; table positions move with the window;
  no frame searches with another frame's entries.
* **Entropy coders, headers, dictionaries, sequence sections.** The decoder's half
  is the inverse of the encoder's, in each of its forms.
* **Match finders, long-distance matching, execution.** The sequences found in a
  block, executed, are the block, and no copy leaves its buffer.
* **One-shot decoder.** It accepts what `FrameDecoder` accepts.
* **Streaming decoder.** An end is reported only behind complete frames; the
  output limit is over all frames; every block sees its history; a read returns.
* **Decoder workspace.** What was decoded before, and how it failed, does not
  change which table a section is decoded with.
* **Rebasing.** Moving the base changes neither what fits nor what is found.
* **Adaptive level.** A step that hurt is not repeated early; walks end; the
  level rests on the best one measured.

The hazards are listed line by line in `PROJECT.json`, with the properties that
cover each.

## 2. Modules

| module | models | abstract / proofs |
|---|---|---|
| `RepOffsets` | offset codes of `pack_sequences_and_literals`, `compute_offset` and `SeqDecoder::decode`, as pure operators | `BlockProofs` |
| `BlockSync` | encoder workspace and decoder tables with one block in flight; uses `RepOffsets` | `BlockProofs` |
| `StreamEncoder` | `FrameEncoder` | refines `FrameWriter`; `StreamEncoderProofs` |
| `StreamDecoder` | `FrameDecoder` | `DecoderPairProofs` |
| `DecoderPair` | the one-shot frame loop of `decode/src/lib.rs`, item by item beside `StreamDecoder`, which it extends | `DecoderPairProofs` |
| `SlidingWindow` | how much of the past each side keeps and shows, as pure operators; used by both streams | |
| `WindowReach` | the match finders' recent offsets and an encoder's buffer, beside `FrameDecoder`'s history; uses `RepOffsets` and `SlidingWindow` | `WindowReachProofs` |
| `DecoderTables` | the decoders' workspace for its three kinds of owner | refines `FreshTables`; `DecoderTablesProofs` |
| `Contexts` | the hash tables and prepared dictionary of `CompressContext`, over `level_params_for_size` | `ContextsProofs` |
| `Rebase` | `PositionBase` under the block loops | `RebaseProofs` |
| `LongTable` | an entry of `LdmState`'s table and its reduction, as pure operators | |
| `LongRebase` | `Rebase` with the long-distance table of `compress_frame`; uses `LongTable` | `RebaseProofs` |
| `Adaptive` | `AdaptiveLevel::update` | `AdaptiveProofs` |
| `BitStreams` | bit containers, writers, forward and reverse readers | |
| `FseCoding` | counts, descriptions, spreads, decode tables, the three builders of encoding tables; on `BitStreams` | |
| `HuffmanCoding` | code lengths, weights and their two descriptions, codes, both builders of decode tables; on `FseCoding` | |
| `HuffmanStreams` | literals in one stream and in four, one symbol, five symbols and two-symbol rows at a time | |
| `SequenceCoding` | the block encoder's packing, costs, choice of tables and bit layout of a sequence section | |
| `SequenceDecoding` | the decoder's section parser and word reader, and its single-sequence form | |
| `Headers` | frame, block and literals headers, both sides | |
| `Dictionaries` | `finalize_dictionary`'s layout, `Dictionary::from_bytes`, the tables each side takes from it | |
| `MatchFinders` | the searches of `fast.rs` and `dfast.rs`, prefilled and attached dictionaries | `BlockProofs` |
| `LongDistance` | `LdmState`, and blocks matched with it; uses `LongTable` and `MatchFinders` | `BlockProofs` |
| `BlockCopies` | `SeqOut`, `Dst` and `SequenceOutput`: chunked, exact and doubling copies | `BlockProofs` |
| `SearchTrips` | two blocks of a buffer searched in turn and executed by the decoder; on `LongDistance`, `BlockCopies` and `RepOffsets` | `BlockProofs` |
| `RoundTrips` | all of these, encoder against decoder; extends `SearchTrips` | |
| `MC*` | instances for TLC | |

How state and actions correspond to the code:

* **BlockSync.** `enc` is `rep_offsets` and the `prev_*` fields, `dec` what the
  decoder keeps between blocks. Every way out of `encode_compressed_block_impl`,
  `encode_literals_only_block` and `encode_compressed_block_raw` is an action
  or a disjunct; whether a section is smaller than its alternative is left open,
  so every fallback is explored everywhere. Tables are names. `prev_ll/of/ml` are
  used only together and are one value. Frame start is what `from_params`/`reset`
  (owner `stream`) or the context entry points (owner `context`) install;
  `AbortFrame` is the full output slice of `compress_into`.
* **StreamEncoder.** `call` is a program counter through one call; each item
  handed to the inner writer is a step and may fail. `state` is `Failed` for the
  length of a call, as in the code. Bytes are counted. A table entry carries
  the byte it was stored for (history variable), which is what makes
  compaction checkable. `LongTables` is the long-distance table: cleared by `reset`,
  never prefilled, moved with the others. The copy loop of `write`, the block flush, the
  compaction at two windows and the table prefill or clearing are in it.
* **StreamDecoder.** `fill_output` is a loop of one item per step; the item's
  content (kind, size, damage, truncation) is chosen when it is read. History
  variables hold what the source delivered.
* **WindowReach.** One frame, whose blocks are searched, sent and decoded in turn.
  `rep0`, `rep1` are the finders' locals, `packed` is `rep_offsets` while
  `pack_sequences_and_literals` goes through what they found: two different
  updates of the same start. A search takes any matches the guards of the code
  allow (`in_window` for a table's candidate, the start of the input for a repeat,
  `after_match` for the swap). `started` is the offsets the frame began with, which a
  dictionary brings and nothing compares with the window. `fast` tries a repeat two bytes ahead and extends
  it by one at most, `dfast` one ahead, so both leave a literal in front of it.
  `dfast` keeps candidates to the window of the block's end, a part of what
  `Candidate` allows. FrameEncoder (`streaming`) compacts its buffer; the one-shot
  calls see the whole input.
* **DecoderTables.** A table is named by what it was built from, so "the wrong
  table" is a different value. `at` says whether the sequence tables sit in the
  workspace, in the frame's decoder, or were dropped by an error.
* **Contexts.** A call is one step that picks its path and sets up the tables
  (`compress_core` with no, a short or a long dictionary; an attached table; a
  restored snapshot), one step per block, and its end, early if a slice is full.
  A table is its log and the set of its entries; an entry is known by what its
  position belongs to and by how it was hashed (bytes and bits). All entries of an
  earlier call are one, `Stale`. Level parameters are computed as in `strategy.rs`.
* **Rebase.** The tables run beside `plain`, the same tables never moved.
  `LongRebase` runs `long` beside `plainLong`; in that table position 0 means empty.
  The condition in `LongEntriesMove` names what is given up: an entry that
  comes to lie exactly at the moved base is cleared, and it could have been used by the
  block's first position only, a full window ahead.
* **DecoderPair.** Every item the source delivers is given to both decoders. The one-shot
  decoder has a status, its output and the limits of its frame; `SameVerdict`
  compares what the two report. It assumes a truncated source for an I/O error, and it does not
  go into a block: an offset beyond the window of a streaming decoder, which the one-shot
  decoder with all of its output in place accepts, is outside of it (`WindowReach`
  shows that zrip's own frames have none but what a dictionary brings).
* **The pure modules.** A bit stream is a sequence of bits; a writer is what it has moved
  out and what its container holds, a container drops what exceeds 64 bits, and a
  reverse reader is the place its container was loaded from and the bits consumed since. A table is
  a function from states to entries. Unrolled loops appear where their rounds read
  differently (five symbols without a check, pairs, four weights a round, two
  symbols a round when spreading) and nowhere else. Hashes are sums over the bytes that the code hashes,
  reduced to `Slots`: which candidates meet in a slot is arbitrary anyway, since a finder
  confirms them. The long-distance rolling hash and its checksum are such sums too.
  `prefers_pairs` picks a form of the Huffman decoder by size; both are
  checked at every size. A loop over data that a proof has to follow (the searches, feeding and
  splitting in `LongDistance`, runs of copies) is a function on the numbers of its rounds or on
  positions; the streams and tables, which are only checked, use recursive operators.
* **SearchTrips.** A search job goes through `compress_frame`'s loop twice. The tables and the
  long-distance table go from the first block to the second, and the recent offsets too, unless the first
  block is stored raw: then they are still those the frame started with (`SearchCode`). The literals
  are what the sequences skip, and each block is executed with the bytes in front of it as
  history, with and without slack behind its literals.
* **RoundTrips.** A job is one input; `Build`, `Code` and `Decode` take it through the
  encoder's operators and the decoder's. Jobs do not influence each other, so these runs have
  no interleaving: their states are inputs times stages.
* **Adaptive.** One step is one window. Sizes and speeds per level are constant
  data, so a decayed sample is its level's own; the bottleneck moves freely until
  `BottleneckStays`. `failed` (history) records per step how long it must wait.

`FrameWriter` and `FreshTables` say what a component promises and no more:
`FrameWriter`, that a frame is one header, blocks carrying the given bytes in
order, one last block, one checksum over exactly those bytes, or torn;
`FreshTables`, that every frame starts with no table (or the dictionary's) and a
section is decoded with the table the format gives it, or fails because there is
none.

## 3. Runs

| run | properties | shows | distinct states |
|---|---|---|---|
| `block_sync` | `TypeOK InStep SameTables OffsetsSurvive NeverRejected` | encoder and decoder stay in step through every fallback, skipped block, aborted frame and frame start | 726 K |
| `stream_encoder` | `TypeOK EntriesTrackWindow WindowCoversHistory ImplementsFrameWriter FlushDelivers` | whole frames or a torn one, any call order, any failing write; compaction of all three tables | 2.1 M |
| `stream_encoder_reset` | `EntriesBehindSearch` (violated) | see findings | |
| `window_reach` | `TypeOK OffsetsReach DistanceWithinWindow` | no match refers to a byte the decoder dropped, whichever encoder wrote the frame; only a dictionary's own offset passes the window | 848 K |
| `stream_decoder` | `TypeOK EndMeansComplete WithinLimit HistorySuffices HistoryBounded SameVerdict ReadsReturn` | any source, any damage; the one-shot decoder agrees (`DecoderPair`) | 426 K |
| `decoder_tables` | `TypeOK CachesAgree ImplementsFreshTables` | no cached table outlives its meaning, for every owner and every failure | 230 K |
| `contexts` | `TypeOK TablesFit OwnPositionsOnly DictionaryFound` | a context's past does not reach its next search, at levels that hash tables of one size one way | 285 K |
| `contexts_raw` | `DictionaryFound` (violated) | see findings | |
| `rebase` | `TypeOK PositionsFit NoneLost NoneGained LongEntriesMove` | rebasing changes nothing a finder accepts, and moves the long-distance table along (`LongRebase`) | 1.0 M |
| `adaptive` | `TypeOK RetriesAreSpaced WalksEnd` | no hunting | 140 K |
| `round_trips` | `FseInverse HuffmanInverse SequencesInverse HeadersInverse SearchReproduces` | what the encoder's algorithms write, each form of the decoder's reads back | 4.8 K |
| `dict_tables` | `DictionarySectionDecodes` (violated) | see findings | |

### Bounds, and why they are enough

* `block_sync`: two describable tables (a stale one must differ from the
  current one), at most two sequences in a block (an offset code depends on the
  history only, which the second sequence has already disturbed), `Word = 16` so
  that the wrap of a zero offset and the largest offset are both inside, match
  offsets that reach every code 1..3 and the plain form, a dictionary history
  with an offset that no match can have. Frames and blocks are unbounded.
* `stream_encoder`: window 3, blocks of 2, up to 8 bytes a frame: a frame passes
  two windows (7 bytes) and is compacted with and without a dictionary;
  dictionaries of 0, 2 and 7 bytes are none, shorter than a window and longer
  than two. Writes of up to 3 bytes fill a block and start another. Two
  frames, since a frame depends on its predecessor only. `SkipMin = 2` makes
  partial blocks searched and full ones possibly skipped. One entry of each table, since
  entries do not influence each other.
* `stream_decoder`: limit 5, blocks of up to 2, windows 0..2 (3 is clamped or
  refused), 8 source items: a frame can fill two windows, a second frame can reach
  the limit, and an empty block, a skippable frame and a checksum fit around them.
  One `reset`.
* `window_reach`: window 3 (a plain frame starts with offsets up to the window, as
  8 is below 1024), blocks of 2, frames to 9 bytes, three windows: both sides
  drop bytes, the encoder after 7, the decoder once it has shown 3. Dictionaries of
  0, 2 and 7 bytes are none, shorter than a window, and longer than two, so
  that each side drops dictionary and frame at different blocks. Frames of 8 and
  9 are too long for a single segment. Of the two offsets of a
  dictionary that a search tries, both are within the window or only one is, either of them. Every partial block a `flush` can cut is in it.
* `decoder_tables`: two kinds of sequence table, one of which the dictionary has;
  five Huffman headers: two for the same weights, one for others, one whose
  weights build no table, one that does not parse. Frames are unbounded.
* `contexts`: the code's logs and limits with 8192 scaled to 8, except that blocks
  are cut to 16: L-3 (two widths of hash), L1 and L3 (two tables), so that
  changes of level shrink, grow and add tables. These levels search tables of one size
  with one width; `contexts_raw` has L-6, which does not. Inputs of nothing, of one byte, up
  to the attach threshold, above it, and of two blocks; a full dictionary, another,
  and one too short to be hashed; snapshots prepared for a small, a medium and
  an unbounded size. Calls are unbounded.
* `rebase`: span 6, windows 1, 3 and 8 (shorter than a block, between, longer
  than the span), input up to 20: several moves in one input. Two entries of the hash
  tables, one of the long-distance table.
* `round_trips`: each job is chosen for a boundary.
  *FSE*: gaps of zeros longer than one repeat code, a symbol with less than a
  cell, one that dominates, equal ones; logs 5 and 6 (a table of 32 is the smallest the fast spread
  takes). Every symbol is coded from every state.
  *Huffman*: two symbols, gaps, Fibonacci counts whose codes pass `MaxBits = 11` and have to be
  flattened, 40 and 100 symbols; `MaxExplicit` (128 in the code) is cut to 64, so that 100
  symbols are beyond a direct description. Lengths of 4 to 100 are on both sides of
  the rounds of five and of the pair window; at 200 symbols, for
  long Fibonacci codes and 100 symbols, two and four rounds run between two checks. Smaller ones than 4, and those
  for which `3 * ceil(n / 4) >= n`, are not coded in four streams by the encoder.
  *Sequences*: one to 20 in a section; extra bits of up to 59 in one sequence, so the container
  of 64 is full; `CustomMin` is cut from 64 sequences to 16, with sections on both sides, of which those
  with tables of their own are the shorter; predefined and described tables and a trained dictionary's.
  *Headers*: every value either side of a change of field width; each proper prefix
  is refused as well.
  *Search*: ten texts of 90 bytes (periods below and above 8, 16 and 32, the chunk sizes; far repeats;
  changes), two blocks of up to 50, four settings that reach every `(mls, step)` variant, windows of 36
  and 42 and beyond the text, no dictionary or one of 24 or 20 bytes with offsets of its own,
  one attached, two long-distance settings; 0 and 40 bytes of slack behind the literals. A batch of 16
  positions has the batches end within a block (`LDM_BATCH_SIZE` is 64). What other lengths and
  settings do is what `SearchesReproduce` proves.
* `dict_tables`: the trained dictionary and one whose offset table lacks code 3.
* `adaptive`: four levels (a walk, a move by settling, and one more), `Retry` 5,
  longer than the longest walk as in the code (32 windows, a ladder of 11);
  loads with ties, dips and barriers.

### Fairness

`StreamDecoder` assumes weak fairness of `Fill`: it is a plain loop with no wait,
and a source is finite (`SourceFails` and `SourceEnds` are part of `Fill`). A
caller need not call again. `Adaptive` assumes weak fairness of `Window`: a
sender that goes on sending records windows. The other modules assume none.

Deadlock is not checked in `stream_encoder` (a consumed or failed encoder and the
bounds on frames and bytes end a behaviour) and `stream_decoder` (at the bounds
on items and resets a finished or failed decoder stops), `round_trips` and
`dict_tables` (a job ends); it is checked everywhere else.

### Findings

1. **Stale hash tables after `FrameEncoder::reset`** (`stream_encoder_reset`).
   `reset` leaves the tables; `flush_block` clears them only when it *searches*
   a block at position 0. If the new frame's first block is stored without a
   search (`skip_match_search`), the second is searched with the last frame's
   entries, which can lie at or past the search position.
   `src/crates/encode/src/dfast.rs:190` says "Table entries always lie behind the
   current position" and line 276 asserts it in debug builds.
2. **A dictionary hashed for other inputs** (`contexts_raw`).
   `context.rs:402` takes the prepared snapshot when it has as many entries as the table
   that the input asks for, and does not compare minimum matches. At L-6 to L-4 tables of
   2^13 entries are searched with two of them, on either side of `raw_literals_limit`, while
   `fast.rs:1016` says of a prefilled table that its positions are "hashed like the
   match finder at `min_match`". The trace prepares a context for inputs below the limit
   (`with_dict_for_size`) and gives it a larger one: the snapshot holds hashes of five bytes
   and the search looks up hashes of eight. L-5 and L-4 do the same. At L-6 plain `with_dict` does the
   reverse, with a dictionary of 3000 bytes and an input of 9000.
   Frames stay correct, but the dictionary is found by chance only. At all other
   levels `DictionaryServes` applies.
3. **Dictionary tables are used unchecked** (`dict_tables`).
   `Dictionary::from_bytes` accepts FSE tables without a cell for every code
   (`core/src/dict/mod.rs:237` asserts that one with all of its probability on symbol 0
   "should be accepted for OF"). `encode_compressed_block_impl` (`block_encoder.rs:516`) codes a
   frame's first block with them without a look at the block's codes. A code without a cell
   leads to another code's state, and where the section with the dictionary's tables is
   the shortest the decoder reads other sequences; where the missing code is the last
   sequence's, `init_state` indexes outside of the table and the call panics
   (`HasInitState` is the condition). Dictionaries that `finalize_dictionary`
   makes carry the default tables, which have every code: `SequencesInverse` covers them.

Two more disagreements are stated in the modules and have no run that expects them:

* **Settling compounds ties** (`SettlesOnFastest` in `Adaptive`; add it as a PROPERTY of
  `MCAdaptive.cfg` to see it fail). A settle moves the limit to the level it picks
  (`adaptive.rs:262`), which hides faster levels from the next settle; with speeds 1000, 960,
  930 the level rests on the third, though `adaptive.rs:9` promises the best recently measured
  level and line 46 a tie of 5 %.
* **Repeat offsets are not kept to the window** (`OffsetsReach` and `DistanceWithinWindow`
  in `WindowReach`; drop the alternative `m.off \in Brought` from the latter to see it fail).
  `src/README.md:129` says "`window_log` controls the maximum match distance", and
  table candidates are held to it, but a repeat match only to the start of the
  input (`dfast.rs:217`, `fast.rs:750`). `Dictionary::from_bytes` accepts any repeat
  offset except zero. With one larger than the window a match behind the frame's first
  window is that far away, and `FrameDecoder`, which shows one window by then,
  refuses the block. It takes a dictionary longer than the window. The properties
  except these offsets and nothing else, and `NeverRefused` shows that without them no block is refused.

## 4. Proofs

All hold for every value of the constants that satisfies the named assumptions
(`ConstantsAssumption`, `WordAssumption`, `NamesAssumption`, `SlotsAssumption`, `BatchSizeAssumption`,
`SearchJobsAssumption`), which TLC evaluates on the instances.

* **BlockProofs**, on the state that blocks share: `OffsetRoundTrip`, for every word larger than 4, every
  history and every offset: the decoder computes the offset the encoder packed,
  and both histories stay equal and non-zero. Each direction is a case split; the
  wrap-around of code 3 is excluded because an offset is never zero. With it
  `TypesHold`, `StaysInStep`, `TablesAgree`, `OffsetsAgree`,
  `BlocksAccepted`, from `Inductive`, for any number of sequences in a block.
  `InStep` alone is not inductive: it speaks of the moment between two blocks.
  `IInv` follows the block through its phases: the packed sequences chain the
  decoder's history to `enc.reps` and `saved` is the decoder's (`HistoryInv`); a
  block in flight names tables the decoder has or gets from it (`TablesInv`); the
  decoder's local history is the encoder's before the next sequence
  (`DecodedInv`, closed by `OffsetRoundTrip`).
* **BlockProofs**, on the bytes of a block: `SearchesReproduce` says of `SearchSpec` that
  `SearchReproduces` always holds: for every input, prefix, place where the blocks meet,
  level, table size, starting offsets, finder, attached dictionary and long-distance
  setting, and whichever offsets the second block starts from, what is found in two blocks searched one
  after the other, executed, is the two blocks. It rests on results for one block that
  do not speak of jobs. The notion between the two halves is `Told`: sequences *tell* a block from one byte to
  another if each one's match, behind its literals, lies where the input has
  the same bytes `off` earlier (`Says`).
  * *The finders tell.* `FastSearchTells` holds for any table whatever, since candidates are
    confirmed at four or eight bytes before they are extended. `DfastSearchTells` needs entries behind
    the search position (`PositionTables`), which is what finding 1 says a reset may break, and gives them back for the next
    block. Both carry `Sought` through their loops: the sequences so far tell the block up to
    `anchor`, the position is not behind it, and the recent offsets are distances
    at which the input is compared before it is used. `CompressBlockTells` adds long distance matching:
    a long match taken is verified byte by byte and starts where the last one ended or later,
    so each gap is searched as a block of its own and the parts are told in turn, for
    every bucket table, rolling sum and batch size.
  * *The copies perform.* `WildMatchRepeats`: a match copied in chunks of 8, 16 or 32 bytes, or
    with its source spread when the offset is below eight, repeats what is `off`
    bytes earlier, and changes nothing in front of it. A copy may write past the match, so the lemmas say
    of each chunk how far the buffer *shows* one string `W` that repeats with period `off`
    (`ShowsTo`): a chunk read from shown bytes extends what is shown, and rubbish behind it is overwritten.
    `SequencePerformed`: one sequence, over literals, history and output, with slack (copied
    in chunks) or without, does what the format says, and it is refused
    exactly for what the format forbids (`Allowed`) or for the limit of the block.
    `AppendMatchRepeats` is the same for the doubling copy of `append_match`.
  * *A block is made.* `RunSequencesTells` and `RunSingleTells`: sequences that tell a block
    make just that block, in the loop and in the path for a single sequence. `RunSequencesSound` assumes nothing
    of the sequences: they are refused or leave at most a block's limit behind bytes that are unchanged.
    `ToldIsReproduced` joins the two with the literals the encoder leaves, and
    `FastReproduced` and `DfastReproduced` state the result for each finder.

  No step of these arguments is an induction scheme taken from the library, since the
  library's take operators. A loop is a function on its rounds, and that a property of each round carries
  over is proved from the least number that violates it (`SetInduction`, from the
  well-foundedness of the naturals, `NatLessThanWellFounded`). The invariant of the specification,
  `SearchInv`, says what each stage of a job has: a first block that is told and tables fit for the second, then a second
  block that is told whatever offsets it was searched with, then both executed. The steps
  of `RoundTrips` on a search job are those of `SearchNext`; `RoundTrips` itself also
  takes jobs whose operators are recursive, so the theorem is about `SearchSpec`.
* **StreamEncoderProofs**: `Implements` (the refinement of `FrameWriter`),
  `FlushKeepsNothing`, `TypesHold`, `HistoryCovered`, `EntriesKeepTrack`, from
  `Agreement`, for every window, block size, dictionary, set of tables and sequence
  of calls. The refinement needs to know what the bytes in flight are. `Account` says
  it for every place a call can be: what was hashed is what was written, what is
  buffered and, behind the header, what the call still holds; `Control` says which
  places those are, and that a torn frame leaves the encoder Failed. Each action is
  then one step of `FrameWriter` or none: a failing write is `Tear`, wherever the
  call is. For the tables, `EntriesTrackWindow` says which byte an entry stands for but
  not that the window has that byte; `Tracked` adds it, with one lemma for each thing that
  happens to a table (`SearchTablesTracked`, `SearchedTablesTracked`, `ReducedTracked`).
  `FirstFrameSearchesBack` needs this and is the other side of finding 1: as long as
  `frames = 1` an entry is a position of the window or a cleared one (`NoneStale`), and the
  assertion that the run refutes holds.
* **DecoderPairProofs**: `EndsAreComplete`, `LimitHolds`, `HistoryShown`,
  `HistoryStaysBounded`, `TypesHold`, from `StreamInvariant`, for every limit, window,
  dictionary and source. `Ledger` accounts for the bytes (decoded, buffered, delivered,
  dropped by an error), `Standing` says what each state implies of the source (between
  frames nothing is owed and nothing was damaged; inside one only the checksum can still
  tell), `HistoryKept` gives the length of the history, which is all of dictionary and
  frame until that is a window and then between one window and two (or one and the
  dictionary). `VerdictsAgree` is about two programs: `SameVerdict` compares only what they
  report at the end, so `Together` relates them item by item. Either they are at the
  same place of the same frame with the same counts (`Alongside`), or the one-shot
  decoder has refused a frame at its header or in its middle which the streaming one can only
  refuse later (`Doomed`: it declares more than the limit leaves, or holds more than it
  declares). The weak point of such an argument is that `Doomed` has to be stable; it is
  because a frame only grows. `PairStreams` carries the stream's properties over to the
  specification that the run checks.
* **DecoderTablesProofs**: `CachesHold`, `Implements` (the refinement of `FreshTables`),
  `TypesHold`, from `Agreement`, for any set of headers, descriptions and dictionaries whose
  distinguished names differ (`NamesAssumption`: a table is not the absence of one).
  `CachesAgree` is not inductive. A cached header skips the test of its weights, so
  recorded weights must be some that could be built (`HufInv`). Cached sequence tables
  replace those in use, so all that holds of the latter must hold of the former (`SeqInv`,
  on both). And while an error has dropped the tables the cache must not be taken
  as it is (`CacheInv` of `SeqTablesReplaced`, which is what the next compressed block takes).
* **RebaseProofs**: `TypesHold`, `SearchesFit`, `CandidatesKept`,
  `ClearedUnused`, from `Moved`: an entry is its absolute position less the base,
  or 0 once that is negative (`EntriesMoved`), and the base is 0 or at least
  a window behind the block (`BaseBehind`). `LongEntriesKept`, from `AllMoved`, is the same
  argument with an entry at the base emptied, and `LongIsRebase` shows that the loop with
  the long-distance table, which the run checks, is `Rebase`'s.
* **WindowReachProofs**: `TypesHold`, `MatchesReach` and `DistancesBounded`, for every
  window, block size, dictionary and frame. The properties speak of matches and history; the
  invariant (`Covered`) needs two facts that connect them. A recent offset of the finder or
  the packer is within the window or one that the frame started with (`Near`, `NearInv`): every new
  one is a candidate's, and the packer puts the same offset in front of its own, whatever its
  code. And until the frame has filled a window, the decoder has at least what the encoder has in front of the block
  (`CoverInv`); afterwards it has a window, which is enough for all but an offset brought
  along. `NeverRefused` has one assumption, `Tame`: the first two offsets of every dictionary are within
  every window. Then the decoder refuses no block at all.
* **ContextsProofs**: `TypesHold`, `SizesMatch`, `NothingLeftOver`, from `Independent`,
  for every set of levels, dictionaries and lengths. What a call searches it
  sets up first, so all the invariant has to know of the past is that the prepared
  dictionary is the one that level, dictionary and expected size ask for
  (`PreparedInv`), and what such a dictionary holds (`PrepareIs`). `DictionaryServes`
  has one assumption, `OneWidthPerSize`: above the attach threshold, tables of one size
  are searched with one width of hash. It needs no more, since below the
  threshold every width has an attached table (`ShortAttached`). It holds of L-7, L-3 to
  L-1 and L0 to L4 by their constants (`SteadyLevels` for those of one width);
  finding 2 is what happens at the others.
* **AdaptiveProofs**: `TypesHold`, `RetriesWait`, from `Invariance`. The property is
  about a step and what several earlier ones left behind; the invariant says that
  the limit in force, whichever reversal or settling set it, blocks every
  failed step at least as long as the step has to wait (`StepsBlocked`), and that
  a pending step went no further than the limit (`PendingAllowed`).

Every safety property, action property and refinement of the runs is proved but for
these, which are only model-checked. Liveness (`ReadsReturn`, `WalksEnd`): the prover does
not reach fairness or `ENABLED`. `FseInverse`, `HuffmanInverse`, `SequencesInverse`, `HeadersInverse`: the coders under
them recurse over streams, counts and fields with recursive operators, which the
prover does not accept, and the arithmetic of their bit containers is checked on the
inputs of the run only.

## 5. Plan

1. **Output sinks** of the one-shot encoder (`output.rs`): growth of a vector and
   full slices, with the copies of `take_or_borrow_output`.

## 6. Not modelled

* **Level parameters** (`strategy.rs`): search steps and entropy choices are constant
  data; `MatchFinders` takes them as parameters. Logs and minimum matches are in `Contexts`.
* **Literal sampling** of the block encoder (whether literals look worth coding):
  `BlockSync` leaves the outcome open.
* **Training** (`fastcover.rs`, repeat offsets and id in `finalize.rs`): a heuristic whose
  result is just another dictionary.
* **XXH64**: 64-bit arithmetic on data; the models treat a checksum as exact.
* **Sizes from 2^30 on** in headers (the eight-byte size field, which zrip parses and
  writes only beyond 4 GiB).
* **SIMD**: data movement, equal to its scalar form. A reader that panics inside
  `read_exact` and is caught by its caller.
* **Bindings, CLI tools, benchmarks, fuzz targets**: no state of their own.
