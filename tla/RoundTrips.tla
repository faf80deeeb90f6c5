----------------------------- MODULE RoundTrips -----------------------------
(***************************************************************************)
(* What one side of the codec writes, the other reads back: one job after  *)
(* the other through an encoder's operators and the decoder's.             *)
(*                                                                         *)
(* A job is built (tables, or a first block searched), coded (or a second  *)
(* block searched) and decoded.  Jobs are independent; they are the inputs *)
(* the run enumerates.                                                     *)
(***************************************************************************)
EXTENDS HuffmanStreams, Dictionaries, SearchTrips, TLC

CONSTANTS FseJobs,       \* [kind, freqs, log]
          HuffmanJobs,   \* [kind, counts, data]
          SequenceJobs,  \* [kind, seqs, dict]: dict is << >>, or << d >> with the
                         \* distributions of a dictionary's tables
          HeaderJobs     \* [kind, ...]: a header's fields, or a dictionary's

VARIABLE predef    \* the sequence tables both sides have before the block

vars == << job, stage, predef, built, coded, result >>

-----------------------------------------------------------------------------
(* FSE.                                                                    *)

FseBuilt(j) ==
  LET dist   == NormalizeCounts(j.freqs, j.log)
      decode == BuildDecodeTable(dist, j.log)
  IN  [dist   |-> dist,
       decode |-> decode,
       encode |-> << CoreEncodeTable(dist, j.log),
                     EncodeTableFromDecode(decode, Len(dist) - 1),
                     EncodeTableFromDistribution(dist, j.log, Len(dist) - 1) >>]
FseCoded(j, b) == [description |-> Describe(b.dist, j.log)]
FseDecoded(j, c) ==
  LET p == ParseDescription(c.description, Len(j.freqs) + 2, 9)
  IN  [parsed |-> p, table |-> IF p.ok THEN BuildDecodeTable(p.dist, p.log) ELSE Rejected]

\* Coding symbol s in a state leads to one from which it is read, with the
\* bits that lead back.
Leads(b, t, s, state) ==
  LET tr == Transition(t, s, state)
      e  == b.decode.entry[tr.next - 2^b.decode.log]
  IN  e.symbol = s /\ e.bits = Len(tr.out) /\ e.base + ValueOf(tr.out) = state - 2^b.decode.log

-----------------------------------------------------------------------------
(* Huffman.                                                                *)

HuffmanBuilt(j) == TableFromCounts(j.counts)
HuffmanCoded(j, t) ==
  [description |-> t.description,
   one  |-> EncodeSingleStream(t, j.data),
   four |-> Encode4Streams(t, j.data),
   table |-> BuildTableInto(ParseWeightsInto(t.description).weights)]
HuffmanDecoded(j, c) ==
  LET n == Len(j.data)
  IN  [weights |-> ParseWeights(c.description), weightsInto |-> ParseWeightsInto(c.description),
       table |-> BuildTable(ParseWeights(c.description).weights),
       back  |-> TableFromDecode(c.table),
       outs  |-> << DecodeSingleStreamInto(c.table, c.one, n), DecodeSingleStream(c.table, c.one, n),
                    Decode4Streams(c.table, c.four, n, FALSE), Decode4Streams(c.table, c.four, n, TRUE) >>]

-----------------------------------------------------------------------------
(* Sequence sections.                                                      *)

Predefined ==
  [encode |-> [f \in Fields |-> DefaultEncodeTable(f)],
   decode |-> [f \in Fields |-> SequenceTable(f, BuildDecodeTable(DefaultDist[f], DefaultLog[f]))]]
\* the tables a first block starts with
FirstTables(j, d) ==
  IF j.dict = << >>
  THEN Predefined @@ [repeat |-> {}, previous |-> [f \in Fields |-> NoTable]]
  ELSE Predefined @@ [repeat |-> { DictEncodeTables(d) }, previous |-> DictDecodeTables(d)]
TablesFor(j) == FirstTables(j, IF j.dict = << >> THEN Nothing
                                ELSE DictionaryFromBytes(DictionaryBytes(1, j.dict[1], << 1, 4, 8 >>)))

-----------------------------------------------------------------------------
(* Headers: the fields and what is written for them.                       *)

HeaderBits(j) ==
  CASE j.kind = "frame"    -> WriteFrameHeader(j.size, j.id, j.log, j.checksum)
    [] j.kind = "block"    -> WriteBlockHeader(j.type, j.size, j.last)
    [] j.kind = "raw"      -> RawLiteralsHeader(j.size)
    [] j.kind = "literals" -> HuffmanLiteralsHeader(j.treeless, j.size, j.compressed, StreamsOf(j.size))
    [] j.kind = "count"    -> WriteSeqCount(j.size)
    [] j.kind = "dictionary" -> DictionaryBytes(j.id, Trained, j.reps)
HeaderRead(j, bits) ==
  CASE j.kind = "frame"    -> ParseFrameHeader(bits)
    [] j.kind = "block"    -> ParseBlockHeader(bits)
    [] j.kind \in {"raw", "literals"} -> ParseLiteralsHeader(bits).header
    [] j.kind = "count"    -> ParseSequenceCount(bits)
    [] j.kind = "dictionary" -> DictionaryFromBytes(bits)

Says(j, h) ==
  CASE j.kind = "frame" ->
         /\ h.size = j.size /\ h.id = j.id /\ h.checksum = j.checksum
         /\ h.window = IF h.single THEN FrameWindowSize(j.size, j.log) ELSE 2^Clamp(j.log, 10, 27)
    [] j.kind = "block"    -> h.size = j.size /\ h.type = j.type /\ h.last = j.last
    [] j.kind = "raw"      -> h.size = j.size
    [] j.kind = "literals" -> /\ h.size = j.size /\ h.compressed = j.compressed
                              /\ h.streams = StreamsOf(j.size)
    [] j.kind = "count"    -> h.count = j.size
    [] j.kind = "dictionary" ->
         /\ h.id = j.id /\ h.reps = j.reps
         /\ \A f \in Fields : h.decode[f] = BuildDecodeTable(DefaultDist[f], DefaultLog[f])

-----------------------------------------------------------------------------
Init ==
  /\ job \in FseJobs \cup HuffmanJobs \cup SequenceJobs \cup HeaderJobs \cup SearchJobs
  /\ stage = "new"
  /\ predef = Nothing
  /\ built = Nothing /\ coded = Nothing /\ result = Nothing

Build ==
  /\ job.kind # "search" /\ stage = "new" /\ stage' = "built"
  /\ built' = CASE job.kind = "fse"      -> FseBuilt(job)
                [] job.kind = "huffman"  -> HuffmanBuilt(job)
                [] job.kind = "sequences" -> PackAll(job.seqs)
                [] OTHER                 -> Nothing
  /\ predef' = IF job.kind = "sequences" THEN TablesFor(job) ELSE Nothing
  /\ UNCHANGED << job, coded, result >>

Code ==
  /\ job.kind # "search" /\ stage = "built" /\ stage' = "coded"
  /\ coded' = CASE job.kind = "fse"      -> FseCoded(job, built)
                [] job.kind = "huffman"  -> HuffmanCoded(job, built)
                [] job.kind = "sequences" -> SequenceSection(built, predef.encode, predef.repeat, TRUE)
                [] OTHER                 -> HeaderBits(job)
  /\ UNCHANGED << job, predef, built, result >>

Decode ==
  /\ job.kind # "search" /\ stage = "coded" /\ stage' = "decoded"
  /\ result' = CASE job.kind = "fse"      -> FseDecoded(job, coded)
                 [] job.kind = "huffman"  -> HuffmanDecoded(job, coded)
                 [] job.kind = "sequences" -> ReadSection(coded, predef.decode, predef.previous)
                 [] OTHER                 -> HeaderRead(job, coded)
  /\ UNCHANGED << job, predef, built, coded >>

Next ==
  \/ Build \/ Code \/ Decode
  \/ SearchNext /\ UNCHANGED predef

Spec == Init /\ [][Next]_vars

-----------------------------------------------------------------------------
(* Properties.                                                             *)

Done(kinds) == stage = "decoded" /\ job.kind \in kinds

(* A normalised distribution is read back from its description as it was,  *)
(* to the last byte; it fills the table; the tables that the three         *)
(* encoders build from it are the same, and every step of theirs is undone *)
(* by the decoder's table, from every state.                               *)
FseInverse ==
  Done({"fse"}) =>
    /\ result.parsed.ok /\ result.parsed.log = job.log
    /\ SubSeq(result.parsed.dist, 1, Len(built.dist)) = built.dist
    /\ result.parsed.bits = Len(coded.description)
    /\ result.table.ok /\ result.table.entry = built.decode.entry
    /\ \A s \in 0 .. Len(job.freqs) - 1 : job.freqs[s + 1] > 0 =>
         /\ \A i \in 1 .. 3 : /\ built.encode[i].tt[s + 1] = built.encode[1].tt[s + 1]
                              /\ built.encode[i].states = built.encode[1].states
                              /\ HasInitState(built.encode[i], s)
         /\ built.decode.entry[BlockInitState(built.encode[1], s) - 2^job.log].symbol = s
         /\ CoreInitState(built.encode[1], s) = BlockInitState(built.encode[1], s)
         /\ \A state \in 2^job.log .. 2 * 2^job.log - 1 : Leads(built, built.encode[1], s, state)

(* Literals coded in one stream or in four are what each of the decoders   *)
(* reads, through the description of the code, which both parsers read     *)
(* alike, and whose decode table gives the code back, unless there are     *)
(* more weights than a direct description holds.                           *)
HuffmanInverse ==
  Done({"huffman"}) =>
    /\ result.weights.ok /\ result.weights = result.weightsInto
    /\ result.weights.used = Len(coded.description)
    /\ result.table.log = built.log /\ result.table.entry = coded.table.entry
    /\ Len(job.counts) - 1 <= MaxExplicit =>
         result.back.ok /\ result.back.codes = built.codes
    /\ \A i \in DOMAIN result.outs : result.outs[i].ok /\ result.outs[i].out = job.data

(* A sequence section holds the sequences it was made of, whatever their   *)
(* extra bits and whichever tables were the cheapest: the predefined ones, *)
(* the section's own, or those of a trained dictionary.                    *)
SequencesInverse == Done({"sequences"}) => result.ok /\ result.seqs = job.seqs

(* What a dictionary is read for holds of its first section too: with the  *)
(* tables of any dictionary that from_bytes accepts, both sides code and   *)
(* decode the same sequences.                                              *)
DictionarySectionDecodes ==
  Done({"sequences"}) /\ job.dict # << >> => result.ok /\ result.seqs = job.seqs

(* A header, or a dictionary as it is trained, says what it was written    *)
(* for, in just its bytes, and none is taken for complete before its last  *)
(* byte.                                                                   *)
HeadersInverse ==
  Done({"frame", "block", "raw", "literals", "count", "dictionary"}) =>
    /\ result.ok /\ Says(job, result)
    /\ job.kind # "block" => result.bits = Len(coded)
    /\ Len(coded) % 8 = 0
    /\ \A n \in 0 .. Len(coded) \div 8 - 1 : ~HeaderRead(job, SubSeq(coded, 1, 8 * n)).ok
=============================================================================
