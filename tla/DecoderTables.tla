---------------------------- MODULE DecoderTables ----------------------------
(***************************************************************************)
(* The entropy tables the decoders keep, and the caches that let them skip *)
(* rebuilding one: crates/decode, lib.rs, literals.rs, sequences.rs.       *)
(*                                                                         *)
(* A workspace outlives frames.  It holds the last Huffman table with the  *)
(* weights and the header it came from and a two-symbol table derived from *)
(* it, and the tables of the last cacheable sequence header.  A frame's    *)
(* own sequence tables live in the stream decoder (owner "stream"), or are *)
(* taken out of the workspace at the frame's first compressed block and    *)
(* put back after its last; a frame that fails in between loses them.  The *)
(* workspace belongs to a DecompressContext ("context"), or to one call of *)
(* decompress_with_dict_and_limit ("call"), which drops it on an error.    *)
(*                                                                         *)
(* A table is named by what it was built from.                             *)
(***************************************************************************)
EXTENDS Naturals

CONSTANTS TableKinds, HufHeaders, WeightsOf, BadWeights,
          Descs, BadDesc, Predefined, Repeat, Treeless,
          DictHuf, DictSeq, NoTable, NoHeader

(* The names of tables are distinct where the code never confuses them: a  *)
(* description is no mode and no predefined table, a dictionary has built  *)
(* tables or none, and no header is the header of an empty cache.          *)
ASSUME NamesAssumption ==
  /\ Predefined # Repeat /\ Predefined # BadDesc /\ Predefined # NoTable /\ Repeat # BadDesc
  /\ Descs \cap {Predefined, Repeat, BadDesc, NoTable} = {}
  /\ DictHuf # BadWeights
  /\ \A k \in TableKinds : DictSeq[k] \notin {Predefined, BadDesc}
  /\ NoHeader \notin [TableKinds -> {Predefined, Repeat, BadDesc} \cup Descs]

VARIABLES
  owner,   \* who keeps the workspace
  dict,    \* whether the owner has a dictionary
  pc,      \* "outside", "frame", "literals", "tables"
  huf,     \* the workspace's Huffman state
  live,    \* the sequence tables
  at,      \* where they are: "slot" (workspace), "frame", "dropped"
  cache,   \* seq_table_header, seq_table_cache, ..._tables_current
  used,    \* the last section and the tables it was decoded with
  error    \* what the last frame failed on

vars == << owner, dict, pc, huf, live, at, cache, used, error >>

Modes == [TableKinds -> {Predefined, Repeat, BadDesc} \cup Descs]
Weights == {WeightsOf[h] : h \in HufHeaders} \ {BadWeights, NoTable}
HufTables == Weights \cup {DictHuf, NoTable}
SeqTables == Descs \cup {DictSeq[k] : k \in TableKinds} \cup {Predefined}

(***************************************************************************)
(* SequenceDecodeTables.                                                   *)
(***************************************************************************)
Entry == [table : SeqTables, predefined : BOOLEAN, set : BOOLEAN]

NewDefault ==
  [k \in TableKinds |-> [table |-> Predefined, predefined |-> TRUE, set |-> FALSE]]

(* A predefined table is copied only over a table not marked as one.       *)
WithPredefined(e, set) ==
  [table |-> IF e.predefined THEN e.table ELSE Predefined,
   predefined |-> TRUE, set |-> set]

ResetDefault(tables) == [k \in TableKinds |-> WithPredefined(tables[k], FALSE)]

ClearRepeatFlags(tables) == [k \in TableKinds |-> [tables[k] EXCEPT !.set = FALSE]]

LoadDict(tables) ==
  [k \in TableKinds |-> IF DictSeq[k] = NoTable THEN tables[k]
                        ELSE [table |-> DictSeq[k], predefined |-> FALSE, set |-> TRUE]]

SeqTablesReplacedForgotten(c) == c
SeqTablesReplaced(c) == [c EXCEPT !.current = FALSE]

(***************************************************************************)
(* The Huffman state.                                                      *)
(***************************************************************************)
HuffmanState ==
  [table : HufTables, valid : BOOLEAN, pairs : HufTables, pairsValid : BOOLEAN,
   lastWeights : HufTables, weightsValid : BOOLEAN,
   lastHeader : HufHeaders \cup {NoHeader}, headerValid : BOOLEAN]

NewHuffman ==
  [table |-> NoTable, valid |-> FALSE, pairs |-> NoTable, pairsValid |-> FALSE,
   lastWeights |-> NoTable, weightsValid |-> FALSE,
   lastHeader |-> NoHeader, headerValid |-> FALSE]

HuffmanTableReplacedPairsOnly(h) == [h EXCEPT !.pairsValid = FALSE]
HuffmanTableReplaced(h) ==
  [h EXCEPT !.pairsValid = FALSE, !.weightsValid = FALSE, !.headerValid = FALSE]

(* reset_huffman_state, then the dictionary's table if it has one.         *)
FrameHuffman(h) ==
  LET reset == [h EXCEPT !.valid = FALSE] IN
  IF dict /\ DictHuf # NoTable
  THEN HuffmanTableReplaced([reset EXCEPT !.table = DictHuf, !.valid = TRUE])
  ELSE reset

NewCache == [header |-> NoHeader, tables |-> NewDefault, current |-> FALSE]

TypeOK ==
  /\ owner \in {"stream", "context", "call"}
  /\ dict \in BOOLEAN
  /\ pc \in {"outside", "frame", "literals", "tables"}
  /\ huf \in HuffmanState
  /\ live \in [TableKinds -> Entry]
  /\ at \in {"slot", "frame", "dropped"}
  /\ cache \in [header : Modes \cup {NoHeader}, tables : [TableKinds -> Entry],
                current : BOOLEAN]
  /\ pc \in {"literals", "tables"} => at = "frame"
  /\ pc = "outside" => at # "frame"

(***************************************************************************)
(* A frame begins.  The stream decoder installs its tables with the frame  *)
(* header, the one-shot decoder when it meets a compressed block.          *)
(***************************************************************************)
StartFrame ==
  /\ pc = "outside"
  /\ pc' = "frame"
  /\ huf' = FrameHuffman(huf)
  /\ IF owner = "stream"
     THEN /\ live' = IF dict THEN LoadDict(NewDefault) ELSE NewDefault
          /\ cache' = SeqTablesReplaced(cache)
          /\ at' = "frame"
     ELSE UNCHANGED << live, cache, at >>
  /\ used' = << >> /\ error' = << >>
  /\ UNCHANGED << owner, dict >>

(* initial_sequence_state, on the tables taken from the workspace or, if a *)
(* failed frame dropped them, on fresh ones.                               *)
InitialTables(taken) ==
  IF ~dict THEN ClearRepeatFlags(taken)
  ELSE IF owner = "context" THEN LoadDict(NewDefault)
  ELSE LoadDict(ResetDefault(taken))

CompressedBlock ==
  /\ pc = "frame"
  /\ pc' = "literals"
  /\ IF at = "frame"
     THEN UNCHANGED << live, cache >>
     ELSE /\ live' = InitialTables(IF at = "slot" THEN live ELSE NewDefault)
          /\ cache' = IF at = "dropped" \/ dict THEN SeqTablesReplaced(cache) ELSE cache
  /\ at' = "frame"
  /\ used' = << >>
  /\ UNCHANGED << owner, dict, huf, error >>

(***************************************************************************)
(* A failed frame: a call drops the workspace; a context keeps it, without *)
(* the tables the frame had taken; a stream decoder stays failed until it  *)
(* is reset, which replaces its tables (streaming.rs reset).               *)
(***************************************************************************)
Abandon(h, c) ==
  /\ pc' = "outside"
  /\ CASE owner = "stream"  -> /\ huf' = [h EXCEPT !.valid = FALSE]
                               /\ live' = NewDefault
                               /\ cache' = SeqTablesReplaced(c)
                               /\ at' = "slot"
       [] owner = "context" -> /\ huf' = h
                               /\ live' = IF at = "frame" THEN NewDefault ELSE live
                               /\ cache' = c
                               /\ at' = IF at = "frame" THEN "dropped" ELSE at
       [] owner = "call"    -> /\ huf' = NewHuffman
                               /\ live' = NewDefault
                               /\ cache' = NewCache
                               /\ at' = "slot"
  /\ used' = << >>
  /\ UNCHANGED << owner, dict >>

(***************************************************************************)
(* decode_literals_ws.                                                     *)
(***************************************************************************)
HeaderCached(h, s) == h.headerValid /\ h.weightsValid /\ h.lastHeader = s

(* The state after a described table: cached by its header, kept because   *)
(* the weights did not change, or built.                                   *)
Built(h, s) ==
  [h EXCEPT !.table = WeightsOf[s], !.pairsValid = FALSE,
            !.lastWeights = WeightsOf[s], !.weightsValid = TRUE]

Described(h, s) ==
  IF HeaderCached(h, s) THEN [h EXCEPT !.valid = TRUE]
  ELSE LET reuse == h.weightsValid /\ h.lastWeights = WeightsOf[s]
       IN  [(IF reuse THEN h ELSE Built(h, s)) EXCEPT
              !.lastHeader = s, !.headerValid = TRUE, !.valid = TRUE]

(* A header that cannot be parsed, or whose weights build no table, fails  *)
(* before anything is changed; so does a treeless section with no table.   *)
Rejected(s) ==
  IF s = Treeless THEN ~huf.valid
  ELSE ~HeaderCached(huf, s) /\ WeightsOf[s] \in {BadWeights, NoTable}

WithPairs(h) ==
  IF h.pairsValid THEN h ELSE [h EXCEPT !.pairs = h.table, !.pairsValid = TRUE]

PlainLiterals ==
  /\ pc = "literals"
  /\ pc' = "tables"
  /\ used' = << >>
  /\ UNCHANGED << owner, dict, huf, live, at, cache, error >>

CodedLiterals(s) ==
  /\ pc = "literals"
  /\ ~Rejected(s)
  /\ \E pairs \in BOOLEAN :   \* prefers_pairs, on the sizes
       LET h == IF s = Treeless THEN huf ELSE Described(huf, s)
           g == IF pairs THEN WithPairs(h) ELSE h
       IN  \/ /\ pc' = "tables"
              /\ huf' = g
              /\ used' = << s, IF pairs THEN g.pairs ELSE g.table >>
              /\ UNCHANGED << owner, dict, live, at, cache, error >>
           \/ /\ Abandon(g, cache)   \* the coded stream is corrupt
              /\ error' = << "data" >>

RejectLiterals(s) ==
  /\ pc = "literals"
  /\ Rejected(s)
  /\ Abandon(huf, cache)
  /\ error' = << "literals", s >>

(***************************************************************************)
(* parse_sequence_tables_ws.                                               *)
(***************************************************************************)
Cacheable(m) == \A k \in TableKinds : m[k] # Repeat

CacheHit(m) == Cacheable(m) /\ cache.header = m

CopyCached(c, tables) ==
  IF c.current
  THEN [k \in TableKinds |-> [tables[k] EXCEPT !.set = c.tables[k].set]]
  ELSE c.tables

(* One table read in its mode.                                             *)
Read(e, mode) ==
  CASE mode = Predefined -> WithPredefined(e, TRUE)
    [] mode = Repeat     -> e
    [] OTHER             -> [table |-> mode, predefined |-> FALSE, set |-> TRUE]

Unreadable(e, mode) == mode = BadDesc \/ (mode = Repeat /\ ~e.set)

ReadTables(tables, m) == [k \in TableKinds |-> Read(tables[k], m[k])]

Fails(tables, m) == \E k \in TableKinds : Unreadable(tables[k], m[k])

CachedAfter(m, tables) ==
  IF Cacheable(m) THEN [header |-> m, tables |-> tables, current |-> TRUE]
  ELSE [cache EXCEPT !.current = FALSE]

Tables(t) == [k \in TableKinds |-> t[k].table]

SequenceTables(m) ==
  /\ pc = "tables"
  /\ IF CacheHit(m)
     THEN /\ live' = CopyCached(cache, live)
          /\ cache' = [cache EXCEPT !.current = TRUE]
     ELSE /\ ~Fails(live, m)
          /\ live' = ReadTables(live, m)
          /\ cache' = CachedAfter(m, live')
  /\ pc' = "frame"
  /\ used' = << m, Tables(live') >>
  /\ UNCHANGED << owner, dict, huf, at, error >>

(* Some table cannot be read.  Those read before it are lost with the      *)
(* frame.                                                                  *)
RejectSequences(m) ==
  /\ pc = "tables"
  /\ ~CacheHit(m) /\ Fails(live, m)
  /\ Abandon(huf, cache)
  /\ error' = << "sequences", m >>

NoSequences ==
  /\ pc = "tables"
  /\ pc' = "frame"
  /\ used' = << >>
  /\ UNCHANGED << owner, dict, huf, live, at, cache, error >>

(***************************************************************************)
(* The end of a frame.  The tables are back in their place before the      *)
(* checksum and the size are compared, so a frame that fails there keeps   *)
(* them.                                                                   *)
(***************************************************************************)
PutBackForgotten == at
PutBack == IF at = "frame" THEN "slot" ELSE at

EndFrame ==
  /\ pc = "frame"
  /\ pc' = "outside"
  /\ at' = PutBack
  /\ used' = << >>
  /\ UNCHANGED << owner, dict, huf, live, cache >>
  /\ error' = << >>

FailAtEnd ==
  /\ pc = "frame"
  /\ owner = "context"
  /\ pc' = "outside"
  /\ at' = PutBack
  /\ used' = << >> /\ error' = << "data" >>
  /\ UNCHANGED << owner, dict, huf, live, cache >>

Corrupt ==
  /\ pc # "outside"
  /\ Abandon(huf, cache)
  /\ error' = << "data" >>

Init ==
  /\ owner \in {"stream", "context", "call"}
  /\ dict \in BOOLEAN
  /\ pc = "outside"
  /\ huf = NewHuffman
  /\ live = NewDefault
  /\ at = "slot"
  /\ cache = NewCache
  /\ used = << >>
  /\ error = << >>

Next ==
  \/ StartFrame \/ CompressedBlock
  \/ PlainLiterals
  \/ \E s \in HufHeaders \cup {Treeless} : CodedLiterals(s) \/ RejectLiterals(s)
  \/ \E m \in Modes : SequenceTables(m) \/ RejectSequences(m)
  \/ NoSequences \/ EndFrame \/ FailAtEnd \/ Corrupt

Spec == Init /\ [][Next]_vars

(***************************************************************************)
(* Properties.                                                             *)
(***************************************************************************)

(* Every cache agrees with what it stands for: while its flag is set, the  *)
(* pair table, the recorded weights and the recorded header describe the   *)
(* Huffman table; a table marked predefined is; the cached sequence tables *)
(* are those of their header, and those in use while marked current, but   *)
(* for a context that lost its tables to a failed frame.                   *)
CachesAgree ==
  /\ huf.pairsValid => huf.pairs = huf.table
  /\ huf.weightsValid => huf.lastWeights = huf.table
  /\ (huf.headerValid /\ huf.weightsValid) => WeightsOf[huf.lastHeader] = huf.table
  /\ \A k \in TableKinds : live[k].predefined <=> live[k].table = Predefined
  /\ cache.header # NoHeader => Tables(cache.tables) = cache.header
  /\ (cache.current /\ at # "dropped") => Tables(cache.tables) = Tables(live)

(* The stored tables, seen as the format's: a Huffman table counts while   *)
(* it is valid, a sequence table while its repeat flag is set, and outside *)
(* a frame none does.                                                      *)
FrameHuf == IF pc = "outside" \/ ~huf.valid THEN NoTable ELSE huf.table

FrameSeq ==
  [k \in TableKinds |->
     IF pc = "outside" THEN NoTable
     ELSE IF at # "frame" THEN (IF dict THEN DictSeq[k] ELSE NoTable)
     ELSE IF live[k].set THEN live[k].table ELSE NoTable]

Fresh == INSTANCE FreshTables WITH huf <- FrameHuf, seq <- FrameSeq

(* Whatever was decoded before with the same workspace, and however it     *)
(* ended, a section is decoded with the tables the format gives it, and a  *)
(* frame fails on a section only when the format has no table for it.      *)
ImplementsFreshTables == Fresh!Spec
=============================================================================
