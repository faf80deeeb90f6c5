------------------------- MODULE DecoderTablesProofs -------------------------
(***************************************************************************)
(* The decoders' tables, for any headers, descriptions and dictionaries:   *)
(* every cache agrees with what it stands for, and with it a section is    *)
(* decoded with the tables the format gives it (FreshTables).              *)
(*                                                                         *)
(* CachesAgree alone is not inductive.  A cached header skips the test of  *)
(* its weights, so a table with recorded weights must be one that could be *)
(* built (HufInv); cached sequence tables replace those in use, so all     *)
(* that holds of the latter must hold of the former (SeqInv).              *)
(***************************************************************************)
EXTENDS DecoderTables, TLAPS

HufInv(h) ==
  /\ h.pairsValid => h.pairs = h.table
  /\ h.weightsValid => h.lastWeights = h.table
  /\ h.headerValid /\ h.weightsValid => WeightsOf[h.lastHeader] = h.table
  /\ h.valid \/ h.weightsValid => h.table \notin {BadWeights, NoTable}

(* Tables a frame may be decoded with, correctly marked.                   *)
SeqInv(tables) ==
  \A k \in TableKinds :
    /\ tables[k].table \notin {BadDesc, NoTable}
    /\ tables[k].predefined <=> tables[k].table = Predefined

CacheInv(c, tables) ==
  /\ c.header # NoHeader =>
       Tables(c.tables) = c.header /\ \A k \in TableKinds : c.tables[k].set
  /\ c.current => Tables(c.tables) = Tables(tables)

IInv ==
  /\ TypeOK
  /\ HufInv(huf)
  /\ SeqInv(live) /\ SeqInv(cache.tables)
  /\ CacheInv(IF at = "dropped" THEN SeqTablesReplaced(cache) ELSE cache, live)

-----------------------------------------------------------------------------
USE NamesAssumption

GoodHuffman(h) == h \in HuffmanState /\ HufInv(h)
GoodTables(tables) == tables \in [TableKinds -> Entry] /\ SeqInv(tables)

(***************************************************************************)
(* The Huffman state.                                                      *)
(***************************************************************************)
LEMMA NewHuffmanGood == GoodHuffman(NewHuffman) /\ ~NewHuffman.valid
  BY DEF GoodHuffman, NewHuffman, HuffmanState, HufInv, HufTables

LEMMA InvalidGood ==
  ASSUME NEW h, GoodHuffman(h)
  PROVE  LET g == [h EXCEPT !.valid = FALSE] IN GoodHuffman(g) /\ ~g.valid
  BY DEF GoodHuffman, HuffmanState, HufInv

LEMMA FrameHuffmanGood ==
  ASSUME NEW h, GoodHuffman(h)
  PROVE  LET g == FrameHuffman(h) IN
           /\ GoodHuffman(g)
           /\ g.valid <=> dict /\ DictHuf # NoTable
           /\ g.valid => g.table = DictHuf
<1>1. DictHuf \in HufTables
  BY DEF HufTables
<1> QED
  BY <1>1 DEF GoodHuffman, FrameHuffman, HuffmanTableReplaced, HuffmanState, HufInv

(* A cached header or unchanged weights name the table that is there.      *)
LEMMA DescribedGood ==
  ASSUME NEW h, GoodHuffman(h), NEW s \in HufHeaders,
         HeaderCached(h, s) \/ WeightsOf[s] \notin {BadWeights, NoTable}
  PROVE  LET g == Described(h, s) IN
           /\ GoodHuffman(g) /\ g.valid /\ g.table = WeightsOf[s]
<1>1. CASE HeaderCached(h, s)
  BY <1>1 DEF GoodHuffman, Described, HeaderCached, HuffmanState, HufInv
<1>2. CASE ~HeaderCached(h, s)
  <2>1. WeightsOf[s] \notin {BadWeights, NoTable} /\ WeightsOf[s] \in HufTables
    BY <1>2 DEF HufTables, Weights
  <2> QED
    BY <1>2, <2>1 DEF GoodHuffman, Described, Built, HuffmanState, HufInv
<1> QED
  BY <1>1, <1>2

LEMMA WithPairsGood ==
  ASSUME NEW h, GoodHuffman(h)
  PROVE  LET g == WithPairs(h) IN
           /\ GoodHuffman(g)
           /\ g.valid = h.valid /\ g.table = h.table /\ g.pairs = h.table
  BY DEF GoodHuffman, WithPairs, HuffmanState, HufInv

(***************************************************************************)
(* The sequence tables.                                                    *)
(***************************************************************************)
LEMMA NewDefaultGood ==
  GoodTables(NewDefault) /\ \A k \in TableKinds : ~NewDefault[k].set
  BY DEF GoodTables, NewDefault, Entry, SeqTables, SeqInv

LEMMA WithPredefinedGood ==
  ASSUME NEW tables, GoodTables(tables), NEW k \in TableKinds, NEW set \in BOOLEAN
  PROVE  WithPredefined(tables[k], set) =
           [table |-> Predefined, predefined |-> TRUE, set |-> set]
  BY DEF GoodTables, WithPredefined, Entry, SeqInv

LEMMA ResetDefaultGood ==
  ASSUME NEW tables, GoodTables(tables)
  PROVE  LET r == ResetDefault(tables) IN GoodTables(r) /\ \A k \in TableKinds : ~r[k].set
<1>1. ResetDefault(tables) = NewDefault
  BY WithPredefinedGood DEF ResetDefault, NewDefault
<1> QED
  BY <1>1, NewDefaultGood

LEMMA ClearRepeatFlagsGood ==
  ASSUME NEW tables, GoodTables(tables)
  PROVE  LET r == ClearRepeatFlags(tables) IN
           /\ GoodTables(r) /\ \A k \in TableKinds : ~r[k].set
           /\ Tables(r) = Tables(tables)
  BY DEF ClearRepeatFlags, GoodTables, Entry, SeqInv, Tables

LEMMA LoadDictGood ==
  ASSUME NEW tables, GoodTables(tables), \A k \in TableKinds : ~tables[k].set
  PROVE  LET r == LoadDict(tables) IN
           /\ GoodTables(r)
           /\ \A k \in TableKinds :
                IF DictSeq[k] = NoTable THEN ~r[k].set ELSE r[k].set /\ r[k].table = DictSeq[k]
<1>1. \A k \in TableKinds : DictSeq[k] \in SeqTables
  BY DEF SeqTables
<1> QED
  BY <1>1 DEF LoadDict, GoodTables, Entry, SeqInv

(* The tables a section names are usable if none is unreadable.            *)
LEMMA ReadTablesGood ==
  ASSUME NEW tables, GoodTables(tables), NEW m \in Modes, ~Fails(tables, m)
  PROVE  LET r == ReadTables(tables, m) IN
           /\ GoodTables(r)
           /\ \A k \in TableKinds :
                r[k].set /\ r[k].table = IF m[k] = Repeat THEN tables[k].table ELSE m[k]
<1> SUFFICES ASSUME NEW k \in TableKinds
             PROVE  LET e == Read(tables[k], m[k]) IN
                      /\ e \in Entry /\ e.set
                      /\ e.table \notin {BadDesc, NoTable}
                      /\ e.predefined <=> e.table = Predefined
                      /\ e.table = IF m[k] = Repeat THEN tables[k].table ELSE m[k]
  BY DEF ReadTables, GoodTables, SeqInv
<1>1. m[k] \in {Predefined, Repeat} \cup Descs /\ (m[k] = Repeat => tables[k].set)
  BY DEF Fails, Unreadable, Modes
<1>2. CASE m[k] = Predefined
  <2>1. Read(tables[k], m[k]) = [table |-> Predefined, predefined |-> TRUE, set |-> TRUE]
    BY <1>2, WithPredefinedGood DEF Read
  <2> QED
    BY <1>2, <2>1 DEF Entry, SeqTables
<1>3. CASE m[k] = Repeat
  BY <1>1, <1>3 DEF Read, GoodTables, SeqInv
<1>4. CASE m[k] \in Descs
  BY <1>4 DEF Read, Entry, SeqTables
<1> QED
  BY <1>1, <1>2, <1>3, <1>4

(* A hit leaves the tables of its header, every one of them repeatable.    *)
LEMMA CopyCachedGood ==
  ASSUME NEW c, NEW tables, GoodTables(tables), GoodTables(c.tables), CacheInv(c, tables),
         NEW m \in Modes, c.header = m, c.current \in BOOLEAN
  PROVE  LET r == CopyCached(c, tables) IN
           /\ GoodTables(r) /\ Tables(r) = m /\ Tables(c.tables) = m
           /\ \A k \in TableKinds : r[k].set /\ r[k].table = m[k]
<1>1. Tables(c.tables) = m /\ \A k \in TableKinds : c.tables[k].set
  BY DEF CacheInv, Modes
<1>2. CASE ~c.current
  BY <1>1, <1>2 DEF CopyCached, GoodTables, Tables
<1>3. CASE c.current
  <2>1. \A k \in TableKinds : tables[k].table = m[k]
    BY <1>1, <1>3 DEF CacheInv, Tables
  <2> QED
    BY <1>1, <1>3, <2>1 DEF CopyCached, GoodTables, Entry, SeqInv, Tables, Modes
<1> QED
  BY <1>2, <1>3

-----------------------------------------------------------------------------
(***************************************************************************)
(* Steps: each keeps the invariant, and is a step of FreshTables.          *)
(***************************************************************************)
CacheType ==
  [header : Modes \cup {NoHeader}, tables : [TableKinds -> Entry], current : BOOLEAN]

Cache == IF at = "dropped" THEN SeqTablesReplaced(cache) ELSE cache

LEMMA NewCacheGood == NewCache \in CacheType /\ GoodTables(NewCache.tables) /\
                      \A tables : CacheInv(NewCache, tables)
  BY NewDefaultGood DEF NewCache, CacheType, GoodTables, CacheInv

(* What is no longer current may differ from the tables in use.            *)
LEMMA ReplacedGood ==
  ASSUME NEW c \in CacheType, NEW tables, NEW others, CacheInv(c, tables)
  PROVE  LET d == SeqTablesReplaced(c) IN
           /\ d \in CacheType /\ d.tables = c.tables /\ d.header = c.header
           /\ CacheInv(d, others)
  BY DEF CacheType, SeqTablesReplaced, CacheInv

LEMMA Parts ==
  ASSUME IInv
  PROVE  /\ GoodHuffman(huf) /\ GoodTables(live) /\ GoodTables(cache.tables)
         /\ cache \in CacheType /\ dict \in BOOLEAN
         /\ at # "dropped" => CacheInv(cache, live)
         /\ \A others : CacheInv(SeqTablesReplaced(cache), others)
<1>1. /\ GoodHuffman(huf) /\ GoodTables(live) /\ GoodTables(cache.tables)
      /\ cache \in CacheType /\ dict \in BOOLEAN
      /\ at # "dropped" => CacheInv(cache, live)
  BY DEF IInv, TypeOK, GoodHuffman, GoodTables, CacheType
<1>2. ASSUME NEW others PROVE CacheInv(SeqTablesReplaced(cache), others)
  <2>1. CASE at # "dropped"
    BY <1>1, <2>1, ReplacedGood
  <2>2. CASE at = "dropped"
    BY <1>1, <2>2 DEF IInv, CacheInv, SeqTablesReplaced, CacheType
  <2> QED
    BY <2>1, <2>2
<1> QED
  BY <1>1, <1>2

(* A failed frame leaves good tables, of which the format knows nothing.   *)
LEMMA AbandonKeeps ==
  ASSUME IInv, pc # "outside", NEW h, GoodHuffman(h), Abandon(h, cache)
  PROVE  IInv' /\ Fresh!Outside
<1> USE DEF Abandon
<1>1. pc' = "outside" /\ used' = << >> /\ UNCHANGED << owner, dict >>
  OBVIOUS
<1>2. Fresh!Outside
  BY <1>1 DEF Fresh!Outside, FrameHuf, FrameSeq
<1>3. owner \in {"stream", "context", "call"} /\ at \in {"slot", "frame", "dropped"}
  BY DEF IInv, TypeOK
<1>4. CASE owner = "stream"
  <2>1. /\ huf' = [h EXCEPT !.valid = FALSE] /\ live' = NewDefault /\ at' = "slot"
        /\ cache' = SeqTablesReplaced(cache)
    BY <1>4
  <2>2. GoodHuffman(huf')
    BY <2>1, InvalidGood
  <2>3. GoodTables(live') /\ cache' \in CacheType /\ GoodTables(cache'.tables)
    BY <2>1, Parts, NewDefaultGood DEF CacheType, SeqTablesReplaced
  <2>4. CacheInv(cache', live')
    BY <2>1, Parts
  <2> QED
    BY <1>1, <1>2, <1>3, <2>1, <2>2, <2>3, <2>4 DEF IInv, TypeOK, GoodHuffman, GoodTables, CacheType
<1>5. CASE owner = "context"
  <2>1. /\ huf' = h /\ cache' = cache
        /\ live' = (IF at = "frame" THEN NewDefault ELSE live)
        /\ at' = (IF at = "frame" THEN "dropped" ELSE at)
    BY <1>5
  <2>2. GoodTables(live')
    BY <2>1, Parts, NewDefaultGood
  <2>3. CacheInv(IF at' = "dropped" THEN SeqTablesReplaced(cache') ELSE cache', live')
    BY <1>3, <2>1, Parts
  <2> QED
    BY <1>1, <1>2, <1>3, <2>1, <2>2, <2>3, Parts
    DEF IInv, TypeOK, GoodHuffman, GoodTables, CacheType
<1>6. CASE owner = "call"
  <2>1. huf' = NewHuffman /\ live' = NewDefault /\ cache' = NewCache /\ at' = "slot"
    BY <1>6
  <2> QED
    BY <1>1, <1>2, <1>3, <2>1, NewHuffmanGood, NewDefaultGood, NewCacheGood
    DEF IInv, TypeOK, GoodHuffman, GoodTables, CacheType
<1> QED
  BY <1>3, <1>4, <1>5, <1>6

LEMMA CorruptKeeps ==
  ASSUME IInv, Corrupt
  PROVE  IInv' /\ Fresh!Corrupt
  BY Parts, AbandonKeeps DEF Corrupt, Fresh!Corrupt

LEMMA StartFrameKeeps ==
  ASSUME IInv, StartFrame
  PROVE  IInv' /\ Fresh!Begin
<1>1. /\ pc = "outside" /\ pc' = "frame" /\ huf' = FrameHuffman(huf)
      /\ used' = << >> /\ error' = << >> /\ UNCHANGED << owner, dict >>
  BY DEF StartFrame
<1>2. GoodHuffman(huf') /\ FrameHuf' = Fresh!InitialHuf
  BY <1>1, Parts, FrameHuffmanGood DEF FrameHuf, Fresh!InitialHuf
<1>3. at # "frame" /\ owner \in {"stream", "context", "call"} /\ at \in {"slot", "frame", "dropped"}
  BY <1>1 DEF IInv, TypeOK
<1>4. FrameHuf = NoTable /\ FrameSeq = [k \in TableKinds |-> NoTable]
  BY <1>1 DEF FrameHuf, FrameSeq
<1>5. CASE owner = "stream"
  <2>1. /\ live' = (IF dict THEN LoadDict(NewDefault) ELSE NewDefault)
        /\ cache' = SeqTablesReplaced(cache) /\ at' = "frame"
    BY <1>5 DEF StartFrame
  <2>2. /\ GoodTables(live')
        /\ \A k \in TableKinds :
             (IF live'[k].set THEN live'[k].table ELSE NoTable)
               = IF dict THEN DictSeq[k] ELSE NoTable
    BY <2>1, NewDefaultGood, LoadDictGood
  <2>3. FrameSeq' = Fresh!InitialSeq
    BY <1>1, <2>1, <2>2 DEF FrameSeq, Fresh!InitialSeq
  <2>4. cache' \in CacheType /\ GoodTables(cache'.tables) /\ CacheInv(cache', live')
    BY <2>1, Parts DEF CacheType, SeqTablesReplaced
  <2> QED
    BY <1>1, <1>2, <1>3, <2>1, <2>2, <2>3, <2>4
    DEF IInv, TypeOK, GoodHuffman, GoodTables, CacheType, Fresh!Begin
<1>6. CASE owner # "stream"
  <2>1. UNCHANGED << live, cache, at >>
    BY <1>6 DEF StartFrame
  <2>2. FrameSeq' = Fresh!InitialSeq
    BY <1>1, <1>3, <2>1 DEF FrameSeq, Fresh!InitialSeq
  <2> QED
    BY <1>1, <1>2, <1>3, <2>1, <2>2 DEF IInv, TypeOK, GoodHuffman, Fresh!Begin
<1> QED
  BY <1>5, <1>6

(* The frame's first compressed block takes the tables: only those of the  *)
(* dictionary can be repeated.                                             *)
LEMMA CompressedBlockKeeps ==
  ASSUME IInv, CompressedBlock
  PROVE  IInv' /\ Fresh!CompressedBlock
<1>1. /\ pc = "frame" /\ pc' = "literals" /\ at' = "frame" /\ used' = << >>
      /\ UNCHANGED << owner, dict, huf, error >>
  BY DEF CompressedBlock
<1>2. FrameHuf' = FrameHuf
  BY <1>1 DEF FrameHuf
<1>3. /\ GoodTables(live') /\ cache' \in CacheType /\ GoodTables(cache'.tables)
      /\ CacheInv(cache', live') /\ FrameSeq' = FrameSeq
  <2>1. CASE at = "frame"
    <3>1. UNCHANGED << live, cache >>
      BY <2>1 DEF CompressedBlock
    <3> QED
      BY <1>1, <2>1, <3>1, Parts DEF FrameSeq
  <2>2. CASE at # "frame"
    <3> DEFINE taken == IF at = "slot" THEN live ELSE NewDefault
    <3>1. /\ live' = InitialTables(taken)
          /\ cache' = IF at = "dropped" \/ dict THEN SeqTablesReplaced(cache) ELSE cache
      BY <2>2 DEF CompressedBlock
    <3>2. GoodTables(taken)
      BY Parts, NewDefaultGood
    <3>3. /\ GoodTables(live')
          /\ \A k \in TableKinds :
               (IF live'[k].set THEN live'[k].table ELSE NoTable)
                 = IF dict THEN DictSeq[k] ELSE NoTable
      <4> HIDE DEF taken
      <4>1. CASE ~dict
        BY <3>1, <3>2, <4>1, ClearRepeatFlagsGood DEF InitialTables
      <4>2. CASE dict /\ owner = "context"
        BY <3>1, <4>2, NewDefaultGood, LoadDictGood DEF InitialTables
      <4>3. CASE dict /\ owner # "context"
        <5>1. GoodTables(ResetDefault(taken)) /\ \A k \in TableKinds : ~ResetDefault(taken)[k].set
          BY <3>2, ResetDefaultGood
        <5>2. live' = LoadDict(ResetDefault(taken))
          BY <3>1, <4>3 DEF InitialTables
        <5> QED
          BY <4>3, <5>1, <5>2, LoadDictGood
      <4> QED
        BY <4>1, <4>2, <4>3
    <3>4. FrameSeq' = FrameSeq
      BY <1>1, <2>2, <3>3 DEF FrameSeq
    <3>5. cache' \in CacheType /\ GoodTables(cache'.tables)
      BY <3>1, Parts DEF CacheType, SeqTablesReplaced
    <3>6. CacheInv(cache', live')
      <4>1. CASE at = "dropped" \/ dict
        BY <3>1, <4>1, Parts
      <4>2. CASE at = "slot" /\ ~dict
        <5>1. cache' = cache /\ Tables(live') = Tables(live)
          BY <3>1, <4>2, Parts, ClearRepeatFlagsGood DEF InitialTables
        <5> QED
          BY <4>2, <5>1, Parts DEF CacheInv
      <4> QED
        BY <2>2, <4>1, <4>2 DEF IInv, TypeOK
    <3> QED
      BY <3>3, <3>4, <3>5, <3>6
  <2> QED
    BY <2>1, <2>2
<1> QED
  BY <1>1, <1>2, <1>3 DEF IInv, TypeOK, GoodTables, CacheType, Fresh!CompressedBlock

(* Steps that leave the tables where they are.                             *)
LEMMA UntouchedKeeps ==
  ASSUME IInv, UNCHANGED << owner, dict, huf, live, cache >>,
         \/ at' = at
         \/ at = "frame" /\ at' = "slot",
         pc' \in {"outside", "frame", "literals", "tables"},
         pc' \in {"literals", "tables"} => at' = "frame",
         pc' = "outside" => at' # "frame"
  PROVE  IInv'
  BY DEF IInv, TypeOK

LEMMA PlainStepsKeep ==
  ASSUME IInv, PlainLiterals \/ NoSequences \/ EndFrame \/ FailAtEnd
  PROVE  IInv' /\ (Fresh!PlainLiterals \/ Fresh!NoSequences \/ Fresh!End \/ Fresh!Corrupt)
<1>1. CASE PlainLiterals
  <2>1. IInv'
    BY <1>1, UntouchedKeeps DEF PlainLiterals, IInv, TypeOK
  <2>2. Fresh!PlainLiterals
    BY <1>1 DEF PlainLiterals, Fresh!PlainLiterals, FrameHuf, FrameSeq
  <2> QED
    BY <2>1, <2>2
<1>2. CASE NoSequences
  <2>1. IInv'
    BY <1>2, UntouchedKeeps DEF NoSequences, IInv, TypeOK
  <2>2. Fresh!NoSequences
    BY <1>2 DEF NoSequences, Fresh!NoSequences, FrameHuf, FrameSeq
  <2> QED
    BY <2>1, <2>2
<1>3. CASE EndFrame
  <2>1. IInv'
    BY <1>3, UntouchedKeeps DEF EndFrame, PutBack, IInv, TypeOK
  <2>2. Fresh!End
    BY <1>3 DEF EndFrame, Fresh!End, Fresh!Outside, FrameHuf, FrameSeq
  <2> QED
    BY <2>1, <2>2
<1>4. CASE FailAtEnd
  <2>1. IInv'
    BY <1>4, UntouchedKeeps DEF FailAtEnd, PutBack, IInv, TypeOK
  <2>2. Fresh!Corrupt
    BY <1>4 DEF FailAtEnd, Fresh!Corrupt, Fresh!Outside, FrameHuf, FrameSeq
  <2> QED
    BY <2>1, <2>2
<1> QED
  BY <1>1, <1>2, <1>3, <1>4

LEMMA CodedLiteralsKeep ==
  ASSUME IInv, NEW s \in HufHeaders \cup {Treeless}, CodedLiterals(s)
  PROVE  IInv' /\ (Fresh!CodedLiterals(s) \/ Fresh!Corrupt)
<1> DEFINE h == IF s = Treeless THEN huf ELSE Described(huf, s)
<1>1. pc = "literals" /\ ~Rejected(s) /\ at = "frame"
  BY DEF CodedLiterals, IInv, TypeOK
<1>2. GoodHuffman(h) /\ h.valid /\ h.table = Fresh!Named(s)
  <2>1. CASE s = Treeless
    BY <1>1, <2>1, Parts DEF Rejected, Fresh!Named, FrameHuf
  <2>2. CASE s # Treeless
    <3>1. s \in HufHeaders /\ (HeaderCached(huf, s) \/ WeightsOf[s] \notin {BadWeights, NoTable})
      BY <1>1, <2>2 DEF Rejected
    <3> QED
      BY <2>2, <3>1, Parts, DescribedGood DEF Fresh!Named
  <2> QED
    BY <2>1, <2>2
<1> HIDE DEF h
<1>3. Fresh!Usable(Fresh!Named(s))
  BY <1>2 DEF Fresh!Usable, GoodHuffman, HufInv
<1>4. PICK pairs \in BOOLEAN :
        LET g == IF pairs THEN WithPairs(h) ELSE h
        IN  \/ /\ pc' = "tables" /\ huf' = g
               /\ used' = << s, IF pairs THEN g.pairs ELSE g.table >>
               /\ UNCHANGED << owner, dict, live, at, cache, error >>
            \/ Abandon(g, cache) /\ error' = << "data" >>
  BY DEF CodedLiterals, h
<1> DEFINE g == IF pairs THEN WithPairs(h) ELSE h
<1>5. /\ GoodHuffman(g) /\ g.valid /\ g.table = Fresh!Named(s)
      /\ (IF pairs THEN g.pairs ELSE g.table) = Fresh!Named(s)
  BY <1>2, WithPairsGood
<1> HIDE DEF g
<1>6. CASE /\ pc' = "tables" /\ huf' = g
           /\ used' = << s, IF pairs THEN g.pairs ELSE g.table >>
           /\ UNCHANGED << owner, dict, live, at, cache, error >>
  <2>1. FrameHuf' = Fresh!Named(s) /\ FrameSeq' = FrameSeq
    BY <1>1, <1>5, <1>6 DEF FrameHuf, FrameSeq
  <2>2. Fresh!CodedLiterals(s)
    BY <1>1, <1>3, <1>5, <1>6, <2>1 DEF Fresh!CodedLiterals
  <2>3. IInv'
    BY <1>1, <1>5, <1>6 DEF IInv, TypeOK, GoodHuffman
  <2> QED
    BY <2>2, <2>3
<1>7. CASE Abandon(g, cache) /\ error' = << "data" >>
  <2>1. IInv' /\ Fresh!Outside
    BY <1>1, <1>5, <1>7, AbandonKeeps
  <2> QED
    BY <1>1, <1>7, <2>1 DEF Fresh!Corrupt
<1> QED
  BY <1>4, <1>6, <1>7 DEF g

LEMMA RejectLiteralsKeeps ==
  ASSUME IInv, NEW s \in HufHeaders \cup {Treeless}, RejectLiterals(s)
  PROVE  IInv' /\ Fresh!RejectLiterals(s)
<1>1. pc = "literals" /\ Rejected(s) /\ Abandon(huf, cache) /\ error' = << "literals", s >>
  BY DEF RejectLiterals
<1>2. ~Fresh!Usable(Fresh!Named(s))
  BY <1>1 DEF Rejected, Fresh!Usable, Fresh!Named, FrameHuf
<1>3. IInv' /\ Fresh!Outside
  BY <1>1, Parts, AbandonKeeps
<1> QED
  BY <1>1, <1>2, <1>3 DEF Fresh!RejectLiterals

(* A hit or a successful parse decodes with the tables the section names.  *)
LEMMA SequenceTablesKeep ==
  ASSUME IInv, NEW m \in Modes, SequenceTables(m)
  PROVE  IInv' /\ Fresh!Sequences(m)
<1>1. /\ pc = "tables" /\ at = "frame" /\ pc' = "frame" /\ used' = << m, Tables(live') >>
      /\ UNCHANGED << owner, dict, huf, at, error >>
  BY DEF SequenceTables, IInv, TypeOK
<1>2. CacheInv(cache, live) /\ m # NoHeader
  BY <1>1, Parts DEF Modes
<1>3. /\ GoodTables(live') /\ cache' \in CacheType /\ GoodTables(cache'.tables)
      /\ CacheInv(cache', live')
      /\ \A k \in TableKinds :
           /\ live'[k].set
           /\ live'[k].table = IF m[k] = Repeat THEN live[k].table ELSE m[k]
           /\ m[k] = Repeat => live[k].set
  <2>1. CASE CacheHit(m)
    <3>1. live' = CopyCached(cache, live) /\ cache' = [cache EXCEPT !.current = TRUE]
      BY <2>1 DEF SequenceTables
    <3>2. cache.header = m /\ \A k \in TableKinds : m[k] # Repeat
      BY <2>1 DEF CacheHit, Cacheable
    <3>3. /\ GoodTables(live') /\ Tables(live') = m /\ Tables(cache.tables) = m
          /\ \A k \in TableKinds : live'[k].set /\ live'[k].table = m[k]
      BY <1>2, <3>1, <3>2, Parts, CopyCachedGood DEF CacheType
    <3>4. /\ cache' \in CacheType /\ cache'.tables = cache.tables
          /\ cache'.header = cache.header
      BY <3>1, Parts DEF CacheType
    <3>5. CacheInv(cache', live')
      BY <1>2, <3>3, <3>4 DEF CacheInv
    <3> QED
      BY <3>2, <3>3, <3>4, <3>5, Parts
  <2>2. CASE ~CacheHit(m)
    <3>1. ~Fails(live, m) /\ live' = ReadTables(live, m) /\ cache' = CachedAfter(m, live')
      BY <2>2 DEF SequenceTables
    <3>2. /\ GoodTables(live')
          /\ \A k \in TableKinds :
               live'[k].set /\ live'[k].table = IF m[k] = Repeat THEN live[k].table ELSE m[k]
      BY <3>1, Parts, ReadTablesGood
    <3>3. \A k \in TableKinds : m[k] = Repeat => live[k].set
      BY <3>1 DEF Fails, Unreadable
    <3>4. CASE Cacheable(m)
      <4>1. cache' = [header |-> m, tables |-> live', current |-> TRUE]
        BY <3>1, <3>4 DEF CachedAfter
      <4>2. Tables(live') = m
        BY <3>2, <3>4 DEF Tables, Cacheable, Modes
      <4>3. cache' \in CacheType /\ GoodTables(cache'.tables) /\ CacheInv(cache', live')
        BY <3>2, <4>1, <4>2 DEF CacheType, GoodTables, CacheInv
      <4> QED
        BY <3>2, <3>3, <4>3
    <3>5. CASE ~Cacheable(m)
      <4>1. cache' = SeqTablesReplaced(cache)
        BY <3>1, <3>5 DEF CachedAfter, SeqTablesReplaced
      <4>2. /\ cache' \in CacheType /\ cache'.tables = cache.tables
            /\ CacheInv(cache', live')
        BY <4>1, Parts DEF SeqTablesReplaced, CacheType
      <4> QED
        BY <3>2, <3>3, <4>2, Parts
    <3> QED
      BY <3>4, <3>5
  <2> QED
    BY <2>1, <2>2
<1>4. Fresh!NamedTables(m) = Tables(live')
  BY <1>1, <1>3 DEF Fresh!NamedTables, FrameSeq, Tables
<1>5. Fresh!AllUsable(Fresh!NamedTables(m))
  BY <1>3, <1>4 DEF Fresh!AllUsable, GoodTables, SeqInv, Tables
<1>6. FrameSeq' = Fresh!NamedTables(m) /\ FrameHuf' = FrameHuf
  BY <1>1, <1>3, <1>4 DEF FrameSeq, FrameHuf, Tables
<1>7. Fresh!Sequences(m)
  BY <1>1, <1>4, <1>5, <1>6 DEF Fresh!Sequences
<1>8. IInv'
  BY <1>1, <1>3 DEF IInv, TypeOK, GoodTables, CacheType
<1> QED
  BY <1>7, <1>8

LEMMA RejectSequencesKeeps ==
  ASSUME IInv, NEW m \in Modes, RejectSequences(m)
  PROVE  IInv' /\ Fresh!RejectSequences(m)
<1>1. /\ pc = "tables" /\ at = "frame" /\ Fails(live, m)
      /\ Abandon(huf, cache) /\ error' = << "sequences", m >>
  BY DEF RejectSequences, IInv, TypeOK
<1>2. PICK k \in TableKinds : m[k] = BadDesc \/ (m[k] = Repeat /\ ~live[k].set)
  BY <1>1 DEF Fails, Unreadable
<1>3. ~Fresh!AllUsable(Fresh!NamedTables(m))
  BY <1>1, <1>2 DEF Fresh!AllUsable, Fresh!NamedTables, FrameSeq
<1>4. IInv' /\ Fresh!Outside
  BY <1>1, Parts, AbandonKeeps
<1> QED
  BY <1>1, <1>3, <1>4 DEF Fresh!RejectSequences

-----------------------------------------------------------------------------
LEMMA InitIInv == Init => IInv /\ Fresh!Init
<1> SUFFICES ASSUME Init PROVE IInv /\ Fresh!Init
  OBVIOUS
<1>1. /\ owner \in {"stream", "context", "call"} /\ dict \in BOOLEAN /\ pc = "outside"
      /\ huf = NewHuffman /\ live = NewDefault /\ at = "slot" /\ cache = NewCache
      /\ used = << >> /\ error = << >>
  BY DEF Init
<1>2. IInv
  BY <1>1, NewHuffmanGood, NewDefaultGood, NewCacheGood
  DEF IInv, TypeOK, GoodHuffman, GoodTables, CacheType
<1>3. Fresh!Init
  BY <1>1 DEF Fresh!Init, FrameHuf, FrameSeq
<1> QED
  BY <1>2, <1>3

LEMMA Steps == IInv /\ [Next]_vars => IInv' /\ [Fresh!Next]_(Fresh!vars)
<1> SUFFICES ASSUME IInv, [Next]_vars PROVE IInv' /\ [Fresh!Next]_(Fresh!vars)
  OBVIOUS
<1>1. CASE UNCHANGED vars
  BY <1>1 DEF vars, Fresh!vars, FrameHuf, FrameSeq, IInv, TypeOK
<1>2. CASE Next
  <2>1. CASE StartFrame
    BY <2>1, StartFrameKeeps DEF Fresh!Next
  <2>2. CASE CompressedBlock
    BY <2>2, CompressedBlockKeeps DEF Fresh!Next
  <2>3. CASE PlainLiterals \/ NoSequences \/ EndFrame \/ FailAtEnd
    BY <2>3, PlainStepsKeep DEF Fresh!Next
  <2>4. ASSUME NEW s \in HufHeaders \cup {Treeless}, CodedLiterals(s) \/ RejectLiterals(s)
        PROVE  IInv' /\ [Fresh!Next]_(Fresh!vars)
    BY <2>4, CodedLiteralsKeep, RejectLiteralsKeeps DEF Fresh!Next, Fresh!Sections
  <2>5. ASSUME NEW m \in Modes, SequenceTables(m) \/ RejectSequences(m)
        PROVE  IInv' /\ [Fresh!Next]_(Fresh!vars)
    BY <2>5, SequenceTablesKeep, RejectSequencesKeeps DEF Fresh!Next, Fresh!Modes, Modes
  <2>6. CASE Corrupt
    BY <2>6, CorruptKeeps DEF Fresh!Next
  <2> QED
    BY <1>2, <2>1, <2>2, <2>3, <2>4, <2>5, <2>6 DEF Next
<1> QED
  BY <1>1, <1>2

(* The inductive invariant.                                                *)
THEOREM Agreement == Spec => []IInv
  BY InitIInv, Steps, PTL DEF Spec

(* The workspace's records and their places keep their types.              *)
THEOREM TypesHold == Spec => []TypeOK
<1>1. IInv => TypeOK
  BY DEF IInv
<1> QED
  BY <1>1, Agreement, PTL

(* No cached table outlives what it was built from.                        *)
THEOREM CachesHold == Spec => []CachesAgree
<1>1. IInv => CachesAgree
  BY DEF IInv, TypeOK, HufInv, SeqInv, CacheInv, CachesAgree, SeqTablesReplaced
<1> QED
  BY <1>1, Agreement, PTL

(* A decoder with a workspace decodes every section as one that starts     *)
(* every frame with nothing but its dictionary.                            *)
THEOREM Implements == Spec => ImplementsFreshTables
  BY InitIInv, Steps, Agreement, PTL DEF Spec, ImplementsFreshTables, Fresh!Spec
=============================================================================
