--------------------------- MODULE SequenceDecoding ---------------------------
(***************************************************************************)
(* Reading a sequence section back: the count, the three tables and the    *)
(* sequences.  A block of one sequence has a path of its own.              *)
(***************************************************************************)
EXTENDS SequenceCoding

ByteAt(data, i) == WindowAt(data, 8 * (i - 1), 8)

\* parse_sequence_count: the count and the bits it took
ParseSequenceCount(data) ==
  LET bytes == Len(data) \div 8
      first == ByteAt(data, 1)
      need  == IF first < 128 THEN 1 ELSE IF first < 255 THEN 2 ELSE 3
  IN  IF bytes = 0 \/ bytes < need THEN Rejected
      ELSE [ok |-> TRUE, bits |-> 8 * need,
            count |-> CASE need = 1 -> first
                        [] need = 2 -> (first - 128) * 256 + ByteAt(data, 2)
                        [] OTHER    -> ByteAt(data, 2) + 256 * ByteAt(data, 3) + 32512]

-----------------------------------------------------------------------------
(* Tables, with each state's extra bits and baseline in them.              *)

SequenceTable(field, table) ==
  [log |-> table.log,
   row |-> [c \in DOMAIN table.entry |->
              LET e == table.entry[c]
              IN  [bits |-> e.bits, base |-> e.base, extra |-> ExtraOf(field, e.symbol)]]]

\* one state that never leaves itself
Single(field, code) ==
  [log |-> 0, row |-> [c \in {0} |-> [bits |-> 0, base |-> 0, extra |-> ExtraOf(field, code)]]]

\* a table found in so many bits, and one built from a description
GotTable(table, bits) == [ok |-> TRUE, table |-> table, bits |-> bits]
GotBuilt(field, built, bits) ==
  IF built.ok THEN GotTable(SequenceTable(field, built), bits) ELSE Rejected
GotDescribed(field, d) ==
  IF d.ok THEN GotBuilt(field, BuildDecodeTable(d.dist, d.log), d.bits) ELSE Rejected

\* One field's table, at the start of `rest`.  The accuracy is limited twice:
\* by the description's own limit and by the field's.
ParseTable(field, mode, rest, predefined, previous) ==
  CASE mode = 0 -> GotTable(predefined[field], 0)
    [] mode = 1 -> IF Len(rest) < 8 \/ WindowAt(rest, 0, 8) > MaxCode[field] THEN Rejected
                   ELSE GotTable(Single(field, WindowAt(rest, 0, 8)), 8)
    [] mode = 2 -> GotDescribed(field, ParseDescription(rest, MaxCode[field], MaxLogOf[field]))
    [] mode = 3 -> IF previous[field] = NoTable THEN Rejected ELSE GotTable(previous[field], 0)

\* the tables parsed so far and a further field's
WithTable(so, field, found) ==
  IF found.ok THEN [so EXCEPT !.bits = @ + found.bits, !.tables[field] = found.table]
  ELSE Rejected
ParseNext(so, field, mode, data, predefined, previous) ==
  IF ~so.ok THEN Rejected
  ELSE WithTable(so, field, ParseTable(field, mode, SubSeq(data, so.bits + 1, Len(data)),
                                       predefined, previous))

\* parse_sequence_tables_ws, without the cache DecoderTables is about
ParseSequenceTables(data, predefined, previous) ==
  LET upTo[i \in 0 .. 3] ==
        IF i = 0 THEN [ok |-> TRUE, bits |-> 8, tables |-> previous]
        ELSE ParseNext(upTo[i - 1], << "ll", "of", "ml" >>[i], WindowAt(data, 8 - 2 * i, 2),
                       data, predefined, previous)
  IN  IF Len(data) < 8 \/ WindowAt(data, 0, 2) # 0 THEN Rejected ELSE upTo[3]

-----------------------------------------------------------------------------
(* The stream: `left` unread bits, seen through a word of eight bytes that *)
(* is loaded once a sequence.  A read past the start makes `left` negative,*)
(* which stands for a count that wrapped.                                  *)

WordBits == 57
NeverReload == 2 * Word         \* (A plausible slip: no second load.)
MidReload == Word - 7 - (9 + 9 + 8)

LoadWord(data, left) ==
  LET far == Len(data) \div 8 - 8
      pos == IF left < 0 THEN far
             ELSE IF left < WordBits THEN 0
             ELSE LeastOf2((left - WordBits) \div 8, far)
  IN  [pos |-> pos, avail |-> left - 8 * pos]
LeftOf(w) == 8 * w.pos + w.avail

ReadWord(data, w, n) ==
  LET low == (w.avail - n) % Word
  IN  ValueOf([i \in 1 .. n |->
                 IF low + i > Word THEN 0 ELSE data[8 * w.pos + low + i]])
After(w, n) == [w EXCEPT !.avail = @ - n]

\* SeqDecoder::decode: a sequence, the states and bits after it
DecodeSequence(data, tables, now, update) ==
  LET of == tables["of"].row[now.of]
      ml == tables["ml"].row[now.ml]
      ll == tables["ll"].row[now.ll]
      w1 == LoadWord(data, now.left)
      w2 == After(w1, of.extra[1])
      w3 == After(w2, ml.extra[1])
      w4 == IF ll.extra[1] + ml.extra[1] + of.extra[1] > MidReload
            THEN LoadWord(data, LeftOf(w3)) ELSE w3
      w5 == After(w4, ll.extra[1])
      w6 == After(w5, ll.bits)
      w7 == After(w6, ml.bits)
      w8 == After(w7, of.bits)
      seq == [ov |-> of.extra[2] + ReadWord(data, w1, of.extra[1]),
              ml |-> ml.extra[2] + ReadWord(data, w2, ml.extra[1]),
              ll |-> ll.extra[2] + ReadWord(data, w4, ll.extra[1])]
  IN  IF ~update THEN [now EXCEPT !.seqs = Append(@, seq), !.left = LeftOf(w5)]
      ELSE [seqs |-> Append(now.seqs, seq),
            left |-> LeftOf(w8),
            ll |-> ll.base + ReadWord(data, w5, ll.bits),
            ml |-> ml.base + ReadWord(data, w6, ml.bits),
            of |-> of.base + ReadWord(data, w7, of.bits)]

\* decode_execute_sequences, but for the execution
DecodeSequences(stream, n, tables) ==
  LET data  == stream \o Zeros(MostOf2(Word - Len(stream), 0))
      left  == Len(stream) - MarkerBits(stream)
      w1    == LoadWord(data, left)
      w2    == After(w1, tables["ll"].log)
      w3    == After(w2, tables["of"].log)
      start == [seqs |-> << >>,
                ll |-> ReadWord(data, w1, tables["ll"].log),
                of |-> ReadWord(data, w2, tables["of"].log),
                ml |-> ReadWord(data, w3, tables["ml"].log),
                left |-> LeftOf(After(w3, tables["ml"].log))]
      upTo[i \in 0 .. n] ==
        IF i = 0 THEN start ELSE DecodeSequence(data, tables, upTo[i - 1], i < n)
  IN  IF ~OpensReverse(stream) THEN Rejected
      ELSE IF left < tables["ll"].log + tables["of"].log + tables["ml"].log THEN Rejected
      ELSE [ok |-> upTo[n].left = 0, seqs |-> upTo[n].seqs]

\* decode_execute_single_sequence: checked reads for the states, then one
\* refill for all the extra bits
DecodeSingleSequence(stream, tables) ==
  LET r0 == NewReverse(stream)
      r1 == AfterRead(r0, tables["ll"].log)
      r2 == AfterRead(r1, tables["of"].log)
      r3 == Refill(AfterRead(r2, tables["ml"].log))
      ll == tables["ll"].row[ReadBits(r0, tables["ll"].log)].extra
      of == tables["of"].row[ReadBits(r1, tables["of"].log)].extra
      ml == tables["ml"].row[ReadBits(r2, tables["ml"].log)].extra
      r4 == Consume(r3, of[1])
      r5 == Consume(r4, ml[1])
      r6 == Consume(r5, ll[1])
  IN  IF ~OpensReverse(stream) THEN Rejected
      ELSE IF ~CanRead(r0, tables["ll"].log) \/ ~CanRead(r1, tables["of"].log)
              \/ ~CanRead(r2, tables["ml"].log)
      THEN Rejected
      ELSE [ok |-> IsExhausted(r6),
            seqs |-> << [ov |-> of[2] + ReadBranchless(r3, of[1]),
                         ml |-> ml[2] + ReadBranchless(r4, ml[1]),
                         ll |-> ll[2] + ReadBranchless(r5, ll[1])] >>]

\* A whole section: what follows its count, what follows its tables.
ReadStream(stream, n, tables) ==
  IF n = 1 THEN DecodeSingleSequence(stream, tables) ELSE DecodeSequences(stream, n, tables)
ReadParsed(rest, n, parsed) ==
  IF parsed.ok THEN ReadStream(SubSeq(rest, parsed.bits + 1, Len(rest)), n, parsed.tables)
  ELSE Rejected
ReadCounted(count, rest, predefined, previous) ==
  ReadParsed(rest, count.count, ParseSequenceTables(rest, predefined, previous))
ReadSection(data, predefined, previous) ==
  LET count == ParseSequenceCount(data)
  IN  IF ~count.ok \/ count.count = 0 THEN Rejected
      ELSE ReadCounted(count, SubSeq(data, count.bits + 1, Len(data)), predefined, previous)
=============================================================================
