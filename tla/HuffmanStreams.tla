--------------------------- MODULE HuffmanStreams ---------------------------
(***************************************************************************)
(* Streams of Huffman codes.  The encoder writes a segment backwards; the  *)
(* decoders read it forwards, as far as they can in rounds that need no    *)
(* check per symbol, then one symbol at a time.                            *)
(*                                                                         *)
(* `table` is a decode table of HuffmanCoding, a stream in progress is its *)
(* reader and the symbols read so far.                                     *)
(***************************************************************************)
EXTENDS HuffmanCoding

GroupSize == 4         \* symbols the encoder gathers before a flush
RoundSize == 5         \* symbols of a decoding round
RoundBytes == 7        \* bytes a round may move back by
PairLookups == 4       \* lookups of a round that reads pairs
PairWindow == 10       \* room such a round needs in its segment

-----------------------------------------------------------------------------
(* encode_single_stream: groups of four from the end, then the head.       *)

RECURSIVE PutGroups(_, _, _)
PutGroups(w, codes, data) ==
  LET n == LeastOf2(GroupSize, Len(data))
      gather[k \in 0 .. n] ==
        IF k = 0 THEN w ELSE AddBits(gather[k - 1], codes[data[Len(data) + 1 - k] + 1])
  IN  IF data = << >> THEN w
      ELSE PutGroups(FlushBytes(gather[n]), codes, SubSeq(data, 1, Len(data) - n))

EncodeSingleStream(t, data) == CloseStream(PutGroups(EmptyWriter, t.codes, data))

\* encode_4_streams: equal segments, the last what is left, after their sizes
Segment(data, k) ==
  LET seg == CeilDiv(Len(data), 4)
  IN  SubSeq(data, (k - 1) * seg + 1, LeastOf2(k * seg, Len(data)))

Encode4Streams(t, data) ==
  LET coded(k) == EncodeSingleStream(t, Segment(data, k))
      size(k)  == Field((Len(coded(k)) \div 8) % 65536, 16)
  IN  size(1) \o size(2) \o size(3) \o coded(1) \o coded(2) \o coded(3) \o coded(4)

-----------------------------------------------------------------------------
(* Single-stream decoding.                                                 *)

ValidTable(table) == table.ok /\ table.log \in 1 .. MaxBits

Sees(st, table) == table.entry[1 + PeekBits(st.r, table.log)]
Takes(st, e) == [r |-> Consume(st.r, e.bits), out |-> Append(st.out, e.symbol)]

RECURSIVE TakeSymbols(_, _, _)
TakeSymbols(st, table, n) ==
  IF n = 0 THEN st ELSE TakeSymbols(Takes(st, Sees(st, table)), table, n - 1)

\* symbol by symbol to the end; the stream must end with the last one
RECURSIVE TakeRest(_, _, _)
TakeRest(st, table, size) ==
  IF Len(st.out) >= size THEN [st EXCEPT !.out = IF IsExhausted(st.r) THEN @ ELSE << -1 >>]
  ELSE IF st.r.consumed >= Word THEN [st EXCEPT !.out = << -1 >>]
  ELSE TakeRest(Takes(st, Sees(st, table)), table, size)

\* decode_stream_tail: rounds while five of the longest codes are left
RECURSIVE DecodeStreamTail(_, _, _)
DecodeStreamTail(st0, table, size) ==
  LET st == [st0 EXCEPT !.r = Refill(@)]
  IN  IF /\ Len(st.out) + RoundSize <= size
         /\ BitsRemaining(st.r) >= RoundSize * table.log
         /\ Word - st.r.consumed >= RoundSize * table.log
      THEN DecodeStreamTail(TakeSymbols(st, table, RoundSize), table, size)
      ELSE TakeRest(st, table, size)

Failure == [ok |-> FALSE]
ResultOf(out) == IF \E i \in DOMAIN out : out[i] = -1 THEN Failure
                 ELSE [ok |-> TRUE, out |-> out]

DecodeSingleStreamInto(table, data, size) ==
  IF ~ValidTable(table) \/ ~OpensReverse(data) THEN Failure
  ELSE ResultOf(DecodeStreamTail([r |-> NewReverse(data), out |-> << >>], table, size).out)

\* decode_single_stream, which refills after every symbol and checks every
\* symbol at the end of the stream
TakeAndRefill(st, e) == [Takes(st, e) EXCEPT !.r = Refill(@)]

RECURSIVE TakeChecked(_, _, _)
TakeChecked(st0, table, size) ==
  LET st   == [st0 EXCEPT !.r = Refill(@)]
      left == BitsRemaining(st.r)
      bits == IF left >= table.log THEN PeekBits(st.r, table.log)
              ELSE PeekBits(st.r, left) * 2^(table.log - left)
      e    == table.entry[1 + bits]
  IN  IF Len(st0.out) >= size
      THEN IF BitsRemaining(st0.r) = 0 THEN st0 ELSE [st0 EXCEPT !.out = << -1 >>]
      ELSE IF left = 0 \/ e.bits > left THEN [st0 EXCEPT !.out = << -1 >>]
      ELSE TakeChecked(Takes(st, e), table, size)

RECURSIVE TakeFours(_, _, _)
TakeFours(st, table, size) ==
  IF Len(st.out) + 4 <= size /\ BitsRemaining(st.r) >= 4 * table.log
  THEN LET s1 == TakeAndRefill(st, Sees(st, table))
           s2 == TakeAndRefill(s1, Sees(s1, table))
           s3 == TakeAndRefill(s2, Sees(s2, table))
       IN  TakeFours(TakeAndRefill(s3, Sees(s3, table)), table, size)
  ELSE TakeChecked(st, table, size)

DecodeSingleStream(table, data, size) ==
  IF ~ValidTable(table) \/ ~OpensReverse(data) THEN Failure
  ELSE ResultOf(TakeFours([r |-> NewReverse(data), out |-> << >>], table, size).out)

-----------------------------------------------------------------------------
(* Four streams at once.  A round loads each container, with a sentinel in *)
(* its lowest bit whose place tells how much was read since.               *)

\* The sentinel reads as a bit of the stream, and nothing is below it.
PeekLoaded(r, n) ==
  LET low == Word - r.consumed - n
      At(i) == IF low + i < 0 THEN 0 ELSE IF low + i = 0 THEN 1
               ELSE PeekAfter(r, Word - (low + i) - 1, 1)
  IN  ValueOf([i \in 1 .. n |-> At(i - 1)])

Reload(r) == [r EXCEPT !.ptr = @ - (r.consumed \div 8), !.consumed = @ % 8]

SeesLoaded(st, table) == table.entry[1 + PeekLoaded(st.r, table.log)]

RECURSIVE TakeLoaded(_, _, _)
TakeLoaded(st, table, n) ==
  IF n = 0 THEN st ELSE TakeLoaded(Takes(st, SeesLoaded(st, table)), table, n - 1)

\* rounds that every stream has the room and the input for
Limit(r) == IF Bytes(r) >= 8 THEN 8 ELSE 0
RoundsOf(st, size, room) ==
  LeastOf2((size - Len(st.out)) \div room, MostOf2(st.r.ptr - Limit(st.r), 0) \div RoundBytes)
SafeRounds(sts, sizes, room) ==
  LET rounds == { RoundsOf(sts[k], sizes[k], room) : k \in 1 .. 4 }
  IN  CHOOSE n \in rounds : \A m \in rounds : n <= m

DecodeFive(st, table) == TakeLoaded([st EXCEPT !.r = Reload(@)], table, RoundSize)

\* The rounds that are safe run without a check between them.
RECURSIVE FiveRounds(_, _, _)
FiveRounds(sts, table, sizes) ==
  LET rounds == SafeRounds(sts, sizes, RoundSize)
      after[n \in 0 .. rounds] ==
        IF n = 0 THEN sts ELSE [k \in 1 .. 4 |-> DecodeFive(after[n - 1][k], table)]
  IN  IF rounds = 0 THEN sts ELSE FiveRounds(after[rounds], table, sizes)

\* build_pair_table: the row of an index decodes the code at its top, and the
\* next when both fit.  (A plausible slip: any two codes make a pair.)
PairFitsAlways(a, b) == TRUE
PairFits(a, b) == a.bits + b.bits <= MaxBits

PairRow(table, index) ==
  LET down == 2^(MaxBits - table.log)
      a == table.entry[1 + index \div down]
      b == table.entry[1 + ((index * 2^a.bits) % 2^MaxBits) \div down]
  IN  IF PairFits(a, b) THEN [bits |-> a.bits + b.bits, symbols |-> << a.symbol, b.symbol >>]
      ELSE [bits |-> a.bits, symbols |-> << a.symbol >>]

RECURSIVE TakePairs(_, _, _)
TakePairs(st, table, n) ==
  LET row == PairRow(table, PeekLoaded(st.r, MaxBits))
  IN  IF n = 0 THEN st
      ELSE TakePairs([r |-> Consume(st.r, row.bits), out |-> st.out \o row.symbols],
                     table, n - 1)

DecodePairs(st, table) == TakePairs([st EXCEPT !.r = Reload(@)], table, PairLookups)

RECURSIVE PairRounds(_, _, _)
PairRounds(sts, table, sizes) ==
  LET rounds == SafeRounds(sts, sizes, PairWindow)
      after[n \in 0 .. rounds] ==
        IF n = 0 THEN sts ELSE [k \in 1 .. 4 |-> DecodePairs(after[n - 1][k], table)]
  IN  IF rounds = 0 THEN sts ELSE PairRounds(after[rounds], table, sizes)

\* finish_fast: rounds of one stream, while a load does not pass its ends
RECURSIVE FinishFast(_, _, _)
FinishFast(st, table, size) ==
  LET shift == st.r.consumed \div 8
  IN  IF /\ Len(st.out) + RoundSize <= size
         /\ st.r.ptr >= Limit(st.r)
         /\ shift <= st.r.ptr /\ st.r.ptr - shift + 8 <= Bytes(st.r)
      THEN FinishFast(TakeSymbols([st EXCEPT !.r = Reload(@)], table, RoundSize), table, size)
      ELSE st

\* decode_4_streams_core
Decode4Streams(table, data, size, inPairs) ==
  LET Jump(k) == ValueOf(SubSeq(data, 16 * k - 15, 16 * k))
      ends   == << 6, 6 + Jump(1), 6 + Jump(1) + Jump(2), 6 + Jump(1) + Jump(2) + Jump(3),
                   Len(data) \div 8 >>
      part(k) == SubSeq(data, 8 * ends[k] + 1, 8 * ends[k + 1])
      seg    == CeilDiv(size, 4)
      sizes  == << seg, seg, seg, size - 3 * seg >>
      opened == [k \in 1 .. 4 |-> [r |-> NewReverse(part(k)), out |-> << >>]]
      paired == IF inPairs THEN PairRounds(opened, table, sizes) ELSE opened
      rounds == FiveRounds(paired, table, sizes)
      done(k) == DecodeStreamTail(FinishFast(rounds[k], table, sizes[k]), table, sizes[k]).out
  IN  IF \/ ~ValidTable(table) \/ Len(data) < 48 \/ ends[4] > ends[5] \/ 3 * seg >= size
         \/ \E k \in 1 .. 4 : ~OpensReverse(part(k))
      THEN Failure
      ELSE ResultOf(done(1) \o done(2) \o done(3) \o done(4))
=============================================================================
