------------------------------ MODULE FseCoding ------------------------------
(***************************************************************************)
(* Finite state entropy: counts are normalised to a distribution over the  *)
(* 2^log states of a table, the distribution is written before the data,   *)
(* and both sides build their tables from it.                              *)
(*                                                                         *)
(* A distribution is a sequence; symbol s is at s + 1.  Probability -1 is  *)
(* "less than one": it owns one state.                                     *)
(***************************************************************************)
EXTENDS BitStreams, FiniteSets
LOCAL INSTANCE SequencesExt

Cells(prob) == IF prob = -1 THEN 1 ELSE prob
MinLog == 5

SumOf(f) ==
  LET upTo[i \in 0 .. Len(f)] == IF i = 0 THEN 0 ELSE upTo[i - 1] + f[i]
  IN  upTo[Len(f)]

-----------------------------------------------------------------------------
(* normalize_counts.                                                       *)

\* the first of the largest counts
Largest(freqs) ==
  CHOOSE i \in 1 .. Len(freqs) :
    /\ \A j \in 1 .. Len(freqs) : freqs[j] <= freqs[i]
    /\ \A j \in 1 .. i - 1 : freqs[j] < freqs[i]

\* (A plausible slip: a share that rounds to nothing gets no cell.)
ShareRoundsDown(freqs, log, i, distributed) ==
  IF freqs[i] = 0 \/ i = Largest(freqs) THEN 0
  ELSE (freqs[i] * 2^log) \div SumOf(freqs)
\* The others get their share, at least one cell, while cells are left.
Share(freqs, log, i, distributed) ==
  LET budget == 2^log - 1
      prob   == (freqs[i] * 2^log) \div SumOf(freqs)
  IN  IF freqs[i] = 0 \/ i = Largest(freqs) \/ distributed >= budget THEN 0
      ELSE IF prob < 1 THEN -1
      ELSE LeastOf2(prob, budget - distributed)

NormalizeCounts(freqs, log) ==
  LET given[i \in 0 .. Len(freqs)] ==         \* << shares, cells >> of the first i
        IF i = 0 THEN << << >>, 0 >>
        ELSE LET before == given[i - 1]
                 share  == Share(freqs, log, i, before[2])
             IN  << Append(before[1], share), before[2] + Cells(share) >>
      all == given[Len(freqs)]
  IN  [all[1] EXCEPT ![Largest(freqs)] = 2^log - all[2]]

-----------------------------------------------------------------------------
(* The table description.                                                  *)

\* A count takes nb bits, or one less below maxVal; large ones are shifted.
WriteCount(w, count, remaining, threshold, nb) ==
  LET maxVal == (2 * threshold - 1) - remaining
  IN  IF count < maxVal THEN WriteBits(w, count, nb - 1)
      ELSE IF count < threshold THEN WriteBits(w, count, nb)
      ELSE WriteBits(w, count + maxVal, nb)

RECURSIVE WriteZeros(_, _)
WriteZeros(w, z) ==
  IF z >= 3 THEN WriteZeros(WriteBits(w, 3, 2), z - 3) ELSE WriteBits(w, z, 2)

\* zero probabilities in a row from index i on
ZeroRun(dist, i) ==
  CHOOSE z \in 0 .. Len(dist) - i + 1 :
    /\ \A j \in i .. i + z - 1 : dist[j] = 0
    /\ i + z <= Len(dist) => dist[i + z] # 0

\* One count, and behind a zero how many more follow; the threshold halves
\* until what is left reaches it.  `so` is [w, i, remaining, nb].
WriteNext(so, dist) ==
  LET counted == WriteCount(so.w, dist[so.i] + 1, so.remaining, 2^(so.nb - 1), so.nb)
      left  == so.remaining - Cells(dist[so.i])
      zeros == IF dist[so.i] = 0 THEN ZeroRun(dist, so.i + 1) ELSE 0
  IN  [w |-> IF dist[so.i] = 0 THEN WriteZeros(counted, zeros) ELSE counted,
       i |-> so.i + 1 + zeros, remaining |-> left, nb |-> LeastOf2(so.nb, HighBit(left) + 1)]

WriteDistribution(w, dist, log) ==
  LET after[k \in 0 .. Len(dist)] ==
        IF k = 0 THEN [w |-> w, i |-> 1, remaining |-> 2^log + 1, nb |-> log + 1]
        ELSE LET so == after[k - 1]
             IN  IF so.i > Len(dist) \/ so.remaining <= 1 THEN so ELSE WriteNext(so, dist)
  IN  after[Len(dist)].w

Describe(dist, log) ==
  FlushRemaining(WriteDistribution(WriteBits(EmptyWriter, log - MinLog, 4), dist, log))

Rejected == [ok |-> FALSE]

\* Two-bit repeat codes after a zero: each 3 goes on.  << zeros, next bit >>
RECURSIVE ReadZeros(_, _, _)
ReadZeros(data, bit, zeros) ==
  LET code == WindowAt(data, bit, 2)
  IN  IF code = 3 /\ bit + 2 <= Len(data)
      THEN ReadZeros(data, bit + 2, zeros + 3)
      ELSE << zeros + code, bit + 2 >>

NextBits(nb, left) ==
  IF left < 2^(nb - 1) /\ left > 1 THEN HighBit(left) + 1 ELSE nb

RECURSIVE ReadDistribution(_, _, _, _, _, _)
ReadDistribution(data, bit, dist, remaining, nb, maxLen) ==
  IF remaining <= 1 \/ Len(dist) >= maxLen
  THEN [ok |-> remaining = 1, dist |-> dist \o Zeros(maxLen - Len(dist)), bit |-> bit]
  ELSE
    LET threshold == 2^(nb - 1)
        maxVal == (2 * threshold - 1) - remaining
        lower  == WindowAt(data, bit, nb - 1)
        full   == WindowAt(data, bit, nb)
        long   == lower >= maxVal
        count  == IF ~long THEN lower
                  ELSE IF full >= threshold THEN full - maxVal ELSE full
        after  == bit + nb - (IF long THEN 0 ELSE 1)
        prob   == count - 1
        left   == remaining - Cells(prob)
        zeros  == IF prob = 0 THEN ReadZeros(data, after, 0) ELSE << 0, after >>
    IN  IF left < 0 \/ zeros[2] > Len(data) THEN Rejected
        ELSE ReadDistribution(data, zeros[2],
               Append(dist, prob) \o Zeros(LeastOf2(zeros[1], maxLen - Len(dist) - 1)),
               left, NextBits(nb, left), maxLen)

\* parse_fse_table_description: the distribution, its log, and the bits read
ParseDescription(data, maxSymbol, maxLog) ==
  LET log == WindowAt(data, 0, 4) + MinLog
  IN  IF Len(data) < 4 \/ log > maxLog THEN Rejected
      ELSE LET read == ReadDistribution(data, 4, << >>, 2^log + 1, log + 1, maxSymbol + 1)
           IN  IF ~read.ok THEN Rejected
               ELSE [ok |-> TRUE, dist |-> read.dist, log |-> log,
                     bits |-> AlignToByte(read.bit)]

-----------------------------------------------------------------------------
(* Which symbol owns which state.                                          *)

StateStep(size) == (size \div 2) + (size \div 8) + 3

\* symbols of positive probability, laid down in order
LaidDown(dist) ==
  FlattenSeq([i \in 1 .. Len(dist) |-> [k \in 1 .. MostOf2(dist[i], 0) |-> i - 1]])

\* symbols of probability -1, which take the top states downwards
LowSymbols(dist) == { i \in 1 .. Len(dist) : dist[i] = -1 }
LowBefore(dist, i) == Cardinality({ j \in LowSymbols(dist) : j < i })
HighThreshold(dist, size) == size - 1 - Cardinality(LowSymbols(dist))

\* The step visits the states in a fixed order and passes over those at the top.
Visited(high, size) ==
  SelectSeq([k \in 1 .. size |-> ((k - 1) * StateStep(size)) % size], LAMBDA c : c <= high)

\* What is laid on a state later stays; the position is back at 0 once all have been visited.
Lay(table, order, high, size) ==
  LET places == Visited(high, size)
      n == Len(places)
      On(c) == { k \in DOMAIN order : places[1 + ((k - 1) % n)] = c }
  IN  [ok |-> order = << >> \/ Len(order) % n = 0,
       table |-> [c \in 0 .. size - 1 |->
                    IF On(c) = {} THEN table[c]
                    ELSE order[CHOOSE k \in On(c) : \A j \in On(c) : j <= k]]]

TopStates(dist, size) ==
  [c \in 0 .. size - 1 |->
     IF c <= HighThreshold(dist, size) THEN 0
     ELSE (CHOOSE i \in LowSymbols(dist) : LowBefore(dist, i) = size - 1 - c) - 1]

\* the encoders' spread
SpreadSymbols(dist, log) ==
  Lay(TopStates(dist, 2^log), LaidDown(dist), HighThreshold(dist, 2^log), 2^log)

\* the decoder's: without low symbols, two symbols a round at fixed places.
PlaceOfPair(j, size) == ((j \div 2) * 2 * StateStep(size) + (j % 2) * StateStep(size)) % size

SpreadFast(dist, size) ==
  LET order == LaidDown(dist)
  IN  [ok |-> (size * StateStep(size)) % size = 0,
       table |-> [c \in 0 .. size - 1 |->
                    order[1 + CHOOSE j \in 0 .. size - 1 : PlaceOfPair(j, size) = c]]]

SpreadToDecode(dist, log) ==
  IF LowSymbols(dist) = {} /\ 2^log \in 32 .. 512 /\ Len(LaidDown(dist)) = 2^log
  THEN SpreadFast(dist, 2^log)
  ELSE SpreadSymbols(dist, log)

-----------------------------------------------------------------------------
(* build_decode_table: each state's symbol, how many bits lead out of it   *)
(* and to which states.                                                    *)

RankOf(table, c, dist) ==
  Cells(dist[table[c] + 1]) + Cardinality({ d \in 0 .. c - 1 : table[d] = table[c] })

BuildDecodeTable(dist, log) ==
  LET spread == SpreadToDecode(dist, log)
      table  == spread.table
      Entry(c) == LET rank == RankOf(table, c, dist)
                      nb   == log - HighBit(rank)
                  IN  [symbol |-> table[c], bits |-> nb, base |-> rank * 2^nb - 2^log]
  IN  [ok |-> spread.ok, log |-> log,
       entry |-> [c \in 0 .. 2^log - 1 |-> Entry(c)]]

-----------------------------------------------------------------------------
(* The encoding table, built in three places.                              *)

\* bits a symbol of `cells` states gives out at most
MaxBitsOut(cells, log) == IF cells = 1 THEN log ELSE log - HighBit(cells - 1)

\* The transform of a symbol whose states begin at number `first`.
Transform(cells, first, log, none) ==
  IF cells = 0 THEN [bits |-> none, find |-> 0]
  ELSE [bits |-> MaxBitsOut(cells, log) * 65536 - cells * 2^MaxBitsOut(cells, log),
        find |-> first - cells]

\* States grouped by symbol, as values from 2^log up.
SortedStates(table, symbols, size) ==
  LET states == [c \in 1 .. size |-> c - 1]
      OfSymbol(s) == SelectSeq(states, LAMBDA c : table[c] = s)
      all == FlattenSeq([i \in 1 .. symbols |-> OfSymbol(i - 1)])
  IN  [n \in 1 .. Len(all) |-> size + all[n]]

\* `none` stands for a symbol without a cell.
EncodeTableOf(table, counts, log, none) ==
  [ok |-> TRUE, log |-> log,
   tt |-> [i \in 1 .. Len(counts) |->
             Transform(counts[i], SumOf(SubSeq(counts, 1, i - 1)), log, none)],
   states |-> SortedStates(table, Len(counts), 2^log)]

\* the core's FseEncodeTable::from_distribution
CoreEncodeTable(dist, log) ==
  EncodeTableOf(SpreadSymbols(dist, log).table, [i \in DOMAIN dist |-> Cells(dist[i])],
                log, (log + 1) * 65536 - 2^log)

\* the block encoder's, from a decode table: the states are counted
EncodeTableFromDecode(decode, maxSymbol) ==
  LET table == [c \in DOMAIN decode.entry |-> decode.entry[c].symbol]
  IN  EncodeTableOf(table,
        [i \in 1 .. maxSymbol + 1 |-> Cardinality({ c \in DOMAIN table : table[c] = i - 1 })],
        decode.log, (decode.log + 1) * 65536 + 2^decode.log)

\* and from a distribution, which must fill the table
EncodeTableFromDistribution(dist, log, maxSymbol) ==
  LET used   == SubSeq(dist, 1, maxSymbol + 1)
      spread == SpreadSymbols(used, log)
  IN  IF Cardinality(LowSymbols(used)) >= 2^log \/ ~spread.ok THEN Rejected
      ELSE EncodeTableOf(spread.table, [i \in DOMAIN used |-> Cells(used[i])],
                         log, (log + 1) * 65536 + 2^log)

\* The place of the state for the last symbol, which gives out no bits.  A
\* symbol without a cell has none: the code's index wraps out of the table.
InitPlace(t, symbol, rounding) ==
  LET tt   == t.tt[symbol + 1]
      bits == (tt.bits + rounding) \div 65536
  IN  1 + ((bits * 65536 - tt.bits) \div 2^bits) + tt.find

CoreInitState(t, symbol)  == t.states[InitPlace(t, symbol, 65536)]
HasInitState(t, symbol)   == InitPlace(t, symbol, 32768) \in DOMAIN t.states
BlockInitState(t, symbol) == t.states[InitPlace(t, symbol, 32768)]

\* Bits given out for `symbol` in `state`, and the state before it.
Transition(t, symbol, state) ==
  LET tt   == t.tt[symbol + 1]
      bits == (tt.bits + state) \div 65536
  IN  [out  |-> Field(state % 2^bits, bits),
       next |-> t.states[1 + (state \div 2^bits) + tt.find]]
=============================================================================
