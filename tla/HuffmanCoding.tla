---------------------------- MODULE HuffmanCoding ----------------------------
(***************************************************************************)
(* Huffman coding of literals: code lengths from counts, the description   *)
(* of the code by weights, the decode table, and streams coded singly or   *)
(* four at a time.                                                         *)
(*                                                                         *)
(* Counts and weights are sequences; symbol s is at s + 1.  A symbol of    *)
(* weight w > 0 has a code of log + 1 - w bits.                            *)
(***************************************************************************)
EXTENDS FseCoding
LOCAL INSTANCE SequencesExt

CONSTANTS MaxBits,      \* MAX_BITS: the longest code
          MaxExplicit   \* weights a direct description holds; its first byte
                        \* is at least MaxExplicit (128 in the code)
ASSUME MaxBitsAssumption == MaxBits \in 1 .. 11
ASSUME MaxExplicitAssumption == MaxExplicit \in 1 .. 128

WeightLog == 5         \* accuracy log of compressed weights

\* the members of S, each after those Before it
InOrder(S, Before(_, _)) ==
  [n \in 1 .. Cardinality(S) |->
     CHOOSE s \in S : Cardinality({ r \in S : Before(r, s) }) = n - 1]

Active(counts) == { i \in 1 .. Len(counts) : counts[i] > 0 }
MaxOf(f) == CHOOSE m \in { f[i] : i \in DOMAIN f } : \A i \in DOMAIN f : f[i] <= m

-----------------------------------------------------------------------------
(* huffman_bit_lengths: the two lightest nodes are joined until one is     *)
(* left, leaves before joined nodes of the same weight.  A node is its     *)
(* weight and the symbols below it.                                        *)

LeafBefore(counts, i, j) == counts[i] < counts[j] \/ (counts[i] = counts[j] /\ i < j)

LeafQueue(counts) ==
  LET Lighter(i, j) == LeafBefore(counts, i, j)
      order == InOrder(Active(counts), Lighter)
  IN  [n \in DOMAIN order |-> [weight |-> counts[order[n]], below |-> {order[n]}]]

TakesLeaf(leaves, joined) ==
  /\ leaves # << >>
  /\ joined = << >> \/ Head(leaves).weight <= Head(joined).weight

\* the symbols below each joined node
RECURSIVE Joins(_, _)
Joins(leaves, joined) ==
  IF Len(leaves) + Len(joined) = 1 THEN << >>
  ELSE LET a  == IF TakesLeaf(leaves, joined) THEN Head(leaves) ELSE Head(joined)
           l1 == IF TakesLeaf(leaves, joined) THEN Tail(leaves) ELSE leaves
           j1 == IF TakesLeaf(leaves, joined) THEN joined ELSE Tail(joined)
           b  == IF TakesLeaf(l1, j1) THEN Head(l1) ELSE Head(j1)
           l2 == IF TakesLeaf(l1, j1) THEN Tail(l1) ELSE l1
           j2 == IF TakesLeaf(l1, j1) THEN j1 ELSE Tail(j1)
           ab == [weight |-> a.weight + b.weight, below |-> a.below \cup b.below]
       IN  << ab.below >> \o Joins(l2, Append(j2, ab))

\* A symbol is as deep as nodes are joined above it.
BitLengths(counts) ==
  LET joins == Joins(LeafQueue(counts), << >>)
  IN  [i \in DOMAIN counts |-> Cardinality({ k \in DOMAIN joins : i \in joins[k] })]

\* Too deep a tree is built again from flatter counts.  (A plausible slip: a
\* count of one is lost.)
Halved(counts) == [i \in DOMAIN counts |-> counts[i] \div 2]
Flatter(counts) == [i \in DOMAIN counts |-> IF counts[i] = 0 THEN 0 ELSE 1 + counts[i] \div 2]

RECURSIVE ComputeWeights(_)
ComputeWeights(counts) ==
  LET lengths == BitLengths(counts)
      log     == MaxOf(lengths)
  IN  IF log > MaxBits THEN ComputeWeights(Flatter(counts))
      ELSE [log |-> log,
            weights |-> [i \in DOMAIN counts |->
                           IF lengths[i] = 0 THEN 0 ELSE log + 1 - lengths[i]]]

-----------------------------------------------------------------------------
(* The weights of all symbols but the last describe the code.              *)

\* compress_weights: two states take turns over the weights, backwards; four
\* bytes leave the container at a time.
PutTurn(w, field) ==
  LET added == AddBits(w, field)
  IN  IF Len(added.bits) < 32 THEN added
      ELSE [out  |-> added.out \o SubSeq(added.bits, 1, 32),
            bits |-> SubSeq(added.bits, 33, Len(added.bits))]

RECURSIVE EncodeTurns(_, _, _, _, _, _)
EncodeTurns(w, t, weights, i, mine, other) ==    \* `mine` codes weight i
  IF i = 0 THEN << w, mine, other >>
  ELSE LET tr == Transition(t, weights[i], mine)
       IN  EncodeTurns(PutTurn(w, tr.out), t, weights, i - 1, other, tr.next)

Distinct(weights) == Cardinality({ weights[i] : i \in DOMAIN weights })

WeightCounts(weights) ==
  [i \in 1 .. MaxOf(weights) + 1 |->
     Cardinality({ j \in DOMAIN weights : weights[j] = i - 1 })]

ClosedTurns(turns) ==
  LET Low(s) == Field(turns[s] % 2^WeightLog, WeightLog)
  IN  CloseStream(PutTurn(PutTurn(turns[1], Low(2)), Low(3)))
TurnsOver(t, weights) ==
  LET n == Len(weights)
  IN  EncodeTurns(EmptyWriter, t, weights, n - 2,
                  CoreInitState(t, weights[n]), CoreInitState(t, weights[n - 1]))
WeightsAs(dist, weights) ==
  Describe(dist, WeightLog) \o ClosedTurns(TurnsOver(CoreEncodeTable(dist, WeightLog), weights))
\* bits, or none if they cannot be compressed
CompressWeights(weights) ==
  IF Len(weights) < 2 \/ Distinct(weights) < 2 THEN << >>
  ELSE WeightsAs(NormalizeCounts(WeightCounts(weights), WeightLog), weights)

\* describe_weights: the shorter of the two forms, if one fits.
DirectWeights(explicit) ==
  LET Nibble(i) == Field(IF i <= Len(explicit) THEN explicit[i] ELSE 0, 4)
      Pair(i)   == Nibble(2 * i) \o Nibble(2 * i - 1)       \* the first is on top
      pairs[i \in 0 .. CeilDiv(Len(explicit), 2)] ==
        IF i = 0 THEN Field(Len(explicit) + MaxExplicit - 1, 8) ELSE pairs[i - 1] \o Pair(i)
  IN  pairs[CeilDiv(Len(explicit), 2)]

DescribeShorter(explicit, coded) ==
  LET bytes == Len(coded) \div 8
  IN  IF bytes \in 1 .. MaxExplicit - 1
           /\ (Len(explicit) > MaxExplicit \/ bytes < CeilDiv(Len(explicit), 2))
      THEN [ok |-> TRUE, bits |-> Field(bytes, 8) \o coded]
      ELSE IF Len(explicit) > MaxExplicit THEN Rejected
      ELSE [ok |-> TRUE, bits |-> DirectWeights(explicit)]
DescribeWeights(explicit) == DescribeShorter(explicit, CompressWeights(explicit))

\* The code of a symbol: its place among the 2^log entries of a decode table,
\* lighter symbols first, without the bits it does not need.
Entries(w) == IF w = 0 THEN 0 ELSE 2^(w - 1)
StartOf(weights, s) ==
  SumOf([i \in DOMAIN weights |->
           IF weights[i] < weights[s] \/ (weights[i] = weights[s] /\ i < s)
           THEN Entries(weights[i]) ELSE 0])

BuildCodes(weights, log) ==
  [s \in DOMAIN weights |->
     IF weights[s] = 0 THEN << >>
     ELSE Field(StartOf(weights, s) \div Entries(weights[s]), log + 1 - weights[s])]

\* from_histogram: counts are evened out until the weights can be described.
EvenOut(counts) == [i \in DOMAIN counts |-> CeilDiv(counts[i], 2)]

TableOf(described, weights, log) ==
  IF ~described.ok THEN Rejected
  ELSE [ok |-> TRUE, log |-> log, description |-> described.bits,
        codes |-> BuildCodes(weights, log)]
TableOfWeights(computed) ==
  TableOf(DescribeWeights(SubSeq(computed.weights, 1, Len(computed.weights) - 1)),
          computed.weights, computed.log)

RECURSIVE TableFromCounts(_)
TableFromCounts(counts) ==
  LET table == TableOfWeights(ComputeWeights(counts))
  IN  IF Cardinality(Active(counts)) < 2 THEN Rejected
      ELSE IF table.ok THEN table
      ELSE IF MaxOf(counts) <= 1 THEN Rejected ELSE TableFromCounts(EvenOut(counts))

\* from_decode_table: the weights are read off the entries (a dictionary's
\* table).  All entries of a symbol have the same length.
TableFromDecode(decode) ==
  LET seen == { decode.entry[c].symbol : c \in DOMAIN decode.entry }
      last == MaxOf([s \in seen |-> s])
      Bits(s) == (CHOOSE e \in { decode.entry[c] : c \in DOMAIN decode.entry } :
                    e.symbol = s).bits
      weights == [i \in 1 .. last + 1 |->
                    IF i - 1 \in seen THEN decode.log + 1 - Bits(i - 1) ELSE 0]
  IN  IF last > MaxExplicit \/ Cardinality(seen) < 2 THEN Rejected
      ELSE TableOf(DescribeWeights(SubSeq(weights, 1, last)), weights, decode.log)

-----------------------------------------------------------------------------
(* Reading a description.                                                  *)

ParseDirect(data) ==
  LET n == ValueOf(SubSeq(data, 1, 8)) - (MaxExplicit - 1)
      Nibble(i) == ValueOf(SubSeq(data, 8 + 4 * i - 3, 8 + 4 * i))
  IN  IF Len(data) < 8 * (1 + CeilDiv(n, 2)) THEN Rejected
      ELSE [ok |-> TRUE, used |-> 8 * (1 + CeilDiv(n, 2)),
            weights |-> [i \in 1 .. n |-> Nibble(IF i % 2 = 1 THEN i + 1 ELSE i - 1)]]

\* One weight a step.  A state that needs more bits than are left is the last
\* of its kind; the other state's weight ends the sequence.
RECURSIVE DecodeTurns(_, _, _, _, _)
DecodeTurns(t, r, mine, other, weights) ==
  LET e == t.entry[mine]
      got == Append(weights, e.symbol)
  IN  IF e.bits > 0 /\ BitsRemaining(r) < e.bits
      THEN Append(got, t.entry[other].symbol)
      ELSE IF Len(got) > 257 THEN got                        \* too many to be right
      ELSE DecodeTurns(t, AfterRead(r, e.bits), other, e.base + ReadBits(r, e.bits), got)

\* Four steps a round while 24 bits are left, then one at a time.
RECURSIVE DecodeRounds(_, _, _, _, _)
DecodeRounds(t, r0, s1, s2, weights) ==
  LET r  == RefillFastOrRegular(r0)
      e1 == t.entry[s1]
      a  == Consume(r, e1.bits)
      e2 == t.entry[s2]
      b  == Consume(a, e2.bits)
      n1 == e1.base + ReadBranchless(r, e1.bits)
      n2 == e2.base + ReadBranchless(a, e2.bits)
      e3 == t.entry[n1]
      c  == Consume(b, e3.bits)
      e4 == t.entry[n2]
      n3 == e3.base + ReadBranchless(b, e3.bits)
      n4 == e4.base + ReadBranchless(c, e4.bits)
  IN  IF Len(weights) > 251 \/ BitsRemaining(r) < 24 THEN DecodeTurns(t, r, s1, s2, weights)
      ELSE DecodeRounds(t, Consume(c, e4.bits), n3, n4,
                        weights \o << e1.symbol, e2.symbol, e3.symbol, e4.symbol >>)

\* the weights after the two first states
WeightsFrom(t, r0, r1, r2, inRounds) ==
  LET s1 == ReadBits(r0, t.log)
      s2 == ReadBits(r1, t.log)
  IN  IF inRounds THEN DecodeRounds(t, r2, s1, s2, << >>) ELSE DecodeTurns(t, r2, s1, s2, << >>)
DecodeWeights(t, stream, inRounds) ==
  LET r0 == NewReverse(stream)
      r1 == AfterRead(r0, t.log)
  IN  IF ~t.ok \/ ~OpensReverse(stream) \/ ~CanRead(r0, t.log) \/ ~CanRead(r1, t.log)
      THEN << >>
      ELSE WeightsFrom(t, r0, r1, AfterRead(r1, t.log), inRounds)
DecodeCompressed(coded, desc, inRounds) ==
  IF ~desc.ok THEN << >>
  ELSE DecodeWeights(BuildDecodeTable(desc.dist, desc.log),
                     SubSeq(coded, desc.bits + 1, Len(coded)), inRounds)
\* none, or too many, are an error
UsedWeights(bytes, weights) ==
  IF Len(weights) \notin 1 .. 255 THEN Rejected
  ELSE [ok |-> TRUE, used |-> 8 + 8 * bytes, weights |-> weights]

ParseCompressed(data, inRounds) ==
  LET bytes == ValueOf(SubSeq(data, 1, 8))
      coded == SubSeq(data, 9, 8 + 8 * bytes)
  IN  IF bytes = 0 \/ Len(data) < 8 + 8 * bytes THEN Rejected
      ELSE UsedWeights(bytes, DecodeCompressed(coded, ParseDescription(coded, 12, 6), inRounds))

ParseEither(data, inRounds) ==
  IF Len(data) = 0 THEN Rejected
  ELSE IF ValueOf(SubSeq(data, 1, 8)) >= MaxExplicit THEN ParseDirect(data)
  ELSE ParseCompressed(data, inRounds)

ParseWeights(data) == ParseEither(data, FALSE)
ParseWeightsInto(data) == ParseEither(data, TRUE)

-----------------------------------------------------------------------------
(* The decode table: the last weight makes up the sum to a power of two.   *)

WeightSum(weights) == SumOf([i \in DOMAIN weights |-> Entries(weights[i])])
TableLog(weights) == HighBit(WeightSum(weights)) + 1
LastEntries(weights) == 2^TableLog(weights) - WeightSum(weights)

Buildable(weights) ==
  /\ Len(weights) \in 1 .. 255
  /\ MaxOf(weights) <= MaxBits + 1
  /\ WeightSum(weights) > 0
  /\ TableLog(weights) <= MaxBits
  /\ LastEntries(weights) = 2^HighBit(LastEntries(weights))

AllWeights(weights) == Append(weights, HighBit(LastEntries(weights)) + 1)

Used(all) == { s \in DOMAIN all : all[s] > 0 }

\* Symbol after symbol in the given order, each with its entries.  The entry
\* for the index c is at c + 1.
Fill(all, log, order) ==
  LET Run(s) == [k \in 1 .. Entries(all[s]) |->
                   [symbol |-> s - 1, bits |-> log + 1 - all[s]]]
  IN  [ok |-> TRUE, log |-> log,
       entry |-> FlattenSeq([i \in DOMAIN order |-> Run(order[i])])]

\* build_huffman_decode_table: by weight, then by symbol
BuildTable(weights) ==
  LET all == AllWeights(weights)
      Lighter(r, s) == all[r] < all[s] \/ (all[r] = all[s] /\ r < s)
  IN  IF Buildable(weights) THEN Fill(all, TableLog(weights), InOrder(Used(all), Lighter)) ELSE Rejected

\* build_huffman_decode_table_into: a counting sort over four partitions of
\* the symbols, padded to the same length with weight 0.  (A plausible slip:
\* partitions of every fourth symbol.)
PartitionStrided(s, q) == (s - 1) % 4
PartitionOf(s, q) == (s - 1) \div q

BuildTableInto(weights) ==
  LET all == AllWeights(weights)
      q   == CeilDiv(Len(all), 4)
      padded == all \o Zeros(4 * q - Len(all))
      SortsBefore(r, s) ==
        \/ padded[r] < padded[s]
        \/ padded[r] = padded[s] /\ PartitionOf(r, q) < PartitionOf(s, q)
        \/ padded[r] = padded[s] /\ PartitionOf(r, q) = PartitionOf(s, q) /\ r < s
  IN  IF Buildable(weights)
      THEN Fill(padded, TableLog(weights), InOrder(Used(padded), SortsBefore)) ELSE Rejected
=============================================================================
