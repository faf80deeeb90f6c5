---------------------------- MODULE SequenceCoding ----------------------------
(***************************************************************************)
(* The sequence section of a block: literal lengths, match lengths and     *)
(* offset values as codes with extra bits, the codes through three tables  *)
(* and one reverse stream.                                                 *)
(*                                                                         *)
(* A sequence is [ll, ml, ov]: literal length, match length and the offset *)
(* value RepOffsets is about.                                              *)
(***************************************************************************)
EXTENDS FseCoding

CONSTANT CustomMin      \* sequences a block needs for tables of its own: 64
ASSUME CustomMinAssumption == CustomMin \in Nat

Fields == {"ll", "of", "ml"}
MaxCode == [ll |-> 35, of |-> 31, ml |-> 52]
MaxLogOf == [ll |-> 9, of |-> 8, ml |-> 9]

Times(n, v) == [i \in 1 .. n |-> v]
DefaultDist ==
  [ll |-> << 4, 3 >> \o Times(11, 2) \o Ones(3) \o Times(9, 2) \o << 3, 2 >>
            \o Ones(5) \o Times(4, -1),
   ml |-> << 1, 4, 3 >> \o Times(6, 2) \o Ones(37) \o Times(7, -1),
   of |-> Ones(6) \o Times(3, 2) \o Ones(15) \o Times(5, -1)]
DefaultLog == [ll |-> 6, of |-> 5, ml |-> 6]

-----------------------------------------------------------------------------
(* Codes.                                                                  *)

\* how many lengths share a code, by code
LLRuns == Ones(16) \o << 2, 2, 2, 2, 4, 4, 8, 8, 16 >>
MLRuns == Ones(32) \o << 2, 2, 2, 2, 4, 4, 8, 8, 16, 16, 32 >>

RowOf(runs, v) ==
  LET first(c) == SumOf(SubSeq(runs, 1, c))
      code == CHOOSE c \in 0 .. Len(runs) - 1 : first(c) <= v /\ v < first(c + 1)
  IN  [code |-> code, extra |-> Field(v - first(code), HighBit(runs[code + 1]))]

\* Beyond the runs a code is a power of two.
PowerOf(v, above) ==
  [code |-> HighBit(v) + above, extra |-> Field(v - 2^HighBit(v), HighBit(v))]

LLSplit(ll) == IF ll < 64 THEN RowOf(LLRuns, ll) ELSE PowerOf(ll, 19)
MLSplit(ml) == IF ml - 3 < 128 THEN RowOf(MLRuns, ml - 3) ELSE PowerOf(ml - 3, 36)
OFSplit(ov) == PowerOf(ov, 0)

Pack(seq) ==
  LET ll == LLSplit(seq.ll)  ml == MLSplit(seq.ml)  of == OFSplit(seq.ov)
  IN  [code |-> [ll |-> ll.code, ml |-> ml.code, of |-> of.code],
       extra |-> ll.extra \o ml.extra \o of.extra]
PackAll(seqs) == [i \in DOMAIN seqs |-> Pack(seqs[i])]

\* the decoder's side of a code: extra bits and baseline
LLBits == Zeros(16) \o << 1, 1, 1, 1, 2, 2, 3, 3, 4 >> \o [i \in 1 .. 11 |-> i + 5]
LLBaseline ==
  [i \in 1 .. 16 |-> i - 1] \o << 16, 18, 20, 22, 24, 28, 32, 40, 48 >>
  \o [i \in 1 .. 11 |-> 2^(i + 5)]
MLBits == Zeros(32) \o << 1, 1, 1, 1, 2, 2, 3, 3, 4, 4, 5 >> \o [i \in 1 .. 10 |-> i + 6]
MLBaseline ==
  [i \in 1 .. 32 |-> i + 2] \o << 35, 37, 39, 41, 43, 47, 51, 59, 67, 83, 99 >>
  \o [i \in 1 .. 10 |-> 2^(i + 6) + 3]

ExtraOf(field, code) ==
  CASE field = "ll" -> << LLBits[code + 1], LLBaseline[code + 1] >>
    [] field = "ml" -> << MLBits[code + 1], MLBaseline[code + 1] >>
    [] OTHER        -> << code, 2^code >>

-----------------------------------------------------------------------------
(* Writing the stream.  A field coded by its one symbol has no table.      *)

NoTable == [log |-> 0]
Codes(packed, field) == [i \in DOMAIN packed |-> packed[i].code[field]]

FirstState(t, code) == IF t = NoTable THEN 0 ELSE BlockInitState(t, code)
Through(t, code, state) ==
  IF t = NoTable THEN [out |-> << >>, next |-> 0] ELSE Transition(t, code, state)
StateBits(t, state) == IF t = NoTable THEN << >> ELSE Field(state - 2^t.log, t.log)

\* (A plausible slip: up to 56 bits are added without a flush.)
AddExtraUnflushed(w, extra) ==
  IF Len(extra) <= 56 THEN AddBits(w, extra)
  ELSE AddBits(FlushBytes(AddBits(FlushBytes(w), SubSeq(extra, 1, 32))),
               SubSeq(extra, 33, Len(extra)))
AddExtra(w, extra) ==
  IF Len(extra) <= 30 THEN AddBits(w, extra)
  ELSE IF Len(extra) <= 56 THEN AddBits(FlushBytes(w), extra)
  ELSE AddBits(FlushBytes(AddBits(FlushBytes(w), SubSeq(extra, 1, 32))),
               SubSeq(extra, 33, Len(extra)))

\* One sequence, the writer and the states coming from the one after it.
PutSequence(tables, p, now) ==
  LET through == [f \in Fields |-> Through(tables[f], p.code[f], now.state[f])]
  IN  [state |-> [f \in Fields |-> through[f].next],
       w |-> AddExtra(AddBits(FlushBytes(now.w), through["of"].out \o through["ml"].out
                                                   \o through["ll"].out), p.extra)]

SequenceStream(tables, packed) ==
  LET n == Len(packed)
      last == [w |-> AddBits(EmptyWriter, packed[n].extra),
               state |-> [f \in Fields |-> FirstState(tables[f], packed[n].code[f])]]
      from[k \in 1 .. n] ==
        IF k = n THEN last ELSE PutSequence(tables, packed[k], from[k + 1])
      end == from[1]
  IN  CloseStream(AddBits(FlushBytes(end.w),
        StateBits(tables["ml"], end.state["ml"]) \o StateBits(tables["of"], end.state["of"])
        \o StateBits(tables["ll"], end.state["ll"])))

Byte(v) == Field(v, 8)
WriteSeqCount(n) ==
  IF n < 128 THEN Byte(n)
  ELSE IF n < 32512 THEN Byte(n \div 256 + 128) \o Byte(n % 256)
  ELSE Byte(255) \o Field(n - 32512, 16)

\* two bits a field, two that are reserved
ModeBits(ll, of, ml) == << 0, 0 >> \o Field(ml, 2) \o Field(of, 2) \o Field(ll, 2)

-----------------------------------------------------------------------------
(* The three ways a section is encoded.                                    *)

DefaultEncodeTable(field) ==
  EncodeTableFromDecode(BuildDecodeTable(DefaultDist[field], DefaultLog[field]),
                        MaxCode[field])

\* Sections with the predefined tables, and with those of a dictionary.
EncodeSeqPredefined(predefined, packed) ==
  WriteSeqCount(Len(packed)) \o ModeBits(0, 0, 0) \o SequenceStream(predefined, packed)
EncodeSeqRepeat(tables, packed) ==
  WriteSeqCount(Len(packed)) \o ModeBits(3, 3, 3) \o SequenceStream(tables, packed)

\* how often each code up to the largest one occurs
Freqs(codes) ==
  LET largest == CHOOSE m \in { codes[i] : i \in DOMAIN codes } :
                   \A i \in DOMAIN codes : codes[i] <= m
  IN  [c \in 1 .. largest + 1 |-> Cardinality({ i \in DOMAIN codes : codes[i] = c - 1 })]

OptimalTableLog(maxLog, n, maxSymbol) ==
  LET forCount  == MostOf2(HighBit(n - 1) - 1, 0)
      forSymbol == IF maxSymbol > 0 THEN HighBit(maxSymbol) + 3 ELSE 0
  IN  IF n <= 1 THEN MinLog
      ELSE LeastOf2(maxLog, MostOf2(MostOf2(forCount, MinLog), forSymbol))

\* build_table_enc: what stands in the section for a field, and its table
TableEnc(dist, log, table) ==
  IF ~table.ok THEN Rejected
  ELSE [ok |-> TRUE, mode |-> 2, header |-> Describe(dist, log), table |-> table]
TableEncAs(dist, log, used) ==
  IF \E c \in used : dist[c] = 0 THEN Rejected
  ELSE TableEnc(dist, log, EncodeTableFromDistribution(dist, log, Len(dist) - 1))
TableEncFor(field, n, freqs) ==
  LET used == { c \in DOMAIN freqs : freqs[c] > 0 }
      log  == MostOf2(OptimalTableLog(MaxLogOf[field], n, Len(freqs) - 1),
                      HighBit(Cardinality(used) + 1) + 1)
  IN  IF Cardinality(used) <= 1
      THEN [ok |-> TRUE, mode |-> 1, header |-> Byte(Len(freqs) - 1), table |-> NoTable]
      ELSE IF log > MaxLogOf[field] THEN Rejected
      ELSE TableEncAs(NormalizeCounts(freqs, log), log, used)
BuildTableEnc(field, codes) == TableEncFor(field, Len(codes), Freqs(codes))

\* What a symbol costs with the predefined tables, in 256ths of a bit.
PredefinedCost(field, code) ==
  LET dist  == DefaultDist[field]
      cells == IF code < Len(dist) THEN Cells(dist[code + 1]) ELSE 1
  IN  256 * DefaultLog[field] - << 0, 256, 406, 512 >>[cells]

EstimatePredefinedCost(packed) ==
  LET Of(p) == SumOf(<< PredefinedCost("ll", p.code.ll), PredefinedCost("ml", p.code.ml),
                        PredefinedCost("of", p.code.of) >>)
      bits == CeilDiv(SumOf([i \in DOMAIN packed |-> Of(packed[i])]), 256)
              + SumOf([i \in DOMAIN packed |-> Len(packed[i].extra)])
  IN  (bits + 25) \div 8 + 1 + Len(WriteSeqCount(Len(packed))) \div 8

EstimateFseBits(freqs, n) ==
  SumOf([c \in DOMAIN freqs |->
           IF freqs[c] = 0 THEN 0 ELSE freqs[c] * (HighBit(n) - HighBit(freqs[c]))])

\* none, if a field has no table
SectionWith(packed, ll, of, ml) ==
  IF ~ll.ok \/ ~of.ok \/ ~ml.ok THEN << >>
  ELSE WriteSeqCount(Len(packed)) \o ModeBits(ll.mode, of.mode, ml.mode)
       \o ll.header \o of.header \o ml.header
       \o SequenceStream([f \in Fields |-> CASE f = "ll" -> ll.table
                                             [] f = "of" -> of.table
                                             [] OTHER    -> ml.table], packed)
EncodeSeqCustom(packed, predSize) ==
  LET estimate == SumOf([i \in 1 .. 3 |->
                    EstimateFseBits(Freqs(Codes(packed, << "ll", "ml", "of" >>[i])), Len(packed))])
      Enc(field) == BuildTableEnc(field, Codes(packed, field))
  IN  IF CeilDiv(estimate, 8) + 24 >= predSize THEN << >>
      ELSE SectionWith(packed, Enc("ll"), Enc("of"), Enc("ml"))

\* The section encode_compressed_block_impl sends.  `repeat` are the tables of
\* a dictionary, or {} after the first block; `custom` is the block's policy.
Better(own, pred, estimate) ==
  IF own # << >> /\ (Len(own) < 8 * estimate \/ Len(own) < Len(pred)) THEN own ELSE pred
OrAgain(best, again) ==
  IF \E bits \in again : Len(bits) < Len(best) THEN CHOOSE bits \in again : TRUE ELSE best
SequenceSection(packed, predefined, repeat, custom) ==
  LET estimate == EstimatePredefinedCost(packed)
      own == IF custom /\ Len(packed) >= CustomMin
             THEN EncodeSeqCustom(packed, estimate) ELSE << >>
  IN  OrAgain(Better(own, EncodeSeqPredefined(predefined, packed), estimate),
              { EncodeSeqRepeat(tables, packed) : tables \in repeat })
=============================================================================
