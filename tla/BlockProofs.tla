----------------------------- MODULE BlockProofs -----------------------------
(***************************************************************************)
(* Proofs about blocks, in two halves.                                     *)
(*                                                                         *)
(* The state that blocks share: the encoder and the decoder stay in step   *)
(* for every word size, every set of tables and offsets, and blocks of any *)
(* number of sequences.  InStep alone is not inductive: it says nothing    *)
(* while a block is packed or in flight.  IInv adds that the packed        *)
(* sequences chain the decoder's history at the start of the block to the  *)
(* encoder's current one, and that the tables a block in flight refers to  *)
(* are still the decoder's.                                                *)
(*                                                                         *)
(* The bytes of a block: the sequences that the match finders and the long *)
(* distance matcher leave say what the bytes are, for every input, every   *)
(* level, every table and any number of slots; the decoder's chunked       *)
(* copies make of such sequences the bytes they were found in, and refuse  *)
(* or execute within their buffers every other.                            *)
(***************************************************************************)
EXTENDS BlockSync, SearchTrips, WellFoundedInduction, TLAPS

(* The encoder's history after the first n packed sequences.               *)
HistoryAfter(n) == IF n = 0 THEN dec.reps ELSE ops[n].after

(* Each packed sequence starts where the one before it ended.              *)
OpsChain ==
  \A i \in 1 .. Len(ops) :
    /\ ops[i].before = HistoryAfter(i - 1)
    /\ ops[i].ov = OffsetValue(ops[i].before, ops[i].off, ops[i].noLits)
    /\ ops[i].after = PackedHistory(ops[i].before, ops[i].off, ops[i].noLits)

InFrame == phase \in {"between", "packing", "sent", "decoding"}

HistoryInv ==
  /\ InFrame => enc.reps = HistoryAfter(Len(ops))
  /\ phase = "packing" => saved = dec.reps
  /\ OpsChain

(* Which locals are live in which phase.                                   *)
ShapeInv ==
  /\ phase # "rejected"
  /\ phase \in {"outside", "between"} => ops = << >>
  /\ phase = "packing" => ops # << >>
  /\ phase = "sent" /\ block.kind = "raw" => ops = << >>
  /\ phase # "decoding" => decoded = << >>
  /\ owner = "stream" => enc.seq = NoTable

DecodedInv ==
  phase = "decoding" =>
    /\ Len(decoded) <= Len(ops)
    /\ decRep = HistoryAfter(Len(decoded))
    /\ \A i \in 1 .. Len(decoded) : decoded[i] = ops[i].off

(* The tables the encoder may refer to, given those the decoder has or     *)
(* will have once it has read the block in flight.                         *)
Covered(huf, seq) ==
  ~rawMode =>
    /\ enc.huf # NoTable => huf = enc.huf
    /\ enc.seq # NoTable => seq = enc.seq

TablesInv ==
  /\ phase \in {"between", "packing", "decoding"} => Covered(dec.huf, dec.seq)
  /\ phase = "sent" /\ block.kind = "raw" => Covered(dec.huf, dec.seq)
  /\ phase = "sent" /\ block.kind = "compressed" =>
       /\ block.lit = "treeless" => dec.huf = block.huf /\ dec.huf # NoTable
       /\ block.mode = "repeat" => dec.seq = block.seq /\ dec.seq # NoTable
       /\ Covered(IF block.lit = "fresh" THEN block.huf ELSE dec.huf,
                  IF block.mode \in {"predefined", "custom"} THEN block.seq ELSE dec.seq)
  /\ SameTables

IInv == TypeOK /\ ShapeInv /\ HistoryInv /\ DecodedInv /\ TablesInv

-----------------------------------------------------------------------------
(***************************************************************************)
(* The repeat-offset codes are inverse to each other for every word size,  *)
(* history, offset and literal length: what pack_sequences_and_literals    *)
(* sends, compute_offset and SeqDecoder::decode read back, and both sides  *)
(* are left with the same history.                                         *)
(***************************************************************************)
(* A history written as its three components.                              *)
LEMMA HistoryParts ==
  ASSUME NEW rep \in History
  PROVE  /\ rep[1] \in Rep /\ rep[2] \in Rep /\ rep[3] \in Rep
         /\ rep = <<rep[1], rep[2], rep[3]>>
  BY DEF History

(* An offset value is never zero and always fits the word it is sent in.   *)
LEMMA OffsetValueType ==
  ASSUME NEW rep \in History, NEW off \in Offset, NEW noLits \in BOOLEAN
  PROVE  OffsetValue(rep, off, noLits) \in 1 .. (Word - 1)
<1>1. off \in 1 .. (Word - 4) /\ Word \in Nat /\ Word > 4
  BY WordAssumption DEF Offset
<1>2. QED
  BY <1>1 DEF OffsetValue

(* The encoder's history stays a history: no zero ever enters it.          *)
LEMMA PackedHistoryType ==
  ASSUME NEW rep \in History, NEW off \in Offset, NEW noLits \in BOOLEAN
  PROVE  PackedHistory(rep, off, noLits) \in History
<1>1. off \in Rep
  BY WordAssumption DEF Offset, Rep
<1>2. rep[1] \in Rep /\ rep[2] \in Rep /\ rep[3] \in Rep
  BY HistoryParts
<1>3. QED
  BY <1>1, <1>2 DEF PackedHistory, History

(* What the codes mean when the sequence has literals.                     *)
LEMMA WithLiterals ==
  ASSUME NEW rep \in History, NEW off \in Offset
  PROVE  LET ov == OffsetValue(rep, off, FALSE) IN
           /\ ComputeOffset(rep, ov, FALSE) = off
           /\ ComputedHistory(rep, ov, FALSE) = PackedHistory(rep, off, FALSE)
<1>1. rep[1] \in Nat /\ rep[2] \in Nat /\ rep[3] \in Nat
  BY HistoryParts, WordAssumption DEF Rep
<1>2. off \in Nat /\ off > 0
  BY WordAssumption DEF Offset
<1>3. CASE off = rep[1]
  BY <1>1, <1>2, <1>3 DEF OffsetValue, Candidates, ComputeOffset, ComputedHistory,
                          RepIndex, PackedHistory
<1>4. CASE off # rep[1] /\ off = rep[2]
  BY <1>1, <1>2, <1>4 DEF OffsetValue, Candidates, ComputeOffset, ComputedHistory,
                          RepIndex, PackedHistory
<1>5. CASE off # rep[1] /\ off # rep[2] /\ off = rep[3]
  BY <1>1, <1>2, <1>5 DEF OffsetValue, Candidates, ComputeOffset, ComputedHistory,
                          RepIndex, PackedHistory
<1>6. CASE off # rep[1] /\ off # rep[2] /\ off # rep[3]
  BY <1>1, <1>2, <1>6 DEF OffsetValue, Candidates, ComputeOffset, ComputedHistory,
                          RepIndex, PackedHistory
<1>7. QED
  BY <1>3, <1>4, <1>5, <1>6

(* What they mean when it has none: the codes shift by one, and the third  *)
(* names the first offset minus one, which wraps only for a zero offset.   *)
LEMMA WithoutLiterals ==
  ASSUME NEW rep \in History, NEW off \in Offset
  PROVE  LET ov == OffsetValue(rep, off, TRUE) IN
           /\ ComputeOffset(rep, ov, TRUE) = off
           /\ ComputedHistory(rep, ov, TRUE) = PackedHistory(rep, off, TRUE)
<1>1. rep[1] \in Nat /\ rep[2] \in Nat /\ rep[3] \in Nat /\ rep[1] > 0
  BY HistoryParts, WordAssumption DEF Rep
<1>2. off \in Nat /\ off > 0
  BY WordAssumption DEF Offset
<1>3. CASE off = rep[2]
  BY <1>1, <1>2, <1>3 DEF OffsetValue, Candidates, ComputeOffset, ComputedHistory,
                          RepIndex, PackedHistory
<1>4. CASE off # rep[2] /\ off = rep[3]
  BY <1>1, <1>2, <1>4 DEF OffsetValue, Candidates, ComputeOffset, ComputedHistory,
                          RepIndex, PackedHistory
<1>5. CASE off # rep[2] /\ off # rep[3] /\ off = rep[1] - 1
  BY <1>1, <1>2, <1>5 DEF OffsetValue, Candidates, ComputeOffset, ComputedHistory,
                          RepIndex, PackedHistory, WrappingPred
<1>6. CASE off # rep[2] /\ off # rep[3] /\ off # rep[1] - 1
  BY <1>1, <1>2, <1>6 DEF OffsetValue, Candidates, ComputeOffset, ComputedHistory,
                          RepIndex, PackedHistory
<1>7. QED
  BY <1>3, <1>4, <1>5, <1>6

(* The decoder computes the offset the encoder meant, and both histories   *)
(* move together.                                                          *)
THEOREM OffsetRoundTrip ==
  ASSUME NEW rep \in History, NEW off \in Offset, NEW noLits \in BOOLEAN
  PROVE  LET ov == OffsetValue(rep, off, noLits) IN
           /\ ComputeOffset(rep, ov, noLits) = off
           /\ ComputedHistory(rep, ov, noLits) = PackedHistory(rep, off, noLits)
<1>1. CASE noLits = TRUE
  BY <1>1, WithoutLiterals
<1>2. CASE noLits = FALSE
  BY <1>2, WithLiterals
<1>3. QED
  BY <1>1, <1>2

-----------------------------------------------------------------------------
LEMMA InitIInv == Init => IInv
<1> SUFFICES ASSUME Init PROVE IInv
  OBVIOUS
<1>1. TypeOK
  BY ConstantsAssumption DEF Init, TypeOK, CodingState, AllTables, DecoderAtFrameStart,
     RawBlock, Block, Phases
<1>2. ShapeInv /\ HistoryInv /\ DecodedInv /\ TablesInv
  BY DEF Init, ShapeInv, HistoryInv, OpsChain, HistoryAfter, InFrame, DecodedInv, TablesInv,
     Covered, SameTables, DecoderAtFrameStart, RawBlock
<1>3. QED
  BY <1>1, <1>2 DEF IInv

(* A frame starts: both sides take the same history, and the encoder's     *)
(* tables are the dictionary's or none.                                    *)
LEMMA StartFrameIInv ==
  ASSUME IInv, NEW dict \in BOOLEAN, NEW raw \in BOOLEAN, StartFrame(dict, raw)
  PROVE  IInv'
<1> USE DEF IInv
<1>1. /\ dec' \in CodingState /\ enc' \in CodingState
      /\ dec'.reps = enc'.reps
      /\ enc'.huf # NoTable => dec'.huf = enc'.huf
      /\ enc'.seq # NoTable => dec'.seq = enc'.seq
      /\ owner = "stream" => enc'.seq = NoTable
  <2>1. CASE dict
    BY <2>1, ConstantsAssumption DEF StartFrame, StreamWorkspace, ContextWorkspaces,
       DecoderAtFrameStart, CodingState, AllTables, TypeOK, ShapeInv, Owners
  <2>2. CASE ~dict
    BY <2>2, ConstantsAssumption DEF StartFrame, StreamWorkspace, ContextWorkspaces,
       DecoderAtFrameStart, CodingState, AllTables, TypeOK, ShapeInv, Owners
  <2>3. QED
    BY <2>1, <2>2
<1>2. /\ phase' = "between" /\ rawMode' = raw /\ owner' = owner
      /\ saved' = saved /\ ops' = ops /\ block' = block
      /\ decoded' = decoded /\ decRep' = decRep
      /\ ops = << >> /\ decoded = << >>
  BY DEF StartFrame, ShapeInv
<1>3. TypeOK'
  BY <1>1, <1>2 DEF TypeOK, Phases
<1>4. ShapeInv' /\ DecodedInv' /\ TablesInv'
  BY <1>1, <1>2 DEF ShapeInv, DecodedInv, TablesInv, Covered, SameTables
<1>5. HistoryInv'
  BY <1>1, <1>2 DEF HistoryInv, OpsChain, HistoryAfter
<1>6. QED
  BY <1>3, <1>4, <1>5

(* A raw block changes nothing on either side.                             *)
LEMMA SkipSearchIInv ==
  ASSUME IInv, SkipSearch
  PROVE  IInv'
<1> USE DEF IInv
<1>1. /\ phase = "between" /\ phase' = "sent" /\ block' = RawBlock /\ ops' = << >>
      /\ ops = << >> /\ decoded = << >>
      /\ UNCHANGED << owner, rawMode, dec, decoded, decRep, enc, saved >>
  BY DEF SkipSearch, Send, ShapeInv
<1>2. TypeOK'
  BY <1>1 DEF TypeOK, Phases, RawBlock, Block, AllTables
<1>3. ShapeInv' /\ DecodedInv' /\ TablesInv'
  BY <1>1 DEF ShapeInv, DecodedInv, TablesInv, Covered, SameTables, RawBlock
<1>4. HistoryInv'
  BY <1>1 DEF HistoryInv, OpsChain, HistoryAfter, InFrame
<1>5. QED
  BY <1>2, <1>3, <1>4

(* The same for a block of a raw-literals frame without matches.           *)
LEMMA StoreUnmatchedIInv ==
  ASSUME IInv, StoreUnmatched
  PROVE  IInv'
<1> USE DEF IInv
<1>1. /\ phase = "between" /\ phase' = "sent" /\ block' = RawBlock /\ ops' = << >>
      /\ ops = << >> /\ decoded = << >>
      /\ UNCHANGED << owner, rawMode, dec, decoded, decRep, enc, saved >>
  BY DEF StoreUnmatched, Send, ShapeInv
<1>2. TypeOK'
  BY <1>1 DEF TypeOK, Phases, RawBlock, Block, AllTables
<1>3. ShapeInv' /\ DecodedInv' /\ TablesInv'
  BY <1>1 DEF ShapeInv, DecodedInv, TablesInv, Covered, SameTables, RawBlock
<1>4. HistoryInv'
  BY <1>1 DEF HistoryInv, OpsChain, HistoryAfter, InFrame
<1>5. QED
  BY <1>2, <1>3, <1>4

(* What a literals section may be, given the table the encoder holds.      *)
LEMMA LiteralsSectionFacts ==
  ASSUME NEW huf \in AllTables, NEW s \in LiteralsSections(huf)
  PROVE  /\ s.lit \in {"raw", "fresh", "treeless"}
         /\ s.huf \in AllTables /\ s.prev \in AllTables
         /\ s.lit = "raw" => s.prev = NoTable
         /\ s.lit = "treeless" => s.huf = huf /\ huf # NoTable /\ s.prev = huf
         /\ s.lit = "fresh" => s.prev = s.huf
  BY DEF LiteralsSections, AllTables

(* And a sequence section.                                                 *)
LEMMA SequenceSectionFacts ==
  ASSUME NEW seq \in AllTables, NEW q \in SequenceSections(seq)
  PROVE  /\ q.mode \in {"predefined", "custom", "repeat"}
         /\ q.seq \in AllTables
         /\ q.mode = "repeat" => q.seq = seq /\ seq # NoTable
  BY DEF SequenceSections, AllTables

(* A block of literals alone: the history stands still, and the encoder    *)
(* keeps a table only when the decoder will have it.                       *)
LEMMA EncodeLiteralsOnlyIInv ==
  ASSUME IInv, EncodeLiteralsOnly
  PROVE  IInv'
<1> USE DEF IInv
<1>1. /\ phase = "between" /\ ~rawMode /\ ops = << >> /\ decoded = << >>
      /\ enc \in CodingState /\ dec \in CodingState
  BY DEF EncodeLiteralsOnly, ShapeInv, TypeOK
<1>2. PICK s \in LiteralsSections(enc.huf) :
        \/ /\ s.lit # "raw"
           /\ Send([kind |-> "compressed", lit |-> s.lit, huf |-> s.huf,
                    mode |-> "none", seq |-> NoTable], << >>)
           /\ enc' = [enc EXCEPT !.huf = s.prev]
        \/ /\ Send(RawBlock, << >>)
           /\ enc' = [enc EXCEPT !.huf = PrevAfterLiteralsFallback(s)]
  BY DEF EncodeLiteralsOnly
<1>3. enc.huf \in AllTables
  BY <1>1 DEF CodingState
<1>4. /\ s.lit \in {"raw", "fresh", "treeless"}
      /\ s.huf \in AllTables /\ s.prev \in AllTables
      /\ s.lit = "raw" => s.prev = NoTable
      /\ s.lit = "treeless" => s.huf = enc.huf /\ enc.huf # NoTable /\ s.prev = enc.huf
      /\ s.lit = "fresh" => s.prev = s.huf
  BY <1>3, LiteralsSectionFacts
<1>5. /\ phase' = "sent" /\ ops' = << >> /\ saved' = saved
      /\ UNCHANGED << owner, rawMode, dec, decoded, decRep >>
      /\ enc' \in CodingState /\ enc'.reps = enc.reps /\ enc'.seq = enc.seq
  BY <1>1, <1>2, <1>4 DEF Send, EncodeLiteralsOnly, CodingState, AllTables,
     PrevAfterLiteralsFallback
<1>6. /\ block' \in Block
      /\ \/ /\ block'.kind = "compressed" /\ block'.lit = s.lit /\ s.lit # "raw"
            /\ block'.huf = s.huf /\ block'.mode = "none"
            /\ enc'.huf = s.prev
         \/ block'.kind = "raw" /\ enc'.huf = NoTable
  BY <1>1, <1>2, <1>4 DEF Send, Block, RawBlock, AllTables, CodingState,
     PrevAfterLiteralsFallback
<1>7. TypeOK'
  BY <1>5, <1>6 DEF TypeOK, Phases
<1>8. ShapeInv' /\ DecodedInv'
  BY <1>1, <1>5 DEF ShapeInv, DecodedInv
<1>9. HistoryInv'
  BY <1>1, <1>5 DEF HistoryInv, OpsChain, HistoryAfter, InFrame
<1>10. TablesInv'
  BY <1>1, <1>4, <1>5, <1>6 DEF TablesInv, Covered, SameTables
<1>11. QED
  BY <1>7, <1>8, <1>9, <1>10

(* Appending a packed sequence extends the chain by one link.              *)
LEMMA PackSequenceIInv ==
  ASSUME IInv, NEW off \in MatchOffsets, NEW noLits \in BOOLEAN,
         PackSequence(off, noLits)
  PROVE  IInv'
<1> USE DEF IInv
<1> DEFINE op == [ov |-> OffsetValue(enc.reps, off, noLits), noLits |-> noLits,
                  off |-> off, before |-> enc.reps,
                  after |-> PackedHistory(enc.reps, off, noLits)]
<1>1. off \in Offset /\ enc.reps \in History /\ enc \in CodingState
  BY ConstantsAssumption DEF TypeOK, CodingState
<1>2. op \in PackedSeq
  BY <1>1, OffsetValueType, PackedHistoryType DEF PackedSeq
<1>3. /\ phase \in {"between", "packing"} /\ phase' = "packing" /\ decoded = << >>
      /\ UNCHANGED << owner, rawMode, dec, block, decoded, decRep >>
      /\ enc' = [enc EXCEPT !.reps = PackedHistory(enc.reps, off, noLits)]
  BY DEF PackSequence, ShapeInv
<1>4. /\ ops \in Seq(PackedSeq) /\ ops' = Append(ops, op)
      /\ saved' = dec.reps
  <2>1. CASE phase = "between"
    <3>1. ops = << >> /\ enc.reps = dec.reps
      BY <2>1 DEF ShapeInv, HistoryInv, InFrame, HistoryAfter
    <3>2. QED
      BY <1>2, <2>1, <3>1 DEF PackSequence, TypeOK
  <2>2. CASE phase = "packing"
    BY <1>2, <2>2 DEF PackSequence, HistoryInv, TypeOK
  <2>3. QED
    BY <1>3, <2>1, <2>2
<1> HIDE DEF op
<1> PICK n \in Nat : n = Len(ops)
  BY <1>4
<1>5. /\ ops' \in Seq(PackedSeq) /\ Len(ops') = n + 1 /\ ops'[n + 1] = op
      /\ \A i \in 1 .. n : ops'[i] = ops[i]
      /\ ops' # << >>
  BY <1>2, <1>4
<1>6. enc'.reps = op.after /\ enc' \in CodingState /\ enc'.huf = enc.huf /\ enc'.seq = enc.seq
  BY <1>1, <1>3, PackedHistoryType DEF op, CodingState
<1>7. TypeOK'
  <2>1. saved' \in History
    BY <1>4 DEF TypeOK, CodingState
  <2>2. QED
    BY <1>3, <1>5, <1>6, <2>1 DEF TypeOK, Phases
<1>8. ShapeInv' /\ DecodedInv'
  BY <1>3, <1>5, <1>6 DEF ShapeInv, DecodedInv
<1>9. TablesInv'
  BY <1>3, <1>6 DEF TablesInv, Covered, SameTables
<1>10. HistoryInv'
  <2>1. enc.reps = HistoryAfter(n)
    BY <1>3 DEF HistoryInv, InFrame
  <2>2. \A i \in 0 .. n : HistoryAfter(i)' = HistoryAfter(i)
    BY <1>3, <1>5 DEF HistoryAfter
  <2>3. HistoryAfter(n + 1)' = op.after
    BY <1>5 DEF HistoryAfter
  <2>4. ASSUME NEW i \in 1 .. n + 1
        PROVE  /\ ops'[i].before = HistoryAfter(i - 1)'
               /\ ops'[i].ov = OffsetValue(ops'[i].before, ops'[i].off, ops'[i].noLits)
               /\ ops'[i].after = PackedHistory(ops'[i].before, ops'[i].off, ops'[i].noLits)
    <3>1. CASE i = n + 1
      <4>1. HistoryAfter(i - 1)' = enc.reps
        BY <2>1, <2>2, <3>1
      <4>2. QED
        BY <1>5, <3>1, <4>1 DEF op
    <3>2. CASE i # n + 1
      <4>1. i \in 1 .. n /\ i - 1 \in 0 .. n /\ ops'[i] = ops[i]
        BY <1>5, <3>2
      <4>2. QED
        BY <2>2, <4>1 DEF HistoryInv, OpsChain
    <3>3. QED
      BY <3>1, <3>2
  <2>5. OpsChain'
    BY <1>5, <2>4 DEF OpsChain
  <2>6. HistoryAfter(Len(ops))' = op.after
    BY <1>5, <2>3 DEF HistoryAfter
  <2>7. QED
    BY <1>3, <1>4, <1>6, <2>5, <2>6 DEF HistoryInv, InFrame
<1>11. QED
  BY <1>7, <1>8, <1>9, <1>10

(* The packed block is sent, compressed or raw.  A compressed one leaves   *)
(* the encoder with no sequence tables and with the Huffman table the      *)
(* decoder will have; a raw one gives it back the decoder's history.       *)
LEMMA EncodeBlockIInv ==
  ASSUME IInv, EncodeBlock
  PROVE  IInv'
<1> USE DEF IInv
<1>1. /\ phase = "packing" /\ ~rawMode /\ decoded = << >> /\ saved = dec.reps
      /\ enc \in CodingState /\ dec \in CodingState /\ saved \in History
      /\ saved' = saved
  BY DEF EncodeBlock, ShapeInv, HistoryInv, TypeOK
<1>2. PICK s \in LiteralsSections(enc.huf), q \in SequenceSections(enc.seq) :
        \/ /\ Send([kind |-> "compressed", lit |-> s.lit, huf |-> s.huf,
                    mode |-> q.mode, seq |-> q.seq], ops)
           /\ enc' = WorkspaceAfterBlock(s)
        \/ /\ Send(RawBlock, << >>)
           /\ enc' = WorkspaceAfterFallback
  BY DEF EncodeBlock
<1>3. enc.huf \in AllTables /\ enc.seq \in AllTables /\ enc.reps \in History
  BY <1>1 DEF CodingState
<1>4. /\ s.lit \in {"raw", "fresh", "treeless"}
      /\ s.huf \in AllTables /\ s.prev \in AllTables
      /\ s.lit = "raw" => s.prev = NoTable
      /\ s.lit = "treeless" => s.huf = enc.huf /\ enc.huf # NoTable /\ s.prev = enc.huf
      /\ s.lit = "fresh" => s.prev = s.huf
  BY <1>3, LiteralsSectionFacts
<1>5. /\ q.mode \in {"predefined", "custom", "repeat"}
      /\ q.seq \in AllTables
      /\ q.mode = "repeat" => q.seq = enc.seq /\ enc.seq # NoTable
  BY <1>3, SequenceSectionFacts
<1>6. CASE /\ Send([kind |-> "compressed", lit |-> s.lit, huf |-> s.huf,
                    mode |-> q.mode, seq |-> q.seq], ops)
           /\ enc' = WorkspaceAfterBlock(s)
  <2>1. /\ phase' = "sent" /\ ops' = ops
        /\ UNCHANGED << owner, rawMode, dec, decoded, decRep >>
        /\ block' \in Block /\ block'.kind = "compressed" /\ block'.lit = s.lit
        /\ block'.huf = s.huf /\ block'.mode = q.mode /\ block'.seq = q.seq
    BY <1>4, <1>5, <1>6 DEF Send, Block
  <2>2. /\ enc' \in CodingState /\ enc'.reps = enc.reps
        /\ enc'.huf = s.prev /\ enc'.seq = NoTable
    BY <1>3, <1>4, <1>6 DEF WorkspaceAfterBlock, CodingState, AllTables
  <2>3. TypeOK'
    BY <1>1, <2>1, <2>2 DEF TypeOK, Phases
  <2>4. ShapeInv' /\ DecodedInv'
    BY <1>1, <2>1, <2>2 DEF ShapeInv, DecodedInv
  <2>5. HistoryInv'
    BY <1>1, <2>1, <2>2 DEF HistoryInv, OpsChain, HistoryAfter, InFrame
  <2>6. TablesInv'
    BY <1>1, <1>4, <1>5, <2>1, <2>2 DEF TablesInv, Covered, SameTables
  <2>7. QED
    BY <2>3, <2>4, <2>5, <2>6
<1>7. CASE Send(RawBlock, << >>) /\ enc' = WorkspaceAfterFallback
  <2>1. /\ phase' = "sent" /\ ops' = << >>
        /\ UNCHANGED << owner, rawMode, dec, decoded, decRep >>
        /\ block' \in Block /\ block'.kind = "raw"
    BY <1>7 DEF Send, Block, RawBlock, AllTables
  <2>2. /\ enc' \in CodingState /\ enc'.reps = dec.reps
        /\ enc'.huf = NoTable /\ enc'.seq = NoTable
    BY <1>1, <1>7 DEF WorkspaceAfterFallback, CodingState, AllTables
  <2>3. TypeOK'
    BY <1>1, <2>1, <2>2 DEF TypeOK, Phases
  <2>4. ShapeInv' /\ DecodedInv'
    BY <1>1, <2>1, <2>2 DEF ShapeInv, DecodedInv
  <2>5. HistoryInv'
    BY <1>1, <2>1, <2>2 DEF HistoryInv, OpsChain, HistoryAfter, InFrame
  <2>6. TablesInv'
    BY <1>1, <2>1, <2>2 DEF TablesInv, Covered, SameTables
  <2>7. QED
    BY <2>3, <2>4, <2>5, <2>6
<1>8. QED
  BY <1>2, <1>6, <1>7

(* The same in a frame of raw literals, which refers to no table.          *)
LEMMA EncodeBlockRawIInv ==
  ASSUME IInv, EncodeBlockRaw
  PROVE  IInv'
<1> USE DEF IInv
<1>1. /\ phase = "packing" /\ rawMode /\ decoded = << >> /\ saved = dec.reps
      /\ enc \in CodingState /\ dec \in CodingState /\ saved \in History
      /\ saved' = saved
  BY DEF EncodeBlockRaw, ShapeInv, HistoryInv, TypeOK
<1>2. CASE /\ Send([kind |-> "compressed", lit |-> "raw", huf |-> NoTable,
                    mode |-> "predefined", seq |-> Predefined], ops)
           /\ UNCHANGED enc
  <2>1. /\ phase' = "sent" /\ ops' = ops /\ enc' = enc
        /\ UNCHANGED << owner, rawMode, dec, decoded, decRep >>
        /\ block'.kind = "compressed" /\ block'.lit = "raw"
        /\ block'.mode = "predefined" /\ block'.seq = Predefined
    BY <1>2 DEF Send
  <2>2. block' \in Block
    BY <1>2 DEF Send, Block, AllTables
  <2>3. TypeOK'
    BY <1>1, <2>1, <2>2 DEF TypeOK, Phases
  <2>4. ShapeInv' /\ DecodedInv' /\ TablesInv'
    BY <1>1, <2>1 DEF ShapeInv, DecodedInv, TablesInv, Covered, SameTables
  <2>5. HistoryInv'
    BY <1>1, <2>1 DEF HistoryInv, OpsChain, HistoryAfter, InFrame
  <2>6. QED
    BY <2>3, <2>4, <2>5
<1>3. CASE Send(RawBlock, << >>) /\ enc' = [enc EXCEPT !.reps = saved]
  <2>1. /\ phase' = "sent" /\ ops' = << >>
        /\ UNCHANGED << owner, rawMode, dec, decoded, decRep >>
        /\ block' \in Block /\ block'.kind = "raw"
    BY <1>3 DEF Send, Block, RawBlock, AllTables
  <2>2. enc' \in CodingState /\ enc'.reps = dec.reps /\ enc'.seq = enc.seq
    BY <1>1, <1>3 DEF CodingState
  <2>3. TypeOK'
    BY <1>1, <2>1, <2>2 DEF TypeOK, Phases
  <2>4. ShapeInv' /\ DecodedInv' /\ TablesInv'
    BY <1>1, <2>1, <2>2 DEF ShapeInv, DecodedInv, TablesInv, Covered, SameTables
  <2>5. HistoryInv'
    BY <1>1, <2>1, <2>2 DEF HistoryInv, OpsChain, HistoryAfter, InFrame
  <2>6. QED
    BY <2>3, <2>4, <2>5
<1>4. QED
  BY <1>2, <1>3 DEF EncodeBlockRaw

(* The decoder copies a raw block and keeps its state.                     *)
LEMMA DecodeRawBlockIInv ==
  ASSUME IInv, DecodeRawBlock
  PROVE  IInv'
<1> USE DEF IInv
<1>1. /\ phase = "sent" /\ block.kind = "raw" /\ ops = << >> /\ phase' = "between"
      /\ ops' = << >> /\ decoded' = << >> /\ saved' \in History /\ decRep' \in History
      /\ block' \in Block /\ UNCHANGED << owner, rawMode, enc, dec >>
  BY ConstantsAssumption DEF DecodeRawBlock, BlockDone, ShapeInv, RawBlock, Block, AllTables
<1>2. TypeOK'
  BY <1>1 DEF TypeOK, Phases
<1>3. ShapeInv' /\ DecodedInv' /\ TablesInv'
  BY <1>1 DEF ShapeInv, DecodedInv, TablesInv, Covered, SameTables
<1>4. HistoryInv'
  BY <1>1 DEF HistoryInv, OpsChain, HistoryAfter, InFrame
<1>5. QED
  BY <1>2, <1>3, <1>4

(* The sections of a compressed block are read: nothing is missing, and    *)
(* each resolves to the table it was written with.                         *)
LEMMA DecodeSectionsIInv ==
  ASSUME IInv, DecodeSections
  PROVE  IInv'
<1> USE DEF IInv
<1>1. /\ phase = "sent" /\ block.kind = "compressed" /\ decoded = << >>
      /\ dec \in CodingState /\ block \in Block
      /\ UNCHANGED << owner, rawMode, enc, saved, ops, block >>
  BY DEF DecodeSections, ShapeInv, TypeOK
<1>2. ~ReferencesMissing
  BY <1>1 DEF ReferencesMissing, TablesInv
<1>3. /\ phase' = "decoding" /\ decRep' = dec.reps /\ decoded' = << >>
      /\ dec'.reps = dec.reps
      /\ dec'.huf = IF block.lit = "fresh" THEN block.huf ELSE dec.huf
      /\ dec'.seq = IF block.mode \in {"predefined", "custom"} THEN block.seq ELSE dec.seq
      /\ dec' \in CodingState
  BY <1>1, <1>2 DEF DecodeSections, CodingState, Block
<1>4. TypeOK'
  BY <1>1, <1>3 DEF TypeOK, Phases, CodingState
<1>5. ShapeInv'
  BY <1>1, <1>3 DEF ShapeInv
<1>6. DecodedInv'
  BY <1>1, <1>3 DEF DecodedInv, HistoryAfter, TypeOK
<1>7. HistoryInv'
  BY <1>1, <1>3 DEF HistoryInv, OpsChain, HistoryAfter, InFrame
<1>8. TablesInv'
  BY <1>1, <1>3 DEF TablesInv, Covered, SameTables, Block
<1>9. QED
  BY <1>4, <1>5, <1>6, <1>7, <1>8

(* One more sequence is decoded: it starts from the history the encoder    *)
(* packed it with, so OffsetRoundTrip gives back offset and history.       *)
LEMMA DecodeSequenceIInv ==
  ASSUME IInv, DecodeSequence
  PROVE  IInv'
<1> USE DEF IInv
<1>1. PICK n \in Nat : n = Len(decoded)
  BY DEF TypeOK
<1>2. /\ phase = "decoding" /\ n + 1 \in 1 .. Len(ops)
      /\ decoded \in Seq(Nat) /\ decRep \in History /\ ops \in Seq(PackedSeq)
      /\ UNCHANGED << owner, rawMode, enc, dec, phase, saved, ops, block >>
  BY <1>1 DEF DecodeSequence, TypeOK
<1>3. PICK op \in PackedSeq : op = ops[n + 1]
  BY <1>2
<1>4. /\ op.off \in Offset /\ op.noLits \in BOOLEAN /\ decRep = op.before
      /\ op.ov = OffsetValue(decRep, op.off, op.noLits)
      /\ op.after = PackedHistory(decRep, op.off, op.noLits)
  <2>1. op.before = HistoryAfter(n + 1 - 1)
    BY <1>2, <1>3 DEF HistoryInv, OpsChain
  <2>2. decRep = HistoryAfter(n)
    BY <1>1, <1>2 DEF DecodedInv
  <2>3. decRep = op.before
    BY <1>1, <2>1, <2>2
  <2>4. /\ op.ov = OffsetValue(op.before, op.off, op.noLits)
        /\ op.after = PackedHistory(op.before, op.off, op.noLits)
    BY <1>2, <1>3 DEF HistoryInv, OpsChain
  <2>5. QED
    BY <2>3, <2>4 DEF PackedSeq
<1>5. /\ ComputeOffset(decRep, op.ov, op.noLits) = op.off
      /\ ComputedHistory(decRep, op.ov, op.noLits) = op.after
  BY <1>2, <1>4, OffsetRoundTrip
<1>6. decoded' = Append(decoded, op.off) /\ decRep' = op.after
  BY <1>1, <1>3, <1>5 DEF DecodeSequence
<1>7. op.off \in Nat /\ op.after \in History
  BY <1>2, <1>4, PackedHistoryType, WordAssumption DEF Offset
<1>8. /\ decoded' \in Seq(Nat) /\ Len(decoded') = n + 1 /\ decoded'[n + 1] = op.off
      /\ \A i \in 1 .. n : decoded'[i] = decoded[i]
  BY <1>1, <1>2, <1>6, <1>7
<1>9. TypeOK'
  BY <1>2, <1>6, <1>7, <1>8 DEF TypeOK
<1>10. ShapeInv' /\ TablesInv'
  BY <1>2 DEF ShapeInv, TablesInv, Covered, SameTables
<1>11. HistoryInv'
  BY <1>2 DEF HistoryInv, OpsChain, HistoryAfter, InFrame
<1>12. DecodedInv'
  <2>1. Len(decoded') <= Len(ops')
    BY <1>2, <1>8
  <2>2. HistoryAfter(n + 1)' = op.after
    BY <1>2, <1>3 DEF HistoryAfter
  <2>3. decRep' = HistoryAfter(Len(decoded))'
    BY <1>6, <1>8, <2>2 DEF HistoryAfter
  <2>4. ASSUME NEW i \in 1 .. n + 1
        PROVE  decoded'[i] = ops'[i].off
    <3>1. CASE i = n + 1
      BY <1>2, <1>3, <1>8, <3>1
    <3>2. CASE i \in 1 .. n
      BY <1>1, <1>2, <1>8, <3>2 DEF DecodedInv
    <3>3. QED
      BY <3>1, <3>2
  <2>5. QED
    BY <1>8, <2>1, <2>3, <2>4 DEF DecodedInv
<1>13. QED
  BY <1>9, <1>10, <1>11, <1>12

(* The block is done: the decoder commits the encoder's history.           *)
LEMMA FinishBlockIInv ==
  ASSUME IInv, FinishBlock
  PROVE  IInv'
<1> USE DEF IInv
<1>1. /\ phase = "decoding" /\ phase' = "between" /\ ops' = << >> /\ decoded' = << >>
      /\ saved' \in History /\ decRep' \in History /\ block' \in Block
      /\ UNCHANGED << owner, rawMode, enc >>
  BY ConstantsAssumption DEF FinishBlock, BlockDone, RawBlock, Block, AllTables
<1>2. decRep = enc.reps
  BY DEF FinishBlock, DecodedInv, HistoryInv, InFrame
<1>3. /\ dec \in CodingState /\ decRep \in History
      /\ dec' = [dec EXCEPT !.reps = decRep]
  BY DEF FinishBlock, CommittedHistory, TypeOK
<1>4. /\ dec' \in CodingState /\ dec'.reps = enc.reps
      /\ dec'.huf = dec.huf /\ dec'.seq = dec.seq
  BY <1>2, <1>3 DEF CodingState
<1>5. TypeOK'
  BY <1>1, <1>4 DEF TypeOK, Phases
<1>6. ShapeInv' /\ DecodedInv' /\ TablesInv'
  BY <1>1, <1>4 DEF ShapeInv, DecodedInv, TablesInv, Covered, SameTables
<1>7. HistoryInv'
  BY <1>1, <1>4 DEF HistoryInv, OpsChain, HistoryAfter, InFrame
<1>8. QED
  BY <1>5, <1>6, <1>7

(* Outside a frame nothing is promised.                                    *)
LEMMA LeaveFrameIInv ==
  ASSUME IInv, EndFrame \/ AbortFrame
  PROVE  IInv'
<1> USE DEF IInv
<1>1. /\ phase' = "outside" /\ ops' = << >> /\ decoded' = << >>
      /\ saved' \in History /\ decRep' \in History /\ block' \in Block
      /\ UNCHANGED << owner, rawMode, enc, dec >>
  BY ConstantsAssumption DEF EndFrame, AbortFrame, BlockDone, RawBlock, Block, AllTables,
     ShapeInv, TypeOK
<1>2. TypeOK'
  BY <1>1 DEF TypeOK, Phases
<1>3. ShapeInv' /\ DecodedInv' /\ TablesInv' /\ HistoryInv'
  BY <1>1 DEF ShapeInv, DecodedInv, TablesInv, SameTables, HistoryInv, OpsChain, InFrame
<1>4. QED
  BY <1>2, <1>3

LEMMA StutterIInv ==
  ASSUME IInv, UNCHANGED vars
  PROVE  IInv'
  BY DEF IInv, vars, TypeOK, ShapeInv, HistoryInv, OpsChain, HistoryAfter, InFrame,
     DecodedInv, TablesInv, Covered, SameTables

(* IInv is inductive.                                                      *)
THEOREM Inductive == Spec => []IInv
<1>1. Init => IInv
  BY InitIInv
<1>2. IInv /\ [Next]_vars => IInv'
  BY StartFrameIInv, SkipSearchIInv, EncodeLiteralsOnlyIInv, StoreUnmatchedIInv,
     PackSequenceIInv, EncodeBlockIInv, EncodeBlockRawIInv, DecodeRawBlockIInv,
     DecodeSectionsIInv, DecodeSequenceIInv, FinishBlockIInv, LeaveFrameIInv,
     StutterIInv DEF Next
<1>3. QED
  BY <1>1, <1>2, PTL DEF Spec

(* Offset values fit their word and no history ever holds a zero, for any  *)
(* word size and blocks of any number of sequences.                        *)
THEOREM TypesHold == Spec => []TypeOK
<1>1. IInv => TypeOK
  BY DEF IInv
<1>2. QED
  BY <1>1, Inductive, PTL

(* Whatever blocks fell back to raw, whatever frames were abandoned, the   *)
(* decoder's history and tables are the encoder's between two blocks.      *)
THEOREM StaysInStep == Spec => []InStep
<1>1. IInv => InStep
  BY DEF IInv, InStep, HistoryInv, ShapeInv, HistoryAfter, InFrame, TablesInv, Covered,
     TypeOK
<1>2. QED
  BY <1>1, Inductive, PTL

(* A treeless or repeat section is read with the table it was written with.*)
THEOREM TablesAgree == Spec => []SameTables
<1>1. IInv => SameTables
  BY DEF IInv, TablesInv
<1>2. QED
  BY <1>1, Inductive, PTL

(* Every decoded offset is the one the match finder chose.                 *)
THEOREM OffsetsAgree == Spec => []OffsetsSurvive
<1>1. IInv => OffsetsSurvive
  BY DEF IInv, OffsetsSurvive, DecodedInv, ShapeInv, TypeOK
<1>2. QED
  BY <1>1, Inductive, PTL

(* No block the encoder emits refers to a table the decoder lacks.         *)
THEOREM BlocksAccepted == Spec => []NeverRejected
<1>1. IInv => NeverRejected
  BY DEF IInv, ShapeInv, NeverRejected
<1>2. QED
  BY <1>1, Inductive, PTL

-----------------------------------------------------------------------------
(***************************************************************************)
(* Induction and recursion.                                                *)
(*                                                                         *)
(* Definitions by LET f[i \in 0 .. n] are the loops of the code.  The      *)
(* library's induction theorems take an operator and cannot be used here;  *)
(* what follows from the well-foundedness of < alone is enough: a least    *)
(* counterexample, and the existence of a function defined by recursion.   *)
(***************************************************************************)

(* Every set of natural numbers has a least one: the induction that all    *)
(* the loops below rest on.                                                *)
LEMMA LeastNatural ==
  ASSUME NEW T, T \subseteq Nat, T # {}
  PROVE \E x \in T : \A y \in T : x <= y
<1> DEFINE R == OpToRel(<, Nat)
<1>1. IsWellFoundedOn(R, Nat) BY NatLessThanWellFounded
<1>2. \A x, y \in Nat : y < x => << y, x >> \in R
  BY DEF OpToRel
<1> HIDE DEF R
<1>3. PICK x \in T : \A y \in T : ~ (<< y, x >> \in R)
  BY <1>1, WFMin
<1>4. \A y \in T : ~(y < x) BY <1>2, <1>3
<1>5. x \in Nat /\ \A y \in T : y \in Nat OBVIOUS
<1>6. \A y \in T : x <= y BY <1>4, <1>5
<1> QED BY <1>6

(* A set that has zero, and with every number the next, has them all.      *)
LEMMA SetInduction ==
  ASSUME NEW T, 0 \in T, \A n \in Nat : n \in T => n + 1 \in T
  PROVE Nat \subseteq T
<1> DEFINE U == Nat \ T
<1> SUFFICES ASSUME U # {} PROVE FALSE OBVIOUS
<1>1. PICK x \in U : \A y \in U : x <= y BY LeastNatural
<1>2. x # 0 /\ x - 1 \in Nat OBVIOUS
<1>3. x - 1 \in T BY <1>1, <1>2
<1> QED BY <1>2, <1>3

(* A recursive definition over 0 .. m defines a function.                  *)
LEMMA RecursionExists ==
  ASSUME NEW c, NEW G, NEW m \in Nat
  PROVE \E f : f = [k \in 0 .. m |-> IF k = 0 THEN c ELSE G[k][f[k - 1]]]
<1> DEFINE Good(n) == \E f : f = [k \in 0 .. n |-> IF k = 0 THEN c ELSE G[k][f[k - 1]]]
           T == { n \in Nat : Good(n) }
<1>1. 0 \in T
  <2> DEFINE f == [k \in 0 .. 0 |-> c]
  <2>1. f = [k \in 0 .. 0 |-> IF k = 0 THEN c ELSE G[k][f[k - 1]]]
    OBVIOUS
  <2> QED BY <2>1
<1>2. ASSUME NEW n \in Nat, n \in T PROVE n + 1 \in T
  <2>1. PICK f : f = [k \in 0 .. n |-> IF k = 0 THEN c ELSE G[k][f[k - 1]]] BY <1>2
  <2> DEFINE g == [k \in 0 .. n + 1 |-> IF k = n + 1 THEN G[n + 1][f[n]] ELSE f[k]]
  <2>2. ASSUME NEW k \in 0 .. n + 1 PROVE g[k] = IF k = 0 THEN c ELSE G[k][g[k - 1]]
    <3>1. CASE k = n + 1 BY <3>1
    <3>2. CASE k # n + 1 
      <4>1. k \in 0 .. n /\ (k # 0 => k - 1 \in 0 .. n) BY <3>2
      <4>2. g[k] = f[k] /\ (k # 0 => g[k - 1] = f[k - 1]) BY <3>2, <4>1
      <4>3. f[k] = IF k = 0 THEN c ELSE G[k][f[k - 1]] BY <2>1, <4>1
      <4> QED BY <4>1, <4>2, <4>3
    <3> QED BY <3>1, <3>2
  <2>3. g = [k \in 0 .. n + 1 |-> IF k = 0 THEN c ELSE G[k][g[k - 1]]]
    <3> HIDE DEF g
    <3>1. g = [k \in 0 .. n + 1 |-> g[k]] BY DEF g
    <3> QED BY <2>2, <3>1
  <2>4. Good(n + 1) BY <2>3
  <2> QED BY <2>4
<1>3. Nat \subseteq T 
  <2> HIDE DEF T
  <2> QED BY <1>1, <1>2, SetInduction
<1> QED BY <1>3

-----------------------------------------------------------------------------
(***************************************************************************)
(* Buffers.                                                                *)
(*                                                                         *)
(* Parts of buffers, writes into them, and chunked copies (fast_vec.rs).   *)
(***************************************************************************)

(* A part of a sequence: its length and its bytes.                         *)
LEMMA PartFacts ==
  ASSUME NEW S, NEW s \in Seq(S), NEW from \in Nat, NEW n \in Nat, from + n <= Len(s)
  PROVE /\ Part(s, from, n) \in Seq(S)
        /\ Len(Part(s, from, n)) = n
        /\ \A i \in 1 .. n : Part(s, from, n)[i] = s[from + i]
<1>1. from + 1 \in 1 .. Len(s) + 1 /\ from + n \in from .. Len(s) OBVIOUS
<1> QED BY <1>1 DEF Part

IsPart(S, r, s, from, n) ==
  r \in Seq(S) /\ Len(r) = n /\ \A i \in 1 .. n : r[i] = s[from + i]

(* The same, as a predicate of its own that the provers do not expand.     *)
LEMMA PartIs ==
  ASSUME NEW S, NEW s \in Seq(S), NEW from \in Nat, NEW n \in Nat, from + n <= Len(s)
  PROVE IsPart(S, Part(s, from, n), s, from, n)
BY PartFacts DEF IsPart

(* Two sequences joined: the length, and where each one's bytes are.       *)
LEMMA JoinFacts ==
  ASSUME NEW S, NEW p \in Seq(S), NEW q \in Seq(S)
  PROVE /\ p \o q \in Seq(S) /\ Len(p \o q) = Len(p) + Len(q)
        /\ \A i \in 1 .. Len(p) : (p \o q)[i] = p[i]
        /\ \A i \in 1 .. Len(q) : (p \o q)[Len(p) + i] = q[i]
OBVIOUS

(* Sequences of the same length and bytes are the same.                    *)
LEMMA SameBytes ==
  ASSUME NEW S, NEW p \in Seq(S), NEW q \in Seq(S), Len(p) = Len(q),
         \A i \in 1 .. Len(p) : p[i] = q[i]
  PROVE p = q
<1>1. p = [i \in 1 .. Len(p) |-> p[i]] OBVIOUS
<1>2. q = [i \in 1 .. Len(q) |-> q[i]] OBVIOUS
<1>3. [i \in 1 .. Len(p) |-> p[i]] = [i \in 1 .. Len(q) |-> q[i]] OBVIOUS
<1> QED BY <1>1, <1>2, <1>3

(* Bytes written into a buffer change those they fall on and no others.    *)
LEMMA PutAtFacts ==
  ASSUME NEW S, NEW buf \in Seq(S), NEW bytes \in Seq(S), NEW at \in Nat,
         at + Len(bytes) <= Len(buf)
  PROVE /\ PutAt(buf, at, bytes) \in Seq(S)
        /\ Len(PutAt(buf, at, bytes)) = Len(buf)
        /\ \A i \in 1 .. Len(buf) :
             PutAt(buf, at, bytes)[i] =
               IF at < i /\ i <= at + Len(bytes) THEN bytes[i - at] ELSE buf[i]
<1> DEFINE m == Len(bytes)
           a == Part(buf, 0, at)
           c == Part(buf, at + m, Len(buf) - at - m)
<1>1. a \in Seq(S) /\ Len(a) = at /\ \A i \in 1 .. at : a[i] = buf[i]
  <2>1. 0 \in Nat /\ 0 + at <= Len(buf) OBVIOUS
  <2>2. /\ Part(buf, 0, at) \in Seq(S) /\ Len(Part(buf, 0, at)) = at
        /\ \A i \in 1 .. at : Part(buf, 0, at)[i] = buf[0 + i]
    BY <2>1, PartFacts
  <2>3. a = Part(buf, 0, at) OBVIOUS
  <2> HIDE DEF a
  <2>4. \A i \in 1 .. at : 0 + i = i OBVIOUS
  <2> QED BY <2>2, <2>3, <2>4
<1>2. /\ c \in Seq(S) /\ Len(c) = Len(buf) - at - m
      /\ \A i \in 1 .. Len(buf) - at - m : c[i] = buf[at + m + i]
  <2> DEFINE x == at + m
             y == Len(buf) - at - m
  <2>1. x \in Nat /\ y \in Nat /\ x + y <= Len(buf) OBVIOUS
  <2> HIDE DEF x, y
  <2>2. /\ Part(buf, x, y) \in Seq(S) /\ Len(Part(buf, x, y)) = y
        /\ \A i \in 1 .. y : Part(buf, x, y)[i] = buf[x + i]
    BY <2>1, PartFacts
  <2> QED BY <2>2 DEF x, y, c
<1> HIDE DEF a, c
<1>3. PutAt(buf, at, bytes) = (a \o bytes) \o c
  BY DEF PutAt, a, c
<1>4. /\ a \o bytes \in Seq(S) /\ Len(a \o bytes) = at + m
      /\ \A i \in 1 .. at + m : (a \o bytes)[i] = IF i <= at THEN buf[i] ELSE bytes[i - at]
  BY <1>1
<1> DEFINE b == a \o bytes
<1>b. /\ b \in Seq(S) /\ Len(b) = at + m
      /\ \A i \in 1 .. at + m : b[i] = IF i <= at THEN buf[i] ELSE bytes[i - at]
  BY <1>4
<1> HIDE DEF b
<1>5. /\ b \o c \in Seq(S) /\ Len(b \o c) = Len(buf)
      /\ \A i \in 1 .. Len(buf) :
           (b \o c)[i] = IF i <= at + m THEN b[i] ELSE c[i - at - m]
  BY <1>2, <1>b
<1>6. \A i \in 1 .. Len(buf) : i > at + m => c[i - at - m] = buf[i]
  <2> TAKE i \in 1 .. Len(buf)
  <2> HAVE i > at + m
  <2>1. i - at - m \in 1 .. Len(buf) - at - m OBVIOUS
  <2>2. c[i - at - m] = buf[at + m + (i - at - m)] BY <1>2, <2>1
  <2> QED BY <2>2
<1> QED BY <1>3, <1>b, <1>5, <1>6 DEF b

Copied(r, buf, from, at, src, n) ==
  /\ Len(r) = Len(buf)
  /\ \A i \in 1 .. Len(buf) :
       r[i] = IF at < i /\ i <= at + n THEN from[src + (i - at)] ELSE buf[i]

(* A copy inside its buffers is no Fault, and changes the bytes it falls   *)
(* on.                                                                     *)
LEMMA CopyFromFacts ==
  ASSUME NEW S, NEW buf \in Seq(S), NEW from \in Seq(S),
         NEW at \in Nat, NEW src \in Nat, NEW n \in Nat,
         src + n <= Len(from), at + n <= Len(buf)
  PROVE /\ CopyFrom(buf, at, from, src, n) \in Seq(S)
        /\ Copied(CopyFrom(buf, at, from, src, n), buf, from, at, src, n)
<1> DEFINE p == Part(from, src, n)
<1>1. p \in Seq(S) /\ Len(p) = n /\ \A i \in 1 .. n : p[i] = from[src + i]
  <2>1. /\ Part(from, src, n) \in Seq(S) /\ Len(Part(from, src, n)) = n
        /\ \A i \in 1 .. n : Part(from, src, n)[i] = from[src + i]
    BY PartFacts
  <2> QED BY <2>1
<1>2. CopyFrom(buf, at, from, src, n) = PutAt(buf, at, p)
  BY DEF CopyFrom
<1> HIDE DEF p
<1>3. /\ PutAt(buf, at, p) \in Seq(S)
      /\ Len(PutAt(buf, at, p)) = Len(buf)
      /\ \A i \in 1 .. Len(buf) :
           PutAt(buf, at, p)[i] = IF at < i /\ i <= at + n THEN p[i - at] ELSE buf[i]
  <2>1. at + Len(p) <= Len(buf) BY <1>1
  <2>2. /\ PutAt(buf, at, p) \in Seq(S)
        /\ Len(PutAt(buf, at, p)) = Len(buf)
        /\ \A i \in 1 .. Len(buf) :
             PutAt(buf, at, p)[i] = IF at < i /\ i <= at + Len(p) THEN p[i - at] ELSE buf[i]
    BY <1>1, <2>1, PutAtFacts, SMTT(20)
  <2> QED BY <1>1, <2>2
<1>4. \A i \in 1 .. Len(buf) : at < i /\ i <= at + n => p[i - at] = from[src + (i - at)]
  BY <1>1
<1> QED BY <1>2, <1>3, <1>4 DEF Copied

(* A loop whose rounds keep X has a value in every round.                  *)
RoundsKeep(X, G, m) == \A k \in 1 .. m : \A x \in X : G[k][x] \in X
RunsFrom(f, c, G, m) == f[0] = c /\ \A k \in 1 .. m : f[k] = G[k][f[k - 1]]

(* The values that a loop's rounds go through, from the first one.         *)
LEMMA LoopExists ==
  ASSUME NEW X, NEW c \in X, NEW m \in Nat, NEW G, RoundsKeep(X, G, m)
  PROVE \E f \in [0 .. m -> X] : RunsFrom(f, c, G, m)
<1> USE DEF RoundsKeep, RunsFrom
<1>1. PICK f : f = [k \in 0 .. m |-> IF k = 0 THEN c ELSE G[k][f[k - 1]]]
  <2> DEFINE Q(x, y, z) == \E f : f = [k \in 0 .. z |-> IF k = 0 THEN x ELSE y[k][f[k - 1]]]
  <2>1. \A x, y : \A z \in Nat : Q(x, y, z) BY RecursionExists
  <2>2. Q(c, G, m)
    <3> HIDE DEF Q
    <3> QED BY <2>1
  <2> QED BY <2>2
<1>2. f[0] = c /\ \A k \in 1 .. m : f[k] = G[k][f[k - 1]]
  <2>1. 0 \in 0 .. m OBVIOUS
  <2>2. \A k \in 0 .. m : f[k] = IF k = 0 THEN c ELSE G[k][f[k - 1]] BY <1>1
  <2>3. f[0] = c BY <2>1, <2>2
  <2>4. ASSUME NEW k \in 1 .. m PROVE f[k] = G[k][f[k - 1]]
    <3>1. k \in 0 .. m /\ k # 0 OBVIOUS
    <3> QED BY <2>2, <3>1
  <2> QED BY <2>3, <2>4
<1> DEFINE T == { n \in Nat : n <= m => f[n] \in X }
<1>3. 0 \in T BY <1>2
<1>4. ASSUME NEW n \in Nat, n \in T PROVE n + 1 \in T
  <2>1. CASE n + 1 <= m
    <3>1. n + 1 \in 1 .. m /\ (n + 1) - 1 = n /\ f[n] \in X BY <1>4, <2>1
    <3>2. f[n + 1] = G[n + 1][f[n]] BY <1>2, <3>1
    <3> QED BY <3>1, <3>2
  <2>2. CASE ~(n + 1 <= m) BY <2>2
  <2> QED BY <2>1, <2>2
<1>5. Nat \subseteq T
  <2> HIDE DEF T
  <2> QED BY <1>3, <1>4, SetInduction
<1>6. \A k \in 0 .. m : f[k] \in X BY <1>5
<1>7. f \in [0 .. m -> X]
  <2>1. DOMAIN f = 0 .. m /\ f = [k \in DOMAIN f |-> f[k]] BY <1>1
  <2> QED BY <2>1, <1>6
<1> QED BY <1>2, <1>7

(* The rule for loops: what the start has and every round keeps.           *)
LEMMA LoopRule ==
  ASSUME NEW m \in Nat, NEW f, NEW X, f[0] \in X[0],
         \A k \in 1 .. m : f[k - 1] \in X[k - 1] => f[k] \in X[k]
  PROVE \A k \in 0 .. m : f[k] \in X[k]
<1> DEFINE T == { n \in Nat : n <= m => f[n] \in X[n] }
<1>1. 0 \in T OBVIOUS
<1>2. ASSUME NEW n \in Nat, n \in T PROVE n + 1 \in T
  <2>1. CASE n + 1 <= m
    <3>1. n + 1 \in 1 .. m /\ (n + 1) - 1 = n /\ f[n] \in X[n] BY <1>2, <2>1
    <3> QED BY <3>1
  <2>2. CASE ~(n + 1 <= m) BY <2>2
  <2> QED BY <2>1, <2>2
<1>3. Nat \subseteq T
  <2> HIDE DEF T
  <2> QED BY <1>1, <1>2, SetInduction
<1> QED BY <1>3

(* The chunks behind the first one: each starts inside the length, and     *)
(* together they cover it.                                                 *)
LEMMA FurtherFacts ==
  ASSUME NEW len \in Nat, NEW n \in {8, 16, 32}
  PROVE /\ Further(len, n) \in Nat
        /\ \A k \in 1 .. Further(len, n) :
             k * n \in Nat /\ n <= k * n /\ k * n < len /\ (k - 1) * n + n = k * n
        /\ 0 * n = 0
        /\ len <= Further(len, n) * n + n
<1>1. CASE len = 0 BY <1>1 DEF Further
<1>2. CASE len # 0
  <2> DEFINE m == (len - 1) \div n
  <2>1. m \in Nat /\ m * n <= len - 1 /\ len - 1 < m * n + n
    <3>1. CASE n = 8 BY <1>2, <3>1
    <3>2. CASE n = 16 BY <1>2, <3>2
    <3>3. CASE n = 32 BY <1>2, <3>3
    <3> QED BY <3>1, <3>2, <3>3
  <2>2. Further(len, n) = m BY <1>2 DEF Further
  <2> HIDE DEF m
  <2>3. \A k \in 1 .. m : k * n \in Nat /\ n <= k * n /\ k * n <= m * n /\ (k - 1) * n + n = k * n
    <3>1. CASE n = 8 BY <2>1, <3>1
    <3>2. CASE n = 16 BY <2>1, <3>2
    <3>3. CASE n = 32 BY <2>1, <3>3
    <3> QED BY <3>1, <3>2, <3>3
  <2> QED BY <2>1, <2>2, <2>3
<1> QED BY <1>1, <1>2

(* The bytes of buf up to `to` are those of W.                             *)
ShowsTo(buf, W, to) == \A x \in 1 .. to : buf[x] = W[x]
(* W repeats, from behind `at` to top, what is d bytes before.             *)
Repeats(W, at, top, d) == \A x \in at + 1 .. top : W[x] = W[x - d]
(* A buffer of the same bytes' set and the same length.                    *)
Like(S, r, buf) == r \in Seq(S) /\ Len(r) = Len(buf)

(* Chunks copied with a source a chunk or more behind: if the bytes        *)
(* already there are W's, and W repeats what is d bytes before, so are all *)
(* that are copied.                                                        *)
LEMMA ChunksShow ==
  ASSUME NEW S, NEW buf \in Seq(S), NEW W, NEW src \in Int, NEW dst \in Nat,
         NEW n \in {8, 16, 32}, NEW len \in Nat, NEW d \in Nat, d = dst - src, n <= d,
         0 <= src + n, dst + len + n <= Len(buf),
         ShowsTo(buf, W, dst + n), Repeats(W, dst + n, Len(buf), d)
  PROVE /\ Like(S, Chunks(buf, src, dst, n, len), buf)
        /\ ShowsTo(Chunks(buf, src, dst, n, len), W, dst + len)
<1>w. /\ \A x \in 1 .. dst + len : x <= dst + n => buf[x] = W[x]
      /\ \A x \in 1 .. dst + len : x > dst + n => W[x] = W[x - (dst - src)]
  <2>0. n \in Nat OBVIOUS
  <2>1. ASSUME NEW x \in 1 .. dst + len, x <= dst + n PROVE buf[x] = W[x]
    <3>1. x \in 1 .. dst + n BY <2>0, <2>1
    <3> QED BY <3>1 DEF ShowsTo
  <2>2. ASSUME NEW x \in 1 .. dst + len, x > dst + n PROVE W[x] = W[x - (dst - src)]
    <3>1. x \in dst + n + 1 .. Len(buf) BY <2>0, <2>2
    <3>2. W[x] = W[x - d] BY <3>1 DEF Repeats
    <3> QED BY <3>2
  <2> QED BY <2>1, <2>2
<1> DEFINE m == Further(len, n)
           Y == { b \in Seq(S) : Len(b) = Len(buf) }
           G == [k \in 1 .. m |-> [b \in Y |-> Chunk(b, src + k * n, dst + k * n, n)]]
           Rec(f) == f = [k \in 0 .. m |-> IF k = 0 THEN buf
                                           ELSE Chunk(f[k - 1], src + k * n, dst + k * n, n)]
           X == [k \in 0 .. m |-> { b \in Y : \A x \in 1 .. dst + len : x <= dst + k * n + n => b[x] = W[x] }]
<1>m. /\ m \in Nat
      /\ \A k \in 1 .. m : k * n \in Nat /\ n <= k * n /\ k * n < len /\ (k - 1) * n + n = k * n
      /\ 0 * n = 0 /\ len <= m * n + n /\ n \in Nat
  <2>1. /\ m \in Nat
        /\ \A k \in 1 .. m : k * n \in Nat /\ n <= k * n /\ k * n < len /\ (k - 1) * n + n = k * n
        /\ 0 * n = 0 /\ len <= m * n + n
    BY FurtherFacts, Zenon
  <2> QED BY <2>1
<1> HIDE DEF m
<1>1. ASSUME NEW k \in 1 .. m, NEW b \in Y
      PROVE /\ Chunk(b, src + k * n, dst + k * n, n) \in Y
            /\ \A i \in 1 .. Len(buf) : Chunk(b, src + k * n, dst + k * n, n)[i] =
                 IF dst + k * n < i /\ i <= dst + k * n + n
                 THEN b[(src + k * n) + (i - (dst + k * n))] ELSE b[i]
  <2> DEFINE kn == k * n
  <2>1. kn \in Nat /\ n <= kn /\ kn < len BY <1>m
  <2> HIDE DEF kn
  <2>2. /\ src + kn \in Nat /\ dst + kn \in Nat /\ n \in Nat
        /\ (src + kn) + n <= Len(b) /\ (dst + kn) + n <= Len(b)
    BY <1>m, <2>1
  <2> DEFINE at == dst + kn
             sr == src + kn
  <2>3. b \in Seq(S) /\ at \in Nat /\ sr \in Nat /\ sr + n <= Len(b) /\ at + n <= Len(b)
    BY <2>2
  <2>4. /\ CopyFrom(b, at, b, sr, n) \in Seq(S)
        /\ Copied(CopyFrom(b, at, b, sr, n), b, b, at, sr, n)
    <3> HIDE DEF at, sr, Y
    <3> QED BY <2>2, <2>3, CopyFromFacts
  <2> QED BY <2>4 DEF Chunk, kn, Copied
<1>2. \E f : Rec(f)
  <2>1. buf \in Y OBVIOUS
  <2>2. RoundsKeep(Y, G, m) BY <1>1 DEF RoundsKeep
  <2>f. PICK f \in [0 .. m -> Y] : RunsFrom(f, buf, G, m)
    <3> HIDE DEF Y, G
    <3> QED BY <2>1, <2>2, <1>m, LoopExists
  <2>3. f[0] = buf /\ \A k \in 1 .. m : f[k] = G[k][f[k - 1]]
    BY <2>f DEF RunsFrom
  <2>4. \A k \in 1 .. m : f[k - 1] \in Y /\ f[k] = Chunk(f[k - 1], src + k * n, dst + k * n, n)
    <3> TAKE k \in 1 .. m
    <3>1. k - 1 \in 0 .. m BY <1>m
    <3>2. f[k - 1] \in Y
      <4> HIDE DEF Y
      <4> QED BY <3>1
    <3>3. f[k] = G[k][f[k - 1]] BY <2>3
    <3> HIDE DEF Y
    <3> QED BY <3>2, <3>3
  <2>5. f = [k \in 0 .. m |-> IF k = 0 THEN buf
                              ELSE Chunk(f[k - 1], src + k * n, dst + k * n, n)]
    <3> HIDE DEF Y, G
    <3>1. f = [k \in 0 .. m |-> f[k]] OBVIOUS
    <3>2. \A k \in 0 .. m : k = 0 \/ k \in 1 .. m BY <1>m
    <3> QED BY <3>1, <3>2, <2>3, <2>4
  <2> QED BY <2>5
<1> DEFINE h == CHOOSE f : Rec(f)
<1>3. Rec(h) BY <1>2
<1>4. Chunks(buf, src, dst, n, len) = h[m] BY DEF Chunks, m
<1> HIDE DEF h
<1>5. h[0] = buf /\ \A k \in 1 .. m : h[k] = Chunk(h[k - 1], src + k * n, dst + k * n, n)
  <2>1. \A k \in 0 .. m : h[k] = IF k = 0 THEN buf ELSE Chunk(h[k - 1], src + k * n, dst + k * n, n)
    BY <1>3
  <2>2. 0 \in 0 .. m /\ \A k \in 1 .. m : k \in 0 .. m /\ k # 0 BY <1>m
  <2> QED BY <2>1, <2>2
<1>6. \A k \in 0 .. m : h[k] \in X[k]
  <2>1. h[0] \in X[0] BY <1>5, <1>m, <1>w
  <2>2. ASSUME NEW k \in 1 .. m, h[k - 1] \in X[k - 1] PROVE h[k] \in X[k]
    <3> DEFINE kn == k * n
               b == h[k - 1]
    <3>1. kn \in Nat /\ n <= kn /\ kn < len /\ (k - 1) * n + n = kn /\ k \in 0 .. m /\ k - 1 \in 0 .. m BY <1>m
    <3>2. b \in Y /\ \A x \in 1 .. dst + len : x <= dst + kn => b[x] = W[x]
      BY <2>2, <3>1, SMTT(20)
    <3>3. h[k] \in Y /\ \A i \in 1 .. Len(buf) : h[k][i] =
             IF dst + kn < i /\ i <= dst + kn + n THEN b[(src + kn) + (i - (dst + kn))] ELSE b[i]
      <4>1. h[k] = Chunk(b, src + k * n, dst + k * n, n) BY <1>5
      <4> HIDE DEF b, Y
      <4>2. b \in Y BY <3>2
      <4>3. /\ Chunk(b, src + k * n, dst + k * n, n) \in Y
            /\ \A i \in 1 .. Len(buf) : Chunk(b, src + k * n, dst + k * n, n)[i] =
                 IF dst + k * n < i /\ i <= dst + k * n + n
                 THEN b[(src + k * n) + (i - (dst + k * n))] ELSE b[i]
        BY <4>2, <1>1
      <4> QED BY <4>1, <4>3
    <3> HIDE DEF kn, b
    <3>4. ASSUME NEW x \in 1 .. dst + len, x <= dst + kn + n PROVE h[k][x] = W[x]
      <4>1. x \in 1 .. Len(buf) BY <1>m
      <4>2. CASE x <= dst + kn BY <3>1, <3>2, <3>3, <4>1, <4>2
      <4>3. CASE dst + kn < x
        <5> DEFINE y == x - (dst - src)
        <5>1. y = (src + kn) + (x - (dst + kn)) /\ y \in 1 .. dst + len /\ y <= dst + kn
          BY <1>m, <3>1, <3>4, <4>3
        <5>2. h[k][x] = b[y] BY <3>1, <3>3, <3>4, <4>1, <4>3, <5>1
        <5>3. b[y] = W[y] BY <3>2, <5>1
        <5>4. x > dst + n BY <1>m, <3>1, <4>3
        <5>5. W[x] = W[y] BY <5>4, <1>w
        <5> QED BY <5>2, <5>3, <5>5
      <4> QED BY <3>1, <4>2, <4>3, SMTT(20)
    <3> QED BY <3>1, <3>3, <3>4 DEF kn
  <2> HIDE DEF X
  <2> QED BY <2>1, <2>2, <1>m, LoopRule
<1>7. h[m] \in X[m] /\ m \in 0 .. m BY <1>6, <1>m
<1>8. \A x \in 1 .. dst + len : x <= dst + m * n + n
  <2>1. m * n \in Int BY <1>m
  <2> DEFINE mn == m * n
  <2> HIDE DEF mn
  <2> QED BY <1>m, <2>1 DEF mn
<1> QED BY <1>4, <1>7, <1>8 DEF Like, ShowsTo

LiteralsMade(S, r, buf, at, lits, lp, len) ==
  /\ Like(S, r, buf)
  /\ \A x \in 1 .. at : r[x] = buf[x]
  /\ \A i \in 1 .. len : r[at + i] = lits[lp + i]

(* Literals copied in chunks of 32 are the literals, and the bytes before  *)
(* them stay.                                                              *)
LEMMA LiteralsShow ==
  ASSUME NEW S, NEW buf \in Seq(S), NEW lits \in Seq(S),
         NEW at \in Nat, NEW lp \in Nat, NEW len \in Nat,
         lp + len + 32 <= Len(lits), at + len + 32 <= Len(buf)
  PROVE LiteralsMade(S, WildLiterals(buf, at, lits, lp, len), buf, at, lits, lp, len)
<1> DEFINE m == Further(len, 32)
           Y == { b \in Seq(S) : Len(b) = Len(buf) }
           Round(b, k) == CopyFrom(b, at + k * 32, lits, lp + k * 32, 32)
           G == [k \in 1 .. m |-> [b \in Y |-> Round(b, k)]]
           first == CopyFrom(buf, at, lits, lp, 32)
           Rec(f) == f = [k \in 0 .. m |-> IF k = 0 THEN first ELSE Round(f[k - 1], k)]
           Z(k) == { b \in Y : /\ \A x \in 1 .. at : b[x] = buf[x]
                               /\ \A i \in 1 .. len : i <= k * 32 + 32 => b[at + i] = lits[lp + i] }
           X == [k \in 0 .. m |-> Z(k)]
<1>m. /\ m \in Nat
      /\ \A k \in 1 .. m : k * 32 \in Nat /\ 32 <= k * 32 /\ k * 32 < len /\ (k - 1) * 32 + 32 = k * 32
      /\ 0 * 32 = 0 /\ len <= m * 32 + 32
  <2>1. 32 \in {8, 16, 32} OBVIOUS
  <2> QED BY <2>1, FurtherFacts
<1> HIDE DEF m
<1>1. ASSUME NEW k \in 1 .. m, NEW b \in Y
      PROVE Round(b, k) \in Y /\ Copied(Round(b, k), b, lits, at + k * 32, lp + k * 32, 32)
  <2> DEFINE a == at + k * 32
             s == lp + k * 32
  <2>1. b \in Seq(S) /\ a \in Nat /\ s \in Nat /\ s + 32 <= Len(lits) /\ a + 32 <= Len(b) /\ 32 \in Nat
    BY <1>m
  <2>2. CopyFrom(b, a, lits, s, 32) \in Seq(S) /\ Copied(CopyFrom(b, a, lits, s, 32), b, lits, a, s, 32)
    <3> HIDE DEF a, s, Y
    <3> QED BY <2>1, CopyFromFacts
  <2> QED BY <2>2 DEF Copied
<1>f. first \in Y /\ Copied(first, buf, lits, at, lp, 32)
  <2>1. lp + 32 <= Len(lits) /\ at + 32 <= Len(buf) /\ 32 \in Nat OBVIOUS
  <2>2. first \in Seq(S) /\ Copied(first, buf, lits, at, lp, 32)
    BY <2>1, CopyFromFacts
  <2> HIDE DEF first
  <2> QED BY <2>2 DEF Copied
<1> HIDE DEF Round, first
<1>2. \E f : Rec(f)
  <2>2. RoundsKeep(Y, G, m) BY <1>1 DEF RoundsKeep
  <2>f. PICK f \in [0 .. m -> Y] : RunsFrom(f, first, G, m)
    <3> HIDE DEF Y, G
    <3> QED BY <1>f, <2>2, <1>m, LoopExists
  <2>3. f[0] = first /\ \A k \in 1 .. m : f[k] = G[k][f[k - 1]]
    BY <2>f DEF RunsFrom
  <2>4. \A k \in 1 .. m : f[k - 1] \in Y /\ f[k] = Round(f[k - 1], k)
    <3> TAKE k \in 1 .. m
    <3>1. k - 1 \in 0 .. m BY <1>m
    <3>2. f[k - 1] \in Y
      <4> HIDE DEF Y
      <4> QED BY <3>1
    <3>3. f[k] = G[k][f[k - 1]] BY <2>3
    <3> HIDE DEF Y
    <3> QED BY <3>2, <3>3
  <2>5. f = [k \in 0 .. m |-> IF k = 0 THEN first ELSE Round(f[k - 1], k)]
    <3> HIDE DEF Y, G
    <3>1. f = [k \in 0 .. m |-> f[k]] OBVIOUS
    <3>2. \A k \in 0 .. m : k = 0 \/ k \in 1 .. m BY <1>m
    <3> QED BY <3>1, <3>2, <2>3, <2>4
  <2> QED BY <2>5
<1> DEFINE h == CHOOSE f : Rec(f)
<1>3. Rec(h) BY <1>2
<1>4. WildLiterals(buf, at, lits, lp, len) = h[m]
  BY DEF WildLiterals, LiteralChunks, m, Round, first
<1> HIDE DEF h
<1>5. h[0] = first /\ \A k \in 1 .. m : h[k] = Round(h[k - 1], k)
  <2>1. \A k \in 0 .. m : h[k] = IF k = 0 THEN first ELSE Round(h[k - 1], k)
    BY <1>3
  <2>2. 0 \in 0 .. m /\ \A k \in 1 .. m : k \in 0 .. m /\ k # 0 BY <1>m
  <2> QED BY <2>1, <2>2
<1>6. \A k \in 0 .. m : h[k] \in X[k]
  <2>1. h[0] \in X[0]
    <3>1. first \in Z(0)
      <4>1. Copied(first, buf, lits, at, lp, 32) /\ first \in Y /\ 0 * 32 = 0 BY <1>f, <1>m
      <4>2. \A x \in 1 .. at : first[x] = buf[x] BY <4>1 DEF Copied
      <4>3. \A i \in 1 .. len : i <= 32 => first[at + i] = lits[lp + i]
        <5> TAKE i \in 1 .. len
        <5> HAVE i <= 32
        <5>1. at + i \in 1 .. Len(buf) /\ at < at + i /\ at + i <= at + 32 /\ (at + i) - at = i OBVIOUS
        <5> QED BY <4>1, <5>1 DEF Copied
      <4> QED BY <4>1, <4>2, <4>3
    <3> HIDE DEF Z
    <3> QED BY <3>1, <1>5, <1>m
  <2>2. ASSUME NEW k \in 1 .. m, h[k - 1] \in X[k - 1] PROVE h[k] \in X[k]
    <3> DEFINE kn == k * 32
               b == h[k - 1]
    <3>1. kn \in Nat /\ 32 <= kn /\ kn < len /\ (k - 1) * 32 + 32 = kn /\ k \in 0 .. m /\ k - 1 \in 0 .. m BY <1>m
    <3>2. /\ b \in Y /\ \A x \in 1 .. at : b[x] = buf[x]
          /\ \A i \in 1 .. len : i <= kn => b[at + i] = lits[lp + i]
      BY <2>2, <3>1
    <3>3. h[k] \in Y /\ Copied(h[k], b, lits, at + kn, lp + kn, 32)
      <4>1. h[k] = Round(b, k) BY <1>5
      <4> HIDE DEF b, Y
      <4>2. b \in Y BY <3>2
      <4> QED BY <1>1, <4>1, <4>2
    <3> HIDE DEF kn, b
    <3>4. \A x \in 1 .. at : h[k][x] = buf[x] BY <3>1, <3>2, <3>3 DEF Copied
    <3>5. \A i \in 1 .. len : i <= kn + 32 => h[k][at + i] = lits[lp + i]
      <4> TAKE i \in 1 .. len
      <4> HAVE i <= kn + 32
      <4>1. at + i \in 1 .. Len(b) BY <3>2
      <4>2. CASE i <= kn BY <3>1, <3>2, <3>3, <4>1, <4>2 DEF Copied
      <4>3. CASE kn < i
        <5>1. (lp + kn) + ((at + i) - (at + kn)) = lp + i BY <3>1
        <5>2. at + kn < at + i /\ at + i <= (at + kn) + 32 BY <3>1, <4>3
        <5> QED BY <3>3, <4>1, <5>1, <5>2, SMTT(20) DEF Copied
      <4> QED BY <3>1, <4>2, <4>3
    <3> QED BY <3>1, <3>3, <3>4, <3>5 DEF kn
  <2> HIDE DEF X
  <2> QED BY <2>1, <2>2, <1>m, LoopRule
<1>7. h[m] \in Z(m)
  <2>1. m \in 0 .. m BY <1>m
  <2>2. h[m] \in X[m]
    <3> HIDE DEF X
    <3> QED BY <1>6, <2>1
  <2> HIDE DEF Z
  <2> QED BY <2>1, <2>2
<1>8. \A i \in 1 .. len : i <= m * 32 + 32 BY <1>m
<1> QED BY <1>4, <1>7, <1>8 DEF LiteralsMade, Like

(* One chunk, as ChunksShow.                                               *)
LEMMA ChunkShows ==
  ASSUME NEW S, NEW buf \in Seq(S), NEW W, NEW src \in Nat, NEW dst \in Nat, NEW n \in Nat,
         NEW d \in Nat, d = dst - src, d >= n, dst + n <= Len(buf),
         ShowsTo(buf, W, dst), Repeats(W, dst, Len(buf), d)
  PROVE Like(S, Chunk(buf, src, dst, n), buf) /\ ShowsTo(Chunk(buf, src, dst, n), W, dst + n)
<1> DEFINE r == Chunk(buf, src, dst, n)
<1>1. r \in Seq(S) /\ Copied(r, buf, buf, dst, src, n)
  <2>1. src + n <= Len(buf) OBVIOUS
  <2> QED BY <2>1, CopyFromFacts DEF Chunk
<1> HIDE DEF r
<1>2. ASSUME NEW x \in 1 .. dst + n PROVE r[x] = W[x]
  <2>1. x \in 1 .. Len(buf) OBVIOUS
  <2>2. CASE x <= dst BY <1>1, <2>1, <2>2 DEF Copied, ShowsTo
  <2>3. CASE x > dst
    <3>1. src + (x - dst) = x - d /\ x - d \in 1 .. dst /\ x \in dst + 1 .. Len(buf)
      BY <2>3
    <3>2. r[x] = buf[x - d] BY <1>1, <2>1, <2>3, <3>1 DEF Copied
    <3>3. buf[x - d] = W[x - d] BY <3>1 DEF ShowsTo
    <3>4. W[x] = W[x - d] BY <3>1 DEF Repeats
    <3> QED BY <3>2, <3>3, <3>4
  <2> QED BY <2>2, <2>3
<1> QED BY <1>1, <1>2 DEF r, Copied, ShowsTo, Like

(* What repeats from a byte on repeats from a later one on.                *)
LEMMA RepeatsLater ==
  ASSUME NEW W, NEW at \in Nat, NEW top \in Nat, NEW d \in Nat, NEW to \in Nat, at <= to,
         Repeats(W, at, top, d)
  PROVE Repeats(W, to, top, d)
BY DEF Repeats

(* Buffers alike to a third are alike.                                     *)
LEMMA LikeLike ==
  ASSUME NEW S, NEW a, NEW b, NEW c, Like(S, a, b), Like(S, b, c)
  PROVE Like(S, a, c)
BY DEF Like

(* The first four bytes of a match with a near source, copied one at a     *)
(* time.                                                                   *)
LEMMA OneByOneShows ==
  ASSUME NEW S, NEW buf \in Seq(S), NEW W, NEW src \in Nat, NEW at \in Nat, NEW d \in Nat,
         d = at - src, d >= 1, at + 4 <= Len(buf),
         ShowsTo(buf, W, at), Repeats(W, at, Len(buf), d)
  PROVE /\ Like(S, OneByOne(buf, src, at), buf)
        /\ ShowsTo(OneByOne(buf, src, at), W, at + 4)
<1> DEFINE b1 == Chunk(buf, src, at, 1)
           b2 == Chunk(b1, src + 1, at + 1, 1)
           b3 == Chunk(b2, src + 2, at + 2, 1)
           b4 == Chunk(b3, src + 3, at + 3, 1)
<1>1. ASSUME NEW b \in Seq(S), Len(b) = Len(buf), NEW k \in 0 .. 3, ShowsTo(b, W, at + k)
      PROVE LET r == Chunk(b, src + k, at + k, 1)
            IN  r \in Seq(S) /\ Len(r) = Len(buf) /\ ShowsTo(r, W, at + k + 1)
  <2> DEFINE s == src + k
             t == at + k
  <2>1. s \in Nat /\ t \in Nat /\ 1 \in Nat /\ d = t - s /\ t + 1 <= Len(b) /\ at <= t /\ Len(b) \in Nat
    BY <1>1
  <2>2. ShowsTo(b, W, t) BY <1>1
  <2> HIDE DEF s, t
  <2>3. Repeats(W, t, Len(b), d) BY <1>1, <2>1, RepeatsLater
  <2>4. Like(S, Chunk(b, s, t, 1), b) /\ ShowsTo(Chunk(b, s, t, 1), W, t + 1)
    BY <2>1, <2>2, <2>3, ChunkShows
  <2> QED BY <2>4, <1>1 DEF s, t, Like
<1>2. b1 \in Seq(S) /\ Len(b1) = Len(buf) /\ ShowsTo(b1, W, at + 1)
  <2>1. src + 0 = src /\ at + 0 = at /\ at + 0 + 1 = at + 1 OBVIOUS
  <2> QED BY <1>1, <2>1
<1> HIDE DEF b1
<1>3. b2 \in Seq(S) /\ Len(b2) = Len(buf) /\ ShowsTo(b2, W, at + 2)
  <2>1. at + 1 + 1 = at + 2 OBVIOUS
  <2> QED BY <1>1, <1>2, <2>1
<1> HIDE DEF b2
<1>4. b3 \in Seq(S) /\ Len(b3) = Len(buf) /\ ShowsTo(b3, W, at + 3)
  <2>1. at + 2 + 1 = at + 3 OBVIOUS
  <2> QED BY <1>1, <1>3, <2>1
<1> HIDE DEF b3
<1>5. b4 \in Seq(S) /\ Len(b4) = Len(buf) /\ ShowsTo(b4, W, at + 4)
  <2>1. at + 3 + 1 = at + 4 OBVIOUS
  <2> QED BY <1>1, <1>4, <2>1
<1>6. b4 = OneByOne(buf, src, at) BY DEF OneByOne, b1, b2, b3
<1> QED BY <1>5, <1>6 DEF Like

-----------------------------------------------------------------------------
(***************************************************************************)
(* Matches in chunks.                                                      *)
(*                                                                         *)
(* wild_copy_match_within of a block of several sequences: the period of   *)
(* the match is what every chunk keeps.                                    *)
(***************************************************************************)

(* Two periods make a longer one.                                          *)
LEMMA PeriodSum ==
  ASSUME NEW W, NEW top \in Nat, NEW a \in Nat, NEW b \in Nat, NEW c \in Nat,
         NEW d \in Nat, NEW e \in Nat, a <= c, b + d <= c,
         Repeats(W, a, top, d), Repeats(W, b, top, e)
  PROVE Repeats(W, c, top, d + e)
<1>1. ASSUME NEW x \in c + 1 .. top PROVE W[x] = W[x - (d + e)]
  <2>1. x \in a + 1 .. top /\ x - d \in b + 1 .. top /\ (x - d) - e = x - (d + e) OBVIOUS
  <2>2. W[x] = W[x - d] BY <2>1 DEF Repeats
  <2>3. W[x - d] = W[(x - d) - e] BY <2>1 DEF Repeats
  <2> QED BY <2>1, <2>2, <2>3
<1> QED BY <1>1 DEF Repeats

(* The offsets below eight, spread: both tables move the source by a       *)
(* multiple of the offset, far enough back for the chunk that follows.     *)
LEMMA SpreadPeriods ==
  ASSUME NEW W, NEW top \in Nat, NEW at \in Nat, NEW off \in 1 .. 7, Repeats(W, at, top, off)
  PROVE /\ SpreadAdd[off + 1] \in 0 .. 4 /\ SpreadSub[off + 1] \in 7 .. 11
        /\ SpreadAdd[off + 1] <= off
        /\ off + 4 - SpreadAdd[off + 1] >= 4
        /\ off - SpreadAdd[off + 1] + SpreadSub[off + 1] \in 8 .. off + 7
        /\ Repeats(W, at + 4, top, off + 4 - SpreadAdd[off + 1])
        /\ Repeats(W, at + 8, top, off - SpreadAdd[off + 1] + SpreadSub[off + 1])
<1> DEFINE P(a, d) == Repeats(W, a, top, d)
<1>s. ASSUME NEW a \in Nat, NEW b \in Nat, NEW c \in Nat, NEW d \in Nat, NEW e \in Nat,
             a <= c, b + d <= c, P(a, d), P(b, e)
      PROVE P(c, d + e)
  BY <1>s, PeriodSum
<1>0. P(at, off) OBVIOUS
<1>t. SpreadAdd = << 0, 1, 2, 1, 4, 4, 4, 4 >> /\ SpreadSub = << 8, 8, 8, 7, 8, 9, 10, 11 >>
  BY DEF SpreadAdd, SpreadSub
<1>g. SUFFICES \E d, e \in Nat : /\ d = off + 4 - SpreadAdd[off + 1]
                                 /\ e = off - SpreadAdd[off + 1] + SpreadSub[off + 1]
                                 /\ SpreadAdd[off + 1] \in 0 .. 4 /\ SpreadSub[off + 1] \in 7 .. 11
                                 /\ SpreadAdd[off + 1] <= off /\ d >= 4 /\ e \in 8 .. off + 7
                                 /\ P(at + 4, d) /\ P(at + 8, e)
  OBVIOUS
<1> HIDE DEF P
<1>1. CASE off = 1
  <2>1. P(at, 1) BY <1>0, <1>1
  <2>2. P(at + 1, 1 + 1) BY <1>s, <2>1
  <2>3. P(at + 3, 2 + 2) BY <1>s, <2>2
  <2>4. P(at + 7, 4 + 4) BY <1>s, <2>3
  <2>5. P(at + 4, 4) BY <2>3, RepeatsLater DEF P
  <2>6. P(at + 8, 8) BY <2>4, RepeatsLater DEF P
  <2> QED BY <1>1, <1>t, <2>5, <2>6
<1>2. CASE off = 2
  <2>1. P(at, 2) BY <1>0, <1>2
  <2>2. P(at + 4, 2 + 2) BY <1>s, <2>1
  <2>3. P(at + 8, 4 + 4) BY <1>s, <2>2
  <2> QED BY <1>2, <1>t, <2>2, <2>3
<1>3. CASE off = 3
  <2>1. P(at, 3) BY <1>0, <1>3
  <2>2. P(at + 4, 3 + 3) BY <1>s, <2>1
  <2>3. P(at + 8, 6 + 3) BY <1>s, <2>1, <2>2
  <2> QED BY <1>3, <1>t, <2>2, <2>3
<1>4. CASE off \in 4 .. 7
  <2>1. P(at + 4, off) BY <1>0, <1>4, RepeatsLater DEF P
  <2>2. P(at + 8, off + off) BY <1>s, <1>0, <1>4
  <2>3. SpreadAdd[off + 1] = 4 /\ SpreadSub[off + 1] = off + 4 BY <1>4, <1>t
  <2> QED BY <1>4, <2>1, <2>2, <2>3
<1> QED BY <1>1, <1>2, <1>3, <1>4

(* The first chunk of a match and the ones behind it.                      *)
LEMMA ChunkThenChunks ==
  ASSUME NEW S, NEW buf \in Seq(S), NEW W, NEW at \in Nat, NEW src \in Nat, NEW len \in Nat,
         NEW n \in {8, 16, 32}, NEW off \in Nat, off = at - src, n <= off,
         at + len + 64 <= Len(buf),
         ShowsTo(buf, W, at), Repeats(W, at, Len(buf), off)
  PROVE LET r == Chunks(Chunk(buf, src, at, n), src, at, n, len)
        IN  Like(S, r, buf) /\ ShowsTo(r, W, at + len)
<1> DEFINE b == Chunk(buf, src, at, n)
<1>1. n \in Nat /\ at + n <= Len(buf) /\ at + len + n <= Len(buf) /\ src \in Int /\ 0 <= src + n
      /\ Len(buf) \in Nat /\ at + n \in Nat /\ at <= at + n
  OBVIOUS
<1>2. Like(S, b, buf) /\ ShowsTo(b, W, at + n) BY <1>1, ChunkShows
<1> HIDE DEF b
<1>3. b \in Seq(S) /\ Len(b) = Len(buf) BY <1>2 DEF Like
<1>4. Repeats(W, at + n, Len(b), off) BY <1>1, <1>3, RepeatsLater
<1>5. Like(S, Chunks(b, src, at, n, len), b) /\ ShowsTo(Chunks(b, src, at, n, len), W, at + len)
  <2>1. /\ off \in Nat /\ off = at - src /\ n <= off /\ src \in Int /\ 0 <= src + n
        /\ at + len + n <= Len(b)
    BY <1>1, <1>3
  <2>2. ShowsTo(b, W, at + n) BY <1>2
  <2> HIDE DEF Chunks, ShowsTo, Like, Repeats
  <2> QED BY <2>1, <2>2, <1>3, <1>4, ChunksShow
<1> QED BY <1>2, <1>5, LikeLike DEF b

(* A match copied in chunks shows the period of its offset.                *)
LEMMA WildMatchShows ==
  ASSUME NEW S, NEW buf \in Seq(S), NEW W, NEW at \in Nat, NEW off \in 1 .. at, NEW len \in Nat,
         at + len + 64 <= Len(buf),
         ShowsTo(buf, W, at), Repeats(W, at, Len(buf), off)
  PROVE /\ Like(S, WildMatch(buf, at, at - off, off, len), buf)
        /\ ShowsTo(WildMatch(buf, at, at - off, off, len), W, at + len)
<1> DEFINE src == at - off
<1>0. src \in Nat /\ off \in Nat /\ off = at - src OBVIOUS
<1> HIDE DEF src
<1>1. CASE off >= 8
  <2>1. ASSUME NEW n \in {8, 16, 32}, n <= off,
               WildMatch(buf, at, src, off, len) = Chunks(Chunk(buf, src, at, n), src, at, n, len)
        PROVE /\ Like(S, WildMatch(buf, at, src, off, len), buf)
              /\ ShowsTo(WildMatch(buf, at, src, off, len), W, at + len)
    BY <2>1, <1>0, ChunkThenChunks
  <2>2. CASE off >= 32 BY <2>1, <2>2, <1>0 DEF WildMatch, src
  <2>3. CASE off >= 16 /\ off < 32 BY <2>1, <2>3, <1>0 DEF WildMatch, src
  <2>4. CASE off < 16 BY <1>1, <2>1, <2>4, <1>0 DEF WildMatch, src
  <2> QED BY <2>2, <2>3, <2>4
<1>2. CASE off < 8
  <2> DEFINE add == SpreadAdd[off + 1]
             sub == SpreadSub[off + 1]
             d4 == off + 4 - add
             d8 == off - add + sub
             moved == src + add
             one == OneByOne(buf, src, at)
             four == Chunk(one, moved, at + 4, 4)
             r == Chunks(four, moved - sub, at, 8, len)
  <2>0. off \in 1 .. 7 /\ Len(buf) \in Nat BY <1>2
  <2>1. /\ add \in 0 .. 4 /\ sub \in 7 .. 11 /\ add <= off
        /\ d4 >= 4 /\ d8 \in 8 .. off + 7
        /\ Repeats(W, at + 4, Len(buf), d4) /\ Repeats(W, at + 8, Len(buf), d8)
    BY <2>0, SpreadPeriods
  <2> HIDE DEF add, sub
  <2>2. /\ d4 \in Nat /\ d4 = (at + 4) - moved /\ moved \in Nat
        /\ d8 \in Nat /\ d8 = at - (moved - sub) /\ moved - sub \in Int /\ 0 <= (moved - sub) + 8
    BY <2>1, <1>0
  <2>3. Like(S, one, buf) /\ ShowsTo(one, W, at + 4)
    BY <1>0, OneByOneShows
  <2> HIDE DEF d4, d8, moved, one
  <2>4. one \in Seq(S) /\ Len(one) = Len(buf) BY <2>3 DEF Like
  <2>5. Like(S, four, one) /\ ShowsTo(four, W, (at + 4) + 4)
    <3>1. at + 4 \in Nat /\ (at + 4) + 4 <= Len(one) /\ 4 \in Nat BY <2>4
    <3>2. Repeats(W, at + 4, Len(one), d4) BY <2>1, <2>4
    <3> QED BY <3>1, <3>2, <2>1, <2>2, <2>3, <2>4, ChunkShows
  <2> HIDE DEF four
  <2>6. four \in Seq(S) /\ Len(four) = Len(buf) /\ ShowsTo(four, W, at + 8)
    <3>1. (at + 4) + 4 = at + 8 OBVIOUS
    <3> QED BY <3>1, <2>4, <2>5 DEF Like
  <2>7. Like(S, r, four) /\ ShowsTo(r, W, at + len)
    <3> DEFINE sr == moved - sub
    <3>1. 8 \in {8, 16, 32} /\ at + len + 8 <= Len(four) /\ 8 <= d8 BY <2>1, <2>6
    <3>2. Repeats(W, at + 8, Len(four), d8) BY <2>1, <2>6
    <3>3. d8 \in Nat /\ d8 = at - sr /\ sr \in Int /\ 0 <= sr + 8 BY <2>2
    <3> HIDE DEF sr
    <3>4. Like(S, Chunks(four, sr, at, 8, len), four) /\ ShowsTo(Chunks(four, sr, at, 8, len), W, at + len)
      BY <3>1, <3>2, <3>3, <2>6, ChunksShow
    <3> QED BY <3>4 DEF sr
  <2>8. r = WildMatch(buf, at, src, off, len)
    BY <1>2, <1>0 DEF WildMatch, four, one, moved, add, sub
  <2>9. Like(S, r, buf)
    <3> HIDE DEF r
    <3> QED BY <2>3, <2>5, <2>7, LikeLike
  <2> HIDE DEF r
  <2> QED BY <2>7, <2>8, <2>9 DEF src
<1> QED BY <1>1, <1>2, <1>0 DEF src

(* What a buffer shows up to `at` continues with any period.               *)
LEMMA PeriodExists ==
  ASSUME NEW buf, NEW at \in Nat, NEW off \in 1 .. at, NEW top \in Nat
  PROVE \E W : ShowsTo(buf, W, at) /\ Repeats(W, at, top, off)
<1> DEFINE V == { buf[x] : x \in 1 .. at } \cup {0}
<1>v. 0 \in V /\ \A x \in 1 .. at : buf[x] \in V OBVIOUS
<1> HIDE DEF V
<1> DEFINE T == { n \in Nat : \E W \in [Nat -> V] : ShowsTo(buf, W, at) /\ Repeats(W, at, n, off) }
<1>1. 0 \in T
  <2> DEFINE W == [x \in Nat |-> IF x \in 1 .. at THEN buf[x] ELSE 0]
  <2>1. W \in [Nat -> V] BY <1>v
  <2>2. ShowsTo(buf, W, at) BY DEF ShowsTo
  <2>3. Repeats(W, at, 0, off) BY DEF Repeats
  <2> QED BY <2>1, <2>2, <2>3
<1>2. ASSUME NEW n \in Nat, n \in T PROVE n + 1 \in T
  <2>1. PICK W \in [Nat -> V] : ShowsTo(buf, W, at) /\ Repeats(W, at, n, off) BY <1>2
  <2> DEFINE U == [x \in Nat |-> IF x = n + 1 /\ x > at THEN W[x - off] ELSE W[x]]
  <2>2. U \in [Nat -> V]
    <3>1. \A x \in Nat : (x = n + 1 /\ x > at) => x - off \in Nat OBVIOUS
    <3> QED BY <3>1, <2>1
  <2>3. ShowsTo(buf, U, at) BY <2>1 DEF ShowsTo
  <2>4. Repeats(U, at, n + 1, off)
    <3>1. ASSUME NEW x \in at + 1 .. n + 1 PROVE U[x] = U[x - off]
      <4>1. x \in Nat /\ x - off \in Nat /\ x - off # n + 1 /\ x > at OBVIOUS
      <4>2. U[x - off] = W[x - off] BY <4>1
      <4>3. CASE x = n + 1 BY <4>1, <4>2, <4>3
      <4>4. CASE x # n + 1
        <5>1. x \in at + 1 .. n BY <4>4
        <5>2. W[x] = W[x - off] BY <5>1, <2>1 DEF Repeats
        <5> QED BY <4>1, <4>2, <4>4, <5>2
      <4> QED BY <4>3, <4>4
    <3> QED BY <3>1 DEF Repeats
  <2> QED BY <2>2, <2>3, <2>4
<1>3. Nat \subseteq T
  <2> HIDE DEF T
  <2> QED BY <1>1, <1>2, SetInduction
<1> QED BY <1>3

(* A match copied in chunks is the match copied byte by byte.              *)
THEOREM WildMatchRepeats ==
  ASSUME NEW S, NEW buf \in Seq(S), NEW at \in Nat, NEW off \in 1 .. at, NEW len \in Nat,
         at + len + Overlength <= Len(buf)
  PROVE LET r == WildMatch(buf, at, at - off, off, len)
        IN  /\ r \in Seq(S) /\ Len(r) = Len(buf)
            /\ \A x \in 1 .. at : r[x] = buf[x]
            /\ \A x \in at + 1 .. at + len : r[x] = r[x - off]
<1> DEFINE r == WildMatch(buf, at, at - off, off, len)
<1>1. PICK W : ShowsTo(buf, W, at) /\ Repeats(W, at, Len(buf), off)
  <2>1. Len(buf) \in Nat OBVIOUS
  <2> QED BY <2>1, PeriodExists
<1>2. at + len + 64 <= Len(buf) BY DEF Overlength
<1>3. Like(S, r, buf) /\ ShowsTo(r, W, at + len) BY <1>1, <1>2, WildMatchShows
<1> HIDE DEF r
<1>4. \A x \in 1 .. at : r[x] = buf[x]
  BY <1>1, <1>3 DEF ShowsTo
<1>5. ASSUME NEW x \in at + 1 .. at + len PROVE r[x] = r[x - off]
  <2>1. x \in 1 .. at + len /\ x - off \in 1 .. at + len /\ x \in at + 1 .. Len(buf) BY <1>2
  <2> QED BY <2>1, <1>1, <1>3 DEF ShowsTo, Repeats
<1> QED BY <1>3, <1>4, <1>5 DEF r, Like

-----------------------------------------------------------------------------
(***************************************************************************)
(* Sequences executed.                                                     *)
(*                                                                         *)
(* run_sequences (exec.rs): each sequence does what the format says or is  *)
(* refused, and a block's sequences rebuild a text that they tell.         *)
(***************************************************************************)

(* The byte at x of the output, with the history before its first.         *)
Shown(history, buf, x) == IF x > 0 THEN buf[x] ELSE history[Len(history) + x]

(* One sequence on literals lits: what it asks for, and what it does.      *)
Sequence == [ll : Nat, off : Nat, ml : Nat]
Allowed(op, lp, q, lits, history) ==
  q.off # 0 /\ lp + q.ll <= Len(lits) /\ q.off <= op + q.ll + Len(history)
Performed(S, r, buf, op, lp, q, lits, history) ==
  /\ r = Went(r.buf, op + q.ll + q.ml, lp + q.ll)
  /\ Like(S, r.buf, buf)
  /\ \A x \in 1 .. op : r.buf[x] = buf[x]
  /\ \A i \in 1 .. q.ll : r.buf[op + i] = lits[lp + i]
  /\ \A x \in op + q.ll + 1 .. op + q.ll + q.ml : r.buf[x] = Shown(history, r.buf, x - q.off)

(* Literals copied exactly, without chunks.                                *)
LEMMA PutLiterals ==
  ASSUME NEW S, NEW buf \in Seq(S), NEW lits \in Seq(S), NEW op \in Nat, NEW lp \in Nat,
         NEW ll \in Nat, lp + ll <= Len(lits), op + ll <= Len(buf)
  PROVE /\ PutAt(buf, op, Part(lits, lp, ll)) \in Seq(S)
        /\ Copied(PutAt(buf, op, Part(lits, lp, ll)), buf, lits, op, lp, ll)
<1>1. CopyFrom(buf, op, lits, lp, ll) = PutAt(buf, op, Part(lits, lp, ll)) BY DEF CopyFrom
<1>2. CopyFrom(buf, op, lits, lp, ll) \in Seq(S) /\ Copied(CopyFrom(buf, op, lits, lp, ll), buf, lits, op, lp, ll)
  BY CopyFromFacts
<1> QED BY <1>1, <1>2

(* The match of a sequence behind its literals, in a buffer that has them. *)
MatchOf(filled, litEnd, off, ml, history) ==
  LET before == off - litEnd
      done   == IF before > 0 THEN Least(before, ml) ELSE 0
      begun  == IF before > 0
                THEN CopyFrom(filled, litEnd, history, Len(history) - before, done) ELSE filled
  IN  IF ml > done
      THEN WildMatch(begun, litEnd + done, litEnd + done - off, off, ml - done)
      ELSE begun

Repeated(S, r, buf, at, off, len) ==
  /\ Like(S, r, buf)
  /\ \A x \in 1 .. at : r[x] = buf[x]
  /\ \A x \in at + 1 .. at + len : r[x] = r[x - off]

(* WildMatchRepeats as a predicate that the provers do not expand.         *)
LEMMA RepeatedMatch ==
  ASSUME NEW S, NEW buf \in Seq(S), NEW at \in Nat, NEW off \in 1 .. at, NEW len \in Nat,
         at + len + Overlength <= Len(buf)
  PROVE Repeated(S, WildMatch(buf, at, at - off, off, len), buf, at, off, len)
BY WildMatchRepeats DEF Repeated, Like

MatchMade(S, r, filled, litEnd, off, ml, history) ==
  /\ Like(S, r, filled)
  /\ \A x \in 1 .. litEnd : r[x] = filled[x]
  /\ \A x \in litEnd + 1 .. litEnd + ml : r[x] = Shown(history, r, x - off)

(* A match that may begin in the history, before the buffer's first byte.  *)
LEMMA MatchDoes ==
  ASSUME NEW S, NEW filled \in Seq(S), NEW history \in Seq(S), NEW litEnd \in Nat,
         NEW off \in Nat, NEW ml \in Nat, off # 0, off <= litEnd + Len(history),
         litEnd + ml + Overlength <= Len(filled)
  PROVE MatchMade(S, MatchOf(filled, litEnd, off, ml, history), filled, litEnd, off, ml, history)
<1> USE DEF MatchMade
<1> DEFINE r == MatchOf(filled, litEnd, off, ml, history)
<1>L. Overlength = 64 /\ Len(history) \in Nat /\ Len(filled) \in Nat BY DEF Overlength
<1>1. CASE off <= litEnd
  <2>1. r = IF ml > 0 THEN WildMatch(filled, litEnd, litEnd - off, off, ml) ELSE filled
    <3>1. ~(off - litEnd > 0) /\ litEnd + 0 = litEnd /\ ml - 0 = ml BY <1>1
    <3> QED BY <3>1 DEF MatchOf
  <2>2. CASE ml > 0
    <3> DEFINE w == WildMatch(filled, litEnd, litEnd - off, off, ml)
    <3>0. off \in 1 .. litEnd BY <1>1
    <3>1. /\ w \in Seq(S) /\ Len(w) = Len(filled)
          /\ \A x \in 1 .. litEnd : w[x] = filled[x]
          /\ \A x \in litEnd + 1 .. litEnd + ml : w[x] = w[x - off]
      BY <3>0, WildMatchRepeats
    <3> HIDE DEF w
    <3>2. \A x \in litEnd + 1 .. litEnd + ml : x - off > 0 BY <1>1
    <3>3. r = w BY <2>1, <2>2 DEF w
    <3> QED BY <3>1, <3>2, <3>3 DEF Like, Shown
  <2>3. CASE ~(ml > 0)
    <3>1. r = filled /\ ml = 0 BY <2>1, <2>3
    <3> QED BY <3>1 DEF Like
  <2> QED BY <2>2, <2>3
<1>2. CASE off > litEnd
  <2> DEFINE before == off - litEnd
             done == Least(before, ml)
             from == Len(history) - before
             begun == CopyFrom(filled, litEnd, history, from, done)
  <2>0. /\ before \in Nat /\ done \in Nat /\ from \in Nat /\ done <= before /\ done <= ml
        /\ from + done <= Len(history) /\ litEnd + done <= Len(filled) /\ before > 0
        /\ (ml > done => done = before)
    BY <1>2, <1>L DEF Least
  <2>1. r = IF ml > done THEN WildMatch(begun, litEnd + done, litEnd + done - off, off, ml - done) ELSE begun
    BY <2>0 DEF MatchOf
  <2>d. from + litEnd = Len(history) + litEnd - off + litEnd /\ before + litEnd = off OBVIOUS
  <2> HIDE DEF done, from
  <2>2. begun \in Seq(S) /\ Copied(begun, filled, history, litEnd, from, done)
    BY <2>0, CopyFromFacts
  <2> HIDE DEF begun
  <2>3. Len(begun) = Len(filled) /\ \A x \in 1 .. litEnd : begun[x] = filled[x]
    <3>1. \A x \in 1 .. litEnd : x \in 1 .. Len(filled) /\ ~(litEnd < x) BY <1>L
    <3> QED BY <2>2, <3>1 DEF Copied
  <2>4. \A x \in litEnd + 1 .. litEnd + done : begun[x] = history[Len(history) + (x - off)] /\ ~(x - off > 0)
    <3> TAKE x \in litEnd + 1 .. litEnd + done
    <3>1. x \in 1 .. Len(filled) /\ litEnd < x /\ x <= litEnd + done BY <2>0, <1>L
    <3>2. from + (x - litEnd) = Len(history) + (x - off) BY DEF from
    <3>3. x <= off BY <2>0
    <3> QED BY <3>1, <3>2, <3>3, <2>2 DEF Copied
  <2>5. CASE ml > done
    <3> DEFINE w == WildMatch(begun, off, off - off, off, ml - done)
    <3>1. done = before /\ litEnd + done = off /\ off \in 1 .. off /\ ml - done \in Nat
          /\ off + (ml - done) + Overlength <= Len(begun)
      <4>1. done = before /\ litEnd + before = off /\ before \in Nat /\ litEnd \in Nat /\ ml \in Nat
            /\ off \in Nat /\ before <= ml /\ 0 < off
        BY <2>0, <2>5, <1>L
      <4>2. litEnd + ml + Overlength <= Len(begun) BY <2>3, <1>L
      <4> HIDE DEF before
      <4>3. off + (ml - before) = litEnd + ml BY <4>1
      <4> QED BY <4>1, <4>2, <4>3
    <3>2. /\ w \in Seq(S) /\ Len(w) = Len(begun)
          /\ \A x \in 1 .. off : w[x] = begun[x]
          /\ \A x \in off + 1 .. off + (ml - done) : w[x] = w[x - off]
      <4> DEFINE k == ml - done
      <4>1. k \in Nat /\ off + k + Overlength <= Len(begun) /\ off \in 1 .. off BY <3>1
      <4> HIDE DEF k
      <4>2. Repeated(S, WildMatch(begun, off, off - off, off, k), begun, off, off, k)
        BY <4>1, <2>2, RepeatedMatch
      <4> QED BY <4>2 DEF k, Repeated, Like
    <3>3. r = w BY <2>1, <2>5, <3>1
    <3> HIDE DEF w
    <3>4. \A x \in litEnd + 1 .. litEnd + ml : w[x] = Shown(history, w, x - off)
      <4> TAKE x \in litEnd + 1 .. litEnd + ml
      <4>1. CASE x <= off
        <5>1. x \in litEnd + 1 .. litEnd + done /\ x \in 1 .. off BY <3>1, <4>1
        <5> QED BY <5>1, <3>2, <2>4 DEF Shown
      <4>2. CASE x > off
        <5>1. x \in off + 1 .. off + (ml - done) /\ x - off > 0 BY <3>1, <4>2
        <5> QED BY <5>1, <3>2 DEF Shown
      <4> QED BY <4>1, <4>2
    <3>5. \A x \in 1 .. litEnd : w[x] = filled[x] 
      <4>1. \A x \in 1 .. litEnd : x \in 1 .. off BY <1>2
      <4> QED BY <4>1, <3>2, <2>3
    <3> QED BY <3>2, <3>3, <3>4, <3>5, <2>3 DEF Like
  <2>6. CASE ~(ml > done)
    <3>1. r = begun /\ ml = done BY <2>0, <2>1, <2>6
    <3> QED BY <3>1, <2>2, <2>3, <2>4 DEF Like, Shown
  <2> QED BY <2>5, <2>6
<1> QED BY <1>1, <1>2

(* One sequence without the chunked literal copy: refused, or what the     *)
(* format asks for.                                                        *)
LEMMA ExecuteExactDoes ==
  ASSUME NEW S, NEW buf \in Seq(S), NEW lits \in Seq(S), NEW history \in Seq(S),
         NEW op \in Nat, NEW lp \in Nat, NEW q \in Sequence,
         op + q.ll + q.ml + Overlength <= Len(buf)
  PROVE LET r == ExecuteExact(Went(buf, op, lp), q, lits, history)
        IN  IF Allowed(op, lp, q, lits, history)
            THEN Performed(S, r, buf, op, lp, q, lits, history) ELSE r = Bad
<1> DEFINE ll == q.ll
           off == q.off
           ml == q.ml
<1>q. /\ q.ll = ll /\ q.off = off /\ q.ml = ml
      /\ ll \in Nat /\ off \in Nat /\ ml \in Nat
  BY DEF Sequence
<1> HIDE DEF ll, off, ml
<1> DEFINE s == Went(buf, op, lp)
           r == ExecuteExact(s, q, lits, history)
           litEnd == op + ll
           filled == PutAt(buf, op, Part(lits, lp, ll))
           w == MatchOf(filled, litEnd, off, ml, history)
<1>0. /\ ll \in Nat /\ off \in Nat /\ ml \in Nat /\ Overlength = 64
      /\ Len(lits) \in Nat /\ Len(history) \in Nat /\ Len(buf) \in Nat
      /\ op + ll + ml + Overlength <= Len(buf)
  BY <1>q DEF Overlength
<1>A. Allowed(op, lp, q, lits, history)
      <=> off # 0 /\ lp + ll <= Len(lits) /\ off <= op + ll + Len(history)
  BY <1>q DEF Allowed
<1>P. ASSUME NEW res, res = Went(res.buf, op + ll + ml, lp + ll), Like(S, res.buf, buf),
             \A x \in 1 .. op : res.buf[x] = buf[x],
             \A i \in 1 .. ll : res.buf[op + i] = lits[lp + i],
             \A x \in op + ll + 1 .. op + ll + ml : res.buf[x] = Shown(history, res.buf, x - off)
      PROVE Performed(S, res, buf, op, lp, q, lits, history)
  BY <1>q, <1>P DEF Performed
<1>s. s.op = op /\ s.lp = lp /\ s.buf = buf BY DEF Went
<1>1. r = IF lp > Len(lits) \/ ll > Len(lits) - lp \/ off = 0 \/ off - litEnd > Len(history) THEN Bad
          ELSE Went(w, litEnd + ml, lp + ll)
  BY <1>s, <1>q DEF ExecuteExact, MatchOf
<1>2. (lp > Len(lits) \/ ll > Len(lits) - lp \/ off = 0 \/ off - litEnd > Len(history))
      <=> ~Allowed(op, lp, q, lits, history)
  BY <1>0, <1>A
<1>3. ASSUME Allowed(op, lp, q, lits, history)
      PROVE Performed(S, r, buf, op, lp, q, lits, history)
  <2>0. /\ off # 0 /\ lp + ll <= Len(lits) /\ off <= litEnd + Len(history)
        /\ litEnd \in Nat /\ litEnd <= Len(buf)
    BY <1>3, <1>0, <1>A
  <2>1. filled \in Seq(S) /\ Copied(filled, buf, lits, op, lp, ll)
    BY <2>0, <1>0, PutLiterals
  <2> HIDE DEF filled
  <2>2. Len(filled) = Len(buf) BY <2>1 DEF Copied
  <2>e. litEnd + ml + Overlength <= Len(filled) BY <1>0, <2>2
  <2>3. /\ Like(S, w, filled)
        /\ \A x \in 1 .. litEnd : w[x] = filled[x]
        /\ \A x \in litEnd + 1 .. litEnd + ml : w[x] = Shown(history, w, x - off)
    <3> HIDE DEF litEnd
    <3>1. MatchMade(S, w, filled, litEnd, off, ml, history) BY <1>0, <2>0, <2>1, <2>e, MatchDoes
    <3> HIDE DEF w
    <3> QED BY <3>1 DEF MatchMade
  <2> HIDE DEF w
  <2>4. r = Went(w, litEnd + ml, lp + ll) BY <1>1, <1>2, <1>3
  <2>5. r.buf = w /\ r = Went(r.buf, op + ll + ml, lp + ll)
    <3> DEFINE o == op + ll + ml
               l == lp + ll
    <3>1. r = Went(w, o, l) BY <2>4
    <3> HIDE DEF r, o, l
    <3>2. r.buf = w BY <3>1 DEF Went
    <3> QED BY <3>1, <3>2 DEF o, l
  <2>6. Like(S, w, buf) BY <2>2, <2>3 DEF Like
  <2>7. \A x \in 1 .. op : w[x] = buf[x]
    <3> TAKE x \in 1 .. op
    <3>1. x \in 1 .. litEnd /\ x \in 1 .. Len(buf) /\ ~(op < x) BY <1>0, <2>0
    <3> QED BY <3>1, <2>1, <2>3 DEF Copied
  <2>8. \A i \in 1 .. ll : w[op + i] = lits[lp + i]
    <3> TAKE i \in 1 .. ll
    <3> DEFINE x == op + i
    <3>1. x \in 1 .. litEnd /\ x \in 1 .. Len(buf) /\ op < x /\ x <= op + ll /\ lp + (x - op) = lp + i
      BY <1>0, <2>0
    <3> HIDE DEF x
    <3>2. w[x] = lits[lp + i] BY <3>1, <2>1, <2>3 DEF Copied
    <3> QED BY <3>2 DEF x
  <2> QED BY <2>3, <2>5, <2>6, <2>7, <2>8, <1>P
<1> HIDE DEF r
<1> QED BY <1>1, <1>2, <1>3 DEF r

GoodLiterals(S, lits) ==
  lits.fast \in Seq(S) /\ lits.len \in Nat /\ lits.len <= Len(lits.fast) /\ Len(lits.fast) <= lits.len + LiteralOverread

(* A sequence, if the decoder does not refuse it, does just what the format
   says, by whichever path it is executed; and it is refused only for what
   the format forbids, or if the block would get longer than its limit.    *)
THEOREM SequencePerformed ==
  ASSUME NEW S, NEW buf \in Seq(S), NEW lits, GoodLiterals(S, lits), NEW history \in Seq(S),
         NEW op \in Nat, NEW lp \in Nat, NEW q \in Sequence
  PROVE LET r == Execute(Went(buf, op, lp), q, lits, history)
        IN  IF /\ op + q.ll + q.ml + Overlength <= Len(buf)
               /\ Allowed(op, lp, q, AsSlice(lits), history)
            THEN Performed(S, r, buf, op, lp, q, AsSlice(lits), history) ELSE r = Bad
<1> DEFINE ll == q.ll
           off == q.off
           ml == q.ml
<1>q. /\ q.ll = ll /\ q.off = off /\ q.ml = ml
      /\ ll \in Nat /\ off \in Nat /\ ml \in Nat
  BY DEF Sequence
<1> HIDE DEF ll, off, ml
<1> DEFINE s == Went(buf, op, lp)
           r == Execute(s, q, lits, history)
           litEnd == op + ll
           slice == AsSlice(lits)
<1>0. /\ ll \in Nat /\ off \in Nat /\ ml \in Nat /\ Overlength = 64 /\ LiteralOverread = 32
      /\ Len(history) \in Nat /\ Len(buf) \in Nat /\ litEnd \in Nat
  BY <1>q DEF Overlength, LiteralOverread
<1>A. Allowed(op, lp, q, AsSlice(lits), history)
      <=> off # 0 /\ lp + ll <= Len(AsSlice(lits)) /\ off <= op + ll + Len(history)
  BY <1>q DEF Allowed
<1>P. ASSUME NEW res, res = Went(res.buf, op + ll + ml, lp + ll), Like(S, res.buf, buf),
             \A x \in 1 .. op : res.buf[x] = buf[x],
             \A i \in 1 .. ll : res.buf[op + i] = AsSlice(lits)[lp + i],
             \A x \in op + ll + 1 .. op + ll + ml : res.buf[x] = Shown(history, res.buf, x - off)
      PROVE Performed(S, res, buf, op, lp, q, AsSlice(lits), history)
  BY <1>q, <1>P DEF Performed
<1>R. (op + q.ll + q.ml + Overlength <= Len(buf)) <=> (litEnd + ml + Overlength <= Len(buf))
  BY <1>q
<1>s. s.op = op /\ s.lp = lp /\ s.buf = buf BY DEF Went
<1>f. /\ lits.fast \in Seq(S) /\ lits.len \in Nat /\ Len(lits.fast) \in Nat
      /\ lits.len <= Len(lits.fast) /\ Len(lits.fast) <= lits.len + 32
  BY <1>0 DEF GoodLiterals
<1>l. slice \in Seq(S) /\ Len(slice) = lits.len /\ \A i \in 1 .. lits.len : slice[i] = lits.fast[i]
  <2>1. slice = Part(lits.fast, 0, lits.len) BY DEF AsSlice
  <2>2. ASSUME NEW f \in Seq(S), NEW n \in Nat, n <= Len(f)
        PROVE /\ Part(f, 0, n) \in Seq(S) /\ Len(Part(f, 0, n)) = n
              /\ \A i \in 1 .. n : Part(f, 0, n)[i] = f[i]
    BY <2>2, PartFacts
  <2>3. /\ Part(lits.fast, 0, lits.len) \in Seq(S) /\ Len(Part(lits.fast, 0, lits.len)) = lits.len
        /\ \A i \in 1 .. lits.len : Part(lits.fast, 0, lits.len)[i] = lits.fast[i]
    BY <1>f, <2>2
  <2> HIDE DEF slice
  <2> QED BY <2>1, <2>3
<1> HIDE DEF slice
<1>1. CASE ~(litEnd + ml + Overlength <= Len(buf))
  <2>1. r = Bad BY <1>1, <1>0, <1>s, <1>q DEF Execute
  <2> HIDE DEF r
  <2> QED BY <2>1, <1>1, <1>R DEF r
<1>2. CASE /\ litEnd + ml + Overlength <= Len(buf)
           /\ litEnd >= off /\ FastFits(lits, lp, ll) /\ off # 0
  <2>0. lp + ll + 32 <= Len(lits.fast) /\ off \in 1 .. litEnd /\ lp + ll <= lits.len
        /\ op + ll + 32 <= Len(buf) /\ litEnd + ml + Overlength <= Len(buf)
    BY <1>2, <1>0, <1>f DEF FastFits
  <2> DEFINE filled == WildLiterals(buf, op, lits.fast, lp, ll)
             w == WildMatch(filled, litEnd, litEnd - off, off, ml)
  <2>1. r = Went(w, litEnd + ml, lp + ll)
    BY <1>2, <1>0, <1>s, <1>q DEF Execute
  <2>2. /\ filled \in Seq(S) /\ Len(filled) = Len(buf)
        /\ \A x \in 1 .. op : filled[x] = buf[x]
        /\ \A i \in 1 .. ll : filled[op + i] = lits.fast[lp + i]
    <3> DEFINE fast == lits.fast
    <3>1. fast \in Seq(S) /\ lp + ll + 32 <= Len(fast) BY <1>f, <2>0
    <3> HIDE DEF fast
    <3>2. LiteralsMade(S, WildLiterals(buf, op, fast, lp, ll), buf, op, fast, lp, ll)
      BY <3>1, <1>0, <2>0, LiteralsShow
    <3> QED BY <3>2 DEF fast, LiteralsMade, Like
  <2> HIDE DEF filled
  <2>3. Repeated(S, w, filled, litEnd, off, ml)
    <3>1. litEnd + ml + Overlength <= Len(filled) BY <2>0, <2>2
    <3> HIDE DEF litEnd
    <3> QED BY <1>0, <2>0, <2>2, <3>1, RepeatedMatch
  <2> HIDE DEF w
  <2>4. r.buf = w /\ r = Went(r.buf, op + ll + ml, lp + ll)
    <3> DEFINE o == op + ll + ml
               l == lp + ll
    <3>1. r = Went(w, o, l) BY <2>1
    <3> HIDE DEF r, o, l
    <3>2. r.buf = w BY <3>1 DEF Went
    <3> QED BY <3>1, <3>2 DEF o, l
  <2>5. Like(S, w, buf) BY <2>2, <2>3 DEF Repeated, Like
  <2>6. \A x \in 1 .. op : w[x] = buf[x]
    <3> TAKE x \in 1 .. op
    <3>1. x \in 1 .. litEnd BY <1>0
    <3> QED BY <3>1, <2>2, <2>3 DEF Repeated
  <2>7. \A i \in 1 .. ll : w[op + i] = slice[lp + i]
    <3> TAKE i \in 1 .. ll
    <3>1. op + i \in 1 .. litEnd /\ lp + i \in 1 .. lits.len BY <1>0, <1>f, <2>0
    <3>2. slice[lp + i] = lits.fast[lp + i] BY <3>1, <1>l
    <3>3. w[op + i] = filled[op + i] BY <3>1, <2>3 DEF Repeated
    <3> QED BY <3>2, <3>3, <2>2
  <2>8. \A x \in litEnd + 1 .. litEnd + ml : w[x] = Shown(history, w, x - off)
    <3> TAKE x \in litEnd + 1 .. litEnd + ml
    <3>1. x - off > 0 BY <1>0, <2>0
    <3> QED BY <3>1, <2>3 DEF Repeated, Shown
  <2>9. Performed(S, r, buf, op, lp, q, slice, history)
    BY <2>4, <2>5, <2>6, <2>7, <2>8, <1>P DEF slice
  <2>10. Allowed(op, lp, q, slice, history)
    BY <1>2, <1>0, <2>0, <1>l, <1>A, SMTT(20) DEF slice
  <2> HIDE DEF r
  <2> QED BY <2>9, <2>10, <1>2, <1>R DEF r, slice
<1>3. CASE /\ litEnd + ml + Overlength <= Len(buf)
           /\ ~(litEnd >= off /\ FastFits(lits, lp, ll) /\ off # 0)
  <2>1. r = ExecuteExact(s, q, slice, history)
    BY <1>3, <1>0, <1>s, <1>q DEF Execute, slice
  <2>2. IF Allowed(op, lp, q, slice, history)
        THEN Performed(S, ExecuteExact(s, q, slice, history), buf, op, lp, q, slice, history)
        ELSE ExecuteExact(s, q, slice, history) = Bad
    <3>1. op + q.ll + q.ml + Overlength <= Len(buf) BY <1>3, <1>R
    <3> QED BY <3>1, <1>l, ExecuteExactDoes
  <2> HIDE DEF r, s
  <2> QED BY <2>1, <2>2, <1>3, <1>R DEF r, s, slice
<1> QED BY <1>1, <1>2, <1>3

States(S) == { Went(b, o, l) : b \in Seq(S), o \in Nat, l \in Nat } \cup {Bad}
Executes(f, s, seqs, lits, history) ==
  f[0] = s /\ \A i \in 1 .. Len(seqs) : f[i] = ExecuteNext(f[i - 1], seqs[i], lits, history)

(* A sequence executed leaves a state or a refusal.                        *)
LEMMA StepStays ==
  ASSUME NEW S, NEW lits, GoodLiterals(S, lits), NEW history \in Seq(S),
         NEW r \in States(S), NEW q \in Sequence
  PROVE ExecuteNext(r, q, lits, history) \in States(S)
<1>1. CASE r = Bad BY <1>1 DEF ExecuteNext, States, Bad
<1>2. CASE r # Bad
  <2>1. PICK b \in Seq(S), o \in Nat, l \in Nat : r = Went(b, o, l) BY <1>2 DEF States
  <2> DEFINE t == Execute(Went(b, o, l), q, lits, history)
  <2>2. ExecuteNext(r, q, lits, history) = t BY <2>1 DEF ExecuteNext, Went
  <2>3. t = Bad \/ Performed(S, t, b, o, l, q, AsSlice(lits), history)
    BY <2>1, SequencePerformed
  <2> HIDE DEF t
  <2>4. ASSUME Performed(S, t, b, o, l, q, AsSlice(lits), history) PROVE t \in States(S)
    <3> DEFINE o2 == o + q.ll + q.ml
               l2 == l + q.ll
    <3>1. t = Went(t.buf, o2, l2) /\ t.buf \in Seq(S) BY <2>4 DEF Performed, Like
    <3>2. o2 \in Nat /\ l2 \in Nat BY DEF Sequence
    <3> HIDE DEF o2, l2
    <3> QED BY <3>1, <3>2 DEF States
  <2> QED BY <2>2, <2>3, <2>4 DEF States
<1> QED BY <1>1, <1>2

(* The states that a block's sequences go through.                         *)
LEMMA ExecuteAllRuns ==
  ASSUME NEW S, NEW lits, GoodLiterals(S, lits), NEW history \in Seq(S),
         NEW s \in States(S), NEW seqs \in Seq(Sequence)
  PROVE \E f \in [0 .. Len(seqs) -> States(S)] :
          Executes(f, s, seqs, lits, history) /\ ExecuteAll(s, seqs, lits, history) = f[Len(seqs)]
<1> DEFINE m == Len(seqs)
           Y == States(S)
           G == [k \in 1 .. m |-> [r \in Y |-> ExecuteNext(r, seqs[k], lits, history)]]
           Rec(f) == f = [i \in 0 .. Len(seqs) |->
                            IF i = 0 THEN s
                            ELSE ExecuteNext(f[i - 1], seqs[i], lits, history)]
<1>m. m \in Nat /\ \A k \in 1 .. m : seqs[k] \in Sequence OBVIOUS
<1>0. \A k \in 1 .. m : \A r \in Y : G[k][r] = ExecuteNext(r, seqs[k], lits, history) OBVIOUS
<1>1. RoundsKeep(Y, G, m)
  <2>1. \A k \in 1 .. m : \A r \in Y : ExecuteNext(r, seqs[k], lits, history) \in Y
    <3> HIDE DEF m
    <3> QED BY <1>m, StepStays
  <2> QED BY <2>1 DEF RoundsKeep
<1>f. PICK f \in [0 .. m -> Y] : RunsFrom(f, s, G, m)
  <2> HIDE DEF Y, G, m
  <2>1. s \in Y BY DEF Y
  <2> QED BY <1>1, <1>m, <2>1, LoopExists
<1>2. Executes(f, s, seqs, lits, history)
  <2>1. ASSUME NEW k \in 1 .. m PROVE f[k] = ExecuteNext(f[k - 1], seqs[k], lits, history)
    <3>1. k - 1 \in 0 .. m BY <1>m
    <3>2. f[k - 1] \in Y
      <4> HIDE DEF Y
      <4> QED BY <3>1
    <3>3. f[k] = G[k][f[k - 1]] BY <1>f DEF RunsFrom
    <3> HIDE DEF Y, G
    <3> QED BY <3>2, <3>3, <1>0
  <2>2. f[0] = s BY <1>f DEF RunsFrom
  <2> QED BY <2>1, <2>2 DEF Executes
<1>3. Rec(f)
  <2> HIDE DEF Y
  <2>1. f = [k \in 0 .. m |-> f[k]] OBVIOUS
  <2>2. \A k \in 0 .. m : k = 0 \/ k \in 1 .. m BY <1>m
  <2> QED BY <2>1, <2>2, <1>2 DEF Executes
<1> DEFINE h == CHOOSE g : Rec(g)
<1>4. Rec(h) BY <1>3
<1>5. ExecuteAll(s, seqs, lits, history) = h[m] BY DEF ExecuteAll
<1>6. h = f
  <2> HIDE DEF h
  <2> DEFINE T == { n \in Nat : n <= m => h[n] = f[n] }
  <2>h. \A i \in 0 .. m : h[i] = IF i = 0 THEN s ELSE ExecuteNext(h[i - 1], seqs[i], lits, history)
    BY <1>4
  <2>1. 0 \in T
    <3>1. 0 \in 0 .. m BY <1>m
    <3> QED BY <3>1, <2>h, <1>2 DEF Executes
  <2>2. ASSUME NEW n \in Nat, n \in T PROVE n + 1 \in T
    <3>1. CASE n + 1 <= m
      <4>1. n + 1 \in 1 .. m /\ n + 1 \in 0 .. m /\ (n + 1) - 1 = n /\ n + 1 # 0 /\ h[n] = f[n] BY <2>2, <3>1
      <4>2. h[n + 1] = ExecuteNext(h[n], seqs[n + 1], lits, history) BY <2>h, <4>1
      <4>3. f[n + 1] = ExecuteNext(f[n], seqs[n + 1], lits, history) BY <1>2, <4>1 DEF Executes
      <4> QED BY <4>1, <4>2, <4>3
    <3>2. CASE ~(n + 1 <= m) BY <3>2
    <3> QED BY <3>1, <3>2
  <2>3. Nat \subseteq T
    <3> HIDE DEF T
    <3> QED BY <2>1, <2>2, SetInduction
  <2>4. \A i \in 0 .. m : h[i] = f[i] BY <2>3
  <2>5. h = [i \in 0 .. m |-> h[i]] BY <1>4
  <2>6. f = [i \in 0 .. m |-> f[i]]
    <3> HIDE DEF Y
    <3> QED OBVIOUS
  <2> QED BY <2>4, <2>5, <2>6
<1> HIDE DEF h
<1> QED BY <1>2, <1>5, <1>6

(* From byte a of the text T on, q says what comes up to byte b.           *)
Says(T, a, b, q) ==
  /\ b = a + q.ll + q.ml /\ b <= Len(T) /\ q.off \in 1 .. a + q.ll
  /\ \A x \in a + q.ll + 1 .. b : T[x] = T[x - q.off]
(* Its literals are among lits, behind the first l.                        *)
Supplied(T, a, l, q, lits) ==
  l + q.ll <= Len(lits) /\ \A i \in 1 .. q.ll : lits[l + i] = T[a + i]
(* A block under way shows the text behind its first h bytes, up to a.     *)
Underway(S, T, h, r, a, l, size) ==
  /\ r = Went(r.buf, a - h, l) /\ a \in h .. Len(T) /\ l \in Nat
  /\ r.buf \in Seq(S) /\ Len(r.buf) = size
  /\ \A x \in 1 .. a - h : r.buf[x] = T[h + x]

(* If the output is the text's up to byte a, and the sequence says what    *)
(* comes up to b, the output is the text's up to b afterwards.             *)
LEMMA StepTells ==
  ASSUME NEW S, NEW T \in Seq(S), NEW history \in Seq(S), NEW lits, GoodLiterals(S, lits),
         Len(history) <= Len(T), \A k \in 1 .. Len(history) : history[k] = T[k],
         NEW r, NEW a \in Nat, NEW b \in Nat, NEW l \in Nat, NEW q \in Sequence, NEW size \in Nat,
         Len(T) - Len(history) + Overlength <= size,
         Underway(S, T, Len(history), r, a, l, size),
         Says(T, a, b, q), Supplied(T, a, l, q, AsSlice(lits))
  PROVE Underway(S, T, Len(history), ExecuteNext(r, q, lits, history), b, l + q.ll, size)
<1> DEFINE h == Len(history)
           o == a - h
           ll == q.ll
           ml == q.ml
           off == q.off
           t == Execute(Went(r.buf, o, l), q, lits, history)
<1>q. /\ q.ll = ll /\ q.off = off /\ q.ml = ml
      /\ ll \in Nat /\ off \in Nat /\ ml \in Nat
  BY DEF Sequence
<1>h. h \in Nat /\ h <= Len(T) /\ Len(T) - h + 64 <= size /\ Overlength = 64 /\ Len(T) \in Nat
      /\ \A k \in 1 .. h : history[k] = T[k]
  BY DEF Overlength
<1>0. /\ r = Went(r.buf, o, l) /\ o \in Nat /\ a = h + o
      /\ r.buf \in Seq(S) /\ Len(r.buf) = size /\ \A x \in 1 .. o : r.buf[x] = T[h + x]
  BY <1>h DEF Underway
<1> HIDE DEF ll, off, ml, h, o
<1>1. /\ b = a + ll + ml /\ b <= Len(T) /\ off >= 1 /\ off <= a + ll
      /\ \A x \in a + ll + 1 .. b : T[x] = T[x - off]
      /\ l + ll <= Len(AsSlice(lits)) /\ \A i \in 1 .. ll : AsSlice(lits)[l + i] = T[a + i]
  BY <1>q DEF Says, Supplied
<1>a. /\ h \in Nat /\ o \in Nat /\ ll \in Nat /\ off \in Nat /\ ml \in Nat /\ Len(T) \in Nat
      /\ a = h + o /\ b = a + ll + ml /\ b <= Len(T) /\ off >= 1 /\ off <= a + ll
      /\ Len(T) - h + 64 <= size /\ size \in Nat /\ a \in Nat /\ b \in Nat
  BY <1>q, <1>h, <1>0, <1>1
<1>2. ExecuteNext(r, q, lits, history) = t
  <2>1. r.ok BY <1>0 DEF Went
  <2> QED BY <2>1, <1>0 DEF ExecuteNext
<1>3. Performed(S, t, r.buf, o, l, q, AsSlice(lits), history)
  <2>0. o + ll + ml + Overlength <= Len(r.buf)
    <3>1. o + ll + ml + 64 <= size BY <1>a
    <3> QED BY <3>1, <1>0, <1>h
  <2>1. o + q.ll + q.ml + Overlength <= Len(r.buf) BY <2>0, <1>q
  <2>2. Allowed(o, l, q, AsSlice(lits), history)
    <3>1. l + q.ll <= Len(AsSlice(lits)) BY <1>1, <1>q
    <3>2. off # 0 /\ off <= o + ll + h BY <1>a
    <3>3. q.off # 0 /\ q.off <= o + q.ll + Len(history) BY <3>2, <1>q DEF h
    <3> QED BY <3>1, <3>3 DEF Allowed
  <2> QED BY <2>1, <2>2, <1>0, SequencePerformed
<1> HIDE DEF t
<1>4. /\ t = Went(t.buf, o + ll + ml, l + ll)
      /\ t.buf \in Seq(S) /\ Len(t.buf) = size
      /\ \A x \in 1 .. o : t.buf[x] = r.buf[x]
      /\ \A i \in 1 .. ll : t.buf[o + i] = AsSlice(lits)[l + i]
      /\ \A x \in o + ll + 1 .. o + ll + ml : t.buf[x] = Shown(history, t.buf, x - off)
  BY <1>3, <1>q, <1>0 DEF Performed, Like
<1> DEFINE n == o + ll + ml
           Right(x) == t.buf[x] = T[h + x]
           N == { m \in Nat : \A x \in 1 .. n : x <= m => Right(x) }
<1>n. n \in Nat /\ b - h = n
  <2>1. n \in Nat BY <1>a
  <2>2. b = h + n BY <1>a
  <2> HIDE DEF n
  <2> QED BY <2>1, <2>2, <1>a, SMTT(20)
<1>5. ASSUME NEW m \in Nat, m \in N PROVE m + 1 \in N
  <2>1. \A x \in 1 .. n : x <= m => Right(x) BY <1>5
  <2>2. ASSUME NEW x \in 1 .. n, x = m + 1 PROVE Right(x)
    <3>1. CASE x <= o
      <4>1. x \in 1 .. o BY <3>1
      <4>2. t.buf[x] = r.buf[x] BY <4>1, <1>4
      <4>3. r.buf[x] = T[h + x] BY <4>1, <1>0
      <4> QED BY <4>2, <4>3
    <3>2. CASE o < x /\ x <= o + ll
      <4> DEFINE i == x - o
      <4>0. x \in Nat /\ o \in Nat /\ ll \in Nat /\ h \in Nat /\ a = h + o BY <1>a, <1>n
      <4>1. i \in 1 .. ll /\ x = o + i /\ a + i = h + x
        <5>1. i \in Nat /\ i >= 1 /\ i <= ll /\ x = o + i BY <3>2, <4>0
        <5> HIDE DEF i
        <5>2. a + i = h + x BY <4>0, <5>1
        <5> QED BY <4>0, <5>1, <5>2
      <4> HIDE DEF i
      <4>2. t.buf[o + i] = AsSlice(lits)[l + i] /\ AsSlice(lits)[l + i] = T[a + i] BY <4>1, <1>1, <1>4
      <4> QED BY <4>1, <4>2
    <3>3. CASE o + ll < x
      <4>1. x \in o + ll + 1 .. o + ll + ml /\ h + x \in a + ll + 1 .. b /\ (h + x) - off = h + (x - off)
            /\ x - off <= m /\ x - off >= 1 - h /\ x - off <= n
        BY <3>3, <1>0, <1>q, <1>1, <1>h, <1>n, <2>2
      <4>2. T[h + x] = T[h + (x - off)] BY <4>1, <1>1
      <4>3. t.buf[x] = Shown(history, t.buf, x - off) BY <4>1, <1>4
      <4> DEFINE y == x - off
      <4>y. y \in Int /\ y <= m /\ y >= 1 - h /\ y <= n BY <4>1, <1>q, <1>h
      <4> HIDE DEF y
      <4>4. CASE y > 0
        <5>1. y \in 1 .. n BY <4>y, <4>4, <1>n
        <5>2. t.buf[y] = T[h + y] BY <5>1, <4>y, <2>1
        <5> QED BY <5>2, <4>4, <4>3, <4>2 DEF Shown, y
      <4>5. CASE ~(y > 0)
        <5>1. h + y \in 1 .. h BY <4>y, <4>5, <1>h
        <5>2. history[h + y] = T[h + y] BY <5>1, <1>h
        <5> QED BY <5>2, <4>5, <4>3, <4>2 DEF Shown, y, h
      <4> QED BY <4>4, <4>5
    <3> QED BY <3>1, <3>2, <3>3, <1>0, <1>q
  <2> HIDE DEF Right
  <2> QED BY <2>1, <2>2
<1>6. 0 \in N OBVIOUS
<1>7. Nat \subseteq N
  <2> HIDE DEF N
  <2> QED BY <1>5, <1>6, SetInduction
<1>8. \A x \in 1 .. n : t.buf[x] = T[h + x]
  <2>1. n \in N BY <1>7, <1>n
  <2> QED BY <2>1, <1>n
<1>9. b \in h .. Len(T) /\ l + ll \in Nat BY <1>0, <1>1, <1>q, <1>h, SMTT(20)
<1>10. t = Went(t.buf, b - h, l + ll) BY <1>4, <1>n
<1>11. \A x \in 1 .. b - h : t.buf[x] = T[h + x] BY <1>8, <1>n
<1> HIDE DEF n
<1>12. Underway(S, T, h, t, b, l + ll, size)
  BY <1>4, <1>9, <1>10, <1>11 DEF Underway
<1> QED BY <1>2, <1>12, <1>q DEF h

(* The sequences say what T is from byte `from` on: at[i] is where the
   i-th ends, lp[i] how many literals it leaves used, and the literals
   behind the last say the rest.                                           *)
Tells(T, from, seqs, lits, at, lp) ==
  /\ at \in [0 .. Len(seqs) -> Nat] /\ at[0] = from
  /\ lp \in [0 .. Len(seqs) -> Nat] /\ lp[0] = 0
  /\ \A i \in 1 .. Len(seqs) : /\ Says(T, at[i - 1], at[i], seqs[i])
                               /\ Supplied(T, at[i - 1], lp[i - 1], seqs[i], lits)
                               /\ lp[i] = lp[i - 1] + seqs[i].ll
  /\ at[Len(seqs)] <= Len(T)
  /\ Len(lits) = lp[Len(seqs)] + (Len(T) - at[Len(seqs)])
  /\ \A i \in 1 .. Len(T) - at[Len(seqs)] : lits[lp[Len(seqs)] + i] = T[at[Len(seqs)] + i]
Prefix(history, T) == Len(history) <= Len(T) /\ \A k \in 1 .. Len(history) : history[k] = T[k]

(* The same of all the sequences of a block.                               *)
LEMMA AllTell ==
  ASSUME NEW S, NEW T \in Seq(S), NEW history \in Seq(S), NEW lits, GoodLiterals(S, lits),
         Prefix(history, T), NEW from \in Nat, NEW seqs \in Seq(Sequence), NEW at, NEW lp,
         NEW size \in Nat, Len(T) - Len(history) + Overlength <= size,
         NEW s, Underway(S, T, Len(history), s, from, 0, size),
         Tells(T, from, seqs, AsSlice(lits), at, lp)
  PROVE Underway(S, T, Len(history), ExecuteAll(s, seqs, lits, history),
                 at[Len(seqs)], lp[Len(seqs)], size)
<1> DEFINE m == Len(seqs)
           h == Len(history)
           Z(k) == { r \in States(S) : Underway(S, T, h, r, at[k], lp[k], size) }
           X == [k \in 0 .. m |-> Z(k)]
<1>m. /\ m \in Nat /\ \A k \in 1 .. m : seqs[k] \in Sequence
  OBVIOUS
<1>t. /\ \A k \in 0 .. m : at[k] \in Nat /\ lp[k] \in Nat
      /\ at[0] = from /\ lp[0] = 0
      /\ \A i \in 1 .. m : /\ Says(T, at[i - 1], at[i], seqs[i])
                           /\ Supplied(T, at[i - 1], lp[i - 1], seqs[i], AsSlice(lits))
                           /\ lp[i] = lp[i - 1] + seqs[i].ll
  BY DEF Tells
<1>h. h <= Len(T) /\ \A k \in 1 .. h : history[k] = T[k] BY DEF Prefix
<1>s. s \in States(S)
  <2>1. s = Went(s.buf, from - h, 0) /\ from - h \in Nat /\ s.buf \in Seq(S)
    BY <1>h DEF Underway
  <2> DEFINE o == from - h
  <2> HIDE DEF o, h
  <2>2. s = Went(s.buf, o, 0) /\ o \in Nat /\ s.buf \in Seq(S) /\ 0 \in Nat BY <2>1 DEF o
  <2> QED BY <2>2, SMTT(20) DEF States
<1>f. PICK f \in [0 .. m -> States(S)] :
        Executes(f, s, seqs, lits, history) /\ ExecuteAll(s, seqs, lits, history) = f[m]
  <2> QED BY <1>s, ExecuteAllRuns
<1>e. f[0] = s /\ \A i \in 1 .. m : f[i] = ExecuteNext(f[i - 1], seqs[i], lits, history)
  BY <1>f DEF Executes
<1> HIDE DEF m, h
<1>z. \A k \in 0 .. m : X[k] = Z(k) OBVIOUS
<1>1. f[0] \in X[0]
  <2>1. 0 \in 0 .. m BY <1>m
  <2>2. Underway(S, T, h, s, at[0], lp[0], size) BY <1>t DEF h
  <2> HIDE DEF X
  <2> QED BY <2>1, <2>2, <1>s, <1>e, <1>z
<1>2. ASSUME NEW k \in 1 .. m, f[k - 1] \in X[k - 1] PROVE f[k] \in X[k]
  <2>1. k - 1 \in 0 .. m /\ k \in 0 .. m BY <1>m
  <2>2. Underway(S, T, h, f[k - 1], at[k - 1], lp[k - 1], size)
    <3> HIDE DEF X
    <3> QED BY <1>2, <1>z, <2>1
  <2>3. Underway(S, T, h, ExecuteNext(f[k - 1], seqs[k], lits, history), at[k], lp[k], size)
    <3> DEFINE r == f[k - 1]
               a == at[k - 1]
               b == at[k]
               l == lp[k - 1]
               q == seqs[k]
    <3>1. /\ a \in Nat /\ b \in Nat /\ l \in Nat /\ q \in Sequence
          /\ Says(T, a, b, q) /\ Supplied(T, a, l, q, AsSlice(lits)) /\ lp[k] = l + q.ll
          /\ Underway(S, T, Len(history), r, a, l, size)
      BY <2>1, <2>2, <1>m, <1>t DEF h
    <3> HIDE DEF r, a, b, l, q
    <3>2. Underway(S, T, Len(history), ExecuteNext(r, q, lits, history), b, l + q.ll, size)
      BY <3>1, <1>h, StepTells DEF h
    <3> QED BY <3>1, <3>2 DEF h, r, a, b, l, q
  <2>4. f[k] \in States(S) 
    <3> HIDE DEF X
    <3> QED BY <2>1, <1>f
  <2>5. f[k] = ExecuteNext(f[k - 1], seqs[k], lits, history) BY <1>e
  <2> HIDE DEF X
  <2> QED BY <2>1, <2>3, <2>4, <2>5, <1>z
<1>3. \A k \in 0 .. m : f[k] \in X[k]
  <2> HIDE DEF X
  <2> QED BY <1>1, <1>2, <1>m, LoopRule
<1>4. m \in 0 .. m BY <1>m
<1>5. f[m] \in Z(m)
  <2> HIDE DEF X, Z
  <2> QED BY <1>3, <1>4, <1>z
<1> QED BY <1>5, <1>f DEF m, h

(* The same of the literals behind the last sequence.                      *)
LEMMA RestTells ==
  ASSUME NEW S, NEW T \in Seq(S), NEW h \in 0 .. Len(T), NEW lits, GoodLiterals(S, lits),
         NEW size \in Nat, Len(T) - h + Overlength <= size,
         NEW a \in Nat, NEW l \in Nat, NEW s, Underway(S, T, h, s, a, l, size),
         lits.len = l + (Len(T) - a),
         \A i \in 1 .. Len(T) - a : AsSlice(lits)[l + i] = T[a + i]
  PROVE Underway(S, T, h, ExecuteRest(s, lits), Len(T), lits.len, size)
<1> DEFINE o == a - h
           len == lits.len - l
           slice == AsSlice(lits)
           e == PutAt(s.buf, o, Part(slice, l, len))
<1>0. /\ s = Went(s.buf, o, l) /\ o \in Nat /\ s.buf \in Seq(S) /\ Len(s.buf) = size
      /\ a <= Len(T) /\ \A x \in 1 .. o : s.buf[x] = T[h + x]
  BY DEF Underway
<1>1. s.ok /\ s.op = o /\ s.lp = l BY <1>0 DEF Went
<1>2. /\ o \in Nat /\ len = Len(T) - a /\ len \in Nat /\ lits.len \in Nat /\ Overlength = 64 /\ l + len = lits.len
      /\ o + len + 64 <= size /\ o + len = Len(T) - h /\ Len(T) \in Nat /\ a = h + o
  <2>1. lits.len \in Nat /\ Len(T) \in Nat /\ Overlength = 64 BY DEF GoodLiterals, Overlength
  <2>2. len = Len(T) - a BY <2>1
  <2>3. l + len = lits.len /\ len \in Nat BY <1>0, <2>1, <2>2
  <2>4. o + len = Len(T) - h /\ a = h + o BY <1>0, <2>1, <2>2
  <2>5. o + len + 64 <= size BY <2>1, <2>4
  <2> QED BY <1>0, <2>1, <2>2, <2>3, <2>4, <2>5
<1>l. slice \in Seq(S) /\ Len(slice) = lits.len
  <2>1. ASSUME NEW f \in Seq(S), NEW n \in Nat, n <= Len(f)
        PROVE Part(f, 0, n) \in Seq(S) /\ Len(Part(f, 0, n)) = n
    BY <2>1, PartFacts
  <2> QED BY <2>1 DEF GoodLiterals, AsSlice
<1> HIDE DEF o, len, slice
<1>3. CASE len = 0
  <2>1. ExecuteRest(s, lits) = s BY <1>1, <1>2, <1>3 DEF ExecuteRest
  <2>2. a = Len(T) /\ l = lits.len BY <1>2, <1>3, SMTT(20)
  <2> QED BY <2>1, <2>2
<1>4. CASE len # 0
  <2>1. ExecuteRest(s, lits) = ExtendLiterals(s, lits, len)
    <3>1. l < lits.len BY <1>2, <1>4
    <3> QED BY <3>1, <1>1 DEF ExecuteRest, len
  <2>2. ExtendLiterals(s, lits, len) = Went(e, o + len, l + len)
    <3>1. ~(l > lits.len) /\ ~(len > lits.len - l) /\ ~(len > Len(s.buf) - Overlength - o)
      <4>1. len <= size - Overlength - o BY <1>2
      <4>2. ~(len > size - Overlength - o) BY <4>1, <1>2
      <4>3. ~(l > lits.len) /\ ~(len > lits.len - l) BY <1>2
      <4> QED BY <4>2, <4>3, <1>0
    <3> QED BY <3>1, <1>1 DEF ExtendLiterals, slice
  <2>3. e \in Seq(S) /\ Copied(e, s.buf, slice, o, l, len)
    <3>0. l + len <= lits.len /\ o + len <= size
      <4>1. /\ o \in Nat /\ len \in Nat /\ l + len = lits.len /\ lits.len \in Nat
            /\ o + len + 64 <= size
        BY <1>2
      <4> QED BY <4>1
    <3>1. l + len <= Len(slice) /\ o + len <= Len(s.buf) BY <3>0, <1>0, <1>l
    <3> QED BY <3>1, <1>0, <1>2, <1>l, PutLiterals
  <2> HIDE DEF e
  <2>4. \A x \in 1 .. Len(T) - h : e[x] = T[h + x]
    <3> TAKE x \in 1 .. Len(T) - h
    <3>0. x \in 1 .. Len(s.buf) BY <1>0, <1>2
    <3>1. CASE x <= o BY <3>0, <3>1, <2>3, <1>0, SMTT(20) DEF Copied
    <3>2. CASE o < x
      <4> DEFINE i == x - o
      <4>1. i \in 1 .. Len(T) - a /\ a + i = h + x /\ x <= o + len BY <3>2, <1>2, <1>0
      <4>2. e[x] = slice[l + i] BY <4>1, <3>0, <3>2, <2>3 DEF Copied
      <4> HIDE DEF i
      <4>3. slice[l + i] = T[a + i] BY <4>1 DEF slice
      <4> QED BY <4>1, <4>2, <4>3
    <3> QED BY <3>1, <3>2, <1>0
  <2>5. Len(e) = size BY <2>3, <1>0 DEF Copied
  <2>6. ExecuteRest(s, lits) = Went(e, Len(T) - h, lits.len) BY <2>1, <2>2, <1>2
  <2>7. Went(e, Len(T) - h, lits.len).buf = e BY DEF Went
  <2>8. Len(T) \in h .. Len(T) BY <1>2
  <2> QED BY <2>3, <2>4, <2>5, <2>6, <2>7, <2>8, <1>2 DEF Underway
<1> QED BY <1>3, <1>4

(* What a block is given when it goes on behind position from of T.        *)
Standing(T, history, out, base, from, max) ==
  /\ Prefix(history, T)
  /\ base \in 0 .. Len(out) /\ from \in 0 .. Len(T) /\ from = Len(history) + Len(out) - base
  /\ \A i \in 1 .. Len(out) - base : out[base + i] = T[Len(history) + i]
  /\ max \in Nat /\ Len(T) - from <= max

(* A block's sequences, executed behind what is there, are the block.      *)
THEOREM RunSequencesTells ==
  ASSUME NEW S, 0 \in S, NEW T \in Seq(S), NEW history \in Seq(S), NEW out \in Seq(S),
         NEW base, NEW from, NEW max, Standing(T, history, out, base, from, max),
         NEW lits, GoodLiterals(S, lits), NEW seqs \in Seq(Sequence), NEW at, NEW lp,
         Tells(T, from, seqs, AsSlice(lits), at, lp), Len(AsSlice(lits)) = lits.len
  PROVE RunSequences(out, max, base, seqs, lits, history)
          = [ok |-> TRUE, out |-> Part(T, Len(history), Len(T) - Len(history))]
<1> DEFINE h == Len(history)
           n == Len(out) - base
           zeros == [i \in 1 .. max + Overlength |-> 0]
           buf == Part(out, base, n) \o zeros
           size == n + max + Overlength
           s0 == Went(buf, n, 0)
           s1 == ExecuteAll(s0, seqs, lits, history)
           s2 == ExecuteRest(s1, lits)
           m == Len(seqs)
<1>g. /\ Prefix(history, T)
      /\ base \in 0 .. Len(out) /\ from \in 0 .. Len(T) /\ from = Len(history) + Len(out) - base
      /\ \A i \in 1 .. Len(out) - base : out[base + i] = T[Len(history) + i]
      /\ max \in Nat /\ Len(T) - from <= max
  BY DEF Standing
<1>0. /\ h \in Nat /\ n \in Nat /\ base \in Nat /\ base + n <= Len(out) /\ from = h + n /\ Overlength = 64
      /\ size \in Nat /\ Len(T) - h + Overlength <= size /\ Len(T) \in Nat /\ from \in Nat
  <2>1. Len(history) \in Nat /\ Len(out) \in Nat /\ Len(T) \in Nat OBVIOUS
  <2> DEFINE x == Len(history)
             y == Len(out)
             z == Len(T)
  <2>2. /\ x \in Nat /\ y \in Nat /\ z \in Nat /\ base \in 0 .. y /\ from \in 0 .. z
        /\ from = x + y - base /\ z - from <= max /\ max \in Nat
    BY <2>1, <1>g
  <2> HIDE DEF x, y, z
  <2>3. /\ y - base \in Nat /\ base \in Nat /\ base + (y - base) <= y /\ from = x + (y - base)
        /\ (y - base) + max + 64 \in Nat /\ z - x + 64 <= (y - base) + max + 64 /\ from \in Nat
    BY <2>2
  <2> QED BY <2>2, <2>3 DEF x, y, z, Overlength
<1>1. buf \in Seq(S) /\ Len(buf) = size /\ \A i \in 1 .. n : buf[i] = T[h + i]
  <2>1. IsPart(S, Part(out, base, n), out, base, n)
    <3> HIDE DEF n
    <3> QED BY <1>0, PartIs
  <2> DEFINE p == Part(out, base, n)
             z == max + Overlength
  <2>2. z \in Nat BY <1>0, <1>g
  <2>3. zeros \in Seq(S) /\ Len(zeros) = z
    <3>1. zeros = [i \in 1 .. z |-> 0] OBVIOUS
    <3> HIDE DEF z
    <3>2. [i \in 1 .. z |-> 0] \in Seq(S) /\ Len([i \in 1 .. z |-> 0]) = z BY <2>2
    <3> HIDE DEF zeros
    <3> QED BY <3>1, <3>2
  <2> HIDE DEF zeros, p, z
  <2>4. p \o zeros \in Seq(S) /\ Len(p \o zeros) = n + z /\ \A i \in 1 .. n : (p \o zeros)[i] = p[i]
    <3>1. p \in Seq(S) /\ Len(p) = n /\ n \in Nat BY <1>0, <2>1 DEF p, IsPart
    <3> HIDE DEF n
    <3> QED BY <3>1, <2>2, <2>3, JoinFacts
  <2>5. \A i \in 1 .. n : p[i] = T[h + i] BY <2>1, <1>g DEF p, IsPart
  <2>6. n + z = size
    <3>1. max \in Nat BY <1>g
    <3> QED BY <1>0, <3>1 DEF z
  <2> QED BY <2>4, <2>5, <2>6 DEF p
<1>2. Underway(S, T, h, s0, from, 0, size)
  <2>0. from \in 0 .. Len(T) BY <1>g
  <2>1. from - h = n /\ from \in h .. Len(T) BY <1>0, <2>0
  <2> HIDE DEF buf, n
  <2>2. s0.buf = buf BY DEF Went
  <2> QED BY <2>1, <2>2, <1>1 DEF Underway
<1>3. RunSequences(out, max, base, seqs, lits, history) = BlockOutput(s2)
  <2>1. OpenBlock(out, max, base).buf = buf /\ OpenBlock(out, max, base).op = n
    BY DEF OpenBlock
  <2> HIDE DEF buf, n
  <2> QED BY <2>1 DEF RunSequences
<1> HIDE DEF s0, n, size, buf
<1>4. Underway(S, T, h, s1, at[m], lp[m], size)
  <2> HIDE DEF s1
  <2> QED BY <1>0, <1>g, <1>2, AllTell DEF s1
<1>5. /\ at[m] \in Nat /\ lp[m] \in Nat /\ lits.len = lp[m] + (Len(T) - at[m])
      /\ \A i \in 1 .. Len(T) - at[m] : AsSlice(lits)[lp[m] + i] = T[at[m] + i]
  <2>1. m \in 0 .. m OBVIOUS
  <2> QED BY <2>1 DEF Tells
<1>6. Underway(S, T, h, s2, Len(T), lits.len, size)
  <2> DEFINE a == at[m]
             l == lp[m]
  <2>1. /\ a \in Nat /\ l \in Nat /\ lits.len = l + (Len(T) - a) /\ Underway(S, T, h, s1, a, l, size)
        /\ \A i \in 1 .. Len(T) - a : AsSlice(lits)[l + i] = T[a + i]
    BY <1>4, <1>5
  <2>2. h \in 0 .. Len(T) BY <1>0, <1>g DEF Prefix
  <2> HIDE DEF s1, a, l, h
  <2> QED BY <2>1, <2>2, <1>0, RestTells
<1> HIDE DEF s2
<1> DEFINE k == Len(T) - h
<1>7. /\ s2 = Went(s2.buf, k, lits.len) /\ k \in Nat /\ s2.buf \in Seq(S) /\ Len(s2.buf) = size
      /\ \A x \in 1 .. k : s2.buf[x] = T[h + x]
  BY <1>6, <1>0, <1>g DEF Underway, Prefix
<1>8. BlockOutput(s2) = [ok |-> TRUE, out |-> Part(s2.buf, 0, k)]
  <2>1. s2.ok /\ s2.op = k BY <1>7 DEF Went
  <2> QED BY <2>1 DEF BlockOutput
<1>9. k <= size /\ h + k <= Len(T) BY <1>0, <1>g DEF Prefix
<1> HIDE DEF k, h
<1>10. Part(s2.buf, 0, k) = Part(T, h, k)
  <2>0. h \in Nat /\ k \in Nat /\ 0 \in Nat /\ 0 + k <= Len(s2.buf) BY <1>0, <1>7, <1>9
  <2>1. IsPart(S, Part(T, h, k), T, h, k) BY <2>0, <1>9, PartIs
  <2>2. IsPart(S, Part(s2.buf, 0, k), s2.buf, 0, k) BY <2>0, <1>7, PartIs
  <2> DEFINE p == Part(T, h, k)
             r == Part(s2.buf, 0, k)
  <2>3. p \in Seq(S) /\ Len(p) = k /\ \A i \in 1 .. k : p[i] = T[h + i] BY <2>1 DEF IsPart
  <2>4. r \in Seq(S) /\ Len(r) = k /\ \A i \in 1 .. k : r[i] = s2.buf[0 + i] BY <2>2 DEF IsPart
  <2> HIDE DEF p, r
  <2>5. \A i \in 1 .. k : r[i] = p[i]
    <3> TAKE i \in 1 .. k
    <3>1. r[i] = s2.buf[0 + i] /\ 0 + i = i BY <2>4, <2>0
    <3> QED BY <3>1, <2>3, <1>7
  <2>6. r = p BY <2>3, <2>4, <2>5, SameBytes
  <2> QED BY <2>6 DEF r, p
<1> QED BY <1>3, <1>8, <1>10 DEF k, h

(* A state of a block begun behind the n bytes of buf: refused, or no copy
   has left the buffer, and those bytes are as they were.                  *)
Sound(S, r, buf, n) ==
  \/ r = Bad
  \/ \E b \in Seq(S), o \in Nat, l \in Nat :
       /\ r = Went(b, o, l) /\ Len(b) = Len(buf)
       /\ n <= o /\ o + Overlength <= Len(buf) /\ \A x \in 1 .. n : b[x] = buf[x]

(* Whatever a sequence holds, it is refused or no copy of it leaves its    *)
(* buffer.                                                                 *)
LEMMA StepSound ==
  ASSUME NEW S, NEW lits, GoodLiterals(S, lits), NEW history \in Seq(S), NEW q \in Sequence,
         NEW buf \in Seq(S), NEW n \in Nat, NEW r, Sound(S, r, buf, n)
  PROVE Sound(S, ExecuteNext(r, q, lits, history), buf, n)
<1>1. CASE r = Bad BY <1>1 DEF ExecuteNext, Sound, Bad
<1>2. CASE r # Bad
  <2>1. PICK b \in Seq(S), o \in Nat, l \in Nat :
          /\ r = Went(b, o, l) /\ Len(b) = Len(buf)
          /\ n <= o /\ o + Overlength <= Len(buf) /\ \A x \in 1 .. n : b[x] = buf[x]
    BY <1>2 DEF Sound
  <2> DEFINE t == Execute(Went(b, o, l), q, lits, history)
  <2>2. ExecuteNext(r, q, lits, history) = t BY <2>1 DEF ExecuteNext, Went
  <2>3. IF /\ o + q.ll + q.ml + Overlength <= Len(b)
           /\ Allowed(o, l, q, AsSlice(lits), history)
        THEN Performed(S, t, b, o, l, q, AsSlice(lits), history) ELSE t = Bad
    BY <2>1, SequencePerformed
  <2> HIDE DEF t
  <2>4. CASE t = Bad BY <2>2, <2>4 DEF Sound
  <2>5. CASE t # Bad
    <3> DEFINE o2 == o + q.ll + q.ml
               l2 == l + q.ll
    <3>0. q.ll \in Nat /\ q.ml \in Nat /\ Overlength = 64 /\ Len(buf) \in Nat BY DEF Sequence, Overlength
    <3>1. o2 \in Nat /\ l2 \in Nat /\ n <= o2 /\ o <= o2 /\ o2 + Overlength <= Len(b)
      <4>1. o2 + Overlength <= Len(b) BY <2>3, <2>5
      <4>2. o2 \in Nat /\ l2 \in Nat /\ n <= o2 /\ o <= o2
        <5> DEFINE ll == q.ll
                   ml == q.ml
        <5>1. ll \in Nat /\ ml \in Nat BY <3>0
        <5> HIDE DEF ll, ml
        <5>2. o + ll + ml \in Nat /\ l + ll \in Nat /\ n <= o + ll + ml /\ o <= o + ll + ml BY <5>1, <2>1
        <5> QED BY <5>2 DEF ll, ml
      <4> QED BY <4>1, <4>2
    <3>2. /\ t = Went(t.buf, o2, l2) /\ t.buf \in Seq(S) /\ Len(t.buf) = Len(b)
          /\ \A x \in 1 .. o : t.buf[x] = b[x]
      BY <2>3, <2>5 DEF Performed, Like
    <3> HIDE DEF o2, l2
    <3>3. \A x \in 1 .. n : t.buf[x] = buf[x]
      <4> TAKE x \in 1 .. n
      <4>1. x \in 1 .. o BY <2>1
      <4> QED BY <4>1, <3>2, <2>1
    <3>4. Len(t.buf) = Len(buf) /\ o2 + Overlength <= Len(buf) BY <3>1, <3>2, <2>1
    <3> QED BY <2>2, <3>1, <3>2, <3>3, <3>4 DEF Sound
  <2> QED BY <2>4, <2>5
<1> QED BY <1>1, <1>2

(* The same of all the sequences of a block.                               *)
LEMMA AllSound ==
  ASSUME NEW S, NEW lits, GoodLiterals(S, lits), NEW history \in Seq(S),
         NEW seqs \in Seq(Sequence), NEW buf \in Seq(S), NEW n \in Nat,
         NEW s, Sound(S, s, buf, n)
  PROVE Sound(S, ExecuteAll(s, seqs, lits, history), buf, n)
<1> DEFINE m == Len(seqs)
           Z == { r \in States(S) : Sound(S, r, buf, n) }
           X == [k \in 0 .. m |-> Z]
<1>m. /\ m \in Nat /\ \A k \in 1 .. m : seqs[k] \in Sequence
  OBVIOUS
<1>s. s \in States(S) BY DEF States, Sound
<1>f. PICK f \in [0 .. m -> States(S)] :
        Executes(f, s, seqs, lits, history) /\ ExecuteAll(s, seqs, lits, history) = f[m]
  BY <1>s, ExecuteAllRuns
<1>e. f[0] = s /\ \A i \in 1 .. m : f[i] = ExecuteNext(f[i - 1], seqs[i], lits, history)
  BY <1>f DEF Executes
<1> HIDE DEF m
<1>z. \A k \in 0 .. m : X[k] = Z OBVIOUS
<1>i. \A k \in 1 .. m : k \in 0 .. m /\ k - 1 \in 0 .. m BY <1>m
<1>1. f[0] \in X[0]
  <2>1. 0 \in 0 .. m BY <1>m
  <2> HIDE DEF X
  <2> QED BY <2>1, <1>s, <1>e, <1>z
<1>2. ASSUME NEW k \in 1 .. m, f[k - 1] \in X[k - 1] PROVE f[k] \in X[k]
  <2>1. Sound(S, f[k - 1], buf, n)
    <3> HIDE DEF X
    <3> QED BY <1>2, <1>z, <1>i
  <2>2. Sound(S, ExecuteNext(f[k - 1], seqs[k], lits, history), buf, n) BY <2>1, <1>m, StepSound
  <2>3. f[k] \in States(S) 
    <3> HIDE DEF X
    <3> QED BY <1>i, <1>f
  <2> HIDE DEF X
  <2> QED BY <2>2, <2>3, <1>e, <1>z, <1>i
<1>3. \A k \in 0 .. m : f[k] \in X[k]
  <2> HIDE DEF X
  <2> QED BY <1>1, <1>2, <1>m, LoopRule
<1>4. m \in 0 .. m BY <1>m
<1>5. f[m] \in Z
  <2> HIDE DEF X, Z
  <2> QED BY <1>3, <1>4, <1>z
<1> QED BY <1>5, <1>f DEF m

(* The same of the literals behind the last sequence.                      *)
LEMMA RestSound ==
  ASSUME NEW S, NEW lits, GoodLiterals(S, lits), NEW buf \in Seq(S), NEW n \in Nat,
         NEW s, Sound(S, s, buf, n)
  PROVE Sound(S, ExecuteRest(s, lits), buf, n)
<1>1. CASE s = Bad BY <1>1 DEF ExecuteRest, Sound, Bad
<1>2. CASE s # Bad
  <2>1. PICK b \in Seq(S), o \in Nat, l \in Nat :
          /\ s = Went(b, o, l) /\ Len(b) = Len(buf)
          /\ n <= o /\ o + Overlength <= Len(buf) /\ \A x \in 1 .. n : b[x] = buf[x]
    BY <1>2 DEF Sound
  <2> DEFINE t == ExecuteRest(s, lits)
             len == lits.len - l
             slice == AsSlice(lits)
             e == PutAt(b, o, Part(slice, l, len))
  <2>s. s.ok /\ s.op = o /\ s.lp = l /\ s.buf = b BY <2>1 DEF Went
  <2>0. lits.len \in Nat /\ Overlength = 64 /\ Len(buf) \in Nat BY DEF GoodLiterals, Overlength
  <2>l. slice \in Seq(S) /\ Len(slice) = lits.len
    <3>1. ASSUME NEW f \in Seq(S), NEW k \in Nat, k <= Len(f)
          PROVE Part(f, 0, k) \in Seq(S) /\ Len(Part(f, 0, k)) = k
      BY <3>1, PartFacts
    <3> QED BY <3>1 DEF GoodLiterals, AsSlice
  <2>2. CASE ~(l < lits.len)
    <3>1. t = s BY <2>s, <2>2 DEF ExecuteRest
    <3> HIDE DEF t
    <3> QED BY <3>1 DEF t
  <2>3. CASE l < lits.len
    <3>1. t = ExtendLiterals(s, lits, len) BY <2>s, <2>3 DEF ExecuteRest
    <3>2. len \in Nat /\ l + len = lits.len BY <2>0, <2>3
    <3>3. CASE len > Len(b) - Overlength - o
      <4>1. t = Bad BY <3>1, <3>3, <2>s DEF ExtendLiterals
      <4> HIDE DEF t
      <4> QED BY <4>1 DEF Sound, t
    <3>4. CASE ~(len > Len(b) - Overlength - o)
      <4>0. o + len + Overlength <= Len(b) /\ o + len <= Len(b) /\ o + len \in Nat /\ n <= o + len
        <5>1. Len(b) \in Nat /\ ~(len > Len(b) - 64 - o) BY <3>4, <2>0
        <5>2. n <= o BY <2>1
        <5> HIDE DEF len
        <5> QED BY <5>1, <5>2, <3>2, <2>0
      <4>1. t = Went(e, o + len, l + len)
        <5>1. ~(l > lits.len) /\ ~(len > lits.len - l) BY <3>2, <2>0, <2>3
        <5> HIDE DEF len
        <5> QED BY <3>1, <3>4, <5>1, <2>s DEF ExtendLiterals
      <4> HIDE DEF len, slice
      <4>2. e \in Seq(S) /\ Copied(e, b, slice, o, l, len)
        <5>1. l + len <= Len(slice) BY <2>l, <2>0, <3>2
        <5> QED BY <5>1, <4>0, <3>2, <2>l, PutLiterals
      <4> HIDE DEF e, t
      <4>3. Len(e) = Len(buf) /\ \A x \in 1 .. n : e[x] = buf[x]
        <5>1. Len(e) = Len(b) BY <4>2 DEF Copied
        <5>2. ASSUME NEW x \in 1 .. n PROVE e[x] = buf[x]
          <6>1. x \in 1 .. Len(b) /\ ~(o < x) BY <2>1, <2>0
          <6> QED BY <6>1, <4>2, <2>1 DEF Copied
        <5> QED BY <5>1, <5>2, <2>1
      <4>4. l + len \in Nat BY <3>2
      <4> DEFINE o2 == o + len
                 l2 == l + len
      <4>5. o2 \in Nat /\ l2 \in Nat /\ n <= o2 /\ o2 + Overlength <= Len(buf) /\ t = Went(e, o2, l2)
        BY <4>0, <4>1, <4>4, <2>1
      <4> HIDE DEF o2, l2
      <4> QED BY <4>2, <4>3, <4>5 DEF Sound, t
    <3> QED BY <3>3, <3>4
  <2> QED BY <2>2, <2>3
<1> QED BY <1>1, <1>2

(* Whatever sequences a block holds, they are refused or leave a block
   within its limit behind the output that was there.                      *)
THEOREM RunSequencesSound ==
  ASSUME NEW S, 0 \in S, NEW history \in Seq(S), NEW out \in Seq(S), NEW base \in 0 .. Len(out),
         NEW max \in Nat, NEW lits, GoodLiterals(S, lits), NEW seqs \in Seq(Sequence)
  PROVE LET r == RunSequences(out, max, base, seqs, lits, history)
            n == Len(out) - base
        IN  \/ r = Bad
            \/ /\ r.ok /\ r.out \in Seq(S) /\ Len(r.out) \in n .. n + max
               /\ \A x \in 1 .. n : r.out[x] = out[base + x]
<1> DEFINE n == Len(out) - base
           z == max + Overlength
           zeros == [i \in 1 .. z |-> 0]
           p == Part(out, base, n)
           buf == p \o zeros
           s0 == Went(buf, n, 0)
           s2 == ExecuteRest(ExecuteAll(s0, seqs, lits, history), lits)
           r == RunSequences(out, max, base, seqs, lits, history)
<1>0. n \in Nat /\ base \in Nat /\ base + n <= Len(out) /\ Overlength = 64 /\ z \in Nat
  BY DEF Overlength
<1>1. p \in Seq(S) /\ Len(p) = n /\ \A i \in 1 .. n : p[i] = out[base + i]
  <2> HIDE DEF n
  <2>1. IsPart(S, p, out, base, n) BY <1>0, PartIs
  <2> HIDE DEF p
  <2> QED BY <2>1 DEF IsPart
<1>2. zeros \in Seq(S) /\ Len(zeros) = z
  <2> HIDE DEF z
  <2> QED BY <1>0
<1>r. r = BlockOutput(s2)
  <2>1. OpenBlock(out, max, base).buf = buf /\ OpenBlock(out, max, base).op = n
    BY DEF OpenBlock
  <2> HIDE DEF buf, n
  <2> QED BY <2>1 DEF RunSequences
<1> HIDE DEF p, zeros
<1>3. buf \in Seq(S) /\ Len(buf) = n + z /\ \A i \in 1 .. n : buf[i] = out[base + i]
  <2> HIDE DEF n, z
  <2>1. p \in Seq(S) /\ zeros \in Seq(S) BY <1>1, <1>2
  <2>2. /\ buf \in Seq(S) /\ Len(buf) = Len(p) + Len(zeros)
        /\ \A i \in 1 .. Len(p) : buf[i] = p[i]
    BY <2>1, JoinFacts
  <2> HIDE DEF buf
  <2> QED BY <2>2, <1>1, <1>2
<1>4. Sound(S, s2, buf, n)
  <2>1. n + Overlength <= Len(buf) BY <1>0, <1>3
  <2>2. Sound(S, s0, buf, n)
    <3>1. buf \in Seq(S) /\ n \in Nat /\ 0 \in Nat BY <1>0, <1>3
    <3> HIDE DEF n, buf
    <3>2. /\ s0 = Went(buf, n, 0) /\ Len(buf) = Len(buf) /\ n <= n
          /\ n + Overlength <= Len(buf) /\ \A x \in 1 .. n : buf[x] = buf[x]
      BY <2>1, <3>1
    <3> HIDE DEF s0
    <3> QED BY <3>1, <3>2 DEF Sound
  <2> HIDE DEF n, buf, s0
  <2> QED BY <2>2, <1>0, <1>3, AllSound, RestSound
<1> HIDE DEF s2
<1>5. CASE s2 = Bad
  <2>1. r = Bad BY <1>5, <1>r DEF BlockOutput, Bad
  <2> QED BY <2>1
<1>6. CASE s2 # Bad
  <2>1. PICK b \in Seq(S), o \in Nat, l \in Nat :
          /\ s2 = Went(b, o, l) /\ Len(b) = Len(buf)
          /\ n <= o /\ o + Overlength <= Len(buf) /\ \A x \in 1 .. n : b[x] = buf[x]
    <3> HIDE DEF n
    <3> QED BY <1>4, <1>6 DEF Sound
  <2> DEFINE k == Part(b, 0, o)
  <2>2. s2.ok /\ s2.op = o /\ s2.buf = b BY <2>1 DEF Went
  <2>3. r = [ok |-> TRUE, out |-> k] BY <2>2, <1>r DEF BlockOutput
  <2>4. 0 + o <= Len(b) /\ o <= n + max
    <3>1. o + 64 <= n + (max + 64)
      <4>1. o + Overlength <= n + z BY <2>1, <1>3
      <4> QED BY <4>1, <1>0
    <3>2. o + Overlength <= Len(b) BY <2>1
    <3>3. Len(b) \in Nat OBVIOUS
    <3> HIDE DEF n
    <3> QED BY <3>1, <3>2, <3>3, <1>0
  <2>5. k \in Seq(S) /\ Len(k) = o /\ \A i \in 1 .. o : k[i] = b[i]
    <3>1. ASSUME NEW f \in Seq(S), NEW i \in Nat, i <= Len(f)
          PROVE IsPart(S, Part(f, 0, i), f, 0, i)
      BY <3>1, PartIs
    <3>2. IsPart(S, k, b, 0, o) BY <3>1, <2>4
    <3> HIDE DEF k
    <3>3. \A i \in 1 .. o : 0 + i = i OBVIOUS
    <3> QED BY <3>2, <3>3 DEF IsPart
  <2> HIDE DEF k, r
  <2>6. r.ok /\ r.out = k BY <2>3
  <2>7. \A x \in 1 .. n : k[x] = out[base + x]
    <3> TAKE x \in 1 .. n
    <3>1. x \in 1 .. o BY <2>1, <1>0
    <3> QED BY <3>1, <2>1, <2>5, <1>3
  <2>8. o \in n .. n + max BY <2>1, <2>4, <1>0
  <2>9. Len(r.out) \in n .. n + max BY <2>5, <2>6, <2>8
  <2>10. \A x \in 1 .. n : r.out[x] = out[base + x] BY <2>6, <2>7
  <2> HIDE DEF n
  <2> QED BY <2>5, <2>6, <2>9, <2>10 DEF n, r
<1> QED BY <1>5, <1>6

-----------------------------------------------------------------------------
(***************************************************************************)
(* Blocks of one sequence.                                                 *)
(*                                                                         *)
(* The single-sequence path of execute_block, with its own match copy,     *)
(* wild_copy_match, that doubles what it has copied.                       *)
(***************************************************************************)

Copying(S) == { d \in [out : Seq(S), copied : Nat] : d.copied <= Len(d.out) }

(* A step of the doubling loop appends what is `copied` bytes before.      *)
LEMMA StepDoubles ==
  ASSUME NEW S, NEW d \in Copying(S), NEW len \in Nat, d.copied < len
  PROVE LET n == Least(len - d.copied, d.copied)
            r == DoublingStep(d, len)
        IN  /\ r = [out |-> r.out, copied |-> d.copied + n]
            /\ r.out \in Seq(S) /\ Len(r.out) = Len(d.out) + n
            /\ \A x \in 1 .. Len(d.out) : r.out[x] = d.out[x]
            /\ \A x \in Len(d.out) + 1 .. Len(d.out) + n : r.out[x] = d.out[x - d.copied]
            /\ n \in Nat /\ n <= d.copied /\ n <= len - d.copied /\ (n = d.copied \/ n = len - d.copied)
<1> DEFINE n == Least(len - d.copied, d.copied)
           c == d.copied
           o == d.out
           L == Len(d.out)
           p == Part(o, L - c, n)
           r == DoublingStep(d, len)
<1>0. o \in Seq(S) /\ c \in Nat /\ c <= L /\ L \in Nat /\ c < len BY DEF Copying
<1>c. d.copied = c /\ d.out = o OBVIOUS
<1>1. n \in Nat /\ n <= c /\ n <= len - c /\ (n = c \/ n = len - c)
  <2>1. n = Least(len - c, c) OBVIOUS
  <2> HIDE DEF c, n, o
  <2> QED BY <2>1, <1>0 DEF Least
<1>2. p \in Seq(S) /\ Len(p) = n /\ \A i \in 1 .. n : p[i] = o[(L - c) + i]
  <2>0. L - c \in Nat /\ (L - c) + n <= Len(o)
    <3> HIDE DEF n, c, o
    <3> QED BY <1>0, <1>1 DEF o
  <2> HIDE DEF n, c, o, L
  <2>1. IsPart(S, p, o, L - c, n) BY <2>0, <1>0, <1>1, PartIs
  <2> HIDE DEF p
  <2> QED BY <2>1 DEF IsPart
<1>3. r = [out |-> o \o p, copied |-> c + n] BY <1>0 DEF DoublingStep
<1> HIDE DEF p, r, n
<1>4. r.out = o \o p /\ r = [out |-> r.out, copied |-> c + n] BY <1>3
<1>5. /\ o \o p \in Seq(S) /\ Len(o \o p) = Len(o) + Len(p)
      /\ \A i \in 1 .. Len(o) : (o \o p)[i] = o[i]
      /\ \A i \in 1 .. Len(p) : (o \o p)[Len(o) + i] = p[i]
  <2> HIDE DEF o
  <2>1. o \in Seq(S) /\ p \in Seq(S) BY <1>0, <1>2
  <2> QED BY <2>1, JoinFacts
<1>6. ASSUME NEW x \in L + 1 .. L + n PROVE r.out[x] = o[x - c]
  <2> HIDE DEF o, L, c
  <2> DEFINE i == x - L
  <2>1. i \in 1 .. n /\ L + i = x /\ (L - c) + i = x - c BY <1>0, <1>1
  <2> HIDE DEF i
  <2>2. (o \o p)[L + i] = p[i] BY <1>2, <1>5, <2>1 DEF L, o
  <2> QED BY <1>2, <1>4, <2>1, <2>2
<1> QED BY <1>0, <1>1, <1>2, <1>4, <1>5, <1>6 DEF r, n

(* A step of the doubling loop never takes more than there is.             *)
LEMMA StepCopies ==
  ASSUME NEW S, NEW d \in Copying(S), NEW len \in Nat
  PROVE DoublingStep(d, len) \in Copying(S)
<1>0. d.out \in Seq(S) /\ d.copied \in Nat /\ d.copied <= Len(d.out) /\ Len(d.out) \in Nat BY DEF Copying
<1>1. CASE d.copied >= len
  <2>1. DoublingStep(d, len) = d BY <1>1 DEF DoublingStep
  <2> QED BY <2>1
<1>2. CASE d.copied < len
  <2> DEFINE n == Least(len - d.copied, d.copied)
             r == DoublingStep(d, len)
  <2>1. /\ r = [out |-> r.out, copied |-> d.copied + n]
        /\ r.out \in Seq(S) /\ Len(r.out) = Len(d.out) + n /\ n \in Nat
    BY <1>2, StepDoubles
  <2> HIDE DEF r, n
  <2> DEFINE c == d.copied + n
  <2>2. c \in Nat /\ c <= Len(r.out) BY <1>0, <2>1
  <2> HIDE DEF c
  <2>3. r = [out |-> r.out, copied |-> c] BY <2>1 DEF c
  <2>4. r.copied = c BY <2>3
  <2> QED BY <2>1, <2>2, <2>3, <2>4 DEF Copying, r
<1> QED BY <1>0, <1>1, <1>2

DoublesInto(f, S, out, copied, len) ==
  /\ f[0] = [out |-> out, copied |-> copied]
  /\ \A k \in 1 .. len \div 2 : f[k] = DoublingStep(f[k - 1], len)
  /\ Doubling(out, copied, len) = f[len \div 2].out

(* The states that the doubling loop goes through.                         *)
LEMMA DoublingRuns ==
  ASSUME NEW S, NEW out \in Seq(S), NEW copied \in Nat, NEW len \in Nat, copied <= Len(out)
  PROVE \E f \in [0 .. len \div 2 -> Copying(S)] : DoublesInto(f, S, out, copied, len)
<1> USE DEF DoublesInto
<1> DEFINE m == len \div 2
           Y == Copying(S)
           c == [out |-> out, copied |-> copied]
           G == [k \in 1 .. m |-> [d \in Y |-> DoublingStep(d, len)]]
           Rec(f) == f = [k \in 0 .. m |->
                            IF k = 0 THEN [out |-> out, copied |-> copied] ELSE DoublingStep(f[k - 1], len)]
<1>0. \A k \in 1 .. m : \A d \in Y : G[k][d] = DoublingStep(d, len) OBVIOUS
<1>c. c \in Y BY DEF Copying
<1>m. m \in Nat OBVIOUS
<1>1. RoundsKeep(Y, G, m)
  <2>1. \A d \in Y : DoublingStep(d, len) \in Y BY StepCopies
  <2> QED BY <2>1 DEF RoundsKeep
<1> HIDE DEF Y, G, c
<1>5. \A h : (h = CHOOSE g : Rec(g)) => Doubling(out, copied, len) = h[m].out BY DEF Doubling
<1> HIDE DEF m
<1>f. PICK f \in [0 .. m -> Y] : RunsFrom(f, c, G, m) BY <1>1, <1>c, <1>m, LoopExists
<1>2. f[0] = c /\ \A k \in 1 .. m : f[k] = DoublingStep(f[k - 1], len)
  <2>1. ASSUME NEW k \in 1 .. m PROVE f[k] = DoublingStep(f[k - 1], len)
    <3>1. k - 1 \in 0 .. m BY <1>m
    <3>2. f[k - 1] \in Y BY <3>1
    <3>3. f[k] = G[k][f[k - 1]] BY <1>f DEF RunsFrom
    <3> QED BY <3>2, <3>3, <1>0
  <2> QED BY <2>1, <1>f DEF RunsFrom
<1>3. Rec(f)
  <2>1. f = [k \in 0 .. m |-> f[k]] OBVIOUS
  <2>2. \A k \in 0 .. m : k = 0 \/ k \in 1 .. m BY <1>m
  <2> QED BY <2>1, <2>2, <1>2 DEF c
<1> DEFINE h == CHOOSE g : Rec(g)
<1>4. Rec(h) BY <1>3
<1>7. Doubling(out, copied, len) = h[m].out BY <1>5
<1>6. h = f
  <2> HIDE DEF h
  <2> DEFINE T == { n \in Nat : n <= m => h[n] = f[n] }
  <2>h. \A i \in 0 .. m : h[i] = IF i = 0 THEN c ELSE DoublingStep(h[i - 1], len)
    BY <1>4 DEF c
  <2>1. 0 \in T
    <3>1. 0 \in 0 .. m BY <1>m
    <3> QED BY <3>1, <2>h, <1>2
  <2>2. ASSUME NEW n \in Nat, n \in T PROVE n + 1 \in T
    <3>1. CASE n + 1 <= m
      <4>1. n + 1 \in 1 .. m /\ n + 1 \in 0 .. m /\ (n + 1) - 1 = n /\ n + 1 # 0 /\ h[n] = f[n] BY <1>m, <2>2, <3>1
      <4> QED BY <4>1, <2>h, <1>2
    <3>2. CASE ~(n + 1 <= m) BY <3>2
    <3> QED BY <3>1, <3>2
  <2>3. Nat \subseteq T
    <3> HIDE DEF T
    <3> QED BY <2>1, <2>2, SetInduction
  <2>4. \A i \in 0 .. m : h[i] = f[i] BY <2>3
  <2>5. h = [i \in 0 .. m |-> h[i]] BY <1>4
  <2>6. f = [i \in 0 .. m |-> f[i]] OBVIOUS
  <2> QED BY <2>4, <2>5, <2>6
<1> HIDE DEF h
<1> QED BY <1>2, <1>7, <1>6 DEF Y, c, m

Doubled(d, W, L, off, len, top, k) ==
  /\ Len(d.out) = L + d.copied /\ off <= d.copied /\ d.copied <= len
  /\ 2 * k + 2 <= d.copied \/ d.copied = len
  /\ ShowsTo(d.out, W, L + d.copied)
  /\ d.copied < len => Repeats(W, L + d.copied - off, top, d.copied)

(* A step of the doubling loop keeps the match's period, and what is       *)
(* copied a multiple of the offset until the last step.                    *)
LEMMA StepShows ==
  ASSUME NEW S, NEW d \in Copying(S), NEW L \in Nat, NEW off \in Nat, off >= 1, NEW len \in Nat,
         NEW W, NEW top \in Nat, L + len <= top, NEW k \in Nat, Doubled(d, W, L, off, len, top, k)
  PROVE Doubled(DoublingStep(d, len), W, L, off, len, top, k + 1)
<1> DEFINE c == d.copied
           n == Least(len - c, c)
           r == DoublingStep(d, len)
<1>0. c \in Nat /\ d.out \in Seq(S) BY DEF Copying
<1>1. CASE c >= len
  <2>0. c <= len BY DEF Doubled
  <2>1. r = d /\ c = len
    <3>1. r = d BY <1>1 DEF DoublingStep
    <3> HIDE DEF r, c
    <3> QED BY <3>1, <2>0, <1>0, <1>1
  <2> HIDE DEF r, c
  <2>2. d.copied = len BY <2>1 DEF c
  <2>3. Doubled(d, W, L, off, len, top, k + 1) BY <2>2 DEF Doubled
  <2> QED BY <2>1, <2>3 DEF r
<1>2. CASE c < len
  <2>1. /\ r = [out |-> r.out, copied |-> c + n]
        /\ r.out \in Seq(S) /\ Len(r.out) = Len(d.out) + n
        /\ \A x \in 1 .. Len(d.out) : r.out[x] = d.out[x]
        /\ \A x \in Len(d.out) + 1 .. Len(d.out) + n : r.out[x] = d.out[x - c]
        /\ n \in Nat /\ n <= c /\ n <= len - c /\ (n = c \/ n = len - c)
    BY <1>2, StepDoubles
  <2>2. /\ Len(d.out) = L + c /\ off <= c /\ c <= len /\ 2 * k + 2 <= c
        /\ ShowsTo(d.out, W, L + c) /\ Repeats(W, L + c - off, top, c)
    BY <1>2 DEF Doubled
  <2> HIDE DEF r, n, c
  <2> DEFINE e == c + n
  <2>3. /\ e \in Nat /\ off <= e /\ e <= len /\ (2 * (k + 1) + 2 <= e \/ e = len) /\ c <= e
        /\ (e < len => e = c + c)
    <3>1. c \in Nat /\ n \in Nat /\ n <= c /\ n <= len - c /\ (n = c \/ n = len - c) /\ c < len
          /\ off <= c /\ 2 * k + 2 <= c
      BY <1>0, <1>2, <2>1, <2>2
    <3> QED BY <3>1
  <2>4. r.copied = e
    <3> HIDE DEF e
    <3>1. r = [out |-> r.out, copied |-> e] BY <2>1 DEF e
    <3> QED BY <3>1
  <2>5. Len(r.out) = L + e BY <1>0, <2>1, <2>2
  <2>6. ShowsTo(r.out, W, L + e)
    <3>1. ASSUME NEW x \in 1 .. L + e PROVE r.out[x] = W[x]
      <4>1. CASE x <= L + c
        <5>1. x \in 1 .. L + c BY <4>1, <1>0
        <5> QED BY <5>1, <2>1, <2>2 DEF ShowsTo
      <4>2. CASE L + c < x
        <5>1. /\ x \in Len(d.out) + 1 .. Len(d.out) + n /\ x - c \in 1 .. L + c
              /\ x \in (L + c - off) + 1 .. top
          <6>1. c \in Nat /\ Len(d.out) = L + c /\ n \in Nat /\ n <= c /\ off <= c /\ c + n <= len
            BY <1>0, <2>1, <2>2, <2>3
          <6> QED BY <6>1, <4>2
        <5>2. r.out[x] = d.out[x - c] BY <5>1, <2>1
        <5>3. d.out[x - c] = W[x - c] BY <5>1, <2>2 DEF ShowsTo
        <5>4. W[x] = W[x - c] BY <5>1, <2>2 DEF Repeats
        <5> QED BY <5>2, <5>3, <5>4
      <4> QED BY <4>1, <4>2, <1>0, <2>3
    <3> HIDE DEF e
    <3> QED BY <3>1 DEF ShowsTo
  <2>7. e < len => Repeats(W, L + e - off, top, e)
    <3> SUFFICES ASSUME e < len PROVE Repeats(W, L + e - off, top, e) OBVIOUS
    <3>1. e = c + c BY <2>3
    <3> DEFINE a == L + c - off
               b == L + e - off
    <3>2. a \in Nat /\ b \in Nat /\ a <= b /\ a + c <= b BY <3>1, <1>0, <2>2
    <3>3. Repeats(W, a, top, c) BY <2>2
    <3> HIDE DEF a, b, e
    <3>4. Repeats(W, b, top, c + c) BY <3>2, <3>3, <1>0, PeriodSum
    <3> QED BY <3>4, <3>1 DEF b
  <2> HIDE DEF e
  <2>8. Doubled(r, W, L, off, len, top, k + 1) BY <2>3, <2>4, <2>5, <2>6, <2>7 DEF Doubled
  <2> QED BY <2>8 DEF r
<1> QED BY <1>0, <1>1, <1>2

(* The doubling loop ends with the whole match copied, in its period.      *)
LEMMA DoublingShows ==
  ASSUME NEW S, NEW out \in Seq(S), NEW L \in Nat, NEW off \in Nat, off >= 2, NEW len \in Nat,
         off < len, Len(out) = L + off, NEW W, ShowsTo(out, W, L + off),
         NEW top \in Nat, L + len <= top, Repeats(W, L, top, off)
  PROVE LET r == Doubling(out, off, len)
        IN  r \in Seq(S) /\ Len(r) = L + len /\ ShowsTo(r, W, L + len)
<1> DEFINE m == len \div 2
<1>p. PICK f \in [0 .. len \div 2 -> Copying(S)] : DoublesInto(f, S, out, off, len)
  <2>1. off <= Len(out) OBVIOUS
  <2> QED BY <2>1, DoublingRuns
<1>f. /\ f[0] = [out |-> out, copied |-> off]
      /\ \A k \in 1 .. m : f[k] = DoublingStep(f[k - 1], len)
      /\ Doubling(out, off, len) = f[m].out
  BY <1>p DEF DoublesInto
<1>m. m \in Nat /\ len <= 2 * m + 1 OBVIOUS
<1>g. f \in [0 .. m -> Copying(S)] BY <1>p
<1> HIDE DEF m
<1> DEFINE Z(k) == { d \in Copying(S) : Doubled(d, W, L, off, len, top, k) }
           X == [k \in 0 .. m |-> Z(k)]
<1>z. \A k \in 0 .. m : X[k] = Z(k) OBVIOUS
<1>1. f[0] \in X[0]
  <2>1. f[0].out = out /\ f[0].copied = off BY <1>f
  <2>2. L + off - off = L OBVIOUS
  <2>3. Doubled(f[0], W, L, off, len, top, 0) BY <2>1, <2>2 DEF Doubled
  <2>4. 0 \in 0 .. m BY <1>m
  <2> HIDE DEF X
  <2> QED BY <2>3, <2>4, <1>f, <1>g, <1>z
<1>2. ASSUME NEW k \in 1 .. m, f[k - 1] \in X[k - 1] PROVE f[k] \in X[k]
  <2>1. k \in 0 .. m /\ k - 1 \in 0 .. m /\ k - 1 \in Nat /\ (k - 1) + 1 = k BY <1>m
  <2> DEFINE i == k - 1
  <2>2. f[k - 1] \in Z(k - 1)
    <3> HIDE DEF X, Z
    <3> QED BY <1>2, <1>z, <2>1
  <2>3. i \in Nat /\ f[i] \in Copying(S) /\ Doubled(f[i], W, L, off, len, top, i) BY <2>1, <2>2
  <2>4. f[k] = DoublingStep(f[i], len) BY <1>f
  <2> HIDE DEF i
  <2>5. Doubled(DoublingStep(f[i], len), W, L, off, len, top, i + 1) BY <2>3, StepShows
  <2>6. i + 1 = k BY DEF i
  <2>7. f[k] \in Copying(S) BY <2>1, <1>g
  <2> HIDE DEF X
  <2> QED BY <2>1, <2>4, <2>5, <2>6, <2>7, <1>z
<1>3. \A k \in 0 .. m : f[k] \in X[k]
  <2> HIDE DEF X
  <2> QED BY <1>m, <1>1, <1>2, LoopRule
<1>4. f[m] \in Z(m)
  <2>1. m \in 0 .. m BY <1>m
  <2> HIDE DEF X, Z
  <2> QED BY <2>1, <1>3, <1>z
<1> USE <1>p
<1>5. /\ f[m].copied = len /\ f[m].out \in Seq(S) /\ Len(f[m].out) = L + len
      /\ ShowsTo(f[m].out, W, L + len)
  <2> DEFINE d == f[m]
  <2>1. d \in Copying(S) /\ Doubled(d, W, L, off, len, top, m) BY <1>4
  <2> HIDE DEF d
  <2>2. d.copied \in Nat /\ d.out \in Seq(S) BY <2>1 DEF Copying
  <2>3. d.copied = len BY <1>m, <2>1, <2>2 DEF Doubled
  <2> QED BY <2>1, <2>2, <2>3 DEF d, Doubled
<1> QED BY <1>f, <1>5

(* What a match of a block of one sequence appends.                        *)
Appended(S, r, out, off, len) ==
  /\ r \in Seq(S) /\ Len(r) = Len(out) + len
  /\ \A x \in 1 .. Len(out) : r[x] = out[x]
  /\ \A x \in Len(out) + 1 .. Len(out) + len : r[x] = r[x - off]

(* A match no longer than its offset is appended in one piece.             *)
LEMMA AppendedOnce ==
  ASSUME NEW S, NEW out \in Seq(S), NEW off \in 1 .. Len(out), NEW len \in Nat, len <= off
  PROVE Appended(S, out \o Part(out, Len(out) - off, len), out, off, len)
<1> DEFINE L == Len(out)
           start == L - off
           p == Part(out, start, len)
<1>0. L \in Nat /\ start \in Nat /\ start + len <= L /\ off \in Nat OBVIOUS
<1>1. p \in Seq(S) /\ Len(p) = len /\ \A i \in 1 .. len : p[i] = out[start + i]
  <2> HIDE DEF start
  <2>1. IsPart(S, p, out, start, len) BY <1>0, PartIs
  <2> HIDE DEF p
  <2> QED BY <2>1 DEF IsPart
<1> HIDE DEF p
<1> DEFINE r == out \o p
<1>2. /\ r \in Seq(S) /\ Len(r) = L + Len(p) /\ \A i \in 1 .. L : r[i] = out[i]
      /\ \A i \in 1 .. Len(p) : r[L + i] = p[i]
  <2>1. p \in Seq(S) BY <1>1
  <2> QED BY <2>1, JoinFacts
<1> HIDE DEF r
<1>3. ASSUME NEW x \in L + 1 .. L + len PROVE r[x] = r[x - off]
  <2> DEFINE i == x - L
  <2>1. i \in 1 .. len /\ L + i = x /\ start + i = x - off /\ x - off \in 1 .. L BY <1>0
  <2> HIDE DEF i, start
  <2>2. r[x] = p[i] BY <1>1, <1>2, <2>1
  <2>3. p[i] = out[x - off] BY <1>1, <2>1
  <2> QED BY <2>1, <2>2, <2>3, <1>2
<1>4. Len(r) = L + len BY <1>1, <1>2
<1>5. Appended(S, r, out, off, len) BY <1>2, <1>3, <1>4 DEF Appended
<1> QED BY <1>5 DEF r, p

(* A match appended to the output, in one piece, as a fill or by doubling, *)
(* is the match copied byte by byte (append_match, wild_copy_match).       *)
THEOREM AppendMatchRepeats ==
  ASSUME NEW S, NEW out \in Seq(S), NEW off \in 1 .. Len(out), NEW len \in Nat
  PROVE Appended(S, AppendMatch(out, off, len), out, off, len)
<1> DEFINE L == Len(out)
           start == L - off
<1>0. L \in Nat /\ start \in Nat /\ off \in Nat /\ off >= 1 /\ start + off = L OBVIOUS
<1>1. CASE off >= len
  <2>1. AppendMatch(out, off, len) = out \o Part(out, Len(out) - off, len) BY <1>1 DEF AppendMatch
  <2>2. len <= off BY <1>1, <1>0
  <2> QED BY <2>1, <2>2, AppendedOnce
<1>2. CASE off < len /\ off = 1
  <2> DEFINE p == [i \in 1 .. len |-> out[start + 1]]
             r == out \o p
  <2>1. AppendMatch(out, off, len) = r BY <1>2 DEF AppendMatch
  <2>2. out[L] \in S /\ start + 1 = L BY <1>0, <1>2
  <2>3. p \in Seq(S) /\ Len(p) = len /\ \A i \in 1 .. len : p[i] = out[L]
    <3>1. p = [i \in 1 .. len |-> out[L]] BY <2>2
    <3> DEFINE s == out[L]
    <3> HIDE DEF p, s
    <3>2. p = [i \in 1 .. len |-> s] /\ s \in S BY <3>1, <2>2 DEF s
    <3>3. p \in Seq(S) /\ Len(p) = len /\ \A i \in 1 .. len : p[i] = s BY <3>2
    <3> QED BY <3>3 DEF s
  <2> HIDE DEF p
  <2>4. /\ r \in Seq(S) /\ Len(r) = L + Len(p) /\ \A i \in 1 .. L : r[i] = out[i]
        /\ \A i \in 1 .. Len(p) : r[L + i] = p[i]
    <3>1. p \in Seq(S) BY <2>3
    <3> QED BY <3>1, JoinFacts
  <2> HIDE DEF r
  <2>5. ASSUME NEW x \in L + 1 .. L + len PROVE r[x] = r[x - off]
    <3>1. x - L \in 1 .. len /\ L + (x - L) = x BY <1>0
    <3>2. r[x] = out[L]
      <4> DEFINE i == x - L
      <4>1. i \in 1 .. len /\ L + i = x BY <3>1
      <4> HIDE DEF i
      <4> QED BY <4>1, <2>3, <2>4
    <3>3. CASE x = L + 1
      <4>1. x - off = L /\ L \in 1 .. L BY <3>3, <1>2, <1>0
      <4> QED BY <4>1, <3>2, <2>4
    <3>4. CASE x # L + 1
      <4> DEFINE i == x - 1 - L
      <4>1. i \in 1 .. len /\ L + i = x - off BY <3>1, <3>4, <1>2, <1>0
      <4> HIDE DEF i
      <4> QED BY <4>1, <3>2, <2>3, <2>4
    <3> QED BY <3>3, <3>4
  <2>6. Len(r) = L + len BY <2>3, <2>4
  <2> QED BY <2>1, <2>4, <2>5, <2>6 DEF Appended
<1>3. CASE off < len /\ off # 1
  <2> DEFINE b == out \o Part(out, Len(out) - off, off)
             top == L + len
             r == Doubling(b, off, len)
  <2>1. AppendMatch(out, off, len) = r BY <1>3 DEF AppendMatch
  <2>2. Appended(S, b, out, off, off) BY <1>0, AppendedOnce
  <2> HIDE DEF b
  <2>w. PICK W : ShowsTo(out, W, L) /\ Repeats(W, L, top, off)
    <3>1. L \in Nat /\ top \in Nat /\ off \in 1 .. L OBVIOUS
    <3> HIDE DEF L, top
    <3> QED BY <3>1, PeriodExists
  <2>3. b \in Seq(S) /\ Len(b) = L + off BY <2>2 DEF Appended
  <2>4. ShowsTo(b, W, L + off)
    <3>1. ASSUME NEW x \in 1 .. L + off PROVE b[x] = W[x]
      <4>1. CASE x <= L
        <5>1. x \in 1 .. L BY <4>1
        <5> QED BY <5>1, <2>2, <2>w DEF Appended, ShowsTo
      <4>2. CASE L < x
        <5>1. x \in L + 1 .. L + off /\ x - off \in 1 .. L /\ x \in L + 1 .. top BY <4>2, <1>3
        <5>2. b[x] = b[x - off] BY <5>1, <2>2 DEF Appended
        <5>3. b[x - off] = out[x - off] BY <5>1, <2>2 DEF Appended
        <5>4. out[x - off] = W[x - off] BY <5>1, <2>w DEF ShowsTo
        <5>5. W[x] = W[x - off] BY <5>1, <2>w DEF Repeats
        <5> QED BY <5>2, <5>3, <5>4, <5>5
      <4> QED BY <4>1, <4>2
    <3> QED BY <3>1 DEF ShowsTo
  <2>5. r \in Seq(S) /\ Len(r) = L + len /\ ShowsTo(r, W, L + len)
    <3>1. top \in Nat /\ L + len <= top OBVIOUS
    <3> HIDE DEF top, L
    <3> QED BY <3>1, <1>0, <1>3, <2>3, <2>4, <2>w, DoublingShows
  <2> HIDE DEF r
  <2>6. \A x \in 1 .. L : r[x] = out[x]
    <3> TAKE x \in 1 .. L
    <3>1. x \in 1 .. L + len BY <1>0
    <3> QED BY <3>1, <2>5, <2>w DEF ShowsTo
  <2>7. \A x \in L + 1 .. L + len : r[x] = r[x - off]
    <3> TAKE x \in L + 1 .. L + len
    <3>1. x \in 1 .. L + len /\ x - off \in 1 .. L + len /\ x \in L + 1 .. top BY <1>0
    <3> QED BY <3>1, <2>5, <2>w DEF ShowsTo, Repeats
  <2> QED BY <2>1, <2>5, <2>6, <2>7 DEF Appended
<1> QED BY <1>0, <1>1, <1>2, <1>3

(* The match of a block of one sequence, behind the literals before it.    *)
SingleMatch(begun, base, off, ml, history) ==
  IF off > Len(begun) - base THEN AppendFromHistory(begun, Len(begun) - base, off, ml, history)
  ELSE [ok |-> TRUE, out |-> AppendMatch(begun, off, ml)]
SingleMade(S, r, begun, base, off, ml, history) ==
  /\ r = [ok |-> TRUE, out |-> r.out] /\ r.out \in Seq(S) /\ Len(r.out) = Len(begun) + ml
  /\ \A x \in 1 .. Len(begun) : r.out[x] = begun[x]
  /\ \A x \in Len(begun) + 1 .. Len(begun) + ml :
       r.out[x] = IF x - off > base THEN r.out[x - off] ELSE history[Len(history) + (x - off - base)]

(* The match of a block of one sequence, from the history or not.          *)
LEMMA SingleMatchDoes ==
  ASSUME NEW S, NEW begun \in Seq(S), NEW base \in 0 .. Len(begun), NEW history \in Seq(S),
         NEW off \in Nat, off # 0, NEW ml \in Nat, off <= Len(begun) - base + Len(history)
  PROVE SingleMade(S, SingleMatch(begun, base, off, ml, history), begun, base, off, ml, history)
<1> DEFINE r == SingleMatch(begun, base, off, ml, history)
           L == Len(begun)
           H == Len(history)
           pos == L - base
<1>0. L \in Nat /\ H \in Nat /\ base \in Nat /\ pos \in Nat /\ off >= 1 /\ off <= pos + H /\ L = base + pos
  OBVIOUS
<1>1. CASE off <= pos
  <2> DEFINE a == AppendMatch(begun, off, ml)
  <2>1. r = [ok |-> TRUE, out |-> a]
    <3>1. ~(off > Len(begun) - base) BY <1>1, <1>0
    <3> QED BY <3>1 DEF SingleMatch
  <2>2. Appended(S, a, begun, off, ml)
    <3>1. off \in 1 .. Len(begun) BY <1>0, <1>1
    <3> QED BY <3>1, AppendMatchRepeats
  <2> HIDE DEF a, r
  <2>3. r.out = a /\ r = [ok |-> TRUE, out |-> r.out] BY <2>1
  <2>4. \A x \in L + 1 .. L + ml : x - off > base BY <1>0, <1>1
  <2>5. SingleMade(S, r, begun, base, off, ml, history)
    BY <2>2, <2>3, <2>4 DEF Appended, SingleMade
  <2> QED BY <2>5 DEF r
<1>2. CASE off > pos
  <2> DEFINE reach == off - pos
             taken == Least(reach, ml)
             from == H - reach
             p == Part(history, from, taken)
             b == begun \o p
             a == IF ml > taken THEN AppendMatch(b, off, ml - taken) ELSE b
  <2>0. /\ reach \in Nat /\ taken \in Nat /\ from \in Nat /\ taken <= reach /\ taken <= ml
        /\ from + taken <= H /\ reach > 0 /\ (ml > taken => taken = reach) /\ ~(taken > reach)
        /\ pos + reach = off
    <3>1. reach \in Nat /\ reach > 0 /\ reach <= H /\ pos + reach = off
      <4> HIDE DEF pos, H
      <4> QED BY <1>0, <1>2
    <3>2. taken = Least(reach, ml) /\ from = H - reach OBVIOUS
    <3> HIDE DEF taken, from, reach
    <3> QED BY <3>1, <3>2, <1>0 DEF Least
  <2>1. r = [ok |-> TRUE, out |-> a]
    <3>1. off > Len(begun) - base /\ ~(off > (Len(begun) - base) + Len(history)) BY <1>2, <1>0
    <3> QED BY <3>1 DEF SingleMatch, AppendFromHistory
  <2> HIDE DEF r, taken, from
  <2>2. p \in Seq(S) /\ Len(p) = taken /\ \A i \in 1 .. taken : p[i] = history[from + i]
    <3> HIDE DEF reach
    <3>1. IsPart(S, p, history, from, taken) BY <2>0, PartIs
    <3> HIDE DEF p
    <3> QED BY <3>1 DEF IsPart
  <2> HIDE DEF p
  <2>3. /\ b \in Seq(S) /\ Len(b) = L + taken /\ \A x \in 1 .. L : b[x] = begun[x]
        /\ \A x \in L + 1 .. L + taken : b[x] = history[H + (x - off - base)] /\ ~(x - off > base)
    <3>1. p \in Seq(S) BY <2>2
    <3>2. /\ b \in Seq(S) /\ Len(b) = L + Len(p) /\ \A x \in 1 .. L : b[x] = begun[x]
          /\ \A i \in 1 .. Len(p) : b[L + i] = p[i]
      BY <3>1, JoinFacts
    <3> HIDE DEF b
    <3>3. ASSUME NEW x \in L + 1 .. L + taken PROVE b[x] = history[H + (x - off - base)] /\ ~(x - off > base)
      <4> DEFINE i == x - L
      <4>1. i \in 1 .. taken /\ L + i = x /\ from + i = H + (x - off - base)
        BY <2>0, <1>0 DEF from
      <4>2. ~(x - off > base) BY <2>0, <1>0
      <4> HIDE DEF i
      <4>3. b[x] = p[i] BY <4>1, <3>2, <2>2
      <4> QED BY <4>1, <4>2, <4>3, <2>2
    <3> QED BY <3>2, <3>3, <2>2
  <2> HIDE DEF b
  <2>4. CASE ml > taken
    <3> DEFINE k == ml - taken
               w == AppendMatch(b, off, k)
    <3>1. k \in Nat /\ off \in 1 .. Len(b) /\ Len(b) = base + off /\ Len(b) + k = L + ml
      BY <2>0, <2>3, <2>4, <1>0
    <3>2. Appended(S, w, b, off, k)
      <4> HIDE DEF k
      <4> QED BY <3>1, <2>3, AppendMatchRepeats
    <3>3. a = w BY <2>4
    <3> HIDE DEF a, w, k
    <3>4. r.out = w /\ r = [ok |-> TRUE, out |-> r.out] BY <2>1, <3>3
    <3>5. w \in Seq(S) /\ Len(w) = L + ml BY <3>1, <3>2 DEF Appended
    <3>6. \A x \in 1 .. L : w[x] = begun[x]
      <4> TAKE x \in 1 .. L
      <4>1. x \in 1 .. Len(b) BY <2>0, <2>3
      <4> QED BY <4>1, <2>3, <3>2 DEF Appended
    <3>7. \A x \in L + 1 .. L + ml :
            w[x] = IF x - off > base THEN w[x - off] ELSE history[H + (x - off - base)]
      <4> TAKE x \in L + 1 .. L + ml
      <4>1. CASE x <= L + taken
        <5>1. x \in L + 1 .. L + taken /\ x \in 1 .. Len(b) BY <4>1, <2>0, <2>3, <1>0
        <5> QED BY <5>1, <2>3, <3>2 DEF Appended
      <4>2. CASE L + taken < x
        <5>1. x \in Len(b) + 1 .. Len(b) + k /\ x - off > base BY <4>2, <3>1, <2>3, <2>0, <1>0
        <5> QED BY <5>1, <3>2 DEF Appended
      <4> QED BY <4>1, <4>2, <2>0, <1>0
    <3> HIDE DEF L
    <3>8. SingleMade(S, r, begun, base, off, ml, history)
      BY <3>4, <3>5, <3>6, <3>7 DEF SingleMade, L, H
    <3> QED BY <3>8 DEF r
  <2>5. CASE ~(ml > taken)
    <3>1. ml = taken /\ a = b BY <2>0, <2>5
    <3> HIDE DEF a
    <3>2. r.out = b /\ r = [ok |-> TRUE, out |-> r.out] BY <2>1, <3>1
    <3>3. SingleMade(S, r, begun, base, off, ml, history)
      BY <2>3, <3>1, <3>2 DEF SingleMade
    <3> QED BY <3>3 DEF r
  <2> QED BY <2>4, <2>5
<1> QED BY <1>0, <1>1, <1>2

(* Parts of two sequences with the same bytes are the same.                *)
LEMMA SameParts ==
  ASSUME NEW S, NEW a \in Seq(S), NEW b \in Seq(S), NEW f \in Nat, NEW g \in Nat, NEW n \in Nat,
         f + n <= Len(a), g + n <= Len(b), \A i \in 1 .. n : a[f + i] = b[g + i]
  PROVE Part(a, f, n) = Part(b, g, n)
<1> DEFINE p == Part(a, f, n)
           q == Part(b, g, n)
<1>1. IsPart(S, p, a, f, n) /\ IsPart(S, q, b, g, n) BY PartIs
<1> HIDE DEF p, q
<1>2. p \in Seq(S) /\ Len(p) = n /\ q \in Seq(S) /\ Len(q) = n /\ \A i \in 1 .. n : p[i] = q[i]
  BY <1>1 DEF IsPart
<1>3. p = q BY <1>2, SameBytes
<1> QED BY <1>3 DEF p, q

(* A block of one sequence: which it refuses, else what it is.             *)
SingleAllowed(out, max, base, q, lits, history) ==
  /\ q.ll + q.ml <= max /\ q.ll <= Len(lits) /\ q.off # 0
  /\ q.off <= Len(out) + q.ll - base + Len(history)
  /\ Len(lits) + q.ml <= max

(* A block of one sequence: what it is refused for, and what it makes of   *)
(* the output otherwise.                                                   *)
LEMMA RunSingleIs ==
  ASSUME NEW S, NEW out \in Seq(S), NEW base \in 0 .. Len(out), NEW max \in Nat, NEW q \in Sequence,
         NEW lits \in Seq(S), NEW history \in Seq(S)
  PROVE LET begun == out \o Part(lits, 0, q.ll)
            r     == SingleMatch(begun, base, q.off, q.ml, history)
            whole == r.out \o Part(lits, q.ll, Len(lits) - q.ll)
        IN  IF SingleAllowed(out, max, base, q, lits, history)
            THEN /\ begun \in Seq(S) /\ Len(begun) = Len(out) + q.ll
                 /\ \A x \in 1 .. Len(out) : begun[x] = out[x]
                 /\ \A i \in 1 .. q.ll : begun[Len(out) + i] = lits[i]
                 /\ SingleMade(S, r, begun, base, q.off, q.ml, history)
                 /\ RunSingle(out, max, base, q, lits, history)
                      = [ok |-> TRUE, out |-> Part(whole, base, Len(whole) - base)]
                 /\ whole \in Seq(S) /\ Len(whole) = Len(out) + Len(lits) + q.ml
                 /\ \A x \in 1 .. Len(out) + q.ll + q.ml : whole[x] = r.out[x]
                 /\ \A i \in 1 .. Len(lits) - q.ll :
                      whole[Len(out) + q.ll + q.ml + i] = lits[q.ll + i]
            ELSE RunSingle(out, max, base, q, lits, history) = Bad
<1> DEFINE ll == q.ll
           ml == q.ml
           off == q.off
           K == Len(lits)
           L == Len(out)
           H == Len(history)
           p == Part(lits, 0, ll)
           begun == out \o p
           r == SingleMatch(begun, base, off, ml, history)
           rest == Part(lits, ll, K - ll)
           whole == r.out \o rest
           Allow == SingleAllowed(out, max, base, q, lits, history)
<1>q. q.ll = ll /\ q.ml = ml /\ q.off = off /\ ll \in Nat /\ ml \in Nat /\ off \in Nat BY DEF Sequence
<1> HIDE DEF ll, ml, off
<1>0. K \in Nat /\ L \in Nat /\ H \in Nat /\ base \in Nat /\ base <= L OBVIOUS
<1>a. Allow <=> /\ ll + ml <= max /\ ll <= K /\ off # 0 /\ off <= L + ll - base + H /\ K + ml <= max
  BY <1>q DEF SingleAllowed
<1>1. RunSingle(out, max, base, q, lits, history)
        = IF ll + ml > max \/ ll > K \/ off = 0 THEN Bad
          ELSE IF ~r.ok \/ Len(r.out) + Len(rest) > L + max THEN Bad
          ELSE [ok |-> TRUE, out |-> Part(whole, base, Len(whole) - base)]
  BY <1>q DEF RunSingle, SingleMatch
<1> HIDE DEF K, L, H, r
<1>2. CASE ll + ml > max \/ ll > K \/ off = 0
  <2>1. ~Allow BY <1>2, <1>a, <1>q, <1>0
  <2>2. RunSingle(out, max, base, q, lits, history) = Bad BY <1>1, <1>2
  <2> QED BY <2>1, <2>2
<1>3. CASE ~(ll + ml > max \/ ll > K \/ off = 0)
  <2>0. ll + ml <= max /\ ll <= K /\ off # 0 BY <1>3, <1>q, <1>0
  <2>p. p \in Seq(S) /\ Len(p) = ll /\ \A i \in 1 .. ll : p[i] = lits[0 + i]
    <3>1. 0 \in Nat /\ 0 + ll <= Len(lits) BY <2>0, <1>q DEF K
    <3>2. IsPart(S, p, lits, 0, ll) BY <3>1, <1>q, PartIs
    <3> HIDE DEF p
    <3> QED BY <3>2 DEF IsPart
  <2>r. rest \in Seq(S) /\ Len(rest) = K - ll /\ \A i \in 1 .. K - ll : rest[i] = lits[ll + i]
    <3> DEFINE k == K - ll
    <3>1. k \in Nat /\ ll + k <= Len(lits) BY <2>0, <1>q, <1>0 DEF K
    <3> HIDE DEF k
    <3>2. IsPart(S, Part(lits, ll, k), lits, ll, k) BY <3>1, <1>q, PartIs
    <3>3. rest = Part(lits, ll, k) BY DEF k
    <3> HIDE DEF rest
    <3> QED BY <3>2, <3>3 DEF IsPart, k
  <2> HIDE DEF p, rest
  <2>b. /\ begun \in Seq(S) /\ Len(begun) = L + ll
        /\ \A x \in 1 .. L : begun[x] = out[x]
        /\ \A i \in 1 .. ll : begun[L + i] = lits[i]
    <3>1. p \in Seq(S) BY <2>p
    <3>2. /\ begun \in Seq(S) /\ Len(begun) = Len(out) + Len(p) /\ \A x \in 1 .. Len(out) : begun[x] = out[x]
          /\ \A i \in 1 .. Len(p) : begun[Len(out) + i] = p[i]
      BY <3>1, JoinFacts
    <3> HIDE DEF begun
    <3>3. \A i \in 1 .. ll : 0 + i = i OBVIOUS
    <3> QED BY <3>2, <3>3, <2>p DEF L
  <2> HIDE DEF begun
  <2>3. CASE off <= L + ll - base + H
    <3>1. SingleMade(S, r, begun, base, off, ml, history)
      <4>1. base \in 0 .. Len(begun) /\ off <= Len(begun) - base + Len(history)
        BY <2>3, <2>b, <1>0, <1>q DEF H
      <4> QED BY <4>1, <2>b, <2>0, <1>q, SingleMatchDoes DEF r
    <3>2. /\ r.ok /\ r.out \in Seq(S) /\ Len(r.out) = L + ll + ml
      <4>1. r = [ok |-> TRUE, out |-> r.out] /\ r.out \in Seq(S) /\ Len(r.out) = (L + ll) + ml
        BY <3>1, <2>b DEF SingleMade
      <4>2. r.ok BY <4>1
      <4> QED BY <4>1, <4>2
    <3>3. /\ whole \in Seq(S) /\ Len(whole) = L + K + ml
          /\ \A x \in 1 .. L + ll + ml : whole[x] = r.out[x]
          /\ \A i \in 1 .. K - ll : whole[L + ll + ml + i] = lits[ll + i]
      <4> DEFINE o == r.out
      <4>1. o \in Seq(S) /\ rest \in Seq(S) /\ Len(o) = L + ll + ml BY <3>2, <2>r
      <4> HIDE DEF o
      <4>2. /\ o \o rest \in Seq(S) /\ Len(o \o rest) = Len(o) + Len(rest)
            /\ \A x \in 1 .. Len(o) : (o \o rest)[x] = o[x]
            /\ \A i \in 1 .. Len(rest) : (o \o rest)[Len(o) + i] = rest[i]
        <5>1. o \in Seq(S) /\ rest \in Seq(S) BY <4>1
        <5> QED BY <5>1, JoinFacts
      <4> DEFINE v == o \o rest
      <4> HIDE DEF v
      <4>3. /\ v \in Seq(S) /\ Len(v) = (L + ll + ml) + (K - ll)
            /\ \A x \in 1 .. L + ll + ml : v[x] = o[x]
            /\ \A i \in 1 .. K - ll : v[L + ll + ml + i] = lits[ll + i]
        BY <4>1, <4>2, <2>r DEF v
      <4>4. (L + ll + ml) + (K - ll) = L + K + ml BY <1>0, <1>q
      <4> QED BY <4>3, <4>4 DEF v, o
    <3>4. Len(r.out) + Len(rest) = L + K + ml BY <3>2, <2>r, <1>0, <1>q
    <3>5. CASE K + ml <= max
      <4>1. Allow BY <1>a, <2>0, <2>3, <3>5
      <4>2. ~(~r.ok \/ Len(r.out) + Len(rest) > L + max) BY <3>2, <3>4, <3>5, <1>0, <1>q
      <4>3. RunSingle(out, max, base, q, lits, history) = [ok |-> TRUE, out |-> Part(whole, base, Len(whole) - base)]
        BY <1>1, <1>3, <4>2
      <4> HIDE DEF whole
      <4> QED BY <4>1, <4>3, <3>1, <3>3, <2>b, <1>q DEF begun, p, r, rest, L, K, H, whole
    <3>6. CASE ~(K + ml <= max)
      <4>1. ~Allow BY <1>a, <3>6
      <4>2. Len(r.out) + Len(rest) > L + max BY <3>4, <3>6, <1>0, <1>q
      <4>3. RunSingle(out, max, base, q, lits, history) = Bad BY <1>1, <1>3, <4>2
      <4> QED BY <4>1, <4>3
    <3> QED BY <3>5, <3>6
  <2>4. CASE ~(off <= L + ll - base + H)
    <3>1. ~Allow BY <1>a, <2>4
    <3>2. r = Bad
      <4>1. off > Len(begun) - base /\ off > (Len(begun) - base) + Len(history)
        BY <2>4, <2>b, <1>0, <1>q DEF H
      <4> QED BY <4>1 DEF r, SingleMatch, AppendFromHistory
    <3>3. ~r.ok BY <3>2 DEF Bad
    <3>4. RunSingle(out, max, base, q, lits, history) = Bad BY <1>1, <1>3, <3>3
    <3> QED BY <3>1, <3>4
  <2> QED BY <2>3, <2>4
<1> HIDE DEF whole, rest, begun, p, Allow
<1> QED BY <1>2, <1>3

(* What a block of one sequence q is given when it tells the rest of T behind *)
(* position from: the output so far, q's literals and the literals behind q.  *)
SingleTold(T, history, out, base, from, max, lits, q, a) ==
  /\ Prefix(history, T)
  /\ from = Len(history) + Len(out) - base
  /\ \A i \in 1 .. Len(out) - base : out[base + i] = T[Len(history) + i]
  /\ Len(T) - from <= max
  /\ Says(T, from, a, q)
  /\ Supplied(T, from, 0, q, lits)
  /\ Len(lits) = q.ll + (Len(T) - a)
  /\ \A i \in 1 .. Len(T) - a : lits[q.ll + i] = T[a + i]

(* A block of one sequence, executed behind what is there, is the block.   *)
THEOREM RunSingleTells ==
  ASSUME NEW S, NEW T \in Seq(S), NEW history \in Seq(S),
         NEW out \in Seq(S), NEW base \in 0 .. Len(out), NEW from \in 0 .. Len(T),
         NEW max \in Nat, NEW lits \in Seq(S), NEW q \in Sequence, NEW a \in Nat,
         SingleTold(T, history, out, base, from, max, lits, q, a)
  PROVE  RunSingle(out, max, base, q, lits, history)
          = [ok |-> TRUE, out |-> Part(T, Len(history), Len(T) - Len(history))]
<1> DEFINE ll == q.ll
           ml == q.ml
           off == q.off
           h == Len(history)
           L == Len(out)
           n == L - base
           begun == out \o Part(lits, 0, q.ll)
           r == SingleMatch(begun, base, q.off, q.ml, history)
           whole == r.out \o Part(lits, q.ll, Len(lits) - q.ll)
<1>q. q.ll = ll /\ q.ml = ml /\ q.off = off /\ ll \in Nat /\ ml \in Nat /\ off \in Nat BY DEF Sequence
<1> HIDE DEF ll, ml, off
<1>t. Len(T) \in Nat /\ L \in Nat /\ h \in Nat OBVIOUS
<1>f. from = Len(history) + Len(out) - base BY DEF SingleTold
<1>0. /\ base \in Nat /\ base <= L /\ n \in Nat /\ L = base + n
      /\ from = h + n /\ from \in Nat /\ Len(T) \in Nat /\ L \in Nat /\ h \in Nat /\ from <= Len(T)
  BY <1>t, <1>f
<1>s. /\ a = from + ll + ml /\ a <= Len(T) /\ off >= 1 /\ off <= from + ll
      /\ \A x \in from + ll + 1 .. a : T[x] = T[x - off]
      /\ ll <= Len(lits) /\ \A i \in 1 .. ll : lits[i] = T[from + i]
      /\ Len(lits) = ll + (Len(T) - a)
      /\ \A i \in 1 .. Len(T) - a : lits[ll + i] = T[a + i]
  <2>1. \A i \in 1 .. q.ll : 0 + i = i OBVIOUS
  <2>2. Says(T, from, a, q) /\ Supplied(T, from, 0, q, lits) BY DEF SingleTold
  <2>3. /\ a = from + ll + ml /\ a <= Len(T) /\ off >= 1 /\ off <= from + ll
        /\ \A x \in from + ll + 1 .. a : T[x] = T[x - off]
    BY <1>q, <2>2 DEF Says
  <2>4. ll <= Len(lits) /\ \A i \in 1 .. ll : lits[i] = T[from + i] BY <1>q, <2>1, <2>2 DEF Supplied
  <2>5. Len(lits) = ll + (Len(T) - a) /\ \A i \in 1 .. Len(T) - a : lits[ll + i] = T[a + i]
    BY <1>q DEF SingleTold
  <2> QED BY <2>3, <2>4, <2>5
<1>h. h <= Len(T) /\ \A k \in 1 .. h : history[k] = T[k] BY DEF Prefix, SingleTold
<1>o. \A i \in 1 .. n : out[base + i] = T[h + i] BY DEF SingleTold
<1>a. Len(T) - from <= max /\ Len(lits) \in Nat /\ a \in Nat /\ max \in Nat BY DEF SingleTold
<1>v. /\ a = from + ll + ml /\ a <= Len(T) /\ off >= 1 /\ off <= from + ll /\ ll <= Len(lits)
      /\ Len(lits) = ll + (Len(T) - a)
  BY <1>s
<1>1. SingleAllowed(out, max, base, q, lits, history)
  <2>1. ll + ml <= max /\ ll <= Len(lits) /\ off # 0 /\ off <= L + ll - base + h /\ Len(lits) + ml <= max
    <3> HIDE DEF n, L, h
    <3> DEFINE lt == Len(T)
               lq == Len(lits)
    <3>1. /\ lt \in Nat /\ lq \in Nat /\ lt - from <= max /\ a <= lt /\ ll <= lq /\ lq = ll + (lt - a) BY <1>0, <1>a, <1>v
    <3> HIDE DEF lt, lq
    <3>2. ll + ml <= max /\ off # 0 /\ off <= L + ll - base + h /\ lq + ml <= max BY <1>q, <1>0, <1>a, <1>v, <3>1
    <3> QED BY <3>2, <1>v DEF lt, lq
  <2> QED BY <2>1, <1>q DEF SingleAllowed
<1>2. /\ begun \in Seq(S) /\ Len(begun) = L + ll
      /\ \A x \in 1 .. L : begun[x] = out[x]
      /\ \A i \in 1 .. ll : begun[L + i] = lits[i]
      /\ SingleMade(S, r, begun, base, off, ml, history)
      /\ RunSingle(out, max, base, q, lits, history)
           = [ok |-> TRUE, out |-> Part(whole, base, Len(whole) - base)]
      /\ whole \in Seq(S) /\ Len(whole) = L + Len(lits) + ml
      /\ \A x \in 1 .. L + ll + ml : whole[x] = r.out[x]
      /\ \A i \in 1 .. Len(lits) - ll : whole[L + ll + ml + i] = lits[ll + i]
  BY <1>1, <1>q, RunSingleIs
<1> HIDE DEF whole, r, begun, L, h, n
<1>3. /\ Len(r.out) = L + ll + ml
      /\ \A x \in 1 .. L + ll : r.out[x] = begun[x]
      /\ \A x \in L + ll + 1 .. L + ll + ml :
           r.out[x] = IF x - off > base THEN r.out[x - off] ELSE history[h + (x - off - base)]
  BY <1>2 DEF SingleMade, h
<1> DEFINE w == r.out
           m == n + ll + ml
           Right(x) == w[base + x] = T[h + x]
           N == { k \in Nat : \A x \in 1 .. m : x <= k => Right(x) }
<1>4. ASSUME NEW k \in Nat, k \in N PROVE k + 1 \in N
  <2>1. \A x \in 1 .. m : x <= k => Right(x) BY <1>4
  <2>2. ASSUME NEW x \in 1 .. m, x = k + 1 PROVE Right(x)
    <3>1. CASE x <= n
      <4>1. base + x \in 1 .. L + ll /\ base + x \in 1 .. L /\ x \in 1 .. n BY <3>1, <1>0, <1>q
      <4> QED BY <4>1, <1>2, <1>3, <1>o
    <3>2. CASE n < x /\ x <= n + ll
      <4> DEFINE i == x - n
                 y == base + x
      <4>1. i \in 1 .. ll /\ L + i = y /\ from + i = h + x /\ y \in 1 .. L + ll BY <3>2, <1>0, <1>q
      <4> HIDE DEF i, y
      <4>2. w[y] = begun[L + i] BY <4>1, <1>3
      <4>3. begun[L + i] = T[from + i] BY <4>1, <1>2, <1>s
      <4> QED BY <4>1, <4>2, <4>3 DEF y
    <3>3. CASE n + ll < x
      <4> DEFINE y == base + x
                 z == x - off
      <4>1. /\ y \in L + ll + 1 .. L + ll + ml /\ h + x \in from + ll + 1 .. a
            /\ (h + x) - off = h + z /\ y - off = base + z /\ z \in Int /\ z <= k /\ z <= m /\ z >= 1 - h
            /\ y - off - base = z
        BY <3>3, <2>2, <1>0, <1>q, <1>v
      <4>2. w[y] = IF y - off > base THEN w[y - off] ELSE history[h + (y - off - base)] BY <4>1, <1>3
      <4>3. T[h + x] = T[h + z] BY <4>1, <1>s
      <4> HIDE DEF y, z
      <4>4. CASE z > 0
        <5>1. y - off > base /\ z \in 1 .. m BY <4>1, <4>4, <1>0, <1>q
        <5>2. w[base + z] = T[h + z] BY <5>1, <4>1, <2>1
        <5>3. w[y] = w[base + z] BY <4>1, <4>2, <5>1
        <5> QED BY <4>3, <5>2, <5>3 DEF y
      <4>5. CASE ~(z > 0)
        <5>1. ~(y - off > base) /\ h + z \in 1 .. h BY <4>1, <4>5, <1>0, <1>q
        <5>2. w[y] = history[h + z] BY <4>1, <4>2, <5>1
        <5>3. history[h + z] = T[h + z] BY <5>1, <1>h
        <5> QED BY <4>3, <5>2, <5>3 DEF y
      <4> QED BY <4>1, <4>4, <4>5
    <3> QED BY <3>1, <3>2, <3>3, <1>0, <1>q, SMTT(20)
  <2> HIDE DEF Right
  <2> QED BY <2>1, <2>2
<1>5. 0 \in N OBVIOUS
<1>6. Nat \subseteq N
  <2> HIDE DEF N
  <2> QED BY <1>4, <1>5, SetInduction
<1>m. m \in Nat /\ m <= Len(T) - h /\ L + ll + ml = base + m /\ a = h + m BY <1>0, <1>q, <1>s
<1>7. \A x \in 1 .. m : w[base + x] = T[h + x]
  <2>1. m \in N BY <1>6, <1>m
  <2> QED BY <2>1, <1>m
<1> DEFINE k == Len(T) - h
<1>8. k \in Nat /\ h + k = Len(T) /\ base + k = Len(whole)
  <2>1. k \in Nat /\ h + k = Len(T) BY <1>0, <1>h
  <2>2. L + Len(lits) + ml = base + k BY <1>0, <1>q, <1>v, <1>a
  <2> QED BY <2>1, <2>2, <1>2
<1>9. \A x \in 1 .. k : whole[base + x] = T[h + x]
  <2> TAKE x \in 1 .. k
  <2>1. CASE x <= m
    <3>1. x \in 1 .. m /\ base + x \in 1 .. L + ll + ml BY <2>1, <1>m, <1>0, SMTT(20)
    <3> QED BY <3>1, <1>2, <1>7
  <2>2. CASE m < x
    <3> DEFINE i == x - m
    <3>1. i \in 1 .. Len(T) - a /\ a + i = h + x /\ L + ll + ml + i = base + x /\ i \in 1 .. Len(lits) - ll
      BY <2>2, <1>m, <1>0, <1>q, <1>v, <1>a
    <3> HIDE DEF i, m
    <3>2. whole[L + ll + ml + i] = lits[ll + i] /\ lits[ll + i] = T[a + i] BY <3>1, <1>2, <1>s
    <3> QED BY <3>1, <3>2
  <2> QED BY <2>1, <2>2, <1>m
<1>10. Part(whole, base, k) = Part(T, h, k)
  <2> HIDE DEF k
  <2>1. base + k <= Len(whole) /\ h + k <= Len(T) BY <1>8, <1>0
  <2>2. whole \in Seq(S) /\ T \in Seq(S) /\ base \in Nat /\ h \in Nat /\ k \in Nat BY <1>0, <1>2, <1>8
  <2>3. \A x \in 1 .. k : whole[base + x] = T[h + x] BY <1>9
  <2> HIDE DEF h
  <2> HIDE DEF h, whole
  <2> DEFINE p == Part(whole, base, k)
             t == Part(T, h, k)
  <2>4. IsPart(S, p, whole, base, k)
    <3> QED BY <2>1, <2>2, PartIs
  <2>5. IsPart(S, t, T, h, k)
    <3> QED BY <2>1, <2>2, PartIs
  <2> HIDE DEF p, t
  <2>6. p \in Seq(S) /\ Len(p) = k /\ t \in Seq(S) /\ Len(t) = k /\ \A i \in 1 .. k : p[i] = t[i]
    BY <2>3, <2>4, <2>5 DEF IsPart
  <2> QED BY <2>6, SameBytes DEF p, t
<1>11. Len(whole) - base = k BY <1>0, <1>8
<1> QED BY <1>2, <1>10, <1>11 DEF h

-----------------------------------------------------------------------------
(***************************************************************************)
(* What a finder's sequences say.                                          *)
(*                                                                         *)
(* A search keeps this: its sequences say what the bytes between the       *)
(* block's start and the anchor are.                                       *)
(***************************************************************************)

(* A loop whose rounds, all alike, keep Y: what LET upTo[k \in 0 .. m] defines. *)
Keeps(Y, G) == \A x \in Y : G[x] \in Y
Follows(f, c, G, m) == f[0] = c /\ \A k \in 1 .. m : f[k] = G[f[k - 1]]

(* The values that a loop goes through when every round leads back into Y. *)
LEMMA LoopStays ==
  ASSUME NEW Y, NEW c \in Y, NEW m \in Nat, NEW G, Keeps(Y, G)
  PROVE \E f \in [0 .. m -> Y] : Follows(f, c, G, m)
<1> DEFINE H == [k \in 1 .. m |-> G]
<1>1. RoundsKeep(Y, H, m) BY DEF RoundsKeep, Keeps
<1>2. PICK f \in [0 .. m -> Y] : RunsFrom(f, c, H, m)
  <2> HIDE DEF H
  <2> QED BY <1>1, LoopExists
<1>3. \A k \in 1 .. m : f[k] = G[f[k - 1]] BY <1>2 DEF RunsFrom
<1> QED BY <1>2, <1>3 DEF RunsFrom, Follows

(* A natural number shifted right is one.                                  *)
LEMMA ShiftedNatural ==
  ASSUME NEW x \in Nat, NEW n \in Nat PROVE Shifted(x, n) \in Nat
<1> DEFINE G == [y \in Nat |-> y \div 2]
           Rec(f) == f = [i \in 0 .. n |-> IF i = 0 THEN x ELSE f[i - 1] \div 2]
           h == CHOOSE f : Rec(f)
<1>1. \A y \in Nat : G[y] \in Nat /\ G[y] = y \div 2 OBVIOUS
<1>2. PICK f \in [0 .. n -> Nat] : Follows(f, x, G, n)
  <2>1. Keeps(Nat, G) BY <1>1 DEF Keeps
  <2> HIDE DEF G
  <2> QED BY <2>1, LoopStays
<1>3. Rec(f)
  <2>1. \A k \in 1 .. n : k - 1 \in 0 .. n /\ f[k - 1] \in Nat OBVIOUS
  <2>2. \A k \in 1 .. n : f[k] = f[k - 1] \div 2 BY <1>1, <1>2, <2>1 DEF Follows
  <2>3. f = [k \in 0 .. n |-> f[k]] OBVIOUS
  <2>5. \A k \in 0 .. n : k = 0 \/ k \in 1 .. n OBVIOUS
  <2>6. f[0] = x BY <1>2 DEF Follows
  <2> QED BY <2>6, <2>2, <2>3, <2>5
<1>4. Rec(h) BY <1>3
<1>5. Shifted(x, n) = h[n] BY DEF Shifted
<1> HIDE DEF h
<1> DEFINE X == [k \in 0 .. n |-> Nat]
<1>6. h[0] \in X[0] BY <1>4
<1>7. ASSUME NEW k \in 1 .. n, h[k - 1] \in X[k - 1] PROVE h[k] \in X[k]
  <2>1. k - 1 \in 0 .. n /\ h[k - 1] \in Nat BY <1>7
  <2>2. h[k] = h[k - 1] \div 2 BY <1>4
  <2>3. h[k - 1] \div 2 \in Nat BY <2>1
  <2> QED BY <2>2, <2>3
<1>8. \A k \in 0 .. n : h[k] \in X[k]
  <2> HIDE DEF X
  <2> QED BY <1>6, <1>7, LoopRule
<1> QED BY <1>5, <1>8

(* The hash of bytes is a slot of the table.                               *)
LEMMA SlotIsSlot ==
  ASSUME NEW src \in Seq(Nat), NEW p \in Nat, NEW n \in Nat, p + n <= Len(src)
  PROVE Slot(src, p, n) \in 0 .. Slots - 1
<1> DEFINE G == [k \in 1 .. n |-> [y \in Nat |-> y + k * src[p + k]]]
           Rec(f) == f = [i \in 0 .. n |-> IF i = 0 THEN 0 ELSE f[i - 1] + i * src[p + i]]
           h == CHOOSE f : Rec(f)
<1>0. \A k \in 1 .. n : k * src[p + k] \in Nat
  <2> TAKE k \in 1 .. n
  <2>1. p + k \in 1 .. Len(src) OBVIOUS
  <2>2. src[p + k] \in Nat BY <2>1
  <2> DEFINE b == src[p + k]
  <2> HIDE DEF b
  <2>3. b \in Nat /\ k \in Nat BY <2>2 DEF b
  <2>4. k * b \in Nat BY <2>3
  <2> QED BY <2>4 DEF b
<1>1. \A k \in 1 .. n : \A y \in Nat : G[k][y] \in Nat /\ G[k][y] = y + k * src[p + k] BY <1>0, SMTT(20)
<1>2. PICK f \in [0 .. n -> Nat] : RunsFrom(f, 0, G, n)
  <2>1. RoundsKeep(Nat, G, n) BY <1>1 DEF RoundsKeep
  <2> HIDE DEF G
  <2>2. 0 \in Nat OBVIOUS
  <2> QED BY <2>1, <2>2, LoopExists
<1>3. Rec(f)
  <2>1. \A k \in 1 .. n : k - 1 \in 0 .. n /\ f[k - 1] \in Nat OBVIOUS
  <2>2. \A k \in 1 .. n : f[k] = f[k - 1] + k * src[p + k] BY <1>1, <1>2, <2>1 DEF RunsFrom
  <2>3. f = [k \in 0 .. n |-> f[k]] OBVIOUS
  <2>4. f[0] = 0 BY <1>2 DEF RunsFrom
  <2>5. \A k \in 0 .. n : k = 0 \/ k \in 1 .. n OBVIOUS
  <2> QED BY <2>4, <2>2, <2>3, <2>5
<1>4. Rec(h) BY <1>3
<1>5. Slot(src, p, n) = h[n] % Slots BY DEF Slot
<1> HIDE DEF h, G
<1> DEFINE X == [k \in 0 .. n |-> Nat]
<1>6. h[0] \in X[0] BY <1>4
<1>7. ASSUME NEW k \in 1 .. n, h[k - 1] \in X[k - 1] PROVE h[k] \in X[k]
  <2>1. k - 1 \in 0 .. n /\ h[k - 1] \in Nat BY <1>7
  <2>2. h[k] = h[k - 1] + k * src[p + k] BY <1>4, SMTT(20)
  <2> DEFINE b == k * src[p + k]
  <2>3. b \in Nat BY <1>0
  <2> HIDE DEF b
  <2>4. h[k - 1] + b \in Nat BY <2>1, <2>3
  <2> QED BY <2>2, <2>4 DEF b
<1>8. \A k \in 0 .. n : h[k] \in X[k]
  <2> HIDE DEF X
  <2> QED BY <1>6, <1>7, LoopRule
<1>9. h[n] \in Nat BY <1>8
<1>10. h[n] % Slots \in 0 .. Slots - 1
  <2> DEFINE a == h[n]
  <2>1. a \in Nat BY <1>9
  <2> HIDE DEF a
  <2> QED BY <2>1, SlotsAssumption DEF a
<1> QED BY <1>5, <1>10

(* The n bytes behind byte a are those behind byte b.                      *)
Equal(src, a, b, n) == \A i \in 1 .. n : src[a + i] = src[b + i]

(* Bytes taken from two places are the same when each pair is.             *)
LEMMA AtSame ==
  ASSUME NEW S, NEW src \in Seq(S), NEW a \in Nat, NEW b \in Nat, NEW n \in Nat,
         a + n <= Len(src), b + n <= Len(src)
  PROVE At(src, a, n) = At(src, b, n) <=> Equal(src, a, b, n)
<1> DEFINE p == Part(src, a, n)
           q == Part(src, b, n)
<1>1. IsPart(S, p, src, a, n) /\ IsPart(S, q, src, b, n) BY PartIs
<1>2. p = At(src, a, n) /\ q = At(src, b, n) BY DEF At, Part
<1> HIDE DEF p, q
<1>3. /\ p \in Seq(S) /\ Len(p) = n /\ \A i \in 1 .. n : p[i] = src[a + i]
      /\ q \in Seq(S) /\ Len(q) = n /\ \A i \in 1 .. n : q[i] = src[b + i]
  BY <1>1 DEF IsPart
<1>4. ASSUME p = q PROVE Equal(src, a, b, n) BY <1>3, <1>4 DEF Equal
<1>5. ASSUME Equal(src, a, b, n) PROVE p = q
  <2>1. \A i \in 1 .. n : p[i] = q[i] BY <1>3, <1>5 DEF Equal
  <2> QED BY <1>3, <2>1, SameBytes
<1> QED BY <1>2, <1>4, <1>5

(* How many bytes count_match finds equal from p1 and p2 on.               *)
LEMMA CountMatchCounts ==
  ASSUME NEW S, NEW src \in Seq(S), NEW p1 \in Nat, NEW p2 \in Nat, NEW limit \in Nat,
         p1 <= limit, limit <= Len(src), p2 <= p1
  PROVE /\ CountMatch(src, p1, p2, limit) \in 0 .. limit - p1
        /\ Equal(src, p1, p2, CountMatch(src, p1, p2, limit))
<1> DEFINE T == { n \in 0 .. limit - p1 : n < limit - p1 => src[p1 + n + 1] # src[p2 + n + 1] }
           Good(n) == /\ At(src, p1, n) = At(src, p2, n)
                      /\ n < limit - p1 => src[p1 + n + 1] # src[p2 + n + 1]
<1>1. T \subseteq Nat /\ limit - p1 \in T OBVIOUS
<1>2. PICK n \in T : \A m \in T : n <= m
  <2> HIDE DEF T
  <2> QED BY <1>1, LeastNatural
<1>3. Equal(src, p1, p2, n)
  <2> SUFFICES ASSUME NEW i \in 1 .. n PROVE src[p1 + i] = src[p2 + i] BY DEF Equal
  <2>1. i - 1 \in 0 .. limit - p1 /\ ~(n <= i - 1) OBVIOUS
  <2>2. i - 1 \notin T BY <1>2, <2>1
  <2>3. src[p1 + (i - 1) + 1] = src[p2 + (i - 1) + 1] BY <2>1, <2>2
  <2>4. p1 + (i - 1) + 1 = p1 + i /\ p2 + (i - 1) + 1 = p2 + i OBVIOUS
  <2> QED BY <2>3, <2>4
<1>e. ASSUME NEW k \in 0 .. limit - p1 PROVE At(src, p1, k) = At(src, p2, k) <=> Equal(src, p1, p2, k)
  <2>1. k \in Nat /\ p1 + k <= Len(src) /\ p2 + k <= Len(src) OBVIOUS
  <2> QED BY <2>1, AtSame
<1>4. n \in 0 .. limit - p1 /\ Good(n) BY <1>3, <1>e
<1> DEFINE c == CHOOSE k \in 0 .. limit - p1 : Good(k)
<1>5. c \in 0 .. limit - p1 /\ Good(c) BY <1>4
<1>6. CountMatch(src, p1, p2, limit) = c BY DEF CountMatch
<1> HIDE DEF c
<1>7. Equal(src, p1, p2, c) BY <1>5, <1>e
<1> QED BY <1>5, <1>6, <1>7

(* How many bytes count_back finds equal in front of a and b.              *)
LEMMA CountBackCounts ==
  ASSUME NEW S, NEW src \in Seq(S), NEW a \in Nat, NEW b \in Nat, NEW most \in Nat,
         a <= Len(src), b < a, most <= b
  PROVE /\ CountBack(src, a, b, most) \in 0 .. most
        /\ Equal(src, a - CountBack(src, a, b, most), b - CountBack(src, a, b, most),
                 CountBack(src, a, b, most))
<1> DEFINE T == { n \in 0 .. most : n < most => src[a - n] # src[b - n] }
           Good(n) == /\ At(src, a - n, n) = At(src, b - n, n)
                      /\ n < most => src[a - n] # src[b - n]
<1>1. T \subseteq Nat /\ most \in T OBVIOUS
<1>2. PICK n \in T : \A m \in T : n <= m
  <2> HIDE DEF T
  <2> QED BY <1>1, LeastNatural
<1>3. Equal(src, a - n, b - n, n)
  <2> SUFFICES ASSUME NEW i \in 1 .. n PROVE src[a - n + i] = src[b - n + i] BY DEF Equal
  <2> DEFINE j == n - i
  <2>1. j \in 0 .. most /\ ~(n <= j) OBVIOUS
  <2>2. a - j = a - n + i /\ b - j = b - n + i OBVIOUS
  <2> HIDE DEF j
  <2>3. j \notin T BY <1>2, <2>1
  <2>4. src[a - j] = src[b - j] BY <2>1, <2>3
  <2> QED BY <2>2, <2>4
<1>e. ASSUME NEW k \in 0 .. most
      PROVE At(src, a - k, k) = At(src, b - k, k) <=> Equal(src, a - k, b - k, k)
  <2> DEFINE x == a - k
             y == b - k
  <2>1. k \in Nat /\ x \in Nat /\ y \in Nat /\ x + k <= Len(src) /\ y + k <= Len(src) OBVIOUS
  <2> HIDE DEF x, y
  <2> QED BY <2>1, AtSame DEF x, y
<1>4. n \in 0 .. most /\ Good(n) BY <1>3, <1>e
<1> DEFINE c == CHOOSE k \in 0 .. most : Good(k)
<1>5. c \in 0 .. most /\ Good(c) BY <1>4
<1>6. CountBack(src, a, b, most) = c BY DEF CountBack
<1> HIDE DEF c
<1>7. Equal(src, a - c, b - c, c) BY <1>5, <1>e
<1> QED BY <1>5, <1>6, <1>7

(* The sequences say what src is from byte `from` up to byte `to`.         *)
ToldAt(src, from, to, seqs, at) ==
  /\ at \in [0 .. Len(seqs) -> Nat] /\ at[0] = from /\ at[Len(seqs)] = to
  /\ \A i \in 1 .. Len(seqs) : Says(src, at[i - 1], at[i], seqs[i]) /\ at[i] <= to
Told(src, from, to, seqs) ==
  seqs \in Seq(Sequence) /\ \E at \in [0 .. Len(seqs) -> Nat] : ToldAt(src, from, to, seqs, at)

(* No sequences say nothing.                                               *)
LEMMA ToldNothing ==
  ASSUME NEW src, NEW from \in Nat PROVE Told(src, from, from, << >>)
<1> DEFINE at == [i \in 0 .. 0 |-> from]
<1>1. << >> \in Seq(Sequence) /\ Len(<< >>) = 0 OBVIOUS
<1>2. at \in [0 .. 0 -> Nat] /\ at[0] = from OBVIOUS
<1> HIDE DEF at
<1>3. ToldAt(src, from, from, << >>, at) BY <1>1, <1>2 DEF ToldAt
<1> QED BY <1>1, <1>2, <1>3 DEF Told

(* A sequence more says what comes up to its end.                          *)
LEMMA ToldFurther ==
  ASSUME NEW src, NEW from \in Nat, NEW to \in Nat, NEW next \in Nat, NEW seqs, NEW q \in Sequence,
         Told(src, from, to, seqs), Says(src, to, next, q)
  PROVE Told(src, from, next, Append(seqs, q))
<1> DEFINE n == Len(seqs)
           more == Append(seqs, q)
<1>1. PICK at \in [0 .. n -> Nat] : ToldAt(src, from, to, seqs, at) BY DEF Told
<1>2. seqs \in Seq(Sequence) BY DEF Told
<1>3. /\ more \in Seq(Sequence) /\ n \in Nat /\ Len(more) = n + 1 /\ more[n + 1] = q
      /\ \A i \in 1 .. n : more[i] = seqs[i]
  BY <1>2
<1>4. to <= next BY DEF Says, Sequence
<1> DEFINE to2 == [i \in 0 .. n + 1 |-> IF i = n + 1 THEN next ELSE at[i]]
<1>5. /\ at \in [0 .. n -> Nat] /\ at[0] = from /\ at[n] = to
      /\ \A i \in 1 .. n : Says(src, at[i - 1], at[i], seqs[i]) /\ at[i] <= to
  BY <1>1 DEF ToldAt
<1> HIDE DEF n, more
<1>6. /\ to2 \in [0 .. n + 1 -> Nat] /\ to2[0] = from /\ to2[n + 1] = next
      /\ \A i \in 0 .. n : to2[i] = at[i]
  BY <1>3, <1>5
<1> HIDE DEF to2
<1>7. ASSUME NEW i \in 1 .. n + 1 PROVE Says(src, to2[i - 1], to2[i], more[i]) /\ to2[i] <= next
  <2>1. CASE i = n + 1
    <3>1. i - 1 = n /\ to2[i - 1] = to /\ to2[i] = next /\ more[i] = q BY <2>1, <1>3, <1>5, <1>6
    <3> QED BY <3>1
  <2>2. CASE i # n + 1
    <3>1. i \in 1 .. n /\ i \in 0 .. n /\ i - 1 \in 0 .. n BY <2>2, <1>3
    <3>2. to2[i] = at[i] /\ to2[i - 1] = at[i - 1] /\ more[i] = seqs[i] BY <3>1, <1>3, <1>6
    <3>3. Says(src, at[i - 1], at[i], seqs[i]) /\ at[i] <= to BY <3>1, <1>5
    <3>4. at[i] \in Nat BY <3>1, <1>5
    <3>5. at[i] <= next BY <3>3, <3>4, <1>4
    <3> QED BY <3>2, <3>3, <3>5
  <2> QED BY <2>1, <2>2
<1>8. ToldAt(src, from, next, more, to2) BY <1>3, <1>6, <1>7 DEF ToldAt
<1>9. to2 \in [0 .. Len(more) -> Nat] BY <1>3, <1>6
<1>10. Told(src, from, next, more) BY <1>3, <1>8, <1>9 DEF Told
<1> QED BY <1>10 DEF more

(* A match says what it is equal to.                                       *)
LEMMA MatchSays ==
  ASSUME NEW S, NEW src \in Seq(S), NEW to \in Nat, NEW at \in Nat, NEW off \in Nat, NEW len \in Nat,
         to <= at, off >= 1, off <= at, at + len <= Len(src), Equal(src, at, at - off, len)
  PROVE /\ [ll |-> at - to, off |-> off, ml |-> len] \in Sequence
        /\ Says(src, to, at + len, [ll |-> at - to, off |-> off, ml |-> len])
<1> DEFINE ll == at - to
           q == [ll |-> ll, off |-> off, ml |-> len]
<1>1. ll \in Nat /\ at = to + ll OBVIOUS
<1> HIDE DEF ll
<1>2. q \in Sequence /\ q.ll = ll /\ q.off = off /\ q.ml = len BY <1>1 DEF Sequence
<1>3. ASSUME NEW x \in to + ll + 1 .. at + len PROVE src[x] = src[x - off]
  <2> DEFINE i == x - at
  <2>1. i \in 1 .. len /\ at + i = x /\ at - off + i = x - off BY <1>1
  <2> HIDE DEF i
  <2>2. src[at + i] = src[at - off + i] BY <2>1 DEF Equal
  <2> QED BY <2>1, <2>2
<1>4. at + len = to + ll + len /\ off \in 1 .. to + ll BY <1>1
<1> HIDE DEF q
<1>5. Says(src, to, at + len, q) BY <1>2, <1>3, <1>4 DEF Says
<1> QED BY <1>2, <1>5 DEF q, ll

(* A search under way: its sequences tell the bytes up to the anchor.      *)
State(ip, anchor, rep, table, seqs) ==
  [ip |-> ip, anchor |-> anchor, rep |-> rep, table |-> table, seqs |-> seqs]
Distances == Nat \ {0}
GoodReps(rep) == rep[1] \in Distances /\ rep[2] \in Distances
Searched(src, start, end, s) ==
  /\ s = State(s.ip, s.anchor, s.rep, s.table, s.seqs)
  /\ s.ip \in Nat /\ s.anchor \in Nat /\ s.anchor <= s.ip /\ s.ip <= end
  /\ GoodReps(s.rep) /\ Told(src, start, s.anchor, s.seqs)

(* A search's state and its fields.                                        *)
LEMMA StateFields ==
  ASSUME NEW ip, NEW anchor, NEW rep, NEW table, NEW seqs, NEW s, s = State(ip, anchor, rep, table, seqs)
  PROVE /\ s.ip = ip /\ s.anchor = anchor /\ s.rep = rep /\ s.table = table /\ s.seqs = seqs
        /\ \A t : [s EXCEPT !.table = t] = State(ip, anchor, rep, t, seqs)
        /\ \A i : [s EXCEPT !.ip = i] = State(i, anchor, rep, table, seqs)
<1>1. s.ip = ip /\ s.anchor = anchor /\ s.rep = rep /\ s.table = table /\ s.seqs = seqs BY DEF State
<1>2. ASSUME NEW t PROVE [s EXCEPT !.table = t] = State(ip, anchor, rep, t, seqs) BY DEF State
<1>3. ASSUME NEW i PROVE [s EXCEPT !.ip = i] = State(i, anchor, rep, table, seqs) BY DEF State
<1> QED BY <1>1, <1>2, <1>3

(* The two ways of writing that a match ends a state's search at `next`.   *)
Repeated2(s, next, rep, q) ==
  [s EXCEPT !.rep = rep, !.seqs = Append(@, q), !.ip = next, !.anchor = next]
Emitted(s, next, rep, q) ==
  [s EXCEPT !.seqs = Append(@, q), !.ip = next, !.anchor = next, !.rep = rep]

(* Both ways of writing that a match ends a state's search give one state. *)
LEMMA StateMoved ==
  ASSUME NEW ip, NEW anchor, NEW rep, NEW table, NEW seqs, NEW s, s = State(ip, anchor, rep, table, seqs),
         NEW next, NEW rep2, NEW q
  PROVE /\ Repeated2(s, next, rep2, q) = State(next, next, rep2, table, Append(seqs, q))
        /\ Emitted(s, next, rep2, q) = State(next, next, rep2, table, Append(seqs, q))
<1> DEFINE more == Append(s.seqs, q)
<1>1. more = Append(seqs, q) BY DEF State
<1>2. [s EXCEPT !.rep = rep2, !.seqs = more, !.ip = next, !.anchor = next]
        = State(next, next, rep2, table, more)
  <2> DEFINE s1 == [s EXCEPT !.rep = rep2]
             s2 == [s1 EXCEPT !.seqs = more]
             s3 == [s2 EXCEPT !.ip = next]
             s4 == [s3 EXCEPT !.anchor = next]
  <2> HIDE DEF more
  <2>1. s1 = State(ip, anchor, rep2, table, seqs) BY DEF State
  <2> HIDE DEF s1
  <2>2. s2 = State(ip, anchor, rep2, table, more) BY <2>1 DEF State
  <2> HIDE DEF s2
  <2>3. s3 = State(next, anchor, rep2, table, more) BY <2>2 DEF State
  <2> HIDE DEF s3
  <2>4. s4 = State(next, next, rep2, table, more) BY <2>3 DEF State
  <2> QED BY <2>4 DEF s1, s2, s3, s4
<1>3. [s EXCEPT !.seqs = more, !.ip = next, !.anchor = next, !.rep = rep2]
        = State(next, next, rep2, table, more)
  <2> DEFINE s1 == [s EXCEPT !.seqs = more]
             s2 == [s1 EXCEPT !.ip = next]
             s3 == [s2 EXCEPT !.anchor = next]
             s4 == [s3 EXCEPT !.rep = rep2]
  <2> HIDE DEF more
  <2>1. s1 = State(ip, anchor, rep, table, more) BY DEF State
  <2> HIDE DEF s1
  <2>2. s2 = State(next, anchor, rep, table, more) BY <2>1 DEF State
  <2> HIDE DEF s2
  <2>3. s3 = State(next, next, rep, table, more) BY <2>2 DEF State
  <2> HIDE DEF s3
  <2>4. s4 = State(next, next, rep2, table, more) BY <2>3 DEF State
  <2> QED BY <2>4 DEF s1, s2, s3, s4
<1>4. [s EXCEPT !.rep = rep2, !.seqs = Append(@, q), !.ip = next, !.anchor = next]
        = [s EXCEPT !.rep = rep2, !.seqs = more, !.ip = next, !.anchor = next]
  BY DEF more
<1>5. [s EXCEPT !.seqs = Append(@, q), !.ip = next, !.anchor = next, !.rep = rep2]
        = [s EXCEPT !.seqs = more, !.ip = next, !.anchor = next, !.rep = rep2]
  BY DEF more
<1> HIDE DEF more
<1> QED BY <1>1, <1>2, <1>3, <1>4, <1>5 DEF Repeated2, Emitted

(* Two distances are good repeat offsets.                                  *)
LEMMA TwoReps ==
  ASSUME NEW a \in Distances, NEW b \in Distances PROVE GoodReps(<< a, b >>)
BY DEF GoodReps, Distances

(* The state behind a match of len bytes at byte `at`.                     *)
Behind(s, at, off, len, rep, table) ==
  State(at + len, at + len, rep, table, Append(s.seqs, [ll |-> at - s.anchor, off |-> off, ml |-> len]))

(* A match of bytes that are equal, taken into the sequences: they still   *)
(* say what src is.                                                        *)
LEMMA MatchKeeps ==
  ASSUME NEW S, NEW src \in Seq(S), NEW start \in Nat, NEW end \in Nat, end <= Len(src),
         NEW s, Searched(src, start, end, s),
         NEW at \in Nat, NEW off \in Distances, NEW len \in Nat, NEW rep, GoodReps(rep), NEW table,
         s.anchor <= at, off <= at, at + len <= end, Equal(src, at, at - off, len)
  PROVE Searched(src, start, end, Behind(s, at, off, len, rep, table))
<1> DEFINE a == s.anchor
           q == [ll |-> at - a, off |-> off, ml |-> len]
           next == at + len
           r == State(next, next, rep, table, Append(s.seqs, q))
<1>1. a \in Nat /\ Told(src, start, a, s.seqs) BY DEF Searched
<1> HIDE DEF a
<1>2. q \in Sequence /\ Says(src, a, next, q)
  <2>1. off \in Nat /\ off >= 1 /\ a <= at /\ at + len <= Len(src) BY DEF Distances, a
  <2> QED BY <1>1, <2>1, MatchSays
<1>3. next \in Nat /\ next <= end OBVIOUS
<1> HIDE DEF q, next
<1>4. Told(src, start, next, Append(s.seqs, q)) BY <1>1, <1>2, <1>3, ToldFurther
<1>5. r.ip = next /\ r.anchor = next /\ r.rep = rep /\ r.table = table /\ r.seqs = Append(s.seqs, q)
  BY DEF State
<1>6. Searched(src, start, end, r)
  <2>1. r = State(r.ip, r.anchor, r.rep, r.table, r.seqs) BY <1>5
  <2> HIDE DEF r
  <2> QED BY <1>3, <1>4, <1>5, <2>1 DEF Searched
<1>7. Behind(s, at, off, len, rep, table) = r BY DEF Behind, q, a, next
<1> QED BY <1>6, <1>7

(* What a search is given, as far as its matches go.                       *)
Within(S, c, src, end) ==
  /\ c.src = src /\ c.end = end /\ end <= Len(src)
  /\ c.ilimit \in Int /\ c.ilimit + 4 <= end

(* A match confirmed by its first k bytes, counted on.                     *)
LEMMA FourOrMore ==
  ASSUME NEW S, NEW src \in Seq(S), NEW p1 \in Nat, NEW p2 \in Nat, NEW k \in Nat, NEW end \in Nat,
         p1 + k <= end, end <= Len(src), p2 <= p1, Equal(src, p1, p2, k)
  PROVE LET len == CountMatch(src, p1 + k, p2 + k, end) + k
        IN  len \in Nat /\ len >= k /\ p1 + len <= end /\ Equal(src, p1, p2, len)
<1> DEFINE m == CountMatch(src, p1 + k, p2 + k, end)
           a == p1 + k
           b == p2 + k
           len == m + k
<1>1. a \in Nat /\ b \in Nat /\ a <= end /\ b <= a OBVIOUS
<1>2. m \in 0 .. end - a /\ Equal(src, a, b, m)
  <2> HIDE DEF a, b
  <2>1. /\ CountMatch(src, a, b, end) \in 0 .. end - a
        /\ Equal(src, a, b, CountMatch(src, a, b, end))
    BY <1>1, CountMatchCounts
  <2> QED BY <2>1 DEF a, b
<1> HIDE DEF m
<1>3. m \in Nat /\ len \in Nat /\ len >= k /\ p1 + len <= end BY <1>2
<1>4. ASSUME NEW i \in 1 .. len PROVE src[p1 + i] = src[p2 + i]
  <2>1. CASE i <= k BY <2>1 DEF Equal
  <2>2. CASE i > k
    <3> DEFINE j == i - k
    <3>1. j \in 1 .. m /\ a + j = p1 + i /\ b + j = p2 + i BY <2>2, <1>3
    <3> HIDE DEF j, a, b
    <3>2. src[a + j] = src[b + j] BY <3>1, <1>2 DEF Equal
    <3> QED BY <3>1, <3>2
  <2> QED BY <2>1, <2>2, <1>3
<1>5. Equal(src, p1, p2, len) BY <1>4 DEF Equal
<1> HIDE DEF len
<1>6. len \in Nat /\ len >= k /\ p1 + len <= end /\ Equal(src, p1, p2, len) BY <1>3, <1>5 DEF len
<1> QED BY <1>6 DEF len, m

(* A match of the second repeat offset, right where the last one ended.    *)
LEMMA RepeatKeeps ==
  ASSUME NEW S, NEW src \in Seq(S), NEW start \in Nat, NEW end \in Nat, NEW c, Within(S, c, src, end),
         NEW s, Searched(src, start, end, s), s.ip = s.anchor, RepeatsHere(c, s, s.rep[2]), NEW t
  PROVE LET put == State(s.ip, s.anchor, s.rep, t, s.seqs)
            r   == RepeatMatch(c, s, put, s.rep[2])
        IN  /\ Searched(src, start, end, r) /\ r.ip = r.anchor /\ r.table = t
            /\ r.ip >= s.ip + 4 /\ r.rep \in Distances \X Distances
<1> DEFINE ip == s.ip
           d == s.rep[2]
           put == State(s.ip, s.anchor, s.rep, t, s.seqs)
           r == RepeatMatch(c, s, put, d)
           src0 == ip - d
           len == CountMatch(c.src, ip + 4, ip - d + 4, c.end) + 4
           rep == << d, s.rep[1] >>
           b == Behind(s, ip, d, len, rep, t)
<1>1. /\ ip \in Nat /\ d \in Nat /\ d >= 1 /\ d \in Distances /\ s.rep[1] \in Distances
  BY DEF Searched, GoodReps, Distances
<1>2. ip <= c.ilimit /\ ip >= d /\ At(src, ip, 4) = At(src, ip - d, 4)
  BY DEF RepeatsHere, Within
<1>3. c.src = src /\ c.end = end /\ end <= Len(src) /\ c.ilimit \in Int /\ c.ilimit + 4 <= end BY DEF Within
<1> HIDE DEF ip, d
<1>4. ip + 4 <= end /\ src0 \in Nat /\ src0 <= ip /\ src0 + 4 <= Len(src) /\ ip + 4 <= Len(src)
  BY <1>1, <1>2, <1>3
<1>5. Equal(src, ip, src0, 4)
  <2> HIDE DEF src0
  <2>1. At(src, ip, 4) = At(src, src0, 4) BY <1>2 DEF src0
  <2>2. 4 \in Nat OBVIOUS
  <2> QED BY <2>1, <2>2, <1>1, <1>4, AtSame
<1>6. len \in Nat /\ len >= 4 /\ ip + len <= end /\ Equal(src, ip, src0, len)
  <2>1. 4 \in Nat OBVIOUS
  <2> HIDE DEF src0
  <2>2. LET l == CountMatch(src, ip + 4, src0 + 4, end) + 4
        IN  l \in Nat /\ l >= 4 /\ ip + l <= end /\ Equal(src, ip, src0, l)
    BY <1>1, <1>3, <1>4, <1>5, <2>1, FourOrMore
  <2> QED BY <1>3, <2>2 DEF src0
<1> HIDE DEF len
<1>7. r = b
  <2>1. ip - s.anchor = 0 BY <1>1 DEF ip
  <2>3. r = [put EXCEPT !.rep = rep, !.seqs = Append(@, [ll |-> 0, off |-> d, ml |-> len]),
                        !.ip = ip + len, !.anchor = ip + len]
    BY DEF RepeatMatch, len, ip
  <2> DEFINE q == [ll |-> 0, off |-> d, ml |-> len]
             next == ip + len
  <2> HIDE DEF q, next, rep
  <2>4. r = [put EXCEPT !.rep = rep, !.seqs = Append(@, q), !.ip = next, !.anchor = next]
    BY <2>3 DEF q, next
  <2>5. b = State(next, next, rep, t, Append(s.seqs, q)) BY <2>1 DEF Behind, q, next
  <2>p. put = State(s.ip, s.anchor, s.rep, t, s.seqs) OBVIOUS
  <2> HIDE DEF r, b, put
  <2>6. Repeated2(put, next, rep, q) = State(next, next, rep, t, Append(s.seqs, q))
    BY <2>p, StateMoved
  <2> QED BY <2>4, <2>5, <2>6 DEF Repeated2
<1>8. GoodReps(rep) BY <1>1, TwoReps
<1>9. Searched(src, start, end, b)
  <2>1. s.anchor <= ip BY <1>1 DEF ip
  <2> HIDE DEF rep, b
  <2> QED BY <2>1, <1>1, <1>2, <1>3, <1>6, <1>8, MatchKeeps DEF b
<1>10. b.ip = ip + len /\ b.anchor = ip + len /\ b.table = t /\ b.rep = rep BY DEF Behind, State
<1>11. b.ip >= ip + 4 BY <1>1, <1>6, <1>10
<1>12. rep \in Distances \X Distances BY <1>1
<1> HIDE DEF b, r, put, rep
<1> QED BY <1>7, <1>9, <1>10, <1>11, <1>12 DEF r, put, d, ip

(* The states of a search of the bytes from start to end.                  *)
Sought(R, Ts, src, start, end) ==
  { s \in [ip : Nat, anchor : Nat, rep : R, table : Ts, seqs : Seq(Sequence)] :
      Searched(src, start, end, s) }

(* Membership in Sought, as its parts.                                     *)
LEMMA SoughtIs ==
  ASSUME NEW R, NEW Ts, NEW src, NEW start, NEW end, NEW s
  PROVE s \in Sought(R, Ts, src, start, end)
          <=> Searched(src, start, end, s) /\ s.table \in Ts /\ s.rep \in R
<1>1. ASSUME s \in Sought(R, Ts, src, start, end)
      PROVE Searched(src, start, end, s) /\ s.table \in Ts /\ s.rep \in R
  BY <1>1 DEF Sought
<1>2. ASSUME Searched(src, start, end, s), s.table \in Ts, s.rep \in R
      PROVE s \in Sought(R, Ts, src, start, end)
  <2> DEFINE a == s.ip
             b == s.anchor
             c == s.rep
             d == s.table
             e == s.seqs
  <2>1. s = State(a, b, c, d, e) /\ a \in Nat /\ b \in Nat /\ c \in R /\ d \in Ts /\ e \in Seq(Sequence)
    BY <1>2 DEF Searched, Told
  <2> HIDE DEF a, b, c, d, e
  <2>2. s \in [ip : Nat, anchor : Nat, rep : R, table : Ts, seqs : Seq(Sequence)]
    BY <2>1 DEF State
  <2> QED BY <1>2, <2>2 DEF Sought
<1> QED BY <1>1, <1>2

(* Only the table changes.                                                 *)
LEMMA TableKeeps ==
  ASSUME NEW R, NEW Ts, NEW src, NEW start, NEW end, NEW s \in Sought(R, Ts, src, start, end), NEW t \in Ts
  PROVE /\ [s EXCEPT !.table = t] = State(s.ip, s.anchor, s.rep, t, s.seqs)
        /\ [s EXCEPT !.table = t] \in Sought(R, Ts, src, start, end)
<1> DEFINE u == State(s.ip, s.anchor, s.rep, t, s.seqs)
<1>1. Searched(src, start, end, s) /\ s.rep \in R BY SoughtIs
<1>2. s = State(s.ip, s.anchor, s.rep, s.table, s.seqs) BY <1>1 DEF Searched
<1>3. [s EXCEPT !.table = t] = u BY <1>2, StateFields
<1>4. u.ip = s.ip /\ u.anchor = s.anchor /\ u.rep = s.rep /\ u.table = t /\ u.seqs = s.seqs BY DEF State
<1>5. u = State(u.ip, u.anchor, u.rep, u.table, u.seqs) BY <1>4
<1> HIDE DEF u
<1>6. Searched(src, start, end, u) BY <1>1, <1>4, <1>5 DEF Searched
<1>7. u \in Sought(R, Ts, src, start, end) BY <1>1, <1>4, <1>6, SoughtIs
<1> QED BY <1>3, <1>7 DEF u

(* Only ip changes.                                                        *)
LEMMA AheadKeeps ==
  ASSUME NEW R, NEW Ts, NEW src, NEW start, NEW end \in Nat, NEW s \in Sought(R, Ts, src, start, end),
         NEW i \in Nat, s.ip <= i, i <= end
  PROVE /\ [s EXCEPT !.ip = i] \in Sought(R, Ts, src, start, end)
        /\ [s EXCEPT !.ip = i] = State(i, s.anchor, s.rep, s.table, s.seqs)
<1> DEFINE u == State(i, s.anchor, s.rep, s.table, s.seqs)
<1>1. Searched(src, start, end, s) /\ s.rep \in R /\ s.table \in Ts BY SoughtIs
<1>2. s = State(s.ip, s.anchor, s.rep, s.table, s.seqs) BY <1>1 DEF Searched
<1>3. [s EXCEPT !.ip = i] = u BY <1>2, StateFields
<1>4. u.ip = i /\ u.anchor = s.anchor /\ u.rep = s.rep /\ u.table = s.table /\ u.seqs = s.seqs BY DEF State
<1>5. u = State(u.ip, u.anchor, u.rep, u.table, u.seqs) BY <1>4
<1>6. s.anchor \in Nat /\ s.ip \in Nat /\ s.anchor <= s.ip BY <1>1 DEF Searched
<1>7. s.anchor <= i BY <1>6
<1> HIDE DEF u
<1>8. Searched(src, start, end, u) BY <1>1, <1>4, <1>5, <1>7 DEF Searched
<1>9. u \in Sought(R, Ts, src, start, end) BY <1>1, <1>4, <1>8, SoughtIs
<1> QED BY <1>3, <1>9 DEF u

(* A repeated match keeps a search's states.                               *)
LEMMA RepeatStays ==
  ASSUME NEW R, Distances \X Distances \subseteq R, NEW Ts, NEW src \in Seq(Nat), NEW start \in Nat,
         NEW end \in Nat, NEW c, Within(Nat, c, src, end),
         NEW s \in Sought(R, Ts, src, start, end), s.ip = s.anchor, RepeatsHere(c, s, s.rep[2]),
         NEW put, NEW t \in Ts, put = State(s.ip, s.anchor, s.rep, t, s.seqs)
  PROVE LET r == RepeatMatch(c, s, put, s.rep[2])
        IN  r \in Sought(R, Ts, src, start, end) /\ r.ip = r.anchor /\ r.ip >= s.ip + 4 /\ r.table = t
<1> DEFINE r == RepeatMatch(c, s, put, s.rep[2])
<1>1. Searched(src, start, end, s) BY SoughtIs
<1>2. /\ Searched(src, start, end, r) /\ r.ip = r.anchor /\ r.table = t
      /\ r.ip >= s.ip + 4 /\ r.rep \in Distances \X Distances
  BY <1>1, RepeatKeeps
<1> HIDE DEF r
<1>3. r \in Sought(R, Ts, src, start, end) BY <1>2, SoughtIs
<1> QED BY <1>2, <1>3 DEF r

(* What is equal in front of equal bytes.                                  *)
LEMMA EqualFront ==
  ASSUME NEW src, NEW a \in Nat, NEW b \in Nat, NEW n \in Nat, NEW k \in Nat, k <= a, k <= b,
         Equal(src, a, b, n), Equal(src, a - k, b - k, k)
  PROVE Equal(src, a - k, b - k, n + k)
<1> SUFFICES ASSUME NEW i \in 1 .. n + k PROVE src[a - k + i] = src[b - k + i] BY DEF Equal
<1>1. CASE i <= k BY <1>1 DEF Equal
<1>2. CASE i > k
  <2> DEFINE j == i - k
  <2>1. j \in 1 .. n /\ a - k + i = a + j /\ b - k + i = b + j BY <1>2
  <2> HIDE DEF j
  <2>2. src[a + j] = src[b + j] BY <2>1 DEF Equal
  <2> QED BY <2>1, <2>2
<1> QED BY <1>1, <1>2

-----------------------------------------------------------------------------
(***************************************************************************)
(* The fast finder.                                                        *)
(***************************************************************************)

FastTable == [0 .. Slots - 1 -> Nat]

(* A position stored in the fast finder's table leaves a table.            *)
LEMMA StoredIsTable ==
  ASSUME NEW t \in FastTable, NEW src, NEW p \in Nat, NEW n
  PROVE Stored(t, src, p, n) \in FastTable
BY DEF Stored, FastTable

(* A position put into a state's table.                                    *)
LEMMA PutKeeps ==
  ASSUME NEW R, NEW src \in Seq(Nat), NEW start \in Nat, NEW end \in Nat, NEW c,
         NEW s \in Sought(R, FastTable, src, start, end), NEW p \in Nat
  PROVE LET u == Put(c, s, p)
        IN  u \in Sought(R, FastTable, src, start, end)
            /\ u.table \in FastTable /\ u = State(s.ip, s.anchor, s.rep, u.table, s.seqs)
<1> DEFINE t == Stored(s.table, c.src, p, c.mls)
           u == Put(c, s, p)
<1>1. Searched(src, start, end, s) /\ s.table \in FastTable /\ s.rep \in R BY SoughtIs
<1>2. s = State(s.ip, s.anchor, s.rep, s.table, s.seqs) BY <1>1 DEF Searched
<1>3. t \in FastTable BY <1>1, StoredIsTable
<1>4. u = s \/ u = [s EXCEPT !.table = t] BY DEF Put
<1> HIDE DEF t, u
<1>5. CASE u = s BY <1>1, <1>2, <1>5 DEF u
<1>6. CASE u = [s EXCEPT !.table = t]
  <2>1. u = State(s.ip, s.anchor, s.rep, t, s.seqs) /\ u \in Sought(R, FastTable, src, start, end)
    BY <1>3, <1>6, TableKeeps
  <2>2. u.table = t BY <2>1 DEF State
  <2> QED BY <2>1, <2>2, <1>3 DEF u
<1> QED BY <1>4, <1>5, <1>6

(* What it leaves alone.                                                   *)
LEMMA PutFields ==
  ASSUME NEW R, NEW src \in Seq(Nat), NEW start \in Nat, NEW end \in Nat, NEW c,
         NEW s \in Sought(R, FastTable, src, start, end), NEW p \in Nat
  PROVE LET u == Put(c, s, p)
        IN  /\ u \in Sought(R, FastTable, src, start, end)
            /\ u.ip = s.ip /\ u.anchor = s.anchor /\ u.rep = s.rep /\ u.table \in FastTable
<1> DEFINE u == Put(c, s, p)
<1>1. /\ u \in Sought(R, FastTable, src, start, end)
      /\ u.table \in FastTable /\ u = State(s.ip, s.anchor, s.rep, u.table, s.seqs)
  BY PutKeeps
<1> HIDE DEF u
<1>2. u.ip = s.ip /\ u.anchor = s.anchor /\ u.rep = s.rep BY <1>1, StateFields
<1> QED BY <1>1, <1>2 DEF u

(* A state whose search has just taken a match.                            *)
Settled(R, Ts, src, start, end) == { s \in Sought(R, Ts, src, start, end) : s.ip = s.anchor }

(* A round of the fast finder's repeat loop.                               *)
LEMMA Rep2RoundKeeps ==
  ASSUME NEW R, Distances \X Distances \subseteq R, NEW src \in Seq(Nat), NEW start \in Nat,
         NEW end \in Nat, NEW c, Within(Nat, c, src, end),
         NEW s \in Settled(R, FastTable, src, start, end)
  PROVE Rep2Round(c, s) \in Settled(R, FastTable, src, start, end)
<1>1. s \in Sought(R, FastTable, src, start, end) /\ s.ip = s.anchor BY DEF Settled
<1>2. s.ip \in Nat BY <1>1, SoughtIs DEF Searched
<1> DEFINE put == Put(c, s, s.ip)
           r == RepeatMatch(c, s, put, s.rep[2])
<1>3. put.table \in FastTable /\ put = State(s.ip, s.anchor, s.rep, put.table, s.seqs)
  BY <1>1, <1>2, PutKeeps
<1>4. CASE RepeatsHere(c, s, s.rep[2])
  <2> HIDE DEF put
  <2>1. r \in Sought(R, FastTable, src, start, end) /\ r.ip = r.anchor
    BY <1>1, <1>3, <1>4, RepeatStays
  <2>2. Rep2Round(c, s) = r BY <1>4 DEF Rep2Round, put
  <2> QED BY <2>1, <2>2 DEF Settled
<1>5. CASE ~RepeatsHere(c, s, s.rep[2]) BY <1>5 DEF Rep2Round
<1> QED BY <1>4, <1>5

(* All its rounds.                                                         *)
LEMMA Rep2LoopKeeps ==
  ASSUME NEW R, Distances \X Distances \subseteq R, NEW src \in Seq(Nat), NEW start \in Nat,
         NEW end \in Nat, NEW c, Within(Nat, c, src, end),
         NEW s \in Settled(R, FastTable, src, start, end)
  PROVE Rep2Loop(c, s) \in Settled(R, FastTable, src, start, end)
<1> DEFINE Y == Settled(R, FastTable, src, start, end)
           G == [y \in Y |-> Rep2Round(c, y)]
           n == (c.end - s.ip) \div 4
           Rec(f) == f = [k \in 0 .. n |-> IF k = 0 THEN s ELSE Rep2Round(c, f[k - 1])]
           h == CHOOSE f : Rec(f)
<1>0. n \in Nat
  <2>1. c.end = end BY DEF Within
  <2>2. s.ip \in Nat /\ s.ip <= end BY SoughtIs DEF Settled, Searched
  <2> DEFINE e == end - s.ip
  <2>3. e \in Nat BY <2>2
  <2> HIDE DEF e
  <2>4. e \div 4 \in Nat BY <2>3
  <2> QED BY <2>1, <2>4 DEF e
<1> HIDE DEF n
<1>1. \A y \in Y : Rep2Round(c, y) \in Y BY Rep2RoundKeeps
<1>s. s \in Y OBVIOUS
<1>i. \A k \in 1 .. n : k - 1 \in 0 .. n BY <1>0
<1>j. \A k \in 0 .. n : k = 0 \/ k \in 1 .. n BY <1>0
<1> HIDE DEF Y
<1>2. PICK f \in [0 .. n -> Y] : Follows(f, s, G, n)
  <2>1. Keeps(Y, G) BY <1>1 DEF Keeps
  <2> HIDE DEF G
  <2> QED BY <1>0, <1>s, <2>1, LoopStays
<1>3. Rec(f)
  <2>1. \A k \in 1 .. n : f[k - 1] \in Y BY <1>i
  <2>2. \A k \in 1 .. n : f[k] = Rep2Round(c, f[k - 1]) BY <1>2, <2>1 DEF Follows
  <2>3. f = [k \in 0 .. n |-> f[k]] OBVIOUS
  <2>4. f[0] = s BY <1>2 DEF Follows
  <2> QED BY <2>2, <2>3, <2>4, <1>j
<1>4. Rec(h) BY <1>3
<1>5. Rep2Loop(c, s) = h[n] BY DEF Rep2Loop, n
<1> HIDE DEF h, G
<1> DEFINE X == [k \in 0 .. n |-> Y]
<1>6. h[0] = s /\ \A k \in 1 .. n : h[k] = Rep2Round(c, h[k - 1])
  <2>1. 0 \in 0 .. n BY <1>0
  <2>2. \A k \in 1 .. n : k \in 0 .. n /\ k # 0 BY <1>0
  <2> QED BY <1>4, <2>1, <2>2
<1>7. h[0] \in X[0] BY <1>0, <1>6, <1>s
<1>8. ASSUME NEW k \in 1 .. n, h[k - 1] \in X[k - 1] PROVE h[k] \in X[k]
  <2>1. k \in 0 .. n /\ k - 1 \in 0 .. n BY <1>0
  <2>2. h[k - 1] \in Y BY <1>8, <2>1
  <2> QED BY <1>1, <1>6, <2>1, <2>2
<1>9. \A k \in 0 .. n : h[k] \in X[k]
  <2> HIDE DEF X
  <2> QED BY <1>0, <1>7, <1>8, LoopRule
<1>10. n \in 0 .. n BY <1>0
<1>11. h[n] \in Y BY <1>9, <1>10
<1> QED BY <1>5, <1>11 DEF Y

(* What the fast finder is given.                                          *)
FastGiven(c, src, end) ==
  /\ Within(Nat, c, src, end)
  /\ c.mls \in 4 .. 8 /\ c.confirm \in {4, 8} /\ c.confirm <= c.mls
  /\ c.ilimit + c.mls <= end /\ c.ilimit + 8 <= Len(src)
  /\ c.step \in Nat \ {0} /\ c.shift \in Nat /\ c.strength \in Nat
  /\ c.attached => c.dict \in FastTable

(* A match of len bytes at byte `at`, off bytes back, within the search.   *)
Matches(s, src, end, at, off, len) ==
  /\ at \in Nat /\ off \in Distances /\ len \in Nat /\ len >= 4
  /\ s.anchor <= at /\ off <= at /\ at + len <= end /\ Equal(src, at, at - off, len)

(* The fast finder takes a match.                                          *)
LEMMA EmitKeeps ==
  ASSUME NEW R, Distances \X Distances \subseteq R, NEW src \in Seq(Nat), NEW start \in Nat,
         NEW end \in Nat, NEW c, FastGiven(c, src, end),
         NEW s \in Sought(R, FastTable, src, start, end), NEW fill \in Nat, NEW at, NEW off, NEW len,
         Matches(s, src, end, at, off, len), NEW rep \in R, GoodReps(rep)
  PROVE Emit(c, s, fill, at, off, len, rep) \in Settled(R, FastTable, src, start, end)
<1> DEFINE a == s.anchor
           q == [ll |-> at - s.anchor, off |-> off, ml |-> len]
           next == at + len
           out == [s EXCEPT !.seqs = Append(@, [ll |-> at - s.anchor, off |-> off, ml |-> len]),
                            !.ip = at + len, !.anchor = at + len, !.rep = rep]
           b == Behind(s, at, off, len, rep, s.table)
           p1 == Put(c, out, fill + 2)
           p2 == Put(c, p1, next - 2)
<1>1. Searched(src, start, end, s) /\ s.table \in FastTable BY SoughtIs
<1>2. end <= Len(src) /\ Within(Nat, c, src, end) BY DEF FastGiven, Within
<1>3. Searched(src, start, end, b)
  <2> HIDE DEF b
  <2>1. /\ at \in Nat /\ off \in Distances /\ len \in Nat
        /\ s.anchor <= at /\ off <= at /\ at + len <= end /\ Equal(src, at, at - off, len)
    BY DEF Matches
  <2> QED BY <1>1, <1>2, <2>1, MatchKeeps DEF b
<1>4. b.ip = next /\ b.anchor = next /\ b.rep = rep /\ b.table = s.table BY DEF Behind, State
<1>5. b \in Settled(R, FastTable, src, start, end)
  <2> HIDE DEF b, next
  <2>1. b \in Sought(R, FastTable, src, start, end) BY <1>1, <1>3, <1>4, SoughtIs
  <2> QED BY <2>1, <1>4 DEF Settled
<1>6. out = b
  <2>1. s = State(s.ip, s.anchor, s.rep, s.table, s.seqs) BY <1>1 DEF Searched
  <2>2. out = Emitted(s, next, rep, q) BY DEF Emitted
  <2>3. b = State(next, next, rep, s.table, Append(s.seqs, q)) BY DEF Behind
  <2> HIDE DEF out, b, next, q
  <2> QED BY <2>1, <2>2, <2>3, StateMoved
<1>n. next \in Nat /\ next - 2 \in Nat /\ fill + 2 \in Nat BY DEF Matches
<1>7. Emit(c, s, fill, at, off, len, rep) = IF next > c.ilimit THEN out ELSE Rep2Loop(c, p2)
  BY DEF Emit
<1> HIDE DEF b, out, next
<1>8. /\ p1 \in Sought(R, FastTable, src, start, end) /\ p1.ip = next /\ p1.anchor = next
  <2>1. b \in Sought(R, FastTable, src, start, end) BY <1>5 DEF Settled
  <2> QED BY <1>4, <1>6, <1>n, <2>1, PutFields
<1> HIDE DEF p1
<1>9. /\ p2 \in Sought(R, FastTable, src, start, end) /\ p2.ip = next /\ p2.anchor = next
  BY <1>8, <1>n, PutFields
<1> HIDE DEF p2
<1>10. p2 \in Settled(R, FastTable, src, start, end) BY <1>9 DEF Settled
<1>11. Rep2Loop(c, p2) \in Settled(R, FastTable, src, start, end)
  BY <1>2, <1>10, Rep2LoopKeeps
<1> QED BY <1>5, <1>6, <1>7, <1>11

(* Bytes confirmed equal, counted on behind and extended in front.         *)
LEMMA FoundMatches ==
  ASSUME NEW src \in Seq(Nat), NEW end \in Nat, end <= Len(src), NEW s, s.anchor \in Nat,
         NEW p \in Nat, NEW m \in Nat, NEW n \in Nat, n >= 4, m < p, s.anchor <= p, p + n <= end,
         At(src, m, n) = At(src, p, n),
         NEW k \in Nat, k <= m, k <= p - s.anchor, Equal(src, p - k, m - k, k)
  PROVE /\ Matches(s, src, end, p - k, p - m, CountMatch(src, p + n, m + n, end) + n + k)
        /\ CountMatch(src, p + n, m + n, end) + n \in Nat
        /\ CountMatch(src, p + n, m + n, end) + n >= 4
<1> DEFINE len == CountMatch(src, p + n, m + n, end) + n
           a == p - k
           b == m - k
           off == p - m
<1>1. Equal(src, p, m, n)
  <2>1. p + n <= Len(src) /\ m + n <= Len(src) OBVIOUS
  <2>2. Equal(src, m, p, n) BY <2>1, AtSame
  <2> QED BY <2>2 DEF Equal
<1>2. len \in Nat /\ len >= n /\ p + len <= end /\ Equal(src, p, m, len)
  <2>1. m <= p OBVIOUS
  <2> QED BY <1>1, <2>1, FourOrMore
<1> HIDE DEF len
<1>3. Equal(src, a, b, len + k)
  <2>1. k <= p OBVIOUS
  <2> QED BY <1>2, <2>1, EqualFront
<1>4. /\ a \in Nat /\ off \in Distances /\ len + k \in Nat /\ len + k >= 4 /\ s.anchor <= a
      /\ off <= a /\ a + (len + k) <= end
  BY <1>2 DEF Distances
<1>5. a - off = b OBVIOUS
<1> HIDE DEF a, b, off
<1>6. Matches(s, src, end, a, off, len + k) BY <1>3, <1>4, <1>5 DEF Matches
<1>7. len \in Nat /\ len >= 4 BY <1>2
<1> QED BY <1>6, <1>7 DEF a, off, len

(* The fast finder takes a match from its table.                           *)
LEMMA EmitFoundKeeps ==
  ASSUME NEW R, Distances \X Distances \subseteq R, NEW src \in Seq(Nat), NEW start \in Nat,
         NEW end \in Nat, NEW c, FastGiven(c, src, end),
         NEW s \in Sought(R, FastTable, src, start, end), NEW ip \in Nat, NEW m \in Nat,
         s.anchor <= ip, ip + c.confirm <= end, m < ip, Confirms(c, m, ip)
  PROVE EmitFound(c, s, ip, m) \in Settled(R, FastTable, src, start, end)
<1> DEFINE most == Smaller(ip - s.anchor, m)
           back == CountBack(src, ip, m, most)
           n == c.confirm
           len == CountMatch(src, ip + n, m + n, end) + n
           rep == << ip - m, s.rep[1] >>
<1>1. /\ end <= Len(src) /\ c.src = src /\ c.end = end /\ n \in Nat /\ n >= 4
      /\ At(src, m, n) = At(src, ip, n)
  <2>1. end <= Len(src) /\ c.src = src /\ c.end = end /\ n \in {4, 8} BY DEF FastGiven, Within
  <2>2. At(src, m, n) = At(src, ip, n) BY <2>1 DEF Confirms
  <2> QED BY <2>1, <2>2, SMTT(20)
<1>2. s.anchor \in Nat /\ s.rep[1] \in Distances BY SoughtIs DEF Searched, GoodReps
<1>3. most \in Nat /\ most <= m /\ most <= ip - s.anchor
  <2>1. ip - s.anchor \in Nat BY <1>2
  <2> QED BY <2>1 DEF Smaller
<1> HIDE DEF n, most
<1>4. back \in 0 .. most /\ Equal(src, ip - back, m - back, back)
  <2>1. ip <= Len(src) BY <1>1 DEF n
  <2> QED BY <1>1, <1>3, <2>1, CountBackCounts
<1> HIDE DEF back
<1>5. Matches(s, src, end, ip - back, ip - m, len + back)
  <2>1. back \in Nat /\ back <= m /\ back <= ip - s.anchor BY <1>2, <1>3, <1>4
  <2>2. ip + n <= end BY DEF n
  <2> QED BY <1>1, <1>2, <1>4, <2>1, <2>2, FoundMatches
<1>6. rep \in R /\ GoodReps(rep)
  <2>1. ip - m \in Distances BY DEF Distances
  <2> QED BY <1>2, <2>1, TwoReps
<1> HIDE DEF len, rep
<1>7. EmitFound(c, s, ip, m) = Emit(c, s, ip, ip - back, ip - m, len + back, rep)
  BY <1>1 DEF EmitFound, most, back, len, rep, n
<1> QED BY <1>5, <1>6, <1>7, EmitKeeps

(* The fast finder takes a match of the first repeat offset.               *)
LEMMA EmitRepKeeps ==
  ASSUME NEW R, Distances \X Distances \subseteq R, NEW src \in Seq(Nat), NEW start \in Nat,
         NEW end \in Nat, NEW c, FastGiven(c, src, end),
         NEW s \in Sought(R, FastTable, src, start, end), NEW fill \in Nat, NEW ip \in Nat,
         s.anchor <= ip, ip + c.confirm <= end, s.rep[1] <= ip, Confirms(c, ip - s.rep[1], ip)
  PROVE EmitRep(c, s, fill, ip) \in Settled(R, FastTable, src, start, end)
<1> DEFINE d == s.rep[1]
           m == ip - d
           n == c.confirm
           len == CountMatch(src, ip + n, m + n, end) + n
           back == IF ip > s.anchor /\ ip > d /\ src[ip] = src[ip - d] THEN 1 ELSE 0
<1>2. s.anchor \in Nat /\ d \in Nat /\ d >= 1 /\ GoodReps(s.rep) /\ s.rep \in R
  BY SoughtIs DEF Searched, GoodReps, Distances
<1> HIDE DEF d
<1>m. m \in Nat /\ m < ip /\ ip - m = d BY <1>2 DEF d
<1>1. /\ end <= Len(src) /\ c.src = src /\ c.end = end /\ n \in Nat /\ n >= 4
      /\ At(src, m, n) = At(src, ip, n)
  BY SMTT(20) DEF FastGiven, Within, Confirms, d
<1>3. /\ back \in Nat /\ back <= m /\ back <= ip - s.anchor /\ Equal(src, ip - back, m - back, back)
  <2>1. CASE ip > s.anchor /\ ip > d /\ src[ip] = src[ip - d]
    <3>1. back = 1 BY <2>1
    <3>2. ip - 1 + 1 = ip /\ m - 1 + 1 = m BY <1>m
    <3>3. src[ip] = src[m] BY <2>1
    <3> HIDE DEF m
    <3>4. Equal(src, ip - 1, m - 1, 1) BY <3>2, <3>3 DEF Equal
    <3>5. 1 <= m /\ 1 <= ip - s.anchor BY <2>1, <1>2, <1>m DEF m
    <3> QED BY <3>1, <3>4, <3>5
  <2>2. CASE ~(ip > s.anchor /\ ip > d /\ src[ip] = src[ip - d])
    <3>1. back = 0 BY <2>2
    <3>2. Equal(src, ip - 0, m - 0, 0) BY DEF Equal
    <3>3. 0 <= m /\ 0 <= ip - s.anchor BY <1>2, <1>m
    <3> QED BY <3>1, <3>2, <3>3
  <2> QED BY <2>1, <2>2
<1>7. EmitRep(c, s, fill, ip) = Emit(c, s, fill, ip - back, d, len + back, s.rep)
  BY <1>1 DEF EmitRep, d
<1> HIDE DEF n, m, back
<1>5. Matches(s, src, end, ip - back, d, len + back)
  <2>2. ip + n <= end BY DEF n
  <2>3. Matches(s, src, end, ip - back, ip - m, len + back)
    BY <1>1, <1>2, <1>3, <1>m, <2>2, FoundMatches
  <2> QED BY <2>3, <1>m
<1> HIDE DEF len
<1> QED BY <1>2, <1>5, <1>7, EmitKeeps

(* A candidate of the fast finder lies before the position, and the bytes  *)
(* confirm it.                                                             *)
LEMMA FindMatchFinds ==
  ASSUME NEW src \in Seq(Nat), NEW end \in Nat, NEW c, FastGiven(c, src, end),
         NEW ip \in Nat, ip + c.mls <= end, NEW m \in Nat
  PROVE LET r == FindMatch(c, ip, m)
        IN  r # NoMatch => r \in Nat /\ r < ip /\ Confirms(c, r, ip)
<1> DEFINE d == c.dict[Slot(c.src, ip, c.mls)]
           r == FindMatch(c, ip, m)
<1>1. CASE InWindow(c, ip, m) /\ Confirms(c, m, ip)
  <2>1. r = m BY <1>1 DEF FindMatch
  <2>2. m < ip BY <1>1 DEF InWindow
  <2> QED BY <1>1, <2>1, <2>2
<1>2. CASE ~(InWindow(c, ip, m) /\ Confirms(c, m, ip)) /\ ~c.attached
  <2>1. r = NoMatch BY <1>2 DEF FindMatch
  <2> QED BY <2>1
<1>3. CASE ~(InWindow(c, ip, m) /\ Confirms(c, m, ip)) /\ c.attached
  <2>1. r = IF d < c.prefix /\ InWindow(c, ip, d) /\ Confirms(c, d, ip) THEN d ELSE NoMatch
    BY <1>3 DEF FindMatch
  <2>2. d \in Nat
    <3>1. c.dict \in FastTable /\ c.src = src /\ c.mls \in Nat /\ end <= Len(src)
      BY <1>3, SMTT(20) DEF FastGiven, Within
    <3>2. ip + c.mls <= Len(src) BY <3>1
    <3>3. Slot(src, ip, c.mls) \in 0 .. Slots - 1 BY <3>1, <3>2, SlotIsSlot
    <3> QED BY <3>1, <3>3 DEF FastTable
  <2> HIDE DEF d, r
  <2>3. CASE d < c.prefix /\ InWindow(c, ip, d) /\ Confirms(c, d, ip)
    <3>1. r = d BY <2>1, <2>3
    <3>2. d < ip BY <2>3 DEF InWindow
    <3> QED BY <2>2, <2>3, <3>1, <3>2 DEF r
  <2>4. CASE ~(d < c.prefix /\ InWindow(c, ip, d) /\ Confirms(c, d, ip))
    <3>1. r = NoMatch BY <2>1, <2>4
    <3> QED BY <3>1 DEF r
  <2> QED BY <2>3, <2>4
<1> QED BY <1>1, <1>2, <1>3

(* A fast search between two rounds.                                       *)
Fronts(R, src, start, end, c) ==
  { f \in [s : Sought(R, FastTable, src, start, end), ip2 : Nat, on : BOOLEAN] :
      f.on => f.s.ip < f.ip2 /\ f.ip2 + 1 < c.ilimit }

(* The search goes on where a state stands.                                *)
LEMMA FastFromKeeps ==
  ASSUME NEW R, NEW src \in Seq(Nat), NEW start \in Nat, NEW end \in Nat, NEW c,
         FastGiven(c, src, end), NEW s \in Sought(R, FastTable, src, start, end)
  PROVE FastFrom(c, s) \in Fronts(R, src, start, end, c)
<1> DEFINE i == s.ip
           j == i + c.step
           f == [s |-> s, ip2 |-> j, on |-> j + 1 < c.ilimit]
<1>1. i \in Nat BY SoughtIs DEF Searched
<1>2. c.step \in Nat /\ c.step > 0 BY DEF FastGiven
<1> HIDE DEF i
<1>3. j \in Nat /\ i < j BY <1>1, <1>2
<1>4. FastFrom(c, s) = f BY DEF FastFrom, i
<1> HIDE DEF j
<1>5. f.s = s /\ f.ip2 = j /\ f.on = (j + 1 < c.ilimit) /\ f.on \in BOOLEAN OBVIOUS
<1>6. f \in [s : Sought(R, FastTable, src, start, end), ip2 : Nat, on : BOOLEAN] BY <1>3, <1>5
<1> HIDE DEF f
<1>7. f.on => f.s.ip < f.ip2 /\ f.ip2 + 1 < c.ilimit BY <1>3, <1>5 DEF i
<1> QED BY <1>4, <1>6, <1>7 DEF Fronts

(* The fast finder's constants, one by one.                                *)
LEMMA FastFacts ==
  ASSUME NEW src, NEW end, NEW c, FastGiven(c, src, end)
  PROVE /\ c.src = src /\ c.end = end /\ end <= Len(src) /\ c.ilimit \in Int /\ c.mls \in Nat
        /\ c.confirm \in Nat /\ c.confirm <= c.mls /\ c.ilimit + c.mls <= end
        /\ c.step \in Nat /\ c.step > 0 /\ c.shift \in Nat /\ c.strength \in Nat
<1>1. /\ c.src = src /\ c.end = end /\ end <= Len(src) /\ c.ilimit \in Int
      /\ c.confirm <= c.mls /\ c.ilimit + c.mls <= end
      /\ c.shift \in Nat /\ c.strength \in Nat
  BY DEF FastGiven, Within
<1>2. c.mls \in Nat BY DEF FastGiven
<1>3. c.confirm \in Nat BY DEF FastGiven
<1>4. c.step \in Nat /\ c.step > 0 BY DEF FastGiven
<1> QED BY <1>1, <1>2, <1>3, <1>4

(* A round below ilimit has room for every read it makes.                  *)
LEMMA FastRoom ==
  ASSUME NEW ip0 \in Nat, NEW ip2 \in Nat, NEW ilimit \in Int, NEW mls \in Nat, NEW n \in Nat,
         NEW end \in Nat, ip0 < ip2, ip2 + 1 < ilimit, n <= mls, ilimit + mls <= end
  PROVE /\ ip0 + 1 <= ip2 /\ ip0 + mls <= end /\ ip0 + 1 + mls <= end /\ ip0 + n <= end
        /\ ip0 + 1 + n <= end /\ ip2 + n <= end /\ ip2 <= end /\ ip0 + 1 \in Nat
OBVIOUS

(* A round of the fast finder: its two probes, the repeat offset, or the   *)
(* step ahead.                                                             *)
LEMMA FastProbesKeeps ==
  ASSUME NEW R, Distances \X Distances \subseteq R, NEW src \in Seq(Nat), NEW start \in Nat,
         NEW end \in Nat, NEW c, FastGiven(c, src, end),
         NEW s \in Sought(R, FastTable, src, start, end), NEW ip2 \in Nat,
         s.ip < ip2, ip2 + 1 < c.ilimit
  PROVE FastProbes(c, s, ip2) \in Fronts(R, src, start, end, c)
<1> DEFINE Y == Sought(R, FastTable, src, start, end)
           F == Fronts(R, src, start, end, c)
           ip0 == s.ip
           d  == s.rep[1]
           s0 == Put(c, s, ip0)
           s1 == Put(c, s0, ip0 + 1)
           m0 == FindMatch(c, ip0, s.table[Slot(c.src, ip0, c.mls)])
           m1 == FindMatch(c, ip0 + 1, s0.table[Slot(c.src, ip0 + 1, c.mls)])
           dense == c.step + Shifted(ip0 + 1 - s.anchor, c.strength) <= 4
           next == ip2 + c.step + Shifted(ip2 - s.anchor, c.shift)
           u == IF dense THEN Put(c, s1, ip2) ELSE s1
           last == [s |-> [s1 EXCEPT !.ip = ip2], ip2 |-> next, on |-> next + 1 < c.ilimit]
<1>0. FastProbes(c, s, ip2) =
        IF ip2 >= d /\ Confirms(c, ip2 - d, ip2) THEN FastFrom(c, EmitRep(c, s1, ip0, ip2))
        ELSE IF m0 # NoMatch THEN FastFrom(c, EmitFound(c, s1, ip0, m0))
        ELSE IF m1 # NoMatch THEN FastFrom(c, EmitFound(c, u, ip0 + 1, m1))
        ELSE last
  BY DEF FastProbes
<1>1. /\ ip0 \in Nat /\ s.anchor \in Nat /\ s.anchor <= ip0 /\ d \in Nat /\ d >= 1 /\ s.table \in FastTable
  BY SoughtIs DEF Searched, GoodReps, Distances
<1>2. /\ c.src = src /\ c.end = end /\ end <= Len(src) /\ c.ilimit \in Int /\ c.mls \in Nat
      /\ c.confirm \in Nat /\ c.confirm <= c.mls /\ c.ilimit + c.mls <= end
      /\ c.step \in Nat /\ c.step > 0 /\ c.shift \in Nat /\ c.strength \in Nat
  BY FastFacts
<1>3. s0 \in Y /\ s0.ip = s.ip /\ s0.anchor = s.anchor /\ s0.rep = s.rep /\ s0.table \in FastTable
  BY <1>1, PutFields
<1>4. s1 \in Y /\ s1.ip = s.ip /\ s1.anchor = s.anchor /\ s1.rep = s.rep /\ s1.table \in FastTable
  <2> HIDE DEF s0, ip0, Y
  <2>1. ip0 + 1 \in Nat BY <1>1
  <2> QED BY <1>3, <2>1, PutFields DEF Y
<1>5. u \in Y /\ u.anchor = s.anchor
  <2>1. CASE dense
    <3> HIDE DEF s1
    <3>1. u = Put(c, s1, ip2) BY <2>1
    <3> QED BY <1>4, <3>1, PutFields
  <2>2. CASE ~dense BY <1>4, <2>2
  <2> QED BY <2>1, <2>2
<1> HIDE DEF u, dense
<1>6. /\ ip0 + 1 <= ip2 /\ ip0 + c.mls <= end /\ ip0 + 1 + c.mls <= end /\ ip0 + c.confirm <= end
      /\ ip0 + 1 + c.confirm <= end /\ ip2 + c.confirm <= end /\ ip2 <= end /\ s.anchor <= ip2
      /\ s.anchor <= ip0 + 1 /\ ip0 + 1 \in Nat
  <2>1. /\ ip0 + 1 <= ip2 /\ ip0 + c.mls <= end /\ ip0 + 1 + c.mls <= end /\ ip0 + c.confirm <= end
        /\ ip0 + 1 + c.confirm <= end /\ ip2 + c.confirm <= end /\ ip2 <= end /\ ip0 + 1 \in Nat
    <3> DEFINE il == c.ilimit
               g == c.mls
               n == c.confirm
    <3>1. il \in Int /\ g \in Nat /\ n \in Nat /\ n <= g /\ il + g <= end BY <1>2
    <3>2. ip0 < ip2 /\ ip2 + 1 < il OBVIOUS
    <3> HIDE DEF il, g, n, ip0
    <3>3. /\ ip0 + 1 <= ip2 /\ ip0 + g <= end /\ ip0 + 1 + g <= end /\ ip0 + n <= end
          /\ ip0 + 1 + n <= end /\ ip2 + n <= end /\ ip2 <= end /\ ip0 + 1 \in Nat
      BY <1>1, <3>1, <3>2, FastRoom
    <3> QED BY <3>3 DEF g, n
  <2> DEFINE a == s.anchor
  <2>2. a \in Nat /\ a <= ip0 BY <1>1
  <2> HIDE DEF a, ip0
  <2>3. a <= ip2 /\ a <= ip0 + 1 BY <1>1, <2>1, <2>2
  <2> QED BY <2>1, <2>3 DEF a
<1>l. ip0 + c.mls <= Len(src) /\ ip0 + 1 + c.mls <= Len(src)
  <2> DEFINE x == ip0 + c.mls
             y == ip0 + 1 + c.mls
  <2>1. x \in Nat /\ y \in Nat /\ x <= end /\ y <= end
    <3> DEFINE g == c.mls
    <3>1. g \in Nat BY <1>2
    <3>2. x <= end /\ y <= end BY <1>6
    <3> HIDE DEF g, ip0
    <3> QED BY <1>1, <3>1, <3>2 DEF g
  <2> HIDE DEF x, y
  <2>2. Len(src) \in Nat OBVIOUS
  <2>3. end <= Len(src) BY <1>2
  <2>4. x <= Len(src) /\ y <= Len(src) BY <2>1, <2>2, <2>3
  <2> QED BY <2>4 DEF x, y
<1>7. m0 # NoMatch => m0 \in Nat /\ m0 < ip0 /\ Confirms(c, m0, ip0)
  <2> DEFINE v == s.table[Slot(c.src, ip0, c.mls)]
  <2>1. Slot(src, ip0, c.mls) \in 0 .. Slots - 1
    <3>1. ip0 + c.mls <= Len(src) BY <1>l
    <3> QED BY <1>1, <1>2, <3>1, SlotIsSlot
  <2>2. v \in Nat BY <1>1, <1>2, <2>1 DEF FastTable
  <2> HIDE DEF v, ip0
  <2> QED BY <1>1, <1>6, <2>2, FindMatchFinds DEF v
<1>8. m1 # NoMatch => m1 \in Nat /\ m1 < ip0 + 1 /\ Confirms(c, m1, ip0 + 1)
  <2> DEFINE v == s0.table[Slot(c.src, ip0 + 1, c.mls)]
             i1 == ip0 + 1
  <2>1. i1 \in Nat /\ i1 + c.mls <= end BY <1>6
  <2>2. v \in Nat
    <3>1. i1 + c.mls <= Len(src) BY <1>l
    <3> HIDE DEF i1, s0
    <3>2. Slot(src, i1, c.mls) \in 0 .. Slots - 1 BY <1>2, <2>1, <3>1, SlotIsSlot
    <3>3. Slot(src, ip0 + 1, c.mls) \in 0 .. Slots - 1 BY <3>2 DEF i1
    <3> QED BY <1>2, <1>3, <3>3 DEF FastTable
  <2> HIDE DEF v, i1, ip0
  <2>3. LET r == FindMatch(c, i1, v) IN r # NoMatch => r \in Nat /\ r < i1 /\ Confirms(c, r, i1)
    BY <2>1, <2>2, FindMatchFinds
  <2> QED BY <2>3 DEF v, i1
<1>9. ASSUME NEW e \in Settled(R, FastTable, src, start, end) PROVE FastFrom(c, e) \in F
  BY FastFromKeeps DEF Settled
<1>d. s1.rep[1] = d BY <1>4
<1> HIDE DEF ip0, s0, s1, m0, m1, d
<1>10. CASE ip2 >= d /\ Confirms(c, ip2 - d, ip2)
  <2>1. EmitRep(c, s1, ip0, ip2) \in Settled(R, FastTable, src, start, end)
    <3>1. d <= ip2 BY <1>10, <1>1
    <3>2. Confirms(c, ip2 - s1.rep[1], ip2) BY <1>10, <1>d
    <3> QED BY <1>1, <1>4, <1>6, <1>d, <3>1, <3>2, EmitRepKeeps
  <2> QED BY <1>0, <1>9, <1>10, <2>1
<1>11. CASE ~(ip2 >= d /\ Confirms(c, ip2 - d, ip2)) /\ m0 # NoMatch
  <2>1. EmitFound(c, s1, ip0, m0) \in Settled(R, FastTable, src, start, end)
    BY <1>1, <1>4, <1>6, <1>7, <1>11, EmitFoundKeeps
  <2> QED BY <1>0, <1>9, <1>11, <2>1
<1>12. CASE ~(ip2 >= d /\ Confirms(c, ip2 - d, ip2)) /\ ~(m0 # NoMatch) /\ m1 # NoMatch
  <2>1. EmitFound(c, u, ip0 + 1, m1) \in Settled(R, FastTable, src, start, end)
    BY <1>1, <1>5, <1>6, <1>8, <1>12, EmitFoundKeeps
  <2> QED BY <1>0, <1>9, <1>12, <2>1
<1>13. CASE ~(ip2 >= d /\ Confirms(c, ip2 - d, ip2)) /\ ~(m0 # NoMatch) /\ ~(m1 # NoMatch)
  <2> DEFINE a == [s1 EXCEPT !.ip = ip2]
             sh == Shifted(ip2 - s.anchor, c.shift)
  <2>1. a \in Y /\ a.ip = ip2
    <3>1. s1.ip <= ip2 BY <1>1, <1>4, <1>6 DEF ip0
    <3>2. a \in Y /\ a = State(ip2, s1.anchor, s1.rep, s1.table, s1.seqs)
      BY <1>4, <1>6, <3>1, AheadKeeps
    <3> QED BY <3>2, StateFields
  <2>2. sh \in Nat
    <3>1. ip2 - s.anchor \in Nat BY <1>1, <1>6
    <3> QED BY <1>2, <3>1, ShiftedNatural
  <2> HIDE DEF sh
  <2>3. next = ip2 + c.step + sh BY DEF sh
  <2>4. next \in Nat /\ ip2 < next
    <3> DEFINE g == c.step
    <3>1. g \in Nat /\ g > 0 BY <1>2
    <3> HIDE DEF g
    <3>2. ip2 + g + sh \in Nat /\ ip2 < ip2 + g + sh BY <2>2, <3>1
    <3> QED BY <2>3, <3>2 DEF g
  <2> HIDE DEF next, a
  <2>5. last = [s |-> a, ip2 |-> next, on |-> next + 1 < c.ilimit] BY DEF a
  <2> HIDE DEF last, Y
  <2>6. last.s = a /\ last.ip2 = next /\ last.on = (next + 1 < c.ilimit) BY <2>5
  <2>7. last \in [s : Y, ip2 : Nat, on : BOOLEAN]
    <3>1. (next + 1 < c.ilimit) \in BOOLEAN OBVIOUS
    <3> QED BY <2>1, <2>4, <2>5, <3>1
  <2>8. last.on => last.s.ip < last.ip2 /\ last.ip2 + 1 < c.ilimit
    <3> HIDE DEF F
    <3>1. a.ip < next BY <2>1, <2>4
    <3> QED BY <2>6, <3>1
  <2>9. last \in F BY <2>7, <2>8 DEF Fronts, Y
  <2>10. FastProbes(c, s, ip2) = last BY <1>0, <1>13
  <2> QED BY <2>9, <2>10
<1> QED BY <1>10, <1>11, <1>12, <1>13

(* All its rounds.                                                         *)
LEMMA FastRoundsKeep ==
  ASSUME NEW R, Distances \X Distances \subseteq R, NEW src \in Seq(Nat), NEW start \in Nat,
         NEW end \in Nat, NEW c, FastGiven(c, src, end),
         NEW s \in Sought(R, FastTable, src, start, end), NEW n \in Nat
  PROVE FastRounds(c, s, n) \in Sought(R, FastTable, src, start, end)
<1> DEFINE Y == Fronts(R, src, start, end, c)
           G == [y \in Y |-> FastRound(c, y)]
           d == FastFrom(c, s)
           Rec(f) == f = [k \in 0 .. n |-> IF k = 0 THEN FastFrom(c, s) ELSE FastRound(c, f[k - 1])]
           h == CHOOSE f : Rec(f)
<1>1. \A y \in Y : FastRound(c, y) \in Y
  <2> TAKE y \in Y
  <2>1. CASE y.on
    <3>1. y.s \in Sought(R, FastTable, src, start, end) /\ y.ip2 \in Nat BY DEF Fronts
    <3>2. y.s.ip < y.ip2 /\ y.ip2 + 1 < c.ilimit BY <2>1 DEF Fronts
    <3>3. FastProbes(c, y.s, y.ip2) \in Y BY <3>1, <3>2, FastProbesKeeps
    <3> QED BY <2>1, <3>3 DEF FastRound
  <2>2. CASE ~y.on BY <2>2 DEF FastRound
  <2> QED BY <2>1, <2>2
<1>s. d \in Y BY FastFromKeeps
<1>d. FastFrom(c, s) = d OBVIOUS
<1>y. \A y \in Y : y.s \in Sought(R, FastTable, src, start, end) BY DEF Fronts
<1>i. \A k \in 1 .. n : k - 1 \in 0 .. n OBVIOUS
<1>j. \A k \in 0 .. n : k = 0 \/ k \in 1 .. n OBVIOUS
<1> HIDE DEF Y, d
<1>2. PICK f \in [0 .. n -> Y] : Follows(f, d, G, n)
  <2>1. Keeps(Y, G) BY <1>1 DEF Keeps
  <2> HIDE DEF G
  <2> QED BY <1>s, <2>1, LoopStays
<1>3. Rec(f)
  <2>1. \A k \in 1 .. n : f[k - 1] \in Y BY <1>i
  <2>2. \A k \in 1 .. n : f[k] = FastRound(c, f[k - 1]) BY <1>2, <2>1 DEF Follows
  <2>3. f = [k \in 0 .. n |-> f[k]] OBVIOUS
  <2>4. f[0] = FastFrom(c, s) BY <1>2, <1>d DEF Follows
  <2> QED BY <2>2, <2>3, <2>4, <1>j
<1>4. Rec(h) BY <1>3
<1>5. FastRounds(c, s, n) = h[n].s BY DEF FastRounds
<1> HIDE DEF h, G
<1> DEFINE X == [k \in 0 .. n |-> Y]
<1>6. h[0] = d /\ \A k \in 1 .. n : h[k] = FastRound(c, h[k - 1])
  <2>1. 0 \in 0 .. n OBVIOUS
  <2>2. \A k \in 1 .. n : k \in 0 .. n /\ k # 0 OBVIOUS
  <2> QED BY <1>4, <1>d, <2>1, <2>2
<1>7. h[0] \in X[0] BY <1>6, <1>s
<1>8. ASSUME NEW k \in 1 .. n, h[k - 1] \in X[k - 1] PROVE h[k] \in X[k]
  <2>1. k \in 0 .. n /\ k - 1 \in 0 .. n OBVIOUS
  <2>2. h[k - 1] \in Y BY <1>8, <2>1
  <2> QED BY <1>1, <1>6, <2>1, <2>2
<1>9. \A k \in 0 .. n : h[k] \in X[k]
  <2> HIDE DEF X
  <2> QED BY <1>7, <1>8, LoopRule
<1>10. n \in 0 .. n OBVIOUS
<1>11. h[n] \in Y BY <1>9, <1>10
<1> QED BY <1>5, <1>11, <1>y

(* The level parameters a search takes.                                    *)
Params(p) == p.minMatch \in Nat /\ p.strength \in Nat /\ p.target \in Nat

(* What fast_block_generic derives from any level is what its rounds need. *)
LEMMA ContextGiven ==
  ASSUME NEW src \in Seq(Nat), NEW start, NEW end \in Nat, end <= Len(src), NEW p, Params(p),
         NEW attached \in BOOLEAN, NEW dict, attached => dict \in FastTable
  PROVE FastGiven(FastContext(src, start, end, p, attached, dict), src, end)
<1> DEFINE mls == Clamped(p.minMatch)
           w == IF attached THEN [Variant(p) EXCEPT !.log = 0] ELSE Variant(p)
           special == w.log = 14 /\ w.mls = 4
           confirm == IF w.mls = 8 THEN 8 ELSE 4
           step == IF special THEN 2 ELSE Larger(p.target, 1) + 1
           strength == IF special THEN 8 ELSE p.strength
           shift == IF special THEN 5
                    ELSE IF p.minMatch = 4 /\ p.target = 1 THEN Smaller(strength, 3) ELSE strength
           ilimit == Smaller(end - w.mls, Len(src) - 8)
           c == [src |-> src, end |-> end, mls |-> w.mls, window |-> p.window, confirm |-> confirm,
                 step |-> step, strength |-> strength, shift |-> shift, ilimit |-> ilimit,
                 attached |-> attached, dict |-> dict, prefix |-> start]
<1>0. FastContext(src, start, end, p, attached, dict) = c BY DEF FastContext
<1>1. mls \in 4 .. 8
  <2> DEFINE x == p.minMatch
  <2>1. x \in Nat BY DEF Params
  <2> HIDE DEF x
  <2>2. Smaller(Larger(x, 4), 8) \in 4 .. 8 BY <2>1 DEF Smaller, Larger
  <2> QED BY <2>2 DEF x, Clamped
<1>2. w.mls = mls
  <2>1. Variant(p).mls = mls BY DEF Variant
  <2>2. [Variant(p) EXCEPT !.log = 0].mls = mls BY DEF Variant
  <2> QED BY <2>1, <2>2
<1> HIDE DEF mls, w
<1>3. confirm \in {4, 8} /\ confirm <= mls BY <1>1, <1>2
<1>4. step \in Nat \ {0}
  <2>1. p.target \in Nat BY DEF Params
  <2>2. Larger(p.target, 1) \in Nat BY <2>1 DEF Larger
  <2> QED BY <2>2
<1>5. strength \in Nat BY DEF Params
<1> HIDE DEF strength
<1>6. shift \in Nat BY <1>5 DEF Smaller
<1>7. ilimit \in Int /\ ilimit + 4 <= end /\ ilimit + mls <= end /\ ilimit + 8 <= Len(src)
  <2>1. Len(src) \in Nat OBVIOUS
  <2> QED BY <1>1, <1>2, <2>1 DEF Smaller
<1> HIDE DEF confirm, step, shift, ilimit
<1>8. /\ c.src = src /\ c.end = end /\ c.mls = mls /\ c.confirm = confirm /\ c.step = step
      /\ c.strength = strength /\ c.shift = shift /\ c.ilimit = ilimit
      /\ c.attached = attached /\ c.dict = dict
  BY <1>2
<1> HIDE DEF c
<1>9. Within(Nat, c, src, end) BY <1>7, <1>8 DEF Within
<1>10. FastGiven(c, src, end) BY <1>1, <1>3, <1>4, <1>5, <1>6, <1>7, <1>8, <1>9 DEF FastGiven
<1> QED BY <1>0, <1>10

(* What a search of the bytes from start to end leaves: sequences that say *)
(* what the bytes up to its anchor are.                                    *)
Outcome(src, start, end, r) ==
  r.anchor \in 0 .. end /\ GoodReps(r.rep) /\ Told(src, start, r.anchor, r.seqs)

(* The state a search starts in.                                           *)
LEMMA StartsSought ==
  ASSUME NEW Ts, NEW src, NEW end \in Nat, NEW start \in 0 .. end, NEW i \in start .. end,
         NEW rep, GoodReps(rep), NEW table \in Ts
  PROVE State(i, start, rep, table, << >>)
          \in Sought({rep} \cup (Distances \X Distances), Ts, src, start, end)
<1> DEFINE s == State(i, start, rep, table, << >>)
<1>1. s.ip = i /\ s.anchor = start /\ s.rep = rep /\ s.table = table /\ s.seqs = << >> BY DEF State
<1>2. s = State(s.ip, s.anchor, s.rep, s.table, s.seqs) BY <1>1
<1> HIDE DEF s
<1>3. i \in Nat /\ start \in Nat /\ start <= i /\ i <= end OBVIOUS
<1>4. Told(src, start, start, << >>) BY <1>3, ToldNothing
<1>5. Searched(src, start, end, s) BY <1>1, <1>2, <1>3, <1>4 DEF Searched
<1>6. s \in Sought({rep} \cup (Distances \X Distances), Ts, src, start, end) BY <1>1, <1>5, SoughtIs
<1> QED BY <1>6 DEF s

(* What a search leaves.                                                   *)
LEMMA SoughtOutcome ==
  ASSUME NEW R, NEW Ts, NEW src, NEW end \in Nat, NEW start \in 0 .. end,
         NEW s \in Sought(R, Ts, src, start, end)
  PROVE Outcome(src, start, end, s)
<1>1. Searched(src, start, end, s) BY SoughtIs
<1>2. s.anchor \in Nat /\ s.ip \in Nat /\ s.anchor <= s.ip /\ s.ip <= end BY <1>1 DEF Searched
<1>3. s.anchor \in 0 .. end BY <1>2
<1> QED BY <1>1, <1>3 DEF Searched, Outcome

(* The fast finder's sequences say what the bytes they stand for are,      *)
(* whatever its tables hold.                                               *)
THEOREM FastSearchTells ==
  ASSUME NEW src \in Seq(Nat), NEW end \in 0 .. Len(src), NEW start \in 0 .. end, NEW p, Params(p),
         NEW rep, GoodReps(rep), NEW table \in FastTable, NEW attached \in BOOLEAN,
         NEW dict, attached => dict \in FastTable
  PROVE LET r == FastSearch(src, start, end, p, rep, table, attached, dict)
        IN  Outcome(src, start, end, r) /\ r.table \in FastTable
<1> DEFINE R == {rep} \cup (Distances \X Distances)
           s == State(start, start, rep, table, << >>)
           c == FastContext(src, start, end, p, attached, dict)
           r == FastSearch(src, start, end, p, rep, table, attached, dict)
<1>1. end \in Nat /\ end <= Len(src) /\ start \in Nat /\ start \in start .. end OBVIOUS
<1>2. s \in Sought(R, FastTable, src, start, end) BY <1>1, StartsSought
<1>3. FastGiven(c, src, end) BY <1>1, ContextGiven
<1>4. r = IF end - start < 8 THEN s ELSE FastRounds(c, s, (end - start) \div 2) BY DEF FastSearch, State
<1> HIDE DEF s, c
<1>5. r \in Sought(R, FastTable, src, start, end)
  <2>1. CASE end - start < 8 BY <1>2, <1>4, <2>1
  <2>2. CASE ~(end - start < 8)
    <3>1. (end - start) \div 2 \in Nat BY <1>1
    <3>2. FastRounds(c, s, (end - start) \div 2) \in Sought(R, FastTable, src, start, end)
      BY <1>1, <1>2, <1>3, <3>1, FastRoundsKeep
    <3> QED BY <1>4, <2>2, <3>2
  <2> QED BY <2>1, <2>2
<1> HIDE DEF r, R
<1>6. Outcome(src, start, end, r) BY <1>1, <1>5, SoughtOutcome
<1>7. r.table \in FastTable BY <1>5, SoughtIs
<1> QED BY <1>6, <1>7 DEF r

-----------------------------------------------------------------------------
(***************************************************************************)
(* The dfast finder.                                                       *)
(*                                                                         *)
(* Its tables need more: no position at or past the search, for m < ip is  *)
(* not tested.                                                             *)
(***************************************************************************)

(* A natural number shifted left is one.                                   *)
LEMMA RaisedNatural ==
  ASSUME NEW x \in Nat, NEW n \in Nat PROVE Raised(x, n) \in Nat
<1> DEFINE G == [y \in Nat |-> y * 2]
           Rec(f) == f = [i \in 0 .. n |-> IF i = 0 THEN x ELSE f[i - 1] * 2]
           h == CHOOSE f : Rec(f)
<1>1. \A y \in Nat : G[y] \in Nat /\ G[y] = y * 2 OBVIOUS
<1>2. PICK f \in [0 .. n -> Nat] : Follows(f, x, G, n)
  <2>1. Keeps(Nat, G) BY <1>1 DEF Keeps
  <2> HIDE DEF G
  <2> QED BY <2>1, LoopStays
<1>3. Rec(f)
  <2>1. \A k \in 1 .. n : k - 1 \in 0 .. n /\ f[k - 1] \in Nat OBVIOUS
  <2>2. \A k \in 1 .. n : f[k] = f[k - 1] * 2 BY <1>1, <1>2, <2>1 DEF Follows
  <2>3. f = [k \in 0 .. n |-> f[k]] OBVIOUS
  <2>5. \A k \in 0 .. n : k = 0 \/ k \in 1 .. n OBVIOUS
  <2>6. f[0] = x BY <1>2 DEF Follows
  <2> QED BY <2>6, <2>2, <2>3, <2>5
<1>4. Rec(h) BY <1>3
<1>5. Raised(x, n) = h[n] BY DEF Raised
<1> HIDE DEF h
<1> DEFINE X == [k \in 0 .. n |-> Nat]
<1>6. h[0] \in X[0] BY <1>4
<1>7. ASSUME NEW k \in 1 .. n, h[k - 1] \in X[k - 1] PROVE h[k] \in X[k]
  <2>1. k - 1 \in 0 .. n /\ h[k - 1] \in Nat BY <1>7
  <2>2. h[k] = h[k - 1] * 2 BY <1>4
  <2> QED BY <2>1, <2>2
<1>8. \A k \in 0 .. n : h[k] \in X[k]
  <2> HIDE DEF X
  <2> QED BY <1>6, <1>7, LoopRule
<1> QED BY <1>5, <1>8

(* The dfast tables whose positions are all below x.                       *)
Positions(x) == [0 .. Slots - 1 -> 0 .. x - 1]
PositionTables(x) == [short : Positions(x), long : Positions(x)]

(* PositionTables of positions below x are ones below any later y.                 *)
LEMMA TablesGrow ==
  ASSUME NEW x \in Nat, NEW y \in Nat, x <= y
  PROVE PositionTables(x) \subseteq PositionTables(y)
<1>1. 0 .. x - 1 \subseteq 0 .. y - 1 OBVIOUS
<1>2. Positions(x) \subseteq Positions(y) BY <1>1 DEF Positions
<1> QED BY <1>2 DEF PositionTables

(* A position below x stored in a table of such.                           *)
LEMMA StoredBelow ==
  ASSUME NEW x \in Nat, NEW t \in Positions(x), NEW src, NEW p \in 0 .. x - 1, NEW n
  PROVE Stored(t, src, p, n) \in Positions(x)
BY DEF Stored, Positions

(* The same in either of the dfast finder's two tables.                    *)
LEMMA TablesPut ==
  ASSUME NEW x \in Nat, NEW t \in PositionTables(x), NEW src, NEW p \in 0 .. x - 1, NEW n
  PROVE /\ [t EXCEPT !.short = Stored(@, src, p, n)] \in PositionTables(x)
        /\ [t EXCEPT !.long = Stored(@, src, p, n)] \in PositionTables(x)
<1> DEFINE a == t.short
           b == t.long
<1>1. a \in Positions(x) /\ b \in Positions(x) BY DEF PositionTables
<1>2. Stored(a, src, p, n) \in Positions(x) /\ Stored(b, src, p, n) \in Positions(x)
  BY <1>1, StoredBelow
<1> QED BY <1>2 DEF PositionTables

(* A position put into the short table.                                    *)
LEMMA PutShortKeeps ==
  ASSUME NEW R, NEW src, NEW start, NEW end, NEW c, NEW x \in Nat,
         NEW s \in Sought(R, PositionTables(x), src, start, end), NEW p \in 0 .. x - 1
  PROVE LET u == PutShort(c, s, p)
        IN  u \in Sought(R, PositionTables(x), src, start, end)
            /\ u.table \in PositionTables(x) /\ u = State(s.ip, s.anchor, s.rep, u.table, s.seqs)
<1> DEFINE t == [s.table EXCEPT !.short = Stored(@, c.src, p, c.mls)]
           u == PutShort(c, s, p)
<1>1. s.table \in PositionTables(x) BY SoughtIs
<1>2. t \in PositionTables(x) BY <1>1, TablesPut
<1>3. u = [s EXCEPT !.table = t] BY DEF PutShort
<1> HIDE DEF t, u
<1>4. u = State(s.ip, s.anchor, s.rep, t, s.seqs) /\ u \in Sought(R, PositionTables(x), src, start, end)
  BY <1>2, <1>3, TableKeeps
<1>5. u.table = t BY <1>4 DEF State
<1> QED BY <1>2, <1>4, <1>5 DEF u

(* A position put into the long table.                                     *)
LEMMA PutLongKeeps ==
  ASSUME NEW R, NEW src, NEW start, NEW end, NEW c, NEW x \in Nat,
         NEW s \in Sought(R, PositionTables(x), src, start, end), NEW p \in 0 .. x - 1
  PROVE LET u == PutLong(c, s, p)
        IN  u \in Sought(R, PositionTables(x), src, start, end)
            /\ u.table \in PositionTables(x) /\ u = State(s.ip, s.anchor, s.rep, u.table, s.seqs)
<1> DEFINE t == [s.table EXCEPT !.long = Stored(@, c.src, p, 8)]
           u == PutLong(c, s, p)
<1>1. s.table \in PositionTables(x) BY SoughtIs
<1>2. t \in PositionTables(x) BY <1>1, TablesPut
<1>3. u = [s EXCEPT !.table = t] BY DEF PutLong
<1> HIDE DEF t, u
<1>4. u = State(s.ip, s.anchor, s.rep, t, s.seqs) /\ u \in Sought(R, PositionTables(x), src, start, end)
  BY <1>2, <1>3, TableKeeps
<1>5. u.table = t BY <1>4 DEF State
<1> QED BY <1>2, <1>4, <1>5 DEF u

(* A position put into both.                                               *)
LEMMA PutBothKeeps ==
  ASSUME NEW R, NEW src, NEW start, NEW end, NEW c, NEW x \in Nat,
         NEW s \in Sought(R, PositionTables(x), src, start, end), NEW p \in 0 .. x - 1
  PROVE LET u == PutBoth(c, s, p)
        IN  u \in Sought(R, PositionTables(x), src, start, end)
            /\ u.table \in PositionTables(x) /\ u = State(s.ip, s.anchor, s.rep, u.table, s.seqs)
<1> DEFINE v == PutLong(c, s, p)
           u == PutShort(c, v, p)
<1>1. v \in Sought(R, PositionTables(x), src, start, end) /\ v = State(s.ip, s.anchor, s.rep, v.table, s.seqs)
  BY PutLongKeeps
<1> HIDE DEF v
<1>2. v.ip = s.ip /\ v.anchor = s.anchor /\ v.rep = s.rep /\ v.seqs = s.seqs BY <1>1, StateFields
<1>3. u \in Sought(R, PositionTables(x), src, start, end)
      /\ u.table \in PositionTables(x) /\ u = State(v.ip, v.anchor, v.rep, u.table, v.seqs)
  BY <1>1, PutShortKeeps
<1>4. PutBoth(c, s, p) = u BY DEF PutBoth, v
<1> HIDE DEF u
<1> QED BY <1>2, <1>3, <1>4

(* The states whose tables hold only positions below ip.                   *)
Ready(R, src, start, end) ==
  { s \in Sought(R, PositionTables(end), src, start, end) : s.table \in PositionTables(s.ip) }
ReadySettled(R, src, start, end) == { s \in Ready(R, src, start, end) : s.ip = s.anchor }

(* A state whose tables lie before it, as one with tables below a later x. *)
LEMMA ReadyIs ==
  ASSUME NEW R, NEW src, NEW start, NEW end \in Nat, NEW s \in Ready(R, src, start, end),
         NEW x \in Nat, s.ip <= x
  PROVE s \in Sought(R, PositionTables(x), src, start, end)
<1>1. s \in Sought(R, PositionTables(end), src, start, end) /\ s.table \in PositionTables(s.ip) BY DEF Ready
<1>2. Searched(src, start, end, s) /\ s.rep \in R BY <1>1, SoughtIs
<1>3. s.ip \in Nat BY <1>2 DEF Searched
<1>4. s.table \in PositionTables(x) BY <1>1, <1>3, TablesGrow
<1> QED BY <1>2, <1>4, SoughtIs

(* And back, once the search has come to x.                                *)
LEMMA ReadyNow ==
  ASSUME NEW R, NEW src, NEW start, NEW end \in Nat, NEW x \in Nat,
         NEW s \in Sought(R, PositionTables(x), src, start, end), x <= s.ip
  PROVE s \in Ready(R, src, start, end)
<1>1. Searched(src, start, end, s) /\ s.rep \in R /\ s.table \in PositionTables(x) BY SoughtIs
<1>2. s.ip \in Nat /\ s.ip <= end BY <1>1 DEF Searched
<1>3. x <= end BY <1>2
<1>4. s.table \in PositionTables(s.ip) BY <1>1, <1>2, TablesGrow
<1>5. s.table \in PositionTables(end) BY <1>1, <1>3, TablesGrow
<1>6. s \in Sought(R, PositionTables(end), src, start, end) BY <1>1, <1>5, SoughtIs
<1> QED BY <1>4, <1>6 DEF Ready

(* A round of the dfast finder's repeat loop.                              *)
LEMMA Rep1RoundKeeps ==
  ASSUME NEW R, Distances \X Distances \subseteq R, NEW src \in Seq(Nat), NEW start \in Nat,
         NEW end \in Nat, NEW c, Within(Nat, c, src, end),
         NEW s \in ReadySettled(R, src, start, end)
  PROVE Rep1Round(c, s) \in ReadySettled(R, src, start, end)
<1> DEFINE x == s.ip + 1
           put == PutBoth(c, s, s.ip)
           r == RepeatMatch(c, s, put, s.rep[2])
<1>1. s \in Ready(R, src, start, end) /\ s.ip = s.anchor BY DEF ReadySettled
<1>2. s.ip \in Nat
  <2>1. s \in Sought(R, PositionTables(end), src, start, end) BY <1>1 DEF Ready
  <2> QED BY <2>1, SoughtIs DEF Searched
<1>3. x \in Nat /\ s.ip <= x /\ s.ip \in 0 .. x - 1 BY <1>2
<1>5. CASE RepeatsHere(c, s, s.rep[2])
  <2> HIDE DEF x
  <2>1. s \in Sought(R, PositionTables(x), src, start, end) BY <1>1, <1>3, ReadyIs
  <2>2. put.table \in PositionTables(x) /\ put = State(s.ip, s.anchor, s.rep, put.table, s.seqs)
    BY <1>3, <2>1, PutBothKeeps
  <2> HIDE DEF put
  <2>3. r \in Sought(R, PositionTables(x), src, start, end) /\ r.ip = r.anchor /\ r.ip >= s.ip + 4
    BY <1>1, <1>5, <2>1, <2>2, RepeatStays
  <2>4. Rep1Round(c, s) = r BY <1>5 DEF Rep1Round, put
  <2> HIDE DEF r
  <2>5. r.ip \in Nat BY <2>3, SoughtIs DEF Searched
  <2>6. x <= r.ip BY <1>2, <2>3, <2>5 DEF x
  <2>7. r \in Ready(R, src, start, end) BY <1>3, <2>3, <2>6, ReadyNow
  <2> QED BY <2>3, <2>4, <2>7 DEF ReadySettled
<1>6. CASE ~RepeatsHere(c, s, s.rep[2]) BY <1>6 DEF Rep1Round
<1> QED BY <1>5, <1>6

(* All its rounds.                                                         *)
LEMMA Rep1LoopKeeps ==
  ASSUME NEW R, Distances \X Distances \subseteq R, NEW src \in Seq(Nat), NEW start \in Nat,
         NEW end \in Nat, NEW c, Within(Nat, c, src, end),
         NEW s \in ReadySettled(R, src, start, end)
  PROVE Rep1Loop(c, s) \in ReadySettled(R, src, start, end)
<1> DEFINE Y == ReadySettled(R, src, start, end)
           G == [y \in Y |-> Rep1Round(c, y)]
           n == (c.end - s.ip) \div 4
           Rec(f) == f = [k \in 0 .. n |-> IF k = 0 THEN s ELSE Rep1Round(c, f[k - 1])]
           h == CHOOSE f : Rec(f)
<1>0. n \in Nat
  <2>1. c.end = end BY DEF Within
  <2>2. s \in Sought(R, PositionTables(end), src, start, end) BY DEF ReadySettled, Ready
  <2>3. s.ip \in Nat /\ s.ip <= end BY <2>2, SoughtIs DEF Searched
  <2> DEFINE e == end - s.ip
  <2>4. e \in Nat BY <2>3
  <2> HIDE DEF e
  <2>5. e \div 4 \in Nat BY <2>4
  <2> QED BY <2>1, <2>5 DEF e
<1> HIDE DEF n
<1>1. \A y \in Y : Rep1Round(c, y) \in Y BY Rep1RoundKeeps
<1>s. s \in Y OBVIOUS
<1>i. \A k \in 1 .. n : k - 1 \in 0 .. n BY <1>0
<1>j. \A k \in 0 .. n : k = 0 \/ k \in 1 .. n BY <1>0
<1> HIDE DEF Y
<1>2. PICK f \in [0 .. n -> Y] : Follows(f, s, G, n)
  <2>1. Keeps(Y, G) BY <1>1 DEF Keeps
  <2> HIDE DEF G
  <2> QED BY <1>0, <1>s, <2>1, LoopStays
<1>3. Rec(f)
  <2>1. \A k \in 1 .. n : f[k - 1] \in Y BY <1>i
  <2>2. \A k \in 1 .. n : f[k] = Rep1Round(c, f[k - 1]) BY <1>2, <2>1 DEF Follows
  <2>3. f = [k \in 0 .. n |-> f[k]] OBVIOUS
  <2>4. f[0] = s BY <1>2 DEF Follows
  <2> QED BY <2>2, <2>3, <2>4, <1>j
<1>4. Rec(h) BY <1>3
<1>5. Rep1Loop(c, s) = h[n] BY DEF Rep1Loop, n
<1> HIDE DEF h, G
<1> DEFINE X == [k \in 0 .. n |-> Y]
<1>6. h[0] = s /\ \A k \in 1 .. n : h[k] = Rep1Round(c, h[k - 1])
  <2>1. 0 \in 0 .. n BY <1>0
  <2>2. \A k \in 1 .. n : k \in 0 .. n /\ k # 0 BY <1>0
  <2> QED BY <1>4, <2>1, <2>2
<1>7. h[0] \in X[0] BY <1>0, <1>6, <1>s
<1>8. ASSUME NEW k \in 1 .. n, h[k - 1] \in X[k - 1] PROVE h[k] \in X[k]
  <2>1. k \in 0 .. n /\ k - 1 \in 0 .. n BY <1>0
  <2>2. h[k - 1] \in Y BY <1>8, <2>1
  <2> QED BY <1>1, <1>6, <2>1, <2>2
<1>9. \A k \in 0 .. n : h[k] \in X[k]
  <2> HIDE DEF X
  <2> QED BY <1>0, <1>7, <1>8, LoopRule
<1>10. n \in 0 .. n BY <1>0
<1>11. h[n] \in Y BY <1>9, <1>10
<1> QED BY <1>5, <1>11 DEF Y

(* What the dfast finder is given.                                         *)
DfastGiven(c, src, end) ==
  /\ Within(Nat, c, src, end)
  /\ c.mls \in 4 .. 5 /\ c.low \in Nat /\ c.incr \in Nat
  /\ c.ilimit + 8 <= end

(* The dfast finder takes a match, and stores the four positions behind    *)
(* it: none of them lies ahead of the search.                              *)
LEMMA EmitDfastKeeps ==
  ASSUME NEW R, Distances \X Distances \subseteq R, NEW src \in Seq(Nat), NEW start \in Nat,
         NEW end \in Nat, NEW c, DfastGiven(c, src, end), NEW x \in Nat,
         NEW s \in Sought(R, PositionTables(x), src, start, end), NEW curr \in Nat, NEW at, NEW off, NEW len,
         Matches(s, src, end, at, off, len), x <= at + len, curr + 4 <= at + len,
         NEW rep \in R, GoodReps(rep)
  PROVE EmitDfast(c, s, curr, at, off, len, rep) \in ReadySettled(R, src, start, end)
<1> DEFINE q == [ll |-> at - s.anchor, off |-> off, ml |-> len]
           next == at + len
           out == [s EXCEPT !.seqs = Append(@, [ll |-> at - s.anchor, off |-> off, ml |-> len]),
                            !.ip = at + len, !.anchor = at + len, !.rep = rep]
           b == Behind(s, at, off, len, rep, s.table)
           p1 == PutBoth(c, out, curr + 2)
           p2 == PutLong(c, p1, next - 2)
           p3 == PutShort(c, p2, next - 1)
<1>1. Searched(src, start, end, s) /\ s.table \in PositionTables(x) BY SoughtIs
<1>2. end <= Len(src) /\ Within(Nat, c, src, end) BY DEF DfastGiven, Within
<1>m. /\ at \in Nat /\ off \in Distances /\ len \in Nat /\ len >= 4
      /\ s.anchor <= at /\ off <= at /\ at + len <= end /\ Equal(src, at, at - off, len)
  BY DEF Matches
<1>3. Searched(src, start, end, b)
  <2> HIDE DEF b
  <2> QED BY <1>1, <1>2, <1>m, MatchKeeps DEF b
<1>4. b.ip = next /\ b.anchor = next /\ b.rep = rep /\ b.table = s.table BY DEF Behind, State
<1>n. /\ next \in Nat /\ x <= next /\ next - 2 \in 0 .. next - 1 /\ next - 1 \in 0 .. next - 1
      /\ curr + 2 \in 0 .. next - 1
  BY <1>m
<1>6. out = b
  <2>1. s = State(s.ip, s.anchor, s.rep, s.table, s.seqs) BY <1>1 DEF Searched
  <2>2. out = Emitted(s, next, rep, q) BY DEF Emitted
  <2>3. b = State(next, next, rep, s.table, Append(s.seqs, q)) BY DEF Behind
  <2> HIDE DEF out, b, next, q
  <2> QED BY <2>1, <2>2, <2>3, StateMoved
<1>7. EmitDfast(c, s, curr, at, off, len, rep) = IF next > c.ilimit THEN out ELSE Rep1Loop(c, p3)
  <2> DEFINE m == out.ip
  <2>1. m = next BY <1>4, <1>6
  <2>2. EmitDfast(c, s, curr, at, off, len, rep)
          = IF m > c.ilimit THEN out
            ELSE Rep1Loop(c, PutShort(c, PutLong(c, p1, m - 2), m - 1))
    BY DEF EmitDfast, AfterMatch
  <2> HIDE DEF m, out
  <2> QED BY <2>1, <2>2
<1> HIDE DEF b, out, next
<1>5. b \in Sought(R, PositionTables(next), src, start, end)
  <2>1. b.table \in PositionTables(next) BY <1>1, <1>4, <1>n, TablesGrow
  <2> QED BY <1>3, <1>4, <2>1, SoughtIs
<1>8. /\ p1 \in Sought(R, PositionTables(next), src, start, end) /\ p1.ip = next /\ p1.anchor = next
  <2>1. p1 \in Sought(R, PositionTables(next), src, start, end)
        /\ p1 = State(b.ip, b.anchor, b.rep, p1.table, b.seqs)
    BY <1>5, <1>6, <1>n, PutBothKeeps
  <2> HIDE DEF p1
  <2> QED BY <1>4, <2>1, StateFields
<1> HIDE DEF p1
<1>9. /\ p2 \in Sought(R, PositionTables(next), src, start, end) /\ p2.ip = next /\ p2.anchor = next
  <2>1. p2 \in Sought(R, PositionTables(next), src, start, end)
        /\ p2 = State(p1.ip, p1.anchor, p1.rep, p2.table, p1.seqs)
    BY <1>8, <1>n, PutLongKeeps
  <2> HIDE DEF p2
  <2> QED BY <1>8, <2>1, StateFields
<1> HIDE DEF p2
<1>10. /\ p3 \in Sought(R, PositionTables(next), src, start, end) /\ p3.ip = next /\ p3.anchor = next
  <2>1. p3 \in Sought(R, PositionTables(next), src, start, end)
        /\ p3 = State(p2.ip, p2.anchor, p2.rep, p3.table, p2.seqs)
    BY <1>9, <1>n, PutShortKeeps
  <2> HIDE DEF p3
  <2> QED BY <1>9, <2>1, StateFields
<1> HIDE DEF p3
<1>11. ASSUME NEW u \in Sought(R, PositionTables(next), src, start, end), u.ip = next, u.anchor = next
       PROVE u \in ReadySettled(R, src, start, end)
  <2>1. next <= u.ip BY <1>11, <1>n
  <2>2. u \in Ready(R, src, start, end) BY <1>n, <2>1, ReadyNow
  <2> QED BY <1>11, <2>2 DEF ReadySettled
<1>12. p3 \in ReadySettled(R, src, start, end) BY <1>10, <1>11
<1>13. out \in ReadySettled(R, src, start, end) BY <1>4, <1>5, <1>6, <1>11
<1>14. Rep1Loop(c, p3) \in ReadySettled(R, src, start, end) BY <1>2, <1>12, Rep1LoopKeeps
<1> QED BY <1>7, <1>13, <1>14

(* A candidate that agrees with the bytes at p over n bytes.               *)
Candidate(c, src, end, p, m, n, len) ==
  /\ p \in Nat /\ m \in Nat /\ m < p /\ c.low <= m /\ n \in Nat /\ n >= 4 /\ p + n <= end
  /\ At(src, m, n) = At(src, p, n) /\ len = CountMatch(src, p + n, m + n, end) + n

(* Equal bytes at a position of a table make a candidate.                  *)
LEMMA AlikeCandidate ==
  ASSUME NEW src \in Seq(Nat), NEW end \in Nat, NEW c, DfastGiven(c, src, end),
         NEW p \in Nat, NEW m \in 0 .. p - 1, NEW n \in {4, 8}, p + n <= end, Alike(c, m, p, n)
  PROVE Candidate(c, src, end, p, m, n, LenOf(c, m, p, n))
<1>1. c.src = src /\ c.end = end BY DEF DfastGiven, Within
<1>2. c.low <= m /\ At(src, m, n) = At(src, p, n) BY <1>1 DEF Alike
<1>3. LenOf(c, m, p, n) = CountMatch(src, p + n, m + n, end) + n BY <1>1 DEF LenOf
<1>4. m \in Nat /\ m < p /\ n \in Nat /\ n >= 4 OBVIOUS
<1> QED BY <1>2, <1>3, <1>4 DEF Candidate

(* What either table holds at a hash lies below x.                         *)
LEMMA ShortBelow ==
  ASSUME NEW src \in Seq(Nat), NEW end \in Nat, NEW c, DfastGiven(c, src, end),
         NEW x \in Nat, NEW s, s.table \in PositionTables(x), NEW p \in Nat, p + 8 <= end
  PROVE Short(c, s, p) \in 0 .. x - 1 /\ Long(c, s, p) \in 0 .. x - 1
<1> DEFINE mls == c.mls
<1>1. c.src = src /\ end <= Len(src) /\ mls \in Nat /\ mls <= 8 BY SMTT(20) DEF DfastGiven, Within
<1> HIDE DEF mls
<1>2. p + mls <= Len(src) /\ p + 8 <= Len(src) /\ 8 \in Nat BY <1>1
<1>3. Slot(src, p, mls) \in 0 .. Slots - 1 /\ Slot(src, p, 8) \in 0 .. Slots - 1
  BY <1>1, <1>2, SlotIsSlot
<1>4. s.table.short \in Positions(x) /\ s.table.long \in Positions(x) BY DEF PositionTables
<1> QED BY <1>1, <1>3, <1>4 DEF Short, Long, Positions, mls

(* What the dfast finder finds is a candidate, at ip or a step ahead.      *)
LEMMA FoundFinds ==
  ASSUME NEW src \in Seq(Nat), NEW end \in Nat, NEW c, DfastGiven(c, src, end),
         NEW ip \in Nat, NEW ip1 \in Nat, ip < ip1, ip1 + 8 <= end,
         NEW before, before.table \in PositionTables(ip), NEW s, s.table \in PositionTables(ip + 1),
         Found(c, before, s, ip, ip1).p # NoMatch
  PROVE LET f == Found(c, before, s, ip, ip1)
        IN  f.p \in {ip, ip1} /\ \E n \in {4, 8} : Candidate(c, src, end, f.p, f.m, n, f.len)
<1> DEFINE l0 == Long(c, before, ip)
           s0 == Short(c, before, ip)
           l1 == Long(c, s, ip1)
           Cand(p, m, n) == [p |-> p, m |-> m, len |-> LenOf(c, m, p, n)]
           f == Found(c, before, s, ip, ip1)
           longer == LenOf(c, l1, ip1, 8) > LenOf(c, s0, ip, 4)
<1>0. ip + 8 <= end /\ ip + 4 <= end /\ ip + 1 \in Nat OBVIOUS
<1>1. l0 \in 0 .. ip - 1 /\ s0 \in 0 .. ip - 1 BY <1>0, ShortBelow
<1>2. l1 \in 0 .. ip1 - 1
  <2>1. l1 \in 0 .. (ip + 1) - 1 BY <1>0, ShortBelow
  <2> HIDE DEF l1
  <2> QED BY <2>1
<1>3. f = IF Alike(c, l0, ip, 8) THEN Cand(ip, l0, 8)
          ELSE IF ~Alike(c, s0, ip, 4) THEN [p |-> NoMatch]
          ELSE IF Alike(c, l1, ip1, 8) /\ longer
          THEN Cand(ip1, l1, 8) ELSE Cand(ip, s0, 4)
  BY DEF Found
<1> HIDE DEF l0, s0, l1, longer
<1>f. f.p # NoMatch OBVIOUS
<1> HIDE DEF f
<1>4. ASSUME NEW p \in {ip, ip1}, NEW m \in 0 .. p - 1, NEW n \in {4, 8}, p + n <= end,
             Alike(c, m, p, n), f = Cand(p, m, n)
      PROVE f.p \in {ip, ip1} /\ \E k \in {4, 8} : Candidate(c, src, end, f.p, f.m, k, f.len)
  <2>1. f.p = p /\ f.m = m /\ f.len = LenOf(c, m, p, n) BY <1>4
  <2>2. p \in Nat BY <1>4
  <2>3. Candidate(c, src, end, p, m, n, LenOf(c, m, p, n)) BY <1>4, <2>2, AlikeCandidate
  <2> QED BY <1>4, <2>1, <2>3
<1>5. CASE Alike(c, l0, ip, 8)
  <2>1. f = Cand(ip, l0, 8) BY <1>3, <1>5
  <2> HIDE DEF Cand
  <2> QED BY <1>0, <1>1, <1>4, <1>5, <2>1 DEF f
<1>6. CASE ~Alike(c, l0, ip, 8) /\ ~Alike(c, s0, ip, 4)
  <2>1. f = [p |-> NoMatch] BY <1>3, <1>6
  <2>2. f.p = NoMatch BY <2>1
  <2> QED BY <1>f, <2>2
<1>7. CASE ~Alike(c, l0, ip, 8) /\ Alike(c, s0, ip, 4) /\ Alike(c, l1, ip1, 8) /\ longer
  <2>1. f = Cand(ip1, l1, 8) BY <1>3, <1>7
  <2> HIDE DEF Cand
  <2> QED BY <1>2, <1>4, <1>7, <2>1 DEF f
<1>8. CASE ~Alike(c, l0, ip, 8) /\ Alike(c, s0, ip, 4) /\ ~(Alike(c, l1, ip1, 8) /\ longer)
  <2>1. f = Cand(ip, s0, 4) BY <1>3, <1>8
  <2> HIDE DEF Cand
  <2> QED BY <1>0, <1>1, <1>4, <1>8, <2>1 DEF f
<1> QED BY <1>5, <1>6, <1>7, <1>8

(* A dfast search between two rounds.                                      *)
DfastFronts(R, src, start, end, c) ==
  { f \in [s : Ready(R, src, start, end), ip1 : Nat, step : Nat, nextStep : Nat, on : BOOLEAN] :
      f.on => f.ip1 <= c.ilimit /\ f.ip1 = f.s.ip + f.step /\ f.step >= 1 }

(* The fields of a state whose tables lie before it.                       *)
LEMMA ReadyNatural ==
  ASSUME NEW R, NEW src, NEW start, NEW end \in Nat, NEW s \in Ready(R, src, start, end)
  PROVE /\ s.ip \in Nat /\ s.ip <= end /\ s.anchor \in Nat /\ s.anchor <= s.ip
        /\ s.rep \in R /\ GoodReps(s.rep) /\ s.table \in PositionTables(s.ip)
<1>1. s \in Sought(R, PositionTables(end), src, start, end) /\ s.table \in PositionTables(s.ip) BY DEF Ready
<1> QED BY <1>1, SoughtIs DEF Searched

(* The search goes on where a state stands.                                *)
LEMMA DfastFromKeeps ==
  ASSUME NEW R, NEW src \in Seq(Nat), NEW start \in Nat, NEW end \in Nat, NEW c,
         DfastGiven(c, src, end), NEW s \in Ready(R, src, start, end)
  PROVE DfastFrom(c, s) \in DfastFronts(R, src, start, end, c)
<1> DEFINE i == s.ip
           g == c.incr
           f == [s |-> s, ip1 |-> i + 1, step |-> 1, nextStep |-> i + g, on |-> i + 1 <= c.ilimit]
<1>1. i \in Nat BY ReadyNatural
<1>2. g \in Nat BY DEF DfastGiven
<1>3. DfastFrom(c, s) = f BY DEF DfastFrom
<1>4. f.s.ip = i OBVIOUS
<1> HIDE DEF i, g
<1>5. /\ f.s = s /\ f.ip1 = i + 1 /\ f.step = 1 /\ f.on = (i + 1 <= c.ilimit) OBVIOUS
<1>6. i + 1 \in Nat /\ i + g \in Nat BY <1>1, <1>2
<1>7. f \in [s : Ready(R, src, start, end), ip1 : Nat, step : Nat, nextStep : Nat, on : BOOLEAN]
  BY <1>6
<1> HIDE DEF f
<1>8. ASSUME f.on PROVE f.ip1 <= c.ilimit /\ f.ip1 = f.s.ip + f.step /\ f.step >= 1
  <2>1. i + 1 <= c.ilimit BY <1>5, <1>8
  <2>2. f.ip1 <= c.ilimit BY <1>5, <2>1
  <2>3. f.ip1 = f.s.ip + f.step BY <1>4, <1>5
  <2>4. 1 >= 1 OBVIOUS
  <2> QED BY <1>5, <2>2, <2>3, <2>4
<1> QED BY <1>3, <1>7, <1>8 DEF DfastFronts

(* The rep match one byte ahead.                                           *)
LEMMA DfastRepKeeps ==
  ASSUME NEW R, Distances \X Distances \subseteq R, NEW src \in Seq(Nat), NEW start \in Nat,
         NEW end \in Nat, NEW c, DfastGiven(c, src, end), NEW ip \in Nat,
         NEW t \in Sought(R, PositionTables(ip + 1), src, start, end), t.anchor <= ip, ip + 8 <= end,
         NEW r \in Distances, ip + 1 >= r, At(c.src, ip + 1 - r, 4) = At(c.src, ip + 1, 4)
  PROVE EmitDfast(c, t, ip, ip + 1, r, LenOf(c, ip + 1 - r, ip + 1, 4), t.rep)
          \in ReadySettled(R, src, start, end)
<1> DEFINE p == ip + 1
           m == p - r
           len == CountMatch(src, p + 4, m + 4, end) + 4
           a == t.anchor
<1>r. r \in Nat /\ r >= 1 BY DEF Distances
<1>1. c.src = src /\ c.end = end /\ end <= Len(src) BY DEF DfastGiven, Within
<1>2. a \in Nat /\ r \in Nat /\ r >= 1 /\ GoodReps(t.rep) /\ t.rep \in R
  BY <1>r, SoughtIs DEF Searched
<1>a. a \in Nat /\ a <= ip /\ r \in Nat /\ r >= 1 /\ r <= ip + 1 BY <1>2
<1>4. At(src, m, 4) = At(src, p, 4)
  <2> DEFINE x == ip + 1 - r
             y == ip + 1
  <2>1. At(c.src, x, 4) = At(c.src, y, 4) OBVIOUS
  <2>2. x = m /\ y = p BY <1>r
  <2> HIDE DEF x, y, m, p
  <2> QED BY <1>1, <2>1, <2>2
<1> HIDE DEF a
<1>3. p \in Nat /\ m \in Nat /\ m < p /\ p - m = r /\ a <= p /\ p + 4 <= end /\ ip + 1 = p
  BY <1>a
<1>z. 0 \in Nat /\ 0 <= m /\ 0 <= p - a /\ 4 \in Nat /\ 4 >= 4 BY <1>a
<1> HIDE DEF p, m
<1>5. Equal(src, p - 0, m - 0, 0) BY DEF Equal
<1>6. /\ Matches(t, src, end, p - 0, p - m, len + 0) /\ len \in Nat /\ len >= 4
  <2>1. t.anchor \in Nat /\ t.anchor <= p /\ 0 <= p - t.anchor BY <1>a, <1>3, <1>z DEF a
  <2> QED BY <1>1, <1>3, <1>4, <1>5, <1>z, <2>1, FoundMatches
<1>7. LenOf(c, m, p, 4) = len BY <1>1 DEF LenOf
<1> HIDE DEF len
<1>8. Matches(t, src, end, p, r, len)
  <2>1. p - 0 = p /\ len + 0 = len BY <1>3, <1>6
  <2> QED BY <1>3, <1>6, <2>1 DEF Distances
<1>9. p \in Nat /\ p <= p + len /\ ip + 4 <= p + len BY <1>3, <1>6
<1>10. EmitDfast(c, t, ip, p, r, len, t.rep) \in ReadySettled(R, src, start, end)
  <2>1. t \in Sought(R, PositionTables(p), src, start, end) BY <1>3
  <2> QED BY <1>2, <1>8, <1>9, <2>1, EmitDfastKeeps
<1>11. LenOf(c, m, ip + 1, 4) = len /\ ip + 1 = p /\ m = ip + 1 - r BY <1>3, <1>7 DEF m, p
<1> QED BY <1>10, <1>11

(* The match found at ip or a step ahead.                                  *)
LEMMA DfastFoundKeeps ==
  ASSUME NEW R, Distances \X Distances \subseteq R, NEW src \in Seq(Nat), NEW start \in Nat,
         NEW end \in Nat, NEW c, DfastGiven(c, src, end), NEW ip \in Nat,
         NEW u \in Sought(R, PositionTables(ip + 4), src, start, end), u.anchor <= ip,
         NEW f, NEW n, Candidate(c, src, end, f.p, f.m, n, f.len), ip <= f.p,
         NEW most, most = Smaller(f.p - u.anchor, f.m - c.low),
         NEW back, back = CountBack(c.src, f.p, f.m, most)
  PROVE EmitDfast(c, u, ip, f.p - back, f.p - f.m, f.len + back, << f.p - f.m, u.rep[1] >>)
          \in ReadySettled(R, src, start, end)
<1> DEFINE p == f.p
           m == f.m
           len == CountMatch(src, p + n, m + n, end) + n
           rep == << p - m, u.rep[1] >>
           a == u.anchor
           low == c.low
<1>1. c.src = src /\ c.end = end /\ end <= Len(src) /\ low \in Nat BY DEF DfastGiven, Within
<1>2. a \in Nat /\ u.rep[1] \in Distances BY SoughtIs DEF Searched, GoodReps
<1>3. /\ p \in Nat /\ m \in Nat /\ m < p /\ low <= m /\ n \in Nat /\ n >= 4 /\ p + n <= end
      /\ At(src, m, n) = At(src, p, n) /\ f.len = len
  BY DEF Candidate
<1>4. most = Smaller(p - a, m - low) /\ back = CountBack(src, p, m, most) /\ ip <= p /\ a <= ip
  BY <1>1
<1> HIDE DEF p, m, a, low
<1>5. most \in Nat /\ most <= m /\ most <= p - a
  <2>0. p \in Nat /\ m \in Nat /\ low \in Nat /\ low <= m /\ a \in Nat /\ a <= ip /\ ip <= p
    BY <1>1, <1>2, <1>3, <1>4
  <2>1. p - a \in Nat /\ m - low \in Nat BY <2>0
  <2>2. m - low <= m BY <1>1, <1>3
  <2> QED BY <1>4, <2>1, <2>2, <1>3 DEF Smaller
<1>6. back \in 0 .. most /\ Equal(src, p - back, m - back, back)
  <2>1. p <= Len(src) BY <1>1, <1>3
  <2> QED BY <1>3, <1>4, <1>5, <2>1, CountBackCounts
<1>7. Matches(u, src, end, p - back, p - m, len + back) /\ len \in Nat /\ len >= 4
  <2>1. back \in Nat /\ back <= m /\ back <= p - a
    <3>1. back \in Nat /\ back <= most BY <1>5, <1>6
    <3>2. p \in Nat /\ m \in Nat /\ a \in Nat BY <1>2, <1>3
    <3> QED BY <3>1, <3>2, <1>5
  <2>2. u.anchor \in Nat /\ u.anchor <= p /\ back <= p - u.anchor
    <3>1. a <= p BY <1>2, <1>3, <1>4
    <3> QED BY <1>2, <2>1, <3>1 DEF a
  <2>3. /\ p \in Nat /\ m \in Nat /\ n \in Nat /\ n >= 4 /\ m < p /\ p + n <= end /\ end <= Len(src)
        /\ At(src, m, n) = At(src, p, n) /\ Equal(src, p - back, m - back, back)
    BY <1>1, <1>3, <1>6
  <2> HIDE DEF len
  <2>4. /\ Matches(u, src, end, p - back, p - m, CountMatch(src, p + n, m + n, end) + n + back)
        /\ CountMatch(src, p + n, m + n, end) + n \in Nat
        /\ CountMatch(src, p + n, m + n, end) + n >= 4
    BY <2>1, <2>2, <2>3, FoundMatches
  <2> QED BY <2>4 DEF len
<1>8. rep \in R /\ GoodReps(rep)
  <2>1. p - m \in Distances BY <1>3 DEF Distances
  <2> QED BY <1>2, <2>1, TwoReps
<1> HIDE DEF len, rep
<1> DEFINE at == p - back
           off == p - m
           l == len + back
<1>9. ip + 4 \in Nat /\ ip + 4 <= at + l
  <2>1. at + l = p + len BY <1>3, <1>5, <1>6, <1>7
  <2>2. ip + 4 <= p + len BY <1>3, <1>4, <1>7
  <2> QED BY <2>1, <2>2
<1>10. Matches(u, src, end, at, off, l) BY <1>7
<1> HIDE DEF at, off, l
<1>11. EmitDfast(c, u, ip, at, off, l, rep) \in ReadySettled(R, src, start, end)
  BY <1>8, <1>9, <1>10, EmitDfastKeeps
<1> QED BY <1>3, <1>11 DEF at, off, l, p, m, rep

(* A round of the dfast finder: the repeat offset, a match, or the step    *)
(* ahead.                                                                  *)
LEMMA DfastProbesKeeps ==
  ASSUME NEW R, Distances \X Distances \subseteq R, NEW src \in Seq(Nat), NEW start \in Nat,
         NEW end \in Nat, NEW c, DfastGiven(c, src, end),
         NEW s \in Ready(R, src, start, end), NEW step \in Nat, step >= 1, NEW nextStep \in Nat,
         NEW ip1 \in Nat, ip1 = s.ip + step, ip1 <= c.ilimit
  PROVE DfastProbes(c, s, ip1, step, nextStep) \in DfastFronts(R, src, start, end, c)
<1> DEFINE F == DfastFronts(R, src, start, end, c)
           ip == s.ip
           t  == PutBoth(c, s, ip)
           r  == s.rep[1]
           f  == Found(c, s, t, ip, ip1)
           most == Smaller(f.p - s.anchor, f.m - c.low)
           back == CountBack(c.src, f.p, f.m, most)
           grown == IF ip1 >= nextStep THEN 1 ELSE 0
           u == IF step < 4 THEN PutLong(c, t, ip1) ELSE t
           rep == ip + 1 >= r /\ At(c.src, ip + 1 - r, 4) = At(c.src, ip + 1, 4)
           last == [s |-> [t EXCEPT !.ip = ip1], ip1 |-> ip1 + step + grown, step |-> step + grown,
                    nextStep |-> nextStep + grown * c.incr, on |-> ip1 + step + grown <= c.ilimit]
<1>0. DfastProbes(c, s, ip1, step, nextStep) =
        IF rep
        THEN DfastFrom(c, EmitDfast(c, t, ip, ip + 1, r, LenOf(c, ip + 1 - r, ip + 1, 4), s.rep))
        ELSE IF f.p # NoMatch
        THEN DfastFrom(c, EmitDfast(c, u, ip, f.p - back, f.p - f.m, f.len + back,
                                    << f.p - f.m, r >>))
        ELSE last
  BY DEF DfastProbes
<1>1. /\ ip \in Nat /\ s.anchor \in Nat /\ s.anchor <= ip /\ r \in Distances /\ s.table \in PositionTables(ip)
  BY ReadyNatural DEF GoodReps
<1>2. ip1 = ip + step OBVIOUS
<1> HIDE DEF ip
<1>3. ip < ip1 /\ ip1 + 8 <= end /\ ip + 8 <= end /\ ip1 <= end
  <2> DEFINE il == c.ilimit
  <2>1. il \in Int /\ il + 8 <= end /\ ip1 <= il BY DEF DfastGiven, Within
  <2> HIDE DEF il
  <2>2. ip < ip1 BY <1>1, <1>2
  <2> QED BY <1>1, <2>1, <2>2
<1>4. /\ t \in Sought(R, PositionTables(ip + 1), src, start, end) /\ t.table \in PositionTables(ip + 1)
      /\ t.ip = ip /\ t.anchor = s.anchor /\ t.rep = s.rep
  <2> DEFINE x == ip + 1
  <2>1. x \in Nat /\ s.ip <= x /\ ip \in 0 .. x - 1 BY <1>1 DEF ip
  <2> HIDE DEF x
  <2>2. s \in Sought(R, PositionTables(x), src, start, end) BY <2>1, ReadyIs
  <2>3. t \in Sought(R, PositionTables(x), src, start, end)
        /\ t.table \in PositionTables(x) /\ t = State(s.ip, s.anchor, s.rep, t.table, s.seqs)
    BY <2>1, <2>2, PutBothKeeps
  <2> HIDE DEF t
  <2>4. t.ip = s.ip /\ t.anchor = s.anchor /\ t.rep = s.rep BY <2>3, StateFields
  <2> QED BY <2>3, <2>4 DEF x, ip
<1>5. ASSUME NEW e \in ReadySettled(R, src, start, end) PROVE DfastFrom(c, e) \in F
  BY DfastFromKeeps DEF ReadySettled
<1> HIDE DEF t, F
<1>10. CASE rep
  <2>1. EmitDfast(c, t, ip, ip + 1, r, LenOf(c, ip + 1 - r, ip + 1, 4), t.rep)
          \in ReadySettled(R, src, start, end)
    <3>1. t.anchor <= ip BY <1>1, <1>4
    <3>2. ip + 1 >= r /\ At(c.src, ip + 1 - r, 4) = At(c.src, ip + 1, 4) BY <1>10
    <3> HIDE DEF r
    <3> QED BY <1>1, <1>3, <1>4, <3>1, <3>2, DfastRepKeeps
  <2>2. t.rep = s.rep BY <1>4
  <2> HIDE DEF rep, last, f, r
  <2> QED BY <1>0, <1>5, <1>10, <2>1, <2>2 DEF F
<1>11. CASE ~rep /\ f.p # NoMatch
  <2>1. f.p \in {ip, ip1} /\ \E n \in {4, 8} : Candidate(c, src, end, f.p, f.m, n, f.len)
    <3>1. f.p # NoMatch BY <1>11
    <3> HIDE DEF rep, last, u, most, back, r
    <3>2. LET g == Found(c, s, t, ip, ip1)
          IN  g.p \in {ip, ip1} /\ \E n \in {4, 8} : Candidate(c, src, end, g.p, g.m, n, g.len)
      BY <1>1, <1>3, <1>4, <3>1, FoundFinds, SMTT(20)
    <3> QED BY <3>2
  <2>2. PICK n \in {4, 8} : Candidate(c, src, end, f.p, f.m, n, f.len) BY <2>1
  <2>3. ip <= f.p BY <1>1, <1>3, <2>1
  <2>4. u \in Sought(R, PositionTables(ip + 4), src, start, end) /\ u.anchor = s.anchor /\ u.rep = s.rep
    <3> DEFINE x == ip + 4
    <3>1. x \in Nat /\ t.ip <= x /\ t.ip \in Nat /\ ip + 1 <= x /\ ip + 1 \in Nat BY <1>1, <1>4
    <3>2. step < 4 => ip1 \in 0 .. x - 1 BY <1>1, <1>2
    <3> HIDE DEF x
    <3>3. t \in Sought(R, PositionTables(x), src, start, end)
      <4>1. Searched(src, start, end, t) /\ t.rep \in R BY <1>4, SoughtIs
      <4>2. t.table \in PositionTables(x) BY <1>4, <3>1, TablesGrow
      <4> QED BY <4>1, <4>2, SoughtIs
    <3>4. CASE step < 4
      <4> DEFINE v == PutLong(c, t, ip1)
      <4>1. v \in Sought(R, PositionTables(x), src, start, end)
            /\ v = State(t.ip, t.anchor, t.rep, v.table, t.seqs)
        BY <3>1, <3>2, <3>3, <3>4, PutLongKeeps
      <4>2. u = v BY <3>4
      <4> HIDE DEF v, u
      <4>3. v.anchor = t.anchor /\ v.rep = t.rep BY <4>1, StateFields
      <4> QED BY <1>4, <4>1, <4>2, <4>3 DEF x
    <3>5. CASE ~(step < 4)
      <4>1. u = t BY <3>5
      <4> QED BY <1>4, <3>3, <4>1 DEF x
    <3> QED BY <3>4, <3>5
  <2> HIDE DEF u, f
  <2>5. u.anchor <= ip /\ most = Smaller(f.p - u.anchor, f.m - c.low)
    BY <1>1, <2>4
  <2> HIDE DEF most
  <2>6. back = CountBack(c.src, f.p, f.m, most) OBVIOUS
  <2> HIDE DEF back
  <2>7. EmitDfast(c, u, ip, f.p - back, f.p - f.m, f.len + back, << f.p - f.m, u.rep[1] >>)
          \in ReadySettled(R, src, start, end)
    BY <1>1, <2>2, <2>3, <2>4, <2>5, <2>6, DfastFoundKeeps
  <2>8. u.rep[1] = r BY <2>4
  <2> HIDE DEF r, rep, last
  <2> QED BY <1>0, <1>5, <1>11, <2>7, <2>8 DEF F
<1>12. CASE ~rep /\ ~(f.p # NoMatch)
  <2> DEFINE a == [t EXCEPT !.ip = ip1]
             g == c.incr
             st == step + grown
             i2 == ip1 + step + grown
             ns == nextStep + grown * g
             new == [s |-> a, ip1 |-> i2, step |-> st, nextStep |-> ns, on |-> i2 <= c.ilimit]
  <2>1. a \in Ready(R, src, start, end) /\ a.ip = ip1
    <3>1. t.ip <= ip1 /\ ip + 1 <= ip1 /\ ip + 1 \in Nat BY <1>1, <1>3, <1>4
    <3>2. a \in Sought(R, PositionTables(ip + 1), src, start, end)
          /\ a = State(ip1, t.anchor, t.rep, t.table, t.seqs)
      BY <1>3, <1>4, <3>1, AheadKeeps
    <3> HIDE DEF a
    <3>3. a.ip = ip1 BY <3>2, StateFields
    <3>4. a \in Ready(R, src, start, end) BY <3>1, <3>2, <3>3, ReadyNow
    <3> QED BY <3>3, <3>4
  <2>2. grown \in {0, 1} /\ g \in Nat BY DEF DfastGiven
  <2> HIDE DEF grown, g, a
  <2>n. grown \in Nat BY <2>2
  <2>3. st \in Nat /\ i2 \in Nat /\ i2 = ip1 + st /\ st >= 1
    <3> HIDE DEF rep, last, u, most, back, f, r
    <3> QED BY <2>n
  <2>4. ns \in Nat
    <3>1. CASE grown = 0 BY <3>1, <2>2
    <3>2. CASE grown = 1 BY <3>2, <2>2
    <3> QED BY <2>2, <3>1, <3>2
  <2>5. last = new BY DEF a, g
  <2> HIDE DEF last, i2, st, ns
  <2>6. new \in [s : Ready(R, src, start, end), ip1 : Nat, step : Nat, nextStep : Nat, on : BOOLEAN]
    <3>1. (i2 <= c.ilimit) \in BOOLEAN OBVIOUS
    <3> QED BY <2>1, <2>3, <2>4, <3>1
  <2>7. new.s = a /\ new.ip1 = i2 /\ new.step = st /\ new.on = (i2 <= c.ilimit) OBVIOUS
  <2> HIDE DEF new
  <2>8. ASSUME new.on PROVE new.ip1 <= c.ilimit /\ new.ip1 = new.s.ip + new.step /\ new.step >= 1
    <3>1. i2 <= c.ilimit BY <2>7, <2>8
    <3> QED BY <2>1, <2>3, <2>7, <3>1
  <2>9. new \in F BY <2>6, <2>8 DEF DfastFronts, F
  <2> HIDE DEF f, rep
  <2>10. DfastProbes(c, s, ip1, step, nextStep) = last BY <1>0, <1>12
  <2> QED BY <2>5, <2>9, <2>10 DEF F
<1> QED BY <1>10, <1>11, <1>12 DEF F

(* All its rounds.                                                         *)
LEMMA DfastRoundsKeep ==
  ASSUME NEW R, Distances \X Distances \subseteq R, NEW src \in Seq(Nat), NEW start \in Nat,
         NEW end \in Nat, NEW c, DfastGiven(c, src, end),
         NEW s \in Ready(R, src, start, end), NEW n \in Nat
  PROVE DfastRounds(c, s, n) \in Ready(R, src, start, end)
<1> DEFINE Y == DfastFronts(R, src, start, end, c)
           G == [y \in Y |-> DfastRound(c, y)]
           d == DfastFrom(c, s)
           Rec(f) == f = [k \in 0 .. n |-> IF k = 0 THEN DfastFrom(c, s) ELSE DfastRound(c, f[k - 1])]
           h == CHOOSE f : Rec(f)
<1>1. \A y \in Y : DfastRound(c, y) \in Y
  <2> TAKE y \in Y
  <2>1. CASE y.on
    <3>1. /\ y.s \in Ready(R, src, start, end) /\ y.ip1 \in Nat /\ y.step \in Nat /\ y.nextStep \in Nat
      BY DEF DfastFronts
    <3>2. y.ip1 <= c.ilimit /\ y.ip1 = y.s.ip + y.step /\ y.step >= 1 BY <2>1 DEF DfastFronts
    <3>3. DfastProbes(c, y.s, y.ip1, y.step, y.nextStep) \in Y BY <3>1, <3>2, DfastProbesKeeps
    <3> QED BY <2>1, <3>3 DEF DfastRound
  <2>2. CASE ~y.on BY <2>2 DEF DfastRound
  <2> QED BY <2>1, <2>2
<1>s. d \in Y BY DfastFromKeeps
<1>d. DfastFrom(c, s) = d OBVIOUS
<1>y. \A y \in Y : y.s \in Ready(R, src, start, end) BY DEF DfastFronts
<1>i. \A k \in 1 .. n : k - 1 \in 0 .. n OBVIOUS
<1>j. \A k \in 0 .. n : k = 0 \/ k \in 1 .. n OBVIOUS
<1> HIDE DEF Y, d
<1>2. PICK f \in [0 .. n -> Y] : Follows(f, d, G, n)
  <2>1. Keeps(Y, G) BY <1>1 DEF Keeps
  <2> HIDE DEF G
  <2> QED BY <1>s, <2>1, LoopStays
<1>3. Rec(f)
  <2>1. \A k \in 1 .. n : f[k - 1] \in Y BY <1>i
  <2>2. \A k \in 1 .. n : f[k] = DfastRound(c, f[k - 1]) BY <1>2, <2>1 DEF Follows
  <2>3. f = [k \in 0 .. n |-> f[k]] OBVIOUS
  <2>4. f[0] = DfastFrom(c, s) BY <1>2, <1>d DEF Follows
  <2> QED BY <2>2, <2>3, <2>4, <1>j
<1>4. Rec(h) BY <1>3
<1>5. DfastRounds(c, s, n) = h[n].s BY DEF DfastRounds
<1> HIDE DEF h, G
<1> DEFINE X == [k \in 0 .. n |-> Y]
<1>6. h[0] = d /\ \A k \in 1 .. n : h[k] = DfastRound(c, h[k - 1])
  <2>1. 0 \in 0 .. n OBVIOUS
  <2>2. \A k \in 1 .. n : k \in 0 .. n /\ k # 0 OBVIOUS
  <2> QED BY <1>4, <1>d, <2>1, <2>2
<1>7. h[0] \in X[0] BY <1>6, <1>s
<1>8. ASSUME NEW k \in 1 .. n, h[k - 1] \in X[k - 1] PROVE h[k] \in X[k]
  <2>1. k \in 0 .. n /\ k - 1 \in 0 .. n OBVIOUS
  <2>2. h[k - 1] \in Y BY <1>8, <2>1
  <2> QED BY <1>1, <1>6, <2>1, <2>2
<1>9. \A k \in 0 .. n : h[k] \in X[k]
  <2> HIDE DEF X
  <2> QED BY <1>7, <1>8, LoopRule
<1>10. n \in 0 .. n OBVIOUS
<1>11. h[n] \in Y BY <1>9, <1>10
<1> QED BY <1>5, <1>11, <1>y

(* Where the dfast search of a block begins: position 0 is left out.       *)
First(start) == start + (IF start = 0 THEN 1 ELSE 0)

(* The dfast finder's sequences say what the bytes they stand for are, and *)
(* its tables stay below the next block.                                   *)
THEOREM DfastSearchTells ==
  ASSUME NEW src \in Seq(Nat), NEW end \in 0 .. Len(src), NEW start \in 0 .. end, NEW p,
         p.minMatch \in Nat, p.window \in Nat, p.strength \in Nat,
         NEW rep, GoodReps(rep), NEW table \in PositionTables(First(start))
  PROVE LET r == DfastSearch(src, start, end, p, rep, table)
        IN  Outcome(src, start, end, r) /\ r.table \in PositionTables(First(end))
<1> DEFINE R == {rep} \cup (Distances \X Distances)
           i == First(start)
           s == State(start, start, rep, table, << >>)
           b == State(i, start, rep, table, << >>)
           mls == ShortMls(p.minMatch)
           il == Smaller(end, Len(src)) - 8
           low == Larger(end - p.window, 0)
           g == Raised(1, p.strength)
           c == [src |-> src, end |-> end, mls |-> mls, ilimit |-> il, incr |-> g, low |-> low]
           r == DfastSearch(src, start, end, p, rep, table)
<1>1. /\ end \in Nat /\ end <= Len(src) /\ start \in Nat /\ start <= end /\ start \in start .. end
      /\ Len(src) \in Nat
  OBVIOUS
<1>2. /\ i \in Nat /\ start <= i /\ First(end) \in Nat /\ end <= First(end) /\ i <= First(end)
      /\ (~(end - start < 16) => i \in start .. end)
  BY <1>1 DEF First
<1>3. r = IF end - start < 16 \/ Len(src) < 16 THEN s ELSE DfastRounds(c, b, end - start - 8)
  <2>1. [ip |-> start, anchor |-> start, rep |-> rep, table |-> table, seqs |-> << >>] = s
    BY DEF State
  <2>2. [s EXCEPT !.ip = i] = b
    <3>1. s = State(start, start, rep, table, << >>) OBVIOUS
    <3> HIDE DEF i, s
    <3> QED BY <3>1, StateFields
  <2> QED BY <2>1, <2>2 DEF DfastSearch, First
<1>4. DfastGiven(c, src, end)
  <2>1. mls \in 4 .. 5
    <3> DEFINE x == p.minMatch
    <3>1. x \in Nat OBVIOUS
    <3> HIDE DEF x
    <3>2. Smaller(Larger(x, 4), 5) \in 4 .. 5 BY <3>1 DEF Smaller, Larger
    <3> QED BY <3>2 DEF x, ShortMls
  <2>2. il \in Int /\ il + 8 <= end /\ il + 4 <= end BY <1>1 DEF Smaller
  <2>3. low \in Nat
    <3> DEFINE w == p.window
    <3>1. w \in Nat OBVIOUS
    <3> HIDE DEF w
    <3>2. Larger(end - w, 0) \in Nat BY <1>1, <3>1 DEF Larger
    <3> QED BY <3>2 DEF w
  <2>4. g \in Nat
    <3> DEFINE n == p.strength
    <3>1. n \in Nat /\ 1 \in Nat OBVIOUS
    <3> HIDE DEF n
    <3>2. Raised(1, n) \in Nat BY <3>1, RaisedNatural
    <3> QED BY <3>2 DEF n
  <2> HIDE DEF mls, il, low, g
  <2>5. /\ c.src = src /\ c.end = end /\ c.mls = mls /\ c.ilimit = il /\ c.low = low /\ c.incr = g
    OBVIOUS
  <2> HIDE DEF c
  <2>6. Within(Nat, c, src, end) BY <1>1, <2>2, <2>5 DEF Within
  <2> QED BY <2>1, <2>2, <2>3, <2>4, <2>5, <2>6 DEF DfastGiven
<1> HIDE DEF c, i
<1>s. s \in Sought(R, PositionTables(First(start)), src, start, end)
  BY <1>1, StartsSought
<1>5. CASE end - start < 16 \/ Len(src) < 16
  <2>1. r = s BY <1>3, <1>5
  <2>2. Outcome(src, start, end, s)
    <3> HIDE DEF s, R
    <3> QED BY <1>1, <1>s, SoughtOutcome
  <2>3. s.table = table BY DEF State
  <2>4. table \in PositionTables(First(end)) BY <1>2, TablesGrow DEF i
  <2> HIDE DEF r, s
  <2> QED BY <2>1, <2>2, <2>3, <2>4 DEF r
<1>6. CASE ~(end - start < 16 \/ Len(src) < 16)
  <2>1. i \in start .. end /\ table \in PositionTables(i) BY <1>2, <1>6 DEF i
  <2>2. b \in Sought(R, PositionTables(i), src, start, end)
    <3> HIDE DEF b
    <3> QED BY <1>1, <2>1, StartsSought DEF b
  <2>3. b.ip = i BY DEF State
  <2> HIDE DEF b, s
  <2>4. b \in Ready(R, src, start, end)
    <3>1. i <= b.ip BY <1>2, <2>3
    <3> QED BY <1>1, <1>2, <2>2, <3>1, ReadyNow
  <2>5. r = DfastRounds(c, b, end - start - 8) BY <1>3, <1>6
  <2>6. end - start - 8 \in Nat BY <1>1, <1>6
  <2> HIDE DEF r
  <2>7. r \in Ready(R, src, start, end) BY <1>1, <1>4, <2>4, <2>5, <2>6, DfastRoundsKeep
  <2> HIDE DEF R
  <2>8. r.ip <= First(end) /\ r.ip \in Nat
    <3>1. r.ip <= end /\ r.ip \in Nat BY <1>1, <2>7, ReadyNatural
    <3> QED BY <1>1, <1>2, <3>1
  <2>9. r \in Sought(R, PositionTables(First(end)), src, start, end) BY <1>1, <1>2, <2>7, <2>8, ReadyIs
  <2>10. Outcome(src, start, end, r) BY <1>1, <2>9, SoughtOutcome
  <2>11. r.table \in PositionTables(First(end)) BY <2>9, SoughtIs
  <2> QED BY <2>10, <2>11 DEF r
<1> QED BY <1>5, <1>6

-----------------------------------------------------------------------------
(***************************************************************************)
(* From told to reproduced.                                                *)
(*                                                                         *)
(* The block's literals, as the encoder collects them, and the decoder's   *)
(* execution.                                                              *)
(***************************************************************************)

(* The bytes y carry the literals of the first k sequences, in their places. *)
Carries(S, src, at, lp, seqs, k, y) ==
  /\ y \in Seq(S)
  /\ \A i \in 1 .. k : /\ lp[i - 1] + seqs[i].ll <= Len(y)
                       /\ \A j \in 1 .. seqs[i].ll : y[lp[i - 1] + j] = src[at[i - 1] + j]

(* Literals collected so far stay where they are when more are appended.   *)
LEMMA CarriesOn ==
  ASSUME NEW S, NEW src, NEW seqs \in Seq(Sequence), NEW at, NEW lp \in [0 .. Len(seqs) -> Nat],
         NEW k \in 0 .. Len(seqs), NEW y, Carries(S, src, at, lp, seqs, k, y), NEW z \in Seq(S)
  PROVE Carries(S, src, at, lp, seqs, k, y \o z)
<1> DEFINE v == y \o z
<1>1. y \in Seq(S) BY DEF Carries
<1>2. v \in Seq(S) /\ Len(v) = Len(y) + Len(z) /\ \A x \in 1 .. Len(y) : v[x] = y[x]
  BY <1>1, JoinFacts
<1> HIDE DEF v
<1>3. ASSUME NEW i \in 1 .. k
      PROVE /\ lp[i - 1] + seqs[i].ll <= Len(v)
            /\ \A j \in 1 .. seqs[i].ll : v[lp[i - 1] + j] = src[at[i - 1] + j]
  <2> DEFINE a == lp[i - 1]
             ll == seqs[i].ll
  <2>1. a \in Nat BY <1>3
  <2>2. ll \in Nat
    <3>1. seqs[i] \in Sequence BY <1>3
    <3> QED BY <3>1 DEF Sequence
  <2>3. a + ll <= Len(y) /\ \A j \in 1 .. ll : y[a + j] = src[at[i - 1] + j]
    BY DEF Carries
  <2> HIDE DEF a, ll
  <2>4. a + ll <= Len(v) BY <1>1, <1>2, <2>1, <2>2, <2>3
  <2>5. ASSUME NEW j \in 1 .. ll PROVE v[a + j] = src[at[i - 1] + j]
    <3>1. a + j \in 1 .. Len(y) BY <1>1, <2>1, <2>2, <2>3
    <3> QED BY <3>1, <2>3, <1>2
  <2> QED BY <2>4, <2>5 DEF a, ll
<1>4. Carries(S, src, at, lp, seqs, k, v) BY <1>2, <1>3 DEF Carries
<1> QED BY <1>4 DEF v

(* The places of a block's sequences are where they are told to end.       *)
Places(at, start, seqs) ==
  at = [i \in 0 .. Len(seqs) |-> IF i = 0 THEN start ELSE at[i - 1] + seqs[i].ll + seqs[i].ml]
Spelled(lits, at, src, seqs) ==
  lits = [i \in 0 .. Len(seqs) |->
            IF i = 0 THEN << >> ELSE lits[i - 1] \o At(src, at[i - 1], seqs[i].ll)]

(* LiteralsOf, by the two functions it defines.                            *)
LEMMA LiteralsOfIs ==
  ASSUME NEW src, NEW start, NEW end, NEW seqs
  PROVE LET at == CHOOSE f : Places(f, start, seqs)
            lits == CHOOSE f : Spelled(f, at, src, seqs)
        IN  LiteralsOf(src, start, end, seqs)
              = lits[Len(seqs)] \o At(src, at[Len(seqs)], end - at[Len(seqs)])
BY DEF LiteralsOf, Places, Spelled

(* The places that LiteralsOf computes are those of the sequences told.    *)
LEMMA PlacesAre ==
  ASSUME NEW src, NEW start \in Nat, NEW to, NEW seqs \in Seq(Sequence),
         NEW a \in [0 .. Len(seqs) -> Nat], ToldAt(src, start, to, seqs, a)
  PROVE (CHOOSE f : Places(f, start, seqs)) = a
<1> DEFINE n == Len(seqs)
           h == CHOOSE f : Places(f, start, seqs)
<1>0. n \in Nat OBVIOUS
<1>1. a[0] = start /\ \A i \in 1 .. n : a[i] = a[i - 1] + seqs[i].ll + seqs[i].ml
  BY DEF ToldAt, Says
<1>j. \A k \in 0 .. n : k = 0 \/ k \in 1 .. n BY <1>0
<1>2. Places(a, start, seqs)
  <2>1. a = [i \in 0 .. n |-> a[i]] OBVIOUS
  <2> QED BY <1>1, <1>j, <2>1 DEF Places
<1>3. Places(h, start, seqs) BY <1>2
<1> HIDE DEF h
<1>4. h = [i \in 0 .. n |-> IF i = 0 THEN start ELSE h[i - 1] + seqs[i].ll + seqs[i].ml]
  BY <1>3 DEF Places
<1> HIDE DEF n
<1>5. h[0] = start /\ \A i \in 1 .. n : h[i] = h[i - 1] + seqs[i].ll + seqs[i].ml
  <2>1. 0 \in 0 .. n BY <1>0
  <2>2. \A k \in 1 .. n : k \in 0 .. n /\ k # 0 BY <1>0
  <2> QED BY <1>4, <2>1, <2>2
<1> DEFINE X == [k \in 0 .. n |-> {a[k]}]
<1>6. h[0] \in X[0] BY <1>0, <1>1, <1>5
<1>7. ASSUME NEW k \in 1 .. n, h[k - 1] \in X[k - 1] PROVE h[k] \in X[k]
  <2>1. k \in 0 .. n /\ k - 1 \in 0 .. n BY <1>0
  <2>2. h[k - 1] = a[k - 1] BY <1>7, <2>1
  <2> QED BY <1>1, <1>5, <2>1, <2>2
<1>8. \A k \in 0 .. n : h[k] \in X[k]
  <2> HIDE DEF X
  <2> QED BY <1>0, <1>6, <1>7, LoopRule
<1>9. \A k \in 0 .. n : h[k] = a[k] BY <1>8
<1>10. DOMAIN h = 0 .. n /\ h = [k \in 0 .. n |-> h[k]] BY <1>4
<1>11. a = [k \in 0 .. n |-> a[k]] BY DEF n
<1>12. h = a BY <1>9, <1>10, <1>11
<1> QED BY <1>12 DEF h

(* The literals spelled by the places a, and how many there are each time. *)
SpelledBy(S, src, a, seqs) ==
  LET h == CHOOSE f : Spelled(f, a, src, seqs)
      lp == [k \in 0 .. Len(seqs) |-> Len(h[k])]
  IN  /\ \A k \in 0 .. Len(seqs) : h[k] \in Seq(S)
      /\ lp \in [0 .. Len(seqs) -> Nat] /\ lp[0] = 0
      /\ \A i \in 1 .. Len(seqs) : lp[i] = lp[i - 1] + seqs[i].ll
      /\ Carries(S, src, a, lp, seqs, Len(seqs), h[Len(seqs)])

(* The literals collected are those of the sequences told, in their order. *)
LEMMA SpelledIs ==
  ASSUME NEW S, NEW src \in Seq(S), NEW to \in Nat, to <= Len(src), NEW start \in Nat, NEW seqs \in Seq(Sequence),
         NEW a \in [0 .. Len(seqs) -> Nat], ToldAt(src, start, to, seqs, a)
  PROVE SpelledBy(S, src, a, seqs)
<1> DEFINE n == Len(seqs)
           z(k) == At(src, a[k - 1], seqs[k].ll)
           G == [k \in 1 .. n |-> [y \in Seq(S) |-> y \o z(k)]]
           h == CHOOSE f : Spelled(f, a, src, seqs)
<1>0. n \in Nat OBVIOUS
<1>a. ASSUME NEW k \in 1 .. n
      PROVE /\ z(k) \in Seq(S) /\ Len(z(k)) = seqs[k].ll /\ seqs[k].ll \in Nat
            /\ \A j \in 1 .. seqs[k].ll : z(k)[j] = src[a[k - 1] + j]
  <2> DEFINE x == a[k - 1]
             ll == seqs[k].ll
             ml == seqs[k].ml
  <2>1. x \in Nat /\ a[k] \in Nat BY <1>a
  <2>2. ll \in Nat /\ ml \in Nat
    <3>1. seqs[k] \in Sequence BY <1>a
    <3> QED BY <3>1 DEF Sequence
  <2>3. a[k] = x + ll + ml /\ a[k] <= to BY <1>a DEF ToldAt, Says
  <2>4. z(k) = Part(src, x, ll) BY DEF At, Part
  <2> HIDE DEF x, ll, ml
  <2>5. x + ll <= Len(src) BY <2>1, <2>2, <2>3
  <2>6. IsPart(S, Part(src, x, ll), src, x, ll) BY <2>1, <2>2, <2>5, PartIs
  <2> HIDE DEF z
  <2>7. z(k) \in Seq(S) /\ Len(z(k)) = ll /\ \A j \in 1 .. ll : z(k)[j] = src[x + j]
    BY <2>4, <2>6 DEF IsPart
  <2> QED BY <2>2, <2>7 DEF x, ll
<1>z. \A k \in 1 .. n : z(k) \in Seq(S) BY <1>a
<1>s. \A y \in Seq(S) : \A w \in Seq(S) : y \o w \in Seq(S) OBVIOUS
<1>e. << >> \in Seq(S) /\ Len(<< >>) = 0 OBVIOUS
<1>i. \A k \in 1 .. n : k - 1 \in 0 .. n BY <1>0
<1>j. \A k \in 0 .. n : k = 0 \/ k \in 1 .. n BY <1>0
<1> HIDE DEF z, n
<1>1. PICK f \in [0 .. n -> Seq(S)] : RunsFrom(f, << >>, G, n)
  <2>1. RoundsKeep(Seq(S), G, n)
    <3>1. \A k \in 1 .. n : \A y \in Seq(S) : G[k][y] = y \o z(k) OBVIOUS
    <3> HIDE DEF G
    <3> QED BY <1>z, <1>s, <3>1 DEF RoundsKeep
  <2> HIDE DEF G
  <2> QED BY <1>0, <1>e, <2>1, LoopExists
<1>2. f[0] = << >> /\ \A k \in 1 .. n : f[k] = f[k - 1] \o z(k)
  <2>1. \A k \in 1 .. n : f[k - 1] \in Seq(S) BY <1>i
  <2>2. \A k \in 1 .. n : f[k] = G[k][f[k - 1]] BY <1>1 DEF RunsFrom
  <2>3. \A k \in 1 .. n : \A y \in Seq(S) : G[k][y] = y \o z(k) OBVIOUS
  <2> HIDE DEF G
  <2>4. f[0] = << >> BY <1>1 DEF RunsFrom
  <2> QED BY <2>1, <2>2, <2>3, <2>4
<1>3. Spelled(f, a, src, seqs)
  <2>1. f = [k \in 0 .. n |-> f[k]] OBVIOUS
  <2>2. f = [k \in 0 .. n |-> IF k = 0 THEN << >> ELSE f[k - 1] \o z(k)] BY <1>2, <1>j, <2>1
  <2> QED BY <2>2 DEF Spelled, z, n
<1>4. Spelled(h, a, src, seqs) BY <1>3
<1> HIDE DEF h, G
<1>5. h = [k \in 0 .. n |-> IF k = 0 THEN << >> ELSE h[k - 1] \o z(k)]
  BY <1>4 DEF Spelled, z, n
<1>6. h[0] = << >> /\ \A k \in 1 .. n : h[k] = h[k - 1] \o z(k)
  <2>1. 0 \in 0 .. n BY <1>0
  <2>2. \A k \in 1 .. n : k \in 0 .. n /\ k # 0 BY <1>0
  <2> QED BY <1>5, <2>1, <2>2
<1>7. \A k \in 0 .. n : h[k] \in Seq(S)
  <2> DEFINE X == [k \in 0 .. n |-> Seq(S)]
  <2>1. h[0] \in X[0] BY <1>0, <1>6, <1>e
  <2>2. ASSUME NEW k \in 1 .. n, h[k - 1] \in X[k - 1] PROVE h[k] \in X[k]
    <3>1. k \in 0 .. n /\ k - 1 \in 0 .. n BY <1>0
    <3>2. h[k - 1] \in Seq(S) BY <2>2, <3>1
    <3> QED BY <1>6, <1>z, <1>s, <3>1, <3>2
  <2>3. \A k \in 0 .. n : h[k] \in X[k]
    <3> HIDE DEF X
    <3> QED BY <1>0, <2>1, <2>2, LoopRule
  <2> QED BY <2>3
<1> DEFINE lp == [k \in 0 .. n |-> Len(h[k])]
<1>l. \A y \in Seq(S) : Len(y) \in Nat OBVIOUS
<1>8. /\ lp \in [0 .. n -> Nat] /\ lp[0] = 0 /\ \A k \in 0 .. n : lp[k] = Len(h[k])
  <2>1. \A k \in 0 .. n : Len(h[k]) \in Nat BY <1>7, <1>l
  <2>2. 0 \in 0 .. n BY <1>0
  <2> QED BY <1>6, <1>e, <2>1, <2>2
<1> HIDE DEF lp
<1>9. \A i \in 1 .. n : lp[i] = lp[i - 1] + seqs[i].ll
  <2> TAKE i \in 1 .. n
  <2>1. i \in 0 .. n /\ i - 1 \in 0 .. n BY <1>0
  <2> DEFINE y == h[i - 1]
             w == z(i)
  <2>2. y \in Seq(S) /\ w \in Seq(S) /\ h[i] = y \o w BY <1>6, <1>7, <1>z, <2>1
  <2>3. lp[i] = Len(h[i]) /\ lp[i - 1] = Len(y) BY <1>8, <2>1
  <2>4. Len(w) = seqs[i].ll BY <1>a
  <2> HIDE DEF y, w
  <2>5. Len(y \o w) = Len(y) + Len(w) BY <2>2, JoinFacts
  <2> QED BY <2>2, <2>3, <2>4, <2>5
<1> DEFINE C(k, y) == Carries(S, src, a, lp, seqs, k, y)
           X == [k \in 0 .. n |-> { y \in Seq(S) : C(k, y) }]
<1>10. h[0] \in X[0]
  <2>1. 0 \in 0 .. n /\ h[0] \in Seq(S) BY <1>0, <1>6, <1>e
  <2>2. C(0, h[0]) BY <2>1 DEF Carries
  <2> HIDE DEF C
  <2> QED BY <2>1, <2>2
<1>11. ASSUME NEW k \in 1 .. n, h[k - 1] \in X[k - 1] PROVE h[k] \in X[k]
  <2>1. k \in 0 .. n /\ k - 1 \in 0 .. n BY <1>0
  <2> DEFINE y == h[k - 1]
             w == z(k)
             v == h[k]
  <2>2. y \in Seq(S) /\ C(k - 1, y)
    <3> HIDE DEF C
    <3> QED BY <1>11, <2>1
  <2>3. /\ w \in Seq(S) /\ v = y \o w /\ Len(w) = seqs[k].ll /\ seqs[k].ll \in Nat
        /\ \A j \in 1 .. seqs[k].ll : w[j] = src[a[k - 1] + j] /\ lp[k - 1] = Len(y)
    BY <1>6, <1>8, <1>a, <2>1
  <2>l. lp[k - 1] = Len(y) BY <1>8, <2>1
  <2> HIDE DEF w, v, y
  <2>4. C(k - 1, v)
    <3>1. k - 1 \in 0 .. Len(seqs) BY <2>1 DEF n
    <3>2. lp \in [0 .. Len(seqs) -> Nat] BY <1>8 DEF n
    <3> QED BY <2>2, <2>3, <3>1, <3>2, CarriesOn
  <2>5. v \in Seq(S) /\ Len(v) = Len(y) + Len(w) /\ \A j \in 1 .. Len(w) : v[Len(y) + j] = w[j]
    <3>1. y \in Seq(S) /\ w \in Seq(S) /\ v = y \o w BY <1>z, <2>2, <2>3 DEF w
    <3>2. /\ y \o w \in Seq(S) /\ Len(y \o w) = Len(y) + Len(w)
          /\ \A j \in 1 .. Len(w) : (y \o w)[Len(y) + j] = w[j]
      BY <3>1, JoinFacts
    <3> QED BY <3>1, <3>2
  <2>6. C(k, v)
    <3>1. ASSUME NEW i \in 1 .. k
          PROVE /\ lp[i - 1] + seqs[i].ll <= Len(v)
                /\ \A j \in 1 .. seqs[i].ll : v[lp[i - 1] + j] = src[a[i - 1] + j]
      <4>1. CASE i = k
        <5>1. lp[k - 1] + seqs[k].ll <= Len(v) BY <2>2, <2>3, <2>5, <2>l
        <5>2. ASSUME NEW j \in 1 .. seqs[k].ll PROVE v[lp[k - 1] + j] = src[a[k - 1] + j]
          <6>1. v[Len(y) + j] = w[j] BY <2>3, <2>5
          <6>2. w[j] = src[a[k - 1] + j] BY <2>3
          <6> QED BY <2>l, <6>1, <6>2
        <5> QED BY <4>1, <5>1, <5>2
      <4>2. CASE i # k
        <5>1. i \in 1 .. k - 1 BY <4>2
        <5> QED BY <2>4, <5>1 DEF Carries
      <4> QED BY <4>1, <4>2
    <3> QED BY <2>5, <3>1 DEF Carries
  <2> HIDE DEF C
  <2>7. v \in X[k] BY <2>1, <2>5, <2>6
  <2> QED BY <2>7 DEF v
<1>12. \A k \in 0 .. n : h[k] \in X[k]
  <2> HIDE DEF X
  <2> QED BY <1>0, <1>10, <1>11, LoopRule
<1>13. C(n, h[n])
  <2>1. n \in 0 .. n BY <1>0
  <2> HIDE DEF C
  <2> QED BY <1>12, <2>1
<1>14. /\ \A k \in 0 .. n : h[k] \in Seq(S)
       /\ lp \in [0 .. n -> Nat] /\ lp[0] = 0
       /\ \A i \in 1 .. n : lp[i] = lp[i - 1] + seqs[i].ll
       /\ Carries(S, src, a, lp, seqs, n, h[n])
  BY <1>7, <1>8, <1>9, <1>13
<1> QED BY <1>14 DEF lp, h, n, SpelledBy

(* A part of a prefix is the part of the whole.                            *)
LEMMA PartOfPart ==
  ASSUME NEW S, NEW src \in Seq(S), NEW end \in 0 .. Len(src), NEW from \in 0 .. end
  PROVE /\ Part(Part(src, 0, end), from, end - from) = Part(src, from, end - from)
        /\ IsPart(S, Part(src, 0, end), src, 0, end)
        /\ IsPart(S, Part(src, from, end - from), src, from, end - from)
<1> DEFINE T == Part(src, 0, end)
           n == end - from
           p == Part(src, from, n)
           q == Part(T, from, n)
<1>0. /\ end \in Nat /\ end <= Len(src) /\ from \in Nat /\ n \in Nat /\ from + n = end /\ 0 \in Nat
      /\ 0 + end = end /\ 0 + end <= Len(src) /\ from + n <= Len(src)
  OBVIOUS
<1> HIDE DEF n
<1>1. IsPart(S, T, src, 0, end) BY <1>0, PartIs
<1>2. IsPart(S, p, src, from, n) BY <1>0, PartIs
<1>3. T \in Seq(S) /\ Len(T) = end /\ \A i \in 1 .. end : T[i] = src[i]
  <2>1. T \in Seq(S) /\ Len(T) = end /\ \A i \in 1 .. end : T[i] = src[0 + i] BY <1>1 DEF IsPart
  <2> HIDE DEF T
  <2> QED BY <2>1
<1> HIDE DEF T
<1>4. IsPart(S, q, T, from, n)
  <2>1. from + n <= Len(T) BY <1>0, <1>3
  <2> QED BY <1>0, <1>3, <2>1, PartIs
<1> HIDE DEF p, q
<1>5. p \in Seq(S) /\ Len(p) = n /\ \A i \in 1 .. n : p[i] = src[from + i] BY <1>2 DEF IsPart
<1>6. q \in Seq(S) /\ Len(q) = n /\ \A i \in 1 .. n : q[i] = T[from + i] BY <1>4 DEF IsPart
<1>7. ASSUME NEW i \in 1 .. n PROVE q[i] = p[i]
  <2>1. from + i \in 1 .. end BY <1>0
  <2> QED BY <1>3, <1>5, <1>6, <2>1
<1>8. q = p BY <1>5, <1>6, <1>7, SameBytes
<1> QED BY <1>1, <1>2, <1>8 DEF p, q, n, T

(* Behind `start`, the literals and the sequences tell the whole block.    *)
LEMMA LiteralsTell ==
  ASSUME NEW S, NEW src \in Seq(S), NEW end \in 0 .. Len(src), NEW start \in 0 .. end,
         NEW to \in 0 .. end, NEW seqs, Told(src, start, to, seqs)
  PROVE LET L == LiteralsOf(src, start, end, seqs)
        IN  /\ L \in Seq(S) /\ seqs \in Seq(Sequence)
            /\ \E at, lp : Tells(Part(src, 0, end), start, seqs, L, at, lp)
<1> DEFINE n == Len(seqs)
           T == Part(src, 0, end)
           L == LiteralsOf(src, start, end, seqs)
<1>q. seqs \in Seq(Sequence) BY DEF Told
<1>0. /\ n \in Nat /\ end \in Nat /\ start \in Nat /\ to \in Nat /\ to <= end /\ end <= Len(src)
      /\ to <= Len(src) /\ start <= end
  BY <1>q
<1>a. PICK a \in [0 .. n -> Nat] : ToldAt(src, start, to, seqs, a) BY DEF Told
<1> DEFINE h == CHOOSE f : Spelled(f, a, src, seqs)
           lp == [k \in 0 .. Len(seqs) |-> Len(h[k])]
           y == h[n]
           z == At(src, to, end - to)
<1>1. (CHOOSE f : Places(f, start, seqs)) = a BY <1>0, <1>a, <1>q, PlacesAre
<1>2. /\ a[0] = start /\ a[n] = to
      /\ \A i \in 1 .. n : Says(src, a[i - 1], a[i], seqs[i]) /\ a[i] <= to
  BY <1>a DEF ToldAt
<1>3. L = y \o z
  <2>1. L = h[n] \o At(src, a[n], end - a[n]) BY <1>1, LiteralsOfIs
  <2> QED BY <1>2, <2>1
<1>4. /\ \A k \in 0 .. Len(seqs) : h[k] \in Seq(S)
      /\ lp \in [0 .. Len(seqs) -> Nat] /\ lp[0] = 0
      /\ \A i \in 1 .. Len(seqs) : lp[i] = lp[i - 1] + seqs[i].ll
      /\ Carries(S, src, a, lp, seqs, Len(seqs), y)
  <2>1. a \in [0 .. Len(seqs) -> Nat] BY <1>a
  <2>2. SpelledBy(S, src, a, seqs)
    <3> HIDE DEF n, T, L, y, z, lp, h
    <3> QED BY <1>0, <1>a, <1>q, <2>1, SpelledIs
  <2> HIDE DEF T, L, z
  <2> QED BY <2>2 DEF SpelledBy
<1>5. lp[n] = Len(y)
  <2>1. n \in 0 .. Len(seqs) BY <1>0
  <2> HIDE DEF h
  <2> QED BY <2>1
<1> HIDE DEF lp, h
<1>6. y \in Seq(S) BY <1>4 DEF Carries
<1>7. /\ z \in Seq(S) /\ Len(z) = end - to /\ \A i \in 1 .. end - to : z[i] = src[to + i]
  <2> DEFINE m == end - to
  <2>1. m \in Nat /\ to + m <= Len(src) BY <1>0
  <2> HIDE DEF m
  <2>2. IsPart(S, Part(src, to, m), src, to, m) BY <1>0, <2>1, PartIs
  <2>3. z = Part(src, to, m) BY DEF At, Part, m
  <2> HIDE DEF z
  <2> QED BY <2>2, <2>3 DEF IsPart, m
<1> HIDE DEF y, z
<1>8. Carries(S, src, a, lp, seqs, n, L)
  <2>1. n \in 0 .. Len(seqs) BY <1>0
  <2>2. Carries(S, src, a, lp, seqs, n, y) BY <1>4
  <2>3. lp \in [0 .. Len(seqs) -> Nat] BY <1>4
  <2> HIDE DEF L, n
  <2> QED BY <1>3, <1>7, <1>q, <2>1, <2>2, <2>3, CarriesOn
<1>9. L \in Seq(S) BY <1>8 DEF Carries
<1>10. Len(L) = Len(y) + Len(z) /\ \A i \in 1 .. Len(z) : L[Len(y) + i] = z[i]
  <2>1. /\ y \o z \in Seq(S) /\ Len(y \o z) = Len(y) + Len(z)
        /\ \A i \in 1 .. Len(z) : (y \o z)[Len(y) + i] = z[i]
    <3>1. y \in Seq(S) /\ z \in Seq(S) BY <1>6, <1>7
    <3> QED BY <3>1, JoinFacts
  <2> HIDE DEF L
  <2> QED BY <1>3, <2>1
<1>t. T \in Seq(S) /\ Len(T) = end /\ \A i \in 1 .. end : T[i] = src[i]
  <2>1. IsPart(S, T, src, 0, end)
    <3>1. 0 \in Nat /\ 0 + end <= Len(src) BY <1>0
    <3> QED BY <1>0, <3>1, PartIs
  <2>2. T \in Seq(S) /\ Len(T) = end /\ \A i \in 1 .. end : T[i] = src[0 + i] BY <2>1 DEF IsPart
  <2> HIDE DEF T
  <2> QED BY <2>2
<1> HIDE DEF T, L
<1>11. ASSUME NEW i \in 1 .. n
       PROVE /\ Says(T, a[i - 1], a[i], seqs[i])
             /\ Supplied(T, a[i - 1], lp[i - 1], seqs[i], L)
             /\ lp[i] = lp[i - 1] + seqs[i].ll
  <2> DEFINE q == seqs[i]
             u == a[i - 1]
             v == a[i]
             l == lp[i - 1]
             ll == q.ll
             ml == q.ml
             off == q.off
  <2>1. q \in Sequence /\ i - 1 \in 0 .. n /\ i \in 0 .. n BY <1>q, <1>0
  <2>2. ll \in Nat /\ ml \in Nat /\ off \in Nat BY <2>1 DEF Sequence
  <2>3. u \in Nat /\ v \in Nat BY <2>1, <1>a
  <2>4. /\ v = u + ll + ml /\ off \in 1 .. u + ll /\ v <= to
        /\ \A x \in u + ll + 1 .. v : src[x] = src[x - off]
    BY <1>2 DEF Says
  <2>5. /\ l + ll <= Len(L) /\ \A j \in 1 .. ll : L[l + j] = src[u + j]
    BY <1>8 DEF Carries
  <2>f. q.ll = ll /\ q.ml = ml /\ q.off = off OBVIOUS
  <2> HIDE DEF ll, ml, off, l, u, v, q, n
  <2>6. v <= end /\ u + ll <= end BY <1>0, <2>2, <2>3, <2>4
  <2>7. ASSUME NEW x \in u + ll + 1 .. v PROVE T[x] = T[x - off]
    <3>1. x \in 1 .. end /\ x - off \in 1 .. end BY <1>0, <2>2, <2>3, <2>4, <2>6
    <3>2. src[x] = src[x - off] BY <2>4
    <3> QED BY <1>t, <3>1, <3>2
  <2>8. ASSUME NEW j \in 1 .. ll PROVE L[l + j] = T[u + j]
    <3>1. u + j \in 1 .. end BY <2>2, <2>3, <2>6
    <3> QED BY <1>t, <2>5, <3>1
  <2>9. Says(T, u, v, q) BY <1>t, <2>4, <2>6, <2>7, <2>f DEF Says
  <2>10. Supplied(T, u, l, q, L) BY <2>5, <2>8, <2>f DEF Supplied
  <2>11. lp[i] = lp[i - 1] + seqs[i].ll BY <1>4 DEF n
  <2> QED BY <2>9, <2>10, <2>11 DEF u, v, l, q
<1>12. Tells(T, start, seqs, L, a, lp)
  <2>1. a \in [0 .. Len(seqs) -> Nat] /\ a[0] = start BY <1>a, <1>2
  <2>2. a[n] = to /\ lp[n] = Len(y) /\ Len(z) = end - to BY <1>2, <1>5, <1>7
  <2>3. a[n] <= Len(T) BY <1>0, <1>t, <2>2
  <2>4. Len(L) = lp[n] + (Len(T) - a[n]) BY <1>10, <1>t, <2>2
  <2>5. ASSUME NEW i \in 1 .. Len(T) - a[n] PROVE L[lp[n] + i] = T[a[n] + i]
    <3>1. i \in 1 .. end - to /\ to + i \in 1 .. end BY <1>0, <1>t, <2>2
    <3>2. L[Len(y) + i] = z[i] /\ z[i] = src[to + i] /\ T[to + i] = src[to + i]
      BY <1>7, <1>10, <1>t, <3>1
    <3> QED BY <2>2, <3>2
  <2>6. lp \in [0 .. Len(seqs) -> Nat] /\ lp[0] = 0 BY <1>4
  <2> QED BY <1>11, <2>1, <2>3, <2>4, <2>5, <2>6 DEF Tells
<1> QED BY <1>9, <1>12, <1>q DEF T, L

(* The literals as they are handed over, with what lies behind them.       *)
LEMMA LiteralsHanded ==
  ASSUME NEW S, NEW lits \in Seq(S), NEW slack \in Seq(S)
  PROVE LET l == Literals(lits \o slack, Len(lits))
        IN  GoodLiterals(S, l) /\ AsSlice(l) = lits /\ l.len = Len(lits)
<1> DEFINE n == Len(lits)
           all == lits \o slack
           m == Least(n + LiteralOverread, Len(all))
           fast == Part(all, 0, m)
           l == Literals(all, n)
           p == Part(fast, 0, n)
<1>1. /\ all \in Seq(S) /\ Len(all) = n + Len(slack) /\ n \in Nat /\ Len(slack) \in Nat
      /\ \A i \in 1 .. n : all[i] = lits[i]
  <2>1. /\ lits \o slack \in Seq(S) /\ Len(lits \o slack) = Len(lits) + Len(slack)
        /\ \A i \in 1 .. Len(lits) : (lits \o slack)[i] = lits[i]
    BY JoinFacts
  <2> QED BY <2>1
<1> HIDE DEF all, n
<1>2. m \in Nat /\ m <= Len(all) /\ n <= m /\ m <= n + LiteralOverread
  BY <1>1 DEF Least, LiteralOverread
<1>3. l.len = n /\ l.fast = fast
  <2>1. Least(n, Len(all)) = n BY <1>1 DEF Least
  <2> HIDE DEF fast
  <2> QED BY <2>1 DEF Literals, fast
<1> HIDE DEF m, l
<1>4. fast \in Seq(S) /\ Len(fast) = m /\ \A i \in 1 .. m : fast[i] = all[i]
  <2>1. 0 \in Nat /\ 0 + m <= Len(all) BY <1>1, <1>2
  <2>2. IsPart(S, fast, all, 0, m) BY <1>1, <1>2, <2>1, PartIs
  <2>3. fast \in Seq(S) /\ Len(fast) = m /\ \A i \in 1 .. m : fast[i] = all[0 + i]
    BY <2>2 DEF IsPart
  <2> HIDE DEF fast
  <2>4. \A i \in 1 .. m : 0 + i = i BY <1>2
  <2> QED BY <2>3, <2>4
<1> HIDE DEF fast
<1>5. p \in Seq(S) /\ Len(p) = n /\ \A i \in 1 .. n : p[i] = fast[i]
  <2>1. 0 \in Nat /\ 0 + n <= Len(fast) BY <1>1, <1>2, <1>4
  <2>2. IsPart(S, p, fast, 0, n) BY <1>1, <1>4, <2>1, PartIs
  <2>3. p \in Seq(S) /\ Len(p) = n /\ \A i \in 1 .. n : p[i] = fast[0 + i]
    BY <2>2 DEF IsPart
  <2> HIDE DEF p
  <2>4. \A i \in 1 .. n : 0 + i = i BY <1>1
  <2> QED BY <2>3, <2>4
<1>6. AsSlice(l) = p BY <1>3 DEF AsSlice
<1> HIDE DEF p
<1>7. p = lits
  <2>1. \A i \in 1 .. n : p[i] = lits[i]
    <3> TAKE i \in 1 .. n
    <3>1. i \in 1 .. m BY <1>1, <1>2
    <3> QED BY <1>1, <1>4, <1>5, <3>1
  <2> QED BY <1>5, <2>1, SameBytes DEF n
<1>8. GoodLiterals(S, l) BY <1>1, <1>2, <1>3, <1>4 DEF GoodLiterals
<1>9. GoodLiterals(S, l) /\ AsSlice(l) = lits /\ l.len = n BY <1>3, <1>6, <1>7, <1>8
<1> QED BY <1>9 DEF l, all, n

(* What the block between start and end gives, decoded behind what is there. *)
Reproduced(src, prefix, start, end, seqs, slack) ==
  ExecuteBlock(Part(src, prefix, start - prefix), end - start, 0, seqs,
               LiteralsOf(src, start, end, seqs), slack, Part(src, 0, prefix))
    = [ok |-> TRUE, out |-> Part(src, prefix, end - prefix)]

(* A block whose sequences say what its bytes are is decoded to its bytes. *)
THEOREM ToldIsReproduced ==
  ASSUME NEW src \in Seq(Nat), NEW end \in 0 .. Len(src), NEW start \in 0 .. end,
         NEW prefix \in 0 .. start, NEW to \in 0 .. end, NEW seqs, Told(src, start, to, seqs),
         NEW slack \in Seq(Nat)
  PROVE Reproduced(src, prefix, start, end, seqs, slack)
<1> DEFINE n == Len(seqs)
           T == Part(src, 0, end)
           history == Part(src, 0, prefix)
           out == Part(src, prefix, start - prefix)
           whole == Part(src, prefix, end - prefix)
           L == LiteralsOf(src, start, end, seqs)
           max == end - start
           k == start - prefix
           j == end - prefix
           good == [ok |-> TRUE, out |-> whole]
<1>0. /\ end \in Nat /\ end <= Len(src) /\ start \in Nat /\ prefix \in Nat /\ max \in Nat /\ start <= end
      /\ prefix <= start /\ prefix <= end /\ k \in Nat /\ j \in Nat /\ prefix + k = start
      /\ prefix + j = end /\ k + max = j /\ start + max = end /\ prefix \in 0 .. end
      /\ start <= Len(src) /\ prefix <= Len(src)
  OBVIOUS
<1>1. /\ L \in Seq(Nat) /\ seqs \in Seq(Sequence) /\ \E at, lp : Tells(T, start, seqs, L, at, lp)
  BY LiteralsTell
<1>t. T \in Seq(Nat) /\ Len(T) = end /\ \A i \in 1 .. end : T[i] = src[i]
  <2>1. IsPart(Nat, T, src, 0, end)
    <3>1. 0 \in Nat /\ 0 + end <= Len(src) BY <1>0
    <3> QED BY <1>0, <3>1, PartIs
  <2>2. T \in Seq(Nat) /\ Len(T) = end /\ \A i \in 1 .. end : T[i] = src[0 + i] BY <2>1 DEF IsPart
  <2> HIDE DEF T
  <2>3. \A i \in 1 .. end : 0 + i = i BY <1>0
  <2> QED BY <2>2, <2>3
<1>h. history \in Seq(Nat) /\ Len(history) = prefix /\ \A i \in 1 .. prefix : history[i] = src[i]
  <2>1. IsPart(Nat, history, src, 0, prefix)
    <3>1. 0 \in Nat /\ 0 + prefix <= Len(src) BY <1>0
    <3> QED BY <1>0, <3>1, PartIs
  <2>2. history \in Seq(Nat) /\ Len(history) = prefix /\ \A i \in 1 .. prefix : history[i] = src[0 + i]
    BY <2>1 DEF IsPart
  <2> HIDE DEF history
  <2>3. \A i \in 1 .. prefix : 0 + i = i BY <1>0
  <2> QED BY <2>2, <2>3
<1>p. Part(T, prefix, j) = whole BY <1>0, PartOfPart
<1> HIDE DEF k, j
<1>o. out \in Seq(Nat) /\ Len(out) = k /\ \A i \in 1 .. k : out[i] = src[prefix + i]
  <2>1. prefix + k <= Len(src) BY <1>0
  <2>2. IsPart(Nat, out, src, prefix, k) BY <1>0, <2>1, PartIs DEF k
  <2> QED BY <2>2 DEF IsPart
<1>w. whole \in Seq(Nat) /\ Len(whole) = j /\ \A i \in 1 .. j : whole[i] = src[prefix + i]
  <2>1. prefix + j <= Len(src) BY <1>0
  <2>2. IsPart(Nat, whole, src, prefix, j) BY <1>0, <2>1, PartIs DEF j
  <2> QED BY <2>2 DEF IsPart
<1> HIDE DEF max, T, history, out, whole, L
<1>2. ExecuteBlock(out, max, 0, seqs, L, slack, history)
        = IF n = 0
          THEN IF Len(L) > max THEN Bad
               ELSE [ok |-> TRUE, out |-> Part(out, 0, Len(out) - 0) \o L]
          ELSE IF n = 1 THEN RunSingle(out, max, 0, seqs[1], L, history)
          ELSE RunSequences(out, max, 0, seqs, Literals(L \o slack, Len(L)), history)
  BY DEF ExecuteBlock
<1>pr. Prefix(history, T)
  <2>1. ASSUME NEW i \in 1 .. prefix PROVE history[i] = T[i]
    <3>1. i \in 1 .. end BY <1>0
    <3> QED BY <1>h, <1>t, <3>1
  <2> QED BY <1>0, <1>h, <1>t, <2>1 DEF Prefix
<1>ot. ASSUME NEW i \in 1 .. k PROVE out[i] = T[prefix + i]
  <2>1. prefix + i \in 1 .. end BY <1>0
  <2> QED BY <1>o, <1>t, <2>1
<1>n. Len(out) - 0 = k /\ \A i \in Nat : 0 + i = i BY <1>o, <1>0
<1>f. start = Len(history) + Len(out) - 0 BY <1>0, <1>h, <1>o
<1>g. \A i \in 1 .. Len(out) - 0 : out[0 + i] = T[Len(history) + i]
  <2> TAKE i \in 1 .. Len(out) - 0
  <2>1. i \in 1 .. k /\ 0 + i = i BY <1>n, <1>0
  <2> QED BY <1>h, <1>ot, <2>1
<1>m. 0 \in 0 .. Len(out) /\ start \in 0 .. Len(T) /\ Len(T) - start <= max /\ max \in Nat
  BY <1>0, <1>o, <1>t DEF max
<1>r. Part(T, Len(history), Len(T) - Len(history)) = whole BY <1>h, <1>p, <1>t DEF j
<1>3. PICK at, lp : Tells(T, start, seqs, L, at, lp) BY <1>1
<1>c. n \in Nat BY <1>1
<1> HIDE DEF n
<1>4. CASE n = 0
  <2>1. at[0] = start /\ lp[0] = 0 /\ Len(seqs) = 0 BY <1>3, <1>4 DEF Tells, n
  <2>2. /\ Len(L) = lp[0] + (Len(T) - at[0])
        /\ \A i \in 1 .. Len(T) - at[0] : L[lp[0] + i] = T[at[0] + i]
    BY <1>3, <2>1 DEF Tells
  <2>3. Len(L) = max /\ \A i \in 1 .. max : L[i] = T[start + i]
    <3>1. Len(T) - start = max /\ 0 + max = max BY <1>0, <1>t DEF max
    <3>2. \A i \in 1 .. max : 0 + i = i BY <1>0
    <3> QED BY <2>1, <2>2, <3>1, <3>2
  <2> DEFINE o2 == Part(out, 0, Len(out) - 0)
             both == o2 \o L
  <2>4. o2 \in Seq(Nat) /\ Len(o2) = k /\ \A i \in 1 .. k : o2[i] = out[i]
    <3>1. 0 \in Nat /\ 0 + k <= Len(out) BY <1>0, <1>o
    <3>2. IsPart(Nat, Part(out, 0, k), out, 0, k) BY <1>0, <1>o, <3>1, PartIs
    <3>3. o2 = Part(out, 0, k) BY <1>n
    <3> HIDE DEF o2
    <3>4. o2 \in Seq(Nat) /\ Len(o2) = k /\ \A i \in 1 .. k : o2[i] = out[0 + i]
      BY <3>2, <3>3 DEF IsPart
    <3>5. \A i \in 1 .. k : 0 + i = i BY <1>0
    <3> QED BY <3>4, <3>5
  <2> HIDE DEF o2
  <2>5. /\ both \in Seq(Nat) /\ Len(both) = k + max
        /\ \A i \in 1 .. k : both[i] = o2[i]
        /\ \A i \in 1 .. max : both[k + i] = L[i]
    <3>0. o2 \in Seq(Nat) /\ L \in Seq(Nat) BY <1>1, <2>4
    <3>1. /\ o2 \o L \in Seq(Nat) /\ Len(o2 \o L) = Len(o2) + Len(L)
          /\ \A i \in 1 .. Len(o2) : (o2 \o L)[i] = o2[i]
          /\ \A i \in 1 .. Len(L) : (o2 \o L)[Len(o2) + i] = L[i]
      BY <3>0, JoinFacts
    <3> QED BY <3>1, <2>3, <2>4
  <2> HIDE DEF both
  <2>6. ASSUME NEW i \in 1 .. j PROVE both[i] = whole[i]
    <3>0. i \in Nat BY <2>6, <1>0
    <3>1. CASE i <= k
      <4>1. i \in 1 .. k BY <2>6, <3>1, <1>0
      <4> QED BY <4>1, <2>4, <2>5, <1>o, <1>w
    <3>2. CASE ~(i <= k)
      <4> DEFINE x == i - k
      <4>1. x \in 1 .. max /\ k + x = i /\ start + x = prefix + i /\ start + x \in 1 .. end
        BY <3>2, <1>0
      <4> HIDE DEF x
      <4>2. both[k + x] = L[x] /\ L[x] = T[start + x] /\ T[start + x] = src[start + x]
        BY <4>1, <2>3, <2>5, <1>t
      <4> QED BY <4>1, <4>2, <1>w
    <3> QED BY <3>1, <3>2
  <2>7. both = whole BY <1>0, <1>w, <2>5, <2>6, SameBytes
  <2>8. ~(Len(L) > max) BY <2>3, <1>0
  <2>9. ExecuteBlock(out, max, 0, seqs, L, slack, history) = good
    BY <1>2, <1>4, <2>7, <2>8 DEF both, o2
  <2> QED BY <2>9 DEF Reproduced, out, max, L, history, whole
<1>5. CASE n = 1
  <2> DEFINE q == seqs[1]
             a == at[1]
             ll == q.ll
  <2>0. Len(seqs) = 1 /\ 1 \in 1 .. Len(seqs) /\ 1 - 1 = 0 BY <1>5 DEF n
  <2>1. q \in Sequence /\ a \in Nat
    <3>0. seqs \in Seq(Sequence) BY <1>1
    <3>q. \A i \in 1 .. Len(seqs) : seqs[i] \in Sequence BY <3>0
    <3>1. q \in Sequence BY <2>0, <3>q
    <3>2. at \in [0 .. 1 -> Nat] BY <1>3, <2>0 DEF Tells
    <3> QED BY <3>1, <3>2
  <2>2. /\ Says(T, at[0], at[1], seqs[1]) /\ Supplied(T, at[0], lp[0], seqs[1], L)
        /\ lp[1] = lp[0] + seqs[1].ll
    BY <1>3, <2>0 DEF Tells
  <2>3. at[0] = start /\ lp[0] = 0 BY <1>3 DEF Tells
  <2>4. /\ Len(L) = lp[1] + (Len(T) - at[1])
        /\ \A i \in 1 .. Len(T) - at[1] : L[lp[1] + i] = T[at[1] + i]
    BY <1>3, <2>0 DEF Tells
  <2>5. lp[1] = ll
    <3>1. ll \in Nat BY <2>1 DEF Sequence
    <3>2. 0 + ll = ll BY <3>1
    <3> QED BY <2>2, <2>3, <3>2
  <2>6. SingleTold(T, history, out, 0, start, max, L, q, a)
    <3>1. Says(T, start, a, q) /\ Supplied(T, start, 0, q, L) BY <2>2, <2>3
    <3>2. /\ Len(L) = q.ll + (Len(T) - a) /\ \A i \in 1 .. Len(T) - a : L[q.ll + i] = T[a + i]
      BY <2>4, <2>5
    <3> HIDE DEF q, a
    <3> QED BY <1>pr, <1>f, <1>g, <1>m, <3>1, <3>2 DEF SingleTold
  <2>7. RunSingle(out, max, 0, q, L, history)
          = [ok |-> TRUE, out |-> Part(T, Len(history), Len(T) - Len(history))]
    <3> HIDE DEF q, a
    <3>1. T \in Seq(Nat) /\ history \in Seq(Nat) /\ out \in Seq(Nat) /\ L \in Seq(Nat)
      BY <1>1, <1>t, <1>h, <1>o
    <3> QED BY <1>m, <2>1, <2>6, <3>1, RunSingleTells, SMTT(20)
  <2>8. ExecuteBlock(out, max, 0, seqs, L, slack, history) = good
    BY <1>2, <1>5, <1>r, <2>7
  <2> QED BY <2>8 DEF Reproduced, out, max, L, history, whole
<1>6. CASE n # 0 /\ n # 1
  <2> DEFINE l == Literals(L \o slack, Len(L))
  <2>1. GoodLiterals(Nat, l) /\ AsSlice(l) = L /\ l.len = Len(L) BY <1>1, LiteralsHanded
  <2>2. Tells(T, start, seqs, AsSlice(l), at, lp) /\ Len(AsSlice(l)) = l.len BY <1>3, <2>1
  <2> HIDE DEF l
  <2>3. RunSequences(out, max, 0, seqs, l, history)
          = [ok |-> TRUE, out |-> Part(T, Len(history), Len(T) - Len(history))]
    <3> DEFINE S == Nat
    <3>1. T \in Seq(S) /\ history \in Seq(S) /\ out \in Seq(S) /\ 0 \in S
      BY <1>t, <1>h, <1>o
    <3>2. Standing(T, history, out, 0, start, max) BY <1>m, <1>pr, <1>f, <1>g DEF Standing
    <3>3. GoodLiterals(S, l) BY <2>1
    <3>4. seqs \in Seq(Sequence) BY <1>1
    <3> HIDE DEF S
    <3> QED BY <2>2, <3>1, <3>2, <3>3, <3>4, RunSequencesTells
  <2>4. ExecuteBlock(out, max, 0, seqs, L, slack, history) = good
    BY <1>2, <1>6, <1>r, <2>3 DEF l
  <2> QED BY <2>4 DEF Reproduced, out, max, L, history, whole
<1> QED BY <1>4, <1>5, <1>6

(* What the fast finder finds in a block, the decoder turns back into it.  *)
THEOREM FastReproduced ==
  ASSUME NEW src \in Seq(Nat), NEW end \in 0 .. Len(src), NEW start \in 0 .. end,
         NEW prefix \in 0 .. start, NEW p, Params(p), NEW rep, GoodReps(rep), NEW table \in FastTable,
         NEW attached \in BOOLEAN, NEW dict, attached => dict \in FastTable, NEW slack \in Seq(Nat)
  PROVE LET r == FastSearch(src, start, end, p, rep, table, attached, dict)
        IN  Reproduced(src, prefix, start, end, r.seqs, slack) /\ r.table \in FastTable
<1> DEFINE r == FastSearch(src, start, end, p, rep, table, attached, dict)
<1>1. Outcome(src, start, end, r) /\ r.table \in FastTable BY FastSearchTells
<1> HIDE DEF r
<1>2. r.anchor \in 0 .. end /\ Told(src, start, r.anchor, r.seqs) BY <1>1 DEF Outcome
<1>3. Reproduced(src, prefix, start, end, r.seqs, slack) BY <1>2, ToldIsReproduced
<1> QED BY <1>1, <1>3 DEF r

(* What the dfast finder finds in a block, the decoder turns back into it. *)
THEOREM DfastReproduced ==
  ASSUME NEW src \in Seq(Nat), NEW end \in 0 .. Len(src), NEW start \in 0 .. end,
         NEW prefix \in 0 .. start, NEW p, p.minMatch \in Nat, p.window \in Nat, p.strength \in Nat,
         NEW rep, GoodReps(rep), NEW table \in PositionTables(First(start)), NEW slack \in Seq(Nat)
  PROVE LET r == DfastSearch(src, start, end, p, rep, table)
        IN  Reproduced(src, prefix, start, end, r.seqs, slack) /\ r.table \in PositionTables(First(end))
<1> DEFINE r == DfastSearch(src, start, end, p, rep, table)
<1>1. Outcome(src, start, end, r) /\ r.table \in PositionTables(First(end)) BY DfastSearchTells
<1> HIDE DEF r
<1>2. r.anchor \in 0 .. end /\ Told(src, start, r.anchor, r.seqs) BY <1>1 DEF Outcome
<1>3. Reproduced(src, prefix, start, end, r.seqs, slack) BY <1>2, ToldIsReproduced
<1> QED BY <1>1, <1>3 DEF r

-----------------------------------------------------------------------------
(***************************************************************************)
(* Long distance matching.                                                 *)
(*                                                                         *)
(* The rolling hash, the table, the long matches and the gaps between      *)
(* them.                                                                   *)
(***************************************************************************)

(* A loop whose rounds lead from one set of X to the next: what            *)
(* LET upTo[k \in 0 .. n] defines.                                         *)
Moves(X, G, n) == \A k \in 1 .. n : \A y \in X[k - 1] : G[k][y] \in X[k]
Walks(f, X, c, G, n) ==
  /\ f = [k \in 0 .. n |-> f[k]] /\ f[0] = c
  /\ \A k \in 1 .. n : f[k] = G[k][f[k - 1]]
  /\ \A k \in 0 .. n : f[k] \in X[k]

(* Such a loop exists.                                                     *)
LEMMA LoopMoves ==
  ASSUME NEW n \in Nat, NEW X, NEW c \in X[0], NEW G, Moves(X, G, n)
  PROVE \E f : Walks(f, X, c, G, n)
<1>1. PICK f : f = [k \in 0 .. n |-> IF k = 0 THEN c ELSE G[k][f[k - 1]]]
  <2> DEFINE Q(x, y, z) == \E f : f = [k \in 0 .. z |-> IF k = 0 THEN x ELSE y[k][f[k - 1]]]
  <2>1. \A x, y : \A z \in Nat : Q(x, y, z) BY RecursionExists
  <2>2. Q(c, G, n)
    <3> HIDE DEF Q
    <3> QED BY <2>1
  <2> QED BY <2>2
<1>2. f[0] = c
  <2>1. 0 \in 0 .. n OBVIOUS
  <2> QED BY <1>1, <2>1
<1>3. \A k \in 1 .. n : f[k] = G[k][f[k - 1]]
  <2> TAKE k \in 1 .. n
  <2>1. k \in 0 .. n /\ k # 0 OBVIOUS
  <2> QED BY <1>1, <2>1
<1>4. \A k \in 0 .. n : f[k] \in X[k]
  <2>1. f[0] \in X[0] BY <1>2
  <2>2. ASSUME NEW k \in 1 .. n, f[k - 1] \in X[k - 1] PROVE f[k] \in X[k]
    <3>1. G[k][f[k - 1]] \in X[k] BY <2>2 DEF Moves
    <3> QED BY <3>1, <1>3
  <2> QED BY <2>1, <2>2, LoopRule
<1>5. f = [k \in 0 .. n |-> f[k]]
  <2>1. DOMAIN f = 0 .. n BY <1>1
  <2>2. f = [k \in DOMAIN f |-> f[k]] BY <1>1
  <2> QED BY <2>1, <2>2
<1>6. Walks(f, X, c, G, n) BY <1>2, <1>3, <1>4, <1>5 DEF Walks
<1> QED BY <1>6

(* The rolling hash is a natural number.                                   *)
LEMMA WeightNatural ==
  ASSUME NEW src \in Seq(Nat), NEW p \in Nat, NEW n \in Nat, p + n <= Len(src)
  PROVE Weight(src, p, n) \in Nat
<1> DEFINE G == [k \in 1 .. n |-> [y \in Nat |-> y + (k + 2) * src[p + k]]]
           X == [k \in 0 .. n |-> Nat]
           Rec(f) == f = [i \in 0 .. n |-> IF i = 0 THEN 0 ELSE f[i - 1] + (i + 2) * src[p + i]]
           h == CHOOSE f : Rec(f)
<1>0. \A k \in 1 .. n : (k + 2) * src[p + k] \in Nat
  <2> TAKE k \in 1 .. n
  <2>1. p + k \in 1 .. Len(src) OBVIOUS
  <2>2. src[p + k] \in Nat BY <2>1
  <2> DEFINE b == src[p + k]
             a == k + 2
  <2>3. a \in Nat OBVIOUS
  <2> HIDE DEF a, b
  <2>4. b \in Nat BY <2>2 DEF b
  <2>5. a * b \in Nat BY <2>3, <2>4
  <2> QED BY <2>5 DEF a, b
<1>1. \A k \in 1 .. n : \A y \in Nat : G[k][y] \in Nat /\ G[k][y] = y + (k + 2) * src[p + k] BY <1>0
<1>x. \A k \in 0 .. n : X[k] = Nat OBVIOUS
<1>i. \A k \in 1 .. n : k - 1 \in 0 .. n /\ k \in 0 .. n /\ k # 0 OBVIOUS
<1>o. 0 \in 0 .. n /\ n \in 0 .. n /\ 0 \in Nat OBVIOUS
<1>j. \A k \in 0 .. n : k = 0 \/ k \in 1 .. n OBVIOUS
<1>5. Weight(src, p, n) = h[n] BY DEF Weight
<1> HIDE DEF X
<1>2. PICK f : Walks(f, X, 0, G, n)
  <2>1. Moves(X, G, n)
    <3> HIDE DEF G
    <3> QED BY <1>1, <1>x, <1>i DEF Moves
  <2>2. 0 \in X[0] BY <1>x, <1>o
  <2> HIDE DEF G
  <2> QED BY <2>1, <2>2, LoopMoves
<1>3. Rec(f)
  <2>1. \A k \in 1 .. n : f[k - 1] \in Nat BY <1>2, <1>x, <1>i DEF Walks
  <2> HIDE DEF G
  <2>2. \A k \in 1 .. n : f[k] = f[k - 1] + (k + 2) * src[p + k] BY <1>1, <1>2, <2>1 DEF Walks
  <2>3. f[0] = 0 /\ f = [k \in 0 .. n |-> f[k]] BY <1>2 DEF Walks
  <2> QED BY <2>2, <2>3, <1>j
<1>4. Rec(h) BY <1>3
<1> HIDE DEF h, G
<1>6. h[0] \in X[0] BY <1>4, <1>x, <1>o
<1>7. ASSUME NEW k \in 1 .. n, h[k - 1] \in X[k - 1] PROVE h[k] \in X[k]
  <2>1. h[k - 1] \in Nat BY <1>7, <1>i, <1>x
  <2>2. h[k] = h[k - 1] + (k + 2) * src[p + k] BY <1>4, <1>i
  <2> DEFINE b == (k + 2) * src[p + k]
  <2>3. b \in Nat BY <1>0
  <2> HIDE DEF b
  <2>4. h[k - 1] + b \in Nat BY <2>1, <2>3
  <2> QED BY <2>2, <2>4, <1>i, <1>x DEF b
<1>8. \A k \in 0 .. n : h[k] \in X[k] BY <1>6, <1>7, LoopRule
<1>9. h[n] \in Nat BY <1>8, <1>o, <1>x
<1> QED BY <1>5, <1>9

(* The long distance table's parameters, and what it may hold.             *)
Sized(l) ==
  l.minMatch \in Nat /\ l.buckets \in Nat \ {0} /\ l.entries \in Nat \ {0} /\ l.rate \in Nat
Entries == [pos : Nat, sum : Nat]
Ldm(l) == [table    : [0 .. l.buckets - 1 -> [1 .. l.entries -> Entries]],
           next     : [0 .. l.buckets - 1 -> 0 .. l.entries - 1],
           inserted : Nat]

(* The bucket of a hash is one of the table's.                             *)
LEMMA BucketIs ==
  ASSUME NEW l, Sized(l), NEW src \in Seq(Nat), NEW p \in Nat, p + l.minMatch <= Len(src)
  PROVE BucketOf(l, src, p) \in 0 .. l.buckets - 1 /\ ChecksumOf(l, src, p) \in Nat
<1> DEFINE w == Weight(src, p, l.minMatch)
           b == l.buckets
<1>1. w \in Nat
  <2> DEFINE n == l.minMatch
  <2>1. n \in Nat BY DEF Sized
  <2> HIDE DEF n
  <2>2. p + n <= Len(src) BY DEF n
  <2>3. Weight(src, p, n) \in Nat BY <2>1, <2>2, WeightNatural
  <2> QED BY <2>3 DEF n
<1>2. b \in Nat \ {0} BY DEF Sized
<1> HIDE DEF w, b
<1>3. w % b \in 0 .. b - 1 /\ w \div b \in Nat BY <1>1, <1>2
<1> QED BY <1>3 DEF w, b, BucketOf, ChecksumOf

(* The positions the hash stops at lie behind the first and up to the limit. *)
LEMMA TriggersAre ==
  ASSUME NEW l, NEW src, NEW from \in Nat, NEW limit \in Int
  PROVE Triggers(l, src, from, limit) \in Seq(from + 1 .. limit)
<1> DEFINE n == Larger(limit - from, 0)
           Y == Seq(from + 1 .. limit)
           X == [k \in 0 .. n |-> Y]
           B(k, y) == Stopped(l, src, y, from + k)
           G == [k \in 1 .. n |-> [y \in Y |-> B(k, y)]]
           Rec(f) == f = [k \in 0 .. n |-> IF k = 0 THEN << >> ELSE B(k, f[k - 1])]
           h == CHOOSE f : Rec(f)
<1>n. n \in Nat /\ (n # 0 => from + n <= limit) BY DEF Larger
<1>5. Triggers(l, src, from, limit) = h[n] BY DEF Triggers
<1> HIDE DEF n
<1>1. ASSUME NEW k \in 1 .. n, NEW y \in Y PROVE B(k, y) \in Y
  <2> DEFINE e == from + k
  <2>1. e \in from + 1 .. limit BY <1>n
  <2> HIDE DEF e
  <2>2. Append(y, e) \in Y BY <2>1
  <2> QED BY <2>2 DEF Stopped, e
<1>g. \A k \in 1 .. n : \A y \in Y : G[k][y] = B(k, y) OBVIOUS
<1>e. << >> \in Y OBVIOUS
<1>x. \A k \in 0 .. n : X[k] = Y OBVIOUS
<1>i. \A k \in 1 .. n : k - 1 \in 0 .. n /\ k \in 0 .. n /\ k # 0 BY <1>n
<1>o. 0 \in 0 .. n /\ n \in 0 .. n BY <1>n
<1>j. \A k \in 0 .. n : k = 0 \/ k \in 1 .. n BY <1>n
<1> HIDE DEF X, Y, B, G
<1>2. PICK f : Walks(f, X, << >>, G, n)
  <2>1. Moves(X, G, n) BY <1>1, <1>g, <1>x, <1>i DEF Moves
  <2>2. << >> \in X[0] BY <1>x, <1>o, <1>e
  <2> QED BY <1>n, <2>1, <2>2, LoopMoves
<1>3. Rec(f)
  <2>1. \A k \in 1 .. n : f[k - 1] \in Y BY <1>2, <1>x, <1>i DEF Walks
  <2>2. \A k \in 1 .. n : f[k] = B(k, f[k - 1]) BY <1>g, <1>2, <2>1 DEF Walks
  <2>3. f[0] = << >> /\ f = [k \in 0 .. n |-> f[k]] BY <1>2 DEF Walks
  <2> QED BY <2>2, <2>3, <1>j
<1>4. Rec(h) BY <1>3
<1> HIDE DEF h
<1>6. h[0] \in X[0] BY <1>4, <1>x, <1>o, <1>e
<1>7. ASSUME NEW k \in 1 .. n, h[k - 1] \in X[k - 1] PROVE h[k] \in X[k]
  <2>1. h[k - 1] \in Y BY <1>7, <1>i, <1>x
  <2>2. h[k] = B(k, h[k - 1]) BY <1>4, <1>i
  <2> QED BY <1>1, <2>1, <2>2, <1>i, <1>x
<1>8. \A k \in 0 .. n : h[k] \in X[k] BY <1>n, <1>6, <1>7, LoopRule
<1>9. h[n] \in Y BY <1>8, <1>o, <1>x
<1> QED BY <1>5, <1>9 DEF Y

(* A batch of stops lies behind its start, and ends within the limit.      *)
LEMMA FeedIs ==
  ASSUME NEW l, NEW src, NEW from \in Nat, NEW limit \in Int, from < limit
  PROVE LET f == Feed(l, src, from, limit)
        IN  f.splits \in Seq(from + 1 .. limit) /\ f.upTo \in from .. limit
<1> DEFINE all == Triggers(l, src, from, limit)
           Y == from + 1 .. limit
           f == Feed(l, src, from, limit)
           n == BatchSize
<1>1. all \in Seq(Y) BY TriggersAre
<1>2. f = IF Len(all) < n THEN [splits |-> all, upTo |-> limit]
          ELSE [splits |-> SubSeq(all, 1, n), upTo |-> all[n]]
  BY DEF Feed
<1>3. n \in Nat /\ n >= 1 BY BatchSizeAssumption
<1>4. \A y \in Y : y \in from .. limit OBVIOUS
<1>5. limit \in from .. limit OBVIOUS
<1> HIDE DEF all, f, n, Y
<1>6. CASE Len(all) < n BY <1>1, <1>2, <1>5, <1>6 DEF f, Y
<1>7. CASE ~(Len(all) < n)
  <2>1. n \in 1 .. Len(all) /\ Len(all) \in Nat BY <1>1, <1>3, <1>7
  <2>2. all[n] \in Y BY <1>1, <2>1
  <2>3. IsPart(Y, Part(all, 0, n), all, 0, n)
    <3>1. 0 \in Nat /\ n \in Nat /\ 0 + n <= Len(all) BY <1>3, <2>1
    <3> QED BY <1>1, <3>1, PartIs
  <2>4. Part(all, 0, n) = SubSeq(all, 1, n)
    <3>1. 0 + 1 = 1 /\ 0 + n = n BY <1>3
    <3> QED BY <3>1 DEF Part
  <2>5. SubSeq(all, 1, n) \in Seq(Y) BY <2>3, <2>4 DEF IsPart
  <2> QED BY <1>2, <1>4, <1>7, <2>2, <2>5 DEF f, Y
<1> QED BY <1>6, <1>7

(* An entry inserted where the bucket's next one belongs.                  *)
LEMMA InsertKeeps ==
  ASSUME NEW l, Sized(l), NEW t \in Ldm(l), NEW b \in 0 .. l.buckets - 1, NEW e \in Entries
  PROVE InsertEntry(l, t, b, e) \in Ldm(l)
<1> DEFINE m == l.entries
           B == 0 .. l.buckets - 1
           x == t.next[b]
           i == x + 1
           y == (x + 1) % m
<1>1. /\ t = [table |-> t.table, next |-> t.next, inserted |-> t.inserted]
      /\ t.table \in [B -> [1 .. m -> Entries]] /\ t.next \in [B -> 0 .. m - 1]
      /\ t.inserted \in Nat
  BY DEF Ldm
<1>2. m \in Nat \ {0} BY DEF Sized
<1>3. x \in 0 .. m - 1 BY <1>1
<1> HIDE DEF m, B, x
<1>4. i \in 1 .. m /\ y \in 0 .. m - 1 BY <1>2, <1>3
<1> DEFINE T == [t.table EXCEPT ![b][i] = e]
           N == [t.next EXCEPT ![b] = y]
           r == InsertEntry(l, t, b, e)
<1>5. r.table = T /\ r.next = N /\ r.inserted = t.inserted + 1
      /\ r = [table |-> r.table, next |-> r.next, inserted |-> r.inserted]
  <2> DEFINE t1 == [t EXCEPT !.table[b][i] = e]
             t2 == [t1 EXCEPT !.next[b] = (@ + 1) % m]
             t3 == [t2 EXCEPT !.inserted = @ + 1]
  <2>1. r = t3 BY DEF InsertEntry, m, x
  <2>a. t1.table = T
    <3>1. "table" \in DOMAIN t BY <1>1
    <3> QED BY <3>1
  <2>b. t1.next = t.next /\ t1.inserted = t.inserted BY <1>1
  <2>c. t1 = [table |-> t1.table, next |-> t1.next, inserted |-> t1.inserted]
    <3> DEFINE a == T
    <3>1. t1 = [t EXCEPT !.table = a] OBVIOUS
    <3> HIDE DEF a
    <3>2. \A u : [t EXCEPT !.table = u] = [table |-> u, next |-> t.next, inserted |-> t.inserted]
      BY <1>1
    <3>3. t1 = [table |-> a, next |-> t.next, inserted |-> t.inserted] BY <3>1, <3>2
    <3> HIDE DEF t1
    <3> QED BY <3>3
  <2>2. t1 = [table |-> T, next |-> t.next, inserted |-> t.inserted]
    <3> HIDE DEF t1, T
    <3> QED BY <2>a, <2>b, <2>c
  <2> HIDE DEF t1, T
  <2>3. t2 = [table |-> T, next |-> [t.next EXCEPT ![b] = (@ + 1) % m], inserted |-> t.inserted] BY <2>2
  <2>4. b \in B BY DEF B
  <2>5. [t.next EXCEPT ![b] = (@ + 1) % m] = N BY <1>1, <2>4 DEF x
  <2> HIDE DEF t2, N
  <2>6. t3 = [table |-> T, next |-> N, inserted |-> t.inserted + 1] BY <2>3, <2>5
  <2> HIDE DEF t3, r
  <2> QED BY <2>1, <2>6
<1>b. b \in B BY DEF B
<1> HIDE DEF i, y, r
<1>6. T \in [B -> [1 .. m -> Entries]] BY <1>1, <1>4, <1>b
<1>7. N \in [B -> 0 .. m - 1] BY <1>1, <1>4, <1>b
<1>8. r.inserted \in Nat BY <1>1, <1>5
<1> HIDE DEF T, N
<1>9. r \in Ldm(l) BY <1>5, <1>6, <1>7, <1>8 DEF Ldm, B, m
<1> QED BY <1>9 DEF r

(* The entry of a position with its whole hash inside src.                 *)
LEMMA InsertSplitKeeps ==
  ASSUME NEW l, Sized(l), NEW src \in Seq(Nat), NEW t \in Ldm(l),
         NEW p \in Nat, p + l.minMatch <= Len(src)
  PROVE InsertSplit(l, src, t, p) \in Ldm(l)
<1> DEFINE b == BucketOf(l, src, p)
           e == [pos |-> p, sum |-> ChecksumOf(l, src, p)]
<1>1. b \in 0 .. l.buckets - 1 /\ ChecksumOf(l, src, p) \in Nat BY BucketIs
<1>2. e \in Entries BY <1>1 DEF Entries
<1>3. InsertSplit(l, src, t, p) = InsertEntry(l, t, b, e) BY DEF InsertSplit
<1> HIDE DEF b, e
<1> QED BY <1>1, <1>2, <1>3, InsertKeeps

(* Positions behind a whole minMatch bytes, and inside src.                *)
Splits(l, src) == l.minMatch .. Len(src)

(* All the positions the hash stops at, inserted.                          *)
LEMMA FillAllKeeps ==
  ASSUME NEW l, Sized(l), NEW src \in Seq(Nat), NEW t \in Ldm(l), NEW triggers \in Seq(Splits(l, src))
  PROVE FillAll(l, src, t, triggers) \in Ldm(l)
<1> DEFINE n == Len(triggers)
           Y == Ldm(l)
           X == [k \in 0 .. n |-> Y]
           B(k, y) == InsertSplit(l, src, y, triggers[k] - l.minMatch)
           G == [k \in 1 .. n |-> [y \in Y |-> B(k, y)]]
           Rec(f) == f = [k \in 0 .. n |-> IF k = 0 THEN t ELSE B(k, f[k - 1])]
           h == CHOOSE f : Rec(f)
<1>n. n \in Nat OBVIOUS
<1>5. FillAll(l, src, t, triggers) = h[n] BY DEF FillAll
<1>1. ASSUME NEW k \in 1 .. n, NEW y \in Y PROVE B(k, y) \in Y
  <2> DEFINE m == l.minMatch
             p == triggers[k] - m
  <2>1. triggers[k] \in Splits(l, src) BY <1>1
  <2>2. m \in Nat /\ Len(src) \in Nat BY DEF Sized
  <2>3. p \in Nat /\ p + m <= Len(src)
    <3> DEFINE x == triggers[k]
    <3>1. x \in m .. Len(src) BY <2>1 DEF Splits
    <3> HIDE DEF x, m
    <3> QED BY <2>2, <3>1 DEF x
  <2> HIDE DEF p
  <2>4. InsertSplit(l, src, y, p) \in Ldm(l) BY <2>3, InsertSplitKeeps DEF m
  <2> QED BY <2>4 DEF p, m
<1>g. \A k \in 1 .. n : \A y \in Y : G[k][y] = B(k, y) OBVIOUS
<1>e. t \in Y OBVIOUS
<1>x. \A k \in 0 .. n : X[k] = Y OBVIOUS
<1> HIDE DEF n
<1>i. \A k \in 1 .. n : k - 1 \in 0 .. n /\ k \in 0 .. n /\ k # 0 BY <1>n
<1>o. 0 \in 0 .. n /\ n \in 0 .. n BY <1>n
<1>j. \A k \in 0 .. n : k = 0 \/ k \in 1 .. n BY <1>n
<1> HIDE DEF X, Y, B, G
<1>2. PICK f : Walks(f, X, t, G, n)
  <2>1. Moves(X, G, n) BY <1>1, <1>g, <1>x, <1>i DEF Moves
  <2>2. t \in X[0] BY <1>x, <1>o, <1>e
  <2> QED BY <1>n, <2>1, <2>2, LoopMoves
<1>3. Rec(f)
  <2>1. \A k \in 1 .. n : f[k - 1] \in Y BY <1>2, <1>x, <1>i DEF Walks
  <2>2. \A k \in 1 .. n : f[k] = B(k, f[k - 1]) BY <1>g, <1>2, <2>1 DEF Walks
  <2>3. f[0] = t /\ f = [k \in 0 .. n |-> f[k]] BY <1>2 DEF Walks
  <2> QED BY <2>2, <2>3, <1>j
<1>4. Rec(h) BY <1>3
<1> HIDE DEF h
<1>6. h[0] \in X[0] BY <1>4, <1>x, <1>o, <1>e
<1>7. ASSUME NEW k \in 1 .. n, h[k - 1] \in X[k - 1] PROVE h[k] \in X[k]
  <2>1. h[k - 1] \in Y BY <1>7, <1>i, <1>x
  <2>2. h[k] = B(k, h[k - 1]) BY <1>4, <1>i
  <2> QED BY <1>1, <2>1, <2>2, <1>i, <1>x
<1>8. \A k \in 0 .. n : h[k] \in X[k] BY <1>n, <1>6, <1>7, LoopRule
<1>9. h[n] \in Y BY <1>8, <1>o, <1>x
<1> QED BY <1>5, <1>9 DEF Y

(* A sequence over a set is one over any larger set.                       *)
LEMMA SeqGrows ==
  ASSUME NEW A, NEW C, A \subseteq C, NEW s \in Seq(A) PROVE s \in Seq(C)
<1>1. \A i \in 1 .. Len(s) : s[i] \in C OBVIOUS
<1>2. s = [i \in 1 .. Len(s) |-> s[i]] /\ Len(s) \in Nat OBVIOUS
<1>3. s \in [1 .. Len(s) -> C] BY <1>1, <1>2
<1> QED BY <1>2, <1>3

(* A block that only fills the table.                                      *)
LEMMA FillOnlyKeeps ==
  ASSUME NEW l, Sized(l), NEW src \in Seq(Nat), NEW end \in 0 .. Len(src), NEW start \in 0 .. end,
         NEW t \in Ldm(l)
  PROVE FillOnly(l, src, t, start, end) \in Ldm(l)
<1> DEFINE m == l.minMatch
           from == ScanFrom(l, start, end)
           tr == Triggers(l, src, from, end - 8)
<1>1. m \in Nat /\ Len(src) \in Nat /\ end \in Nat /\ start \in Nat /\ end <= Len(src) BY DEF Sized
<1>2. CASE end - start < m BY <1>2 DEF FillOnly
<1>3. CASE ~(end - start < m)
  <2>1. from = Smaller(start + m, end) BY DEF ScanFrom
  <2>2. FillOnly(l, src, t, start, end) = FillAll(l, src, t, tr) BY <1>3 DEF FillOnly
  <2> HIDE DEF m
  <2>3. from \in Nat /\ from >= m /\ end - 8 \in Int
    <3> HIDE DEF from
    <3> QED BY <1>1, <1>3, <2>1 DEF Smaller
  <2> HIDE DEF from
  <2>4. tr \in Seq(from + 1 .. end - 8) BY <2>3, TriggersAre
  <2>5. from + 1 .. end - 8 \subseteq Splits(l, src)
    <3>1. from + 1 .. end - 8 \subseteq m .. Len(src) BY <1>1, <2>3
    <3> QED BY <3>1 DEF Splits, m
  <2> HIDE DEF tr
  <2>6. tr \in Seq(Splits(l, src)) BY <2>4, <2>5, SeqGrows
  <2> QED BY <2>2, <2>6, FillAllKeeps
<1> QED BY <1>2, <1>3

(* Of finitely many numbers none of which is above some bound, the first   *)
(* that no other exceeds.                                                  *)
LEMMA FirstLargest ==
  ASSUME NEW C, C \subseteq Nat, C # {}, NEW F, NEW top \in Nat, \A i \in C : F[i] \in 0 .. top
  PROVE \E i \in C : \A j \in C : F[j] <= F[i] /\ (F[j] = F[i] => i <= j)
<1> DEFINE T == { top - F[i] : i \in C }
<1>0. \A i \in C : F[i] \in 0 .. top OBVIOUS
<1>t. \A i \in C : F[i] \in Nat /\ F[i] <= top
  <2> TAKE i \in C
  <2> DEFINE x == F[i]
  <2>1. x \in 0 .. top BY <1>0
  <2> HIDE DEF x
  <2>2. x \in Nat /\ x <= top BY <2>1
  <2> QED BY <2>2 DEF x
<1>u. \A i \in C : top - F[i] \in Nat
  <2> TAKE i \in C
  <2> DEFINE x == F[i]
  <2>1. x \in Nat /\ x <= top BY <1>t
  <2> HIDE DEF x
  <2>2. top - x \in Nat BY <2>1
  <2> QED BY <2>2 DEF x
<1>1. T \subseteq Nat /\ T # {} BY <1>u
<1>2. PICK m \in T : \A y \in T : m <= y
  <2> HIDE DEF T
  <2> QED BY <1>1, LeastNatural
<1> DEFINE U == { i \in C : top - F[i] = m }
<1>3. U \subseteq Nat /\ U # {} BY <1>2
<1>4. PICK i \in U : \A j \in U : i <= j
  <2> HIDE DEF U
  <2> QED BY <1>3, LeastNatural
<1>5. i \in C /\ top - F[i] = m BY <1>4
<1>6. ASSUME NEW j \in C PROVE F[j] <= F[i] /\ (F[j] = F[i] => i <= j)
  <2>1. top - F[j] \in T OBVIOUS
  <2>2. m <= top - F[j] BY <1>2, <2>1
  <2>3. F[j] \in Nat /\ F[i] \in Nat BY <1>5, <1>t
  <2>4. F[j] <= F[i] BY <1>5, <2>2, <2>3
  <2>5. F[j] = F[i] => j \in U BY <1>5
  <2> QED BY <1>4, <2>4, <2>5
<1> QED BY <1>5, <1>6

(* What generate_sequences searches: c is the block and its parameters.    *)
Hunting(c) == c.src \in Seq(Nat) /\ c.end \in 0 .. Len(c.src) /\ Sized(c.l)
(* A match, from anchor on.                                                *)
Taken(src, end, anchor, b) ==
  /\ b.at \in Nat /\ b.off \in Distances /\ b.len \in Nat
  /\ anchor <= b.at /\ b.off <= b.at /\ b.at + b.len <= end /\ Equal(src, b.at, b.at - b.off, b.len)

(* A candidate at m, seen from split: as many bytes in front of it as      *)
(* behind it that are equal.                                               *)
LEMMA CandidateTaken ==
  ASSUME NEW src \in Seq(Nat), NEW end \in 0 .. Len(src), NEW anchor \in Nat, NEW split \in Nat,
         anchor <= split, split <= end, NEW m \in Nat, m < split
  PROVE LET fwd  == CountMatch(src, split, m, end)
            back == CountBack(src, split, m, Smaller(split - anchor, m))
        IN  /\ fwd \in Nat /\ back \in Nat /\ fwd + back <= end
            /\ Taken(src, end, anchor, [len |-> fwd + back, off |-> split - m, at |-> split - back])
<1> DEFINE fwd  == CountMatch(src, split, m, end)
           most == Smaller(split - anchor, m)
           back == CountBack(src, split, m, most)
           b == [len |-> fwd + back, off |-> split - m, at |-> split - back]
<1>0. end \in Nat /\ end <= Len(src) /\ split <= Len(src) /\ m <= split OBVIOUS
<1>1. fwd \in 0 .. end - split /\ Equal(src, split, m, fwd) BY <1>0, CountMatchCounts
<1>2. most \in Nat /\ most <= m /\ most <= split - anchor BY DEF Smaller
<1> HIDE DEF most
<1>3. back \in 0 .. most /\ Equal(src, split - back, m - back, back) BY <1>0, <1>2, CountBackCounts
<1> HIDE DEF fwd, back
<1>4. /\ fwd \in Nat /\ back \in Nat /\ fwd + back <= end /\ back <= m /\ back <= split
      /\ split - back \in Nat /\ split - m \in Nat \ {0} /\ anchor <= split - back
      /\ split - m <= split - back /\ split - back + (fwd + back) <= end
      /\ (split - back) - (split - m) = m - back
  BY <1>0, <1>1, <1>2, <1>3
<1>5. Equal(src, split - back, m - back, fwd + back) BY <1>1, <1>3, <1>4, EqualFront
<1>6. b.len = fwd + back /\ b.off = split - m /\ b.at = split - back OBVIOUS
<1> HIDE DEF b
<1>7. Taken(src, end, anchor, b) BY <1>4, <1>5, <1>6 DEF Taken, Distances
<1> QED BY <1>4, <1>7 DEF b, fwd, back, most

(* The longest match of a bucket is a match, or there is none.             *)
LEMMA BestTaken ==
  ASSUME NEW c, Hunting(c), NEW g, g.ldm \in Ldm(c.l), g.anchor \in Nat, NEW split \in Nat,
         g.anchor <= split, split + c.l.minMatch <= c.end
  PROVE LET b == Best(c, g, split) IN b.len = 0 \/ Taken(c.src, c.end, g.anchor, b)
<1> DEFINE bucket == g.ldm.table[BucketOf(c.l, c.src, split)]
           src == c.src
           end == c.end
           anchor == g.anchor
           Fwd(i)   == CountMatch(src, split, bucket[i].pos, end)
           Bck(i)   == CountBack(src, split, bucket[i].pos, Smaller(split - anchor, bucket[i].pos))
           Total(i) == Fwd(i) + Bck(i)
           C == {i \in DOMAIN bucket :
                  /\ bucket[i].sum = ChecksumOf(c.l, src, split) /\ bucket[i].pos # 0
                  /\ bucket[i].pos < split /\ split - bucket[i].pos <= c.window
                  /\ Fwd(i) >= c.l.minMatch}
           best == CHOOSE i \in C : \A j \in C : Total(j) <= Total(i) /\ (Total(j) = Total(i) => i <= j)
           b == Best(c, g, split)
<1>0. /\ src \in Seq(Nat) /\ end \in 0 .. Len(src) /\ Sized(c.l) /\ c.l.minMatch \in Nat
      /\ c.l.entries \in Nat
  BY DEF Hunting, Sized
<1>1. split <= end /\ split + c.l.minMatch <= Len(src) BY <1>0
<1>2. bucket \in [1 .. c.l.entries -> Entries]
  <2> DEFINE k == BucketOf(c.l, c.src, split)
  <2>1. k \in 0 .. c.l.buckets - 1 BY <1>0, <1>1, BucketIs
  <2> HIDE DEF k
  <2>2. g.ldm.table \in [0 .. c.l.buckets - 1 -> [1 .. c.l.entries -> Entries]] BY DEF Ldm
  <2> QED BY <2>1, <2>2 DEF k
<1>3. b = IF C = {} THEN [len |-> 0]
          ELSE [len |-> Total(best), off |-> split - bucket[best].pos, at |-> split - Bck(best)]
  BY DEF Best, Back
<1> HIDE DEF bucket, b
<1>4. C \subseteq Nat
  <2>1. C \subseteq DOMAIN bucket OBVIOUS
  <2>2. DOMAIN bucket = 1 .. c.l.entries BY <1>2
  <2> HIDE DEF C
  <2> QED BY <1>0, <2>1, <2>2
<1>5. ASSUME NEW i \in C
      PROVE /\ Total(i) \in 0 .. end
            /\ Taken(src, end, anchor, [len |-> Total(i), off |-> split - bucket[i].pos,
                                        at |-> split - Bck(i)])
  <2> DEFINE m == bucket[i].pos
  <2>1. i \in 1 .. c.l.entries /\ m < split BY <1>2
  <2>2. m \in Nat BY <1>2, <2>1 DEF Entries
  <2> HIDE DEF C
  <2> HIDE DEF m
  <2> DEFINE fwd  == CountMatch(src, split, m, end)
             back == CountBack(src, split, m, Smaller(split - anchor, m))
  <2>3. /\ fwd \in Nat /\ back \in Nat /\ fwd + back <= end
        /\ Taken(src, end, anchor, [len |-> fwd + back, off |-> split - m, at |-> split - back])
    <3> HIDE DEF src, end, anchor
    <3>1. anchor \in Nat /\ anchor <= split BY DEF anchor
    <3> QED BY <1>0, <1>1, <2>1, <2>2, <3>1, CandidateTaken
  <2>4. fwd = Fwd(i) /\ back = Bck(i) BY DEF m
  <2> HIDE DEF fwd, back, Fwd, Bck
  <2>5. Total(i) = fwd + back BY <2>4
  <2>6. end \in Nat BY <1>0
  <2> HIDE DEF Total, end, src, anchor
  <2>7. fwd + back \in 0 .. end BY <2>3, <2>6
  <2> QED BY <2>3, <2>4, <2>5, <2>7 DEF m
<1>6. CASE C = {}
  <2>1. b.len = 0 BY <1>3, <1>6
  <2> QED BY <2>1 DEF b
<1>7. CASE C # {}
  <2> DEFINE F == [i \in C |-> Total(i)]
  <2>0. \A i \in C : F[i] = Total(i) OBVIOUS
  <2>e. end \in Nat BY <1>0
  <2> HIDE DEF Total, F
  <2>1. \A i \in C : F[i] \in 0 .. end BY <1>5, <2>0
  <2> HIDE DEF C, end
  <2>2. PICK i \in C : \A j \in C : F[j] <= F[i] /\ (F[j] = F[i] => i <= j)
    BY <1>4, <1>7, <2>1, <2>e, FirstLargest
  <2>3. \A j \in C : Total(j) <= Total(i) /\ (Total(j) = Total(i) => i <= j) BY <2>0, <2>2
  <2>4. best \in C BY <2>3
  <2> HIDE DEF best
  <2>5. Taken(src, end, anchor, [len |-> Total(best), off |-> split - bucket[best].pos,
                                 at |-> split - Bck(best)])
    BY <1>5, <2>4
  <2>6. b = [len |-> Total(best), off |-> split - bucket[best].pos, at |-> split - Bck(best)]
    BY <1>3, <1>7
  <2>7. Taken(src, end, anchor, b) BY <2>5, <2>6
  <2> QED BY <2>7 DEF b, src, end, anchor
<1> QED BY <1>6, <1>7

(* What generate_sequences has come to: the table, and the matches found,  *)
(* which say what src is from start up to the anchor.                      *)
Hunt(ldm, anchor, found) == [ldm |-> ldm, anchor |-> anchor, found |-> found]
Hunted(c, start) ==
  { g \in [ldm : Ldm(c.l), anchor : start .. c.end, found : Seq(Sequence)] :
      Told(c.src, start, g.anchor, g.found) }

(* What makes up a member of Hunted.                                       *)
LEMMA HuntedIs ==
  ASSUME NEW c, NEW start, NEW t \in Ldm(c.l), NEW a \in start .. c.end, NEW f,
         Told(c.src, start, a, f)
  PROVE Hunt(t, a, f) \in Hunted(c, start)
<1> DEFINE g == Hunt(t, a, f)
<1>1. f \in Seq(Sequence) BY DEF Told
<1>2. g.ldm = t /\ g.anchor = a /\ g.found = f BY DEF Hunt
<1>3. g \in [ldm : Ldm(c.l), anchor : start .. c.end, found : Seq(Sequence)] BY <1>1 DEF Hunt
<1> HIDE DEF g
<1>4. g \in Hunted(c, start) BY <1>2, <1>3 DEF Hunted
<1> QED BY <1>4 DEF g

(* And the fields of one.                                                  *)
LEMMA HuntedFields ==
  ASSUME NEW c, NEW start, NEW g \in Hunted(c, start)
  PROVE /\ g = Hunt(g.ldm, g.anchor, g.found) /\ g.ldm \in Ldm(c.l) /\ g.anchor \in start .. c.end
        /\ g.found \in Seq(Sequence) /\ Told(c.src, start, g.anchor, g.found)
        /\ \A t : [g EXCEPT !.ldm = t] = Hunt(t, g.anchor, g.found)
<1>1. g \in [ldm : Ldm(c.l), anchor : start .. c.end, found : Seq(Sequence)]
      /\ Told(c.src, start, g.anchor, g.found)
  BY DEF Hunted
<1>2. g = Hunt(g.ldm, g.anchor, g.found) BY <1>1 DEF Hunt
<1>3. \A t : [g EXCEPT !.ldm = t] = Hunt(t, g.anchor, g.found) BY <1>1 DEF Hunt
<1> QED BY <1>1, <1>2, <1>3

Anchored(g, f, a) == [g EXCEPT !.found = f, !.anchor = a]

(* The two updates that a match makes, as one state.                       *)
LEMMA AnchoredIs ==
  ASSUME NEW c, NEW start, NEW g \in Hunted(c, start), NEW f, NEW a
  PROVE Anchored(g, f, a) = Hunt(g.ldm, a, f)
<1> DEFINE g1 == [g EXCEPT !.found = f]
<1>1. g = Hunt(g.ldm, g.anchor, g.found) BY HuntedFields
<1>2. g1 = Hunt(g.ldm, g.anchor, f) BY <1>1 DEF Hunt
<1>3. Anchored(g, f, a) = [g1 EXCEPT !.anchor = a] BY DEF Anchored
<1> HIDE DEF g1
<1>4. [g1 EXCEPT !.anchor = a] = Hunt(g.ldm, a, f) BY <1>2 DEF Hunt
<1> QED BY <1>3, <1>4

(* A long match taken: those found still say what src is.                  *)
LEMMA TakeBestKeeps ==
  ASSUME NEW c, Hunting(c), NEW start \in Nat, NEW g \in Hunted(c, start), NEW b,
         b.len = 0 \/ Taken(c.src, c.end, g.anchor, b)
  PROVE TakeBest(g, b) \in Hunted(c, start)
<1>1. CASE b.len = 0 BY <1>1 DEF TakeBest
<1>2. CASE b.len # 0
  <2> DEFINE src == c.src
             end == c.end
             a == g.anchor
             at == b.at
             off == b.off
             len == b.len
             q == [ll |-> at - a, off |-> off, ml |-> len]
             next == at + len
             more == Append(g.found, q)
  <2>1. /\ at \in Nat /\ off \in Distances /\ len \in Nat /\ a <= at /\ off <= at /\ next <= end
        /\ Equal(src, at, at - off, len)
    BY <1>2 DEF Taken
  <2>2. src \in Seq(Nat) /\ end \in 0 .. Len(src) BY DEF Hunting
  <2>3. a \in start .. end /\ Told(src, start, a, g.found) BY HuntedFields
  <2>4. TakeBest(g, b) = Anchored(g, more, next) BY <1>2 DEF TakeBest, Anchored
  <2> HIDE DEF src, end, a, at, off, len
  <2>5. off \in Nat /\ off >= 1 /\ a \in Nat /\ next \in Nat /\ next <= Len(src) /\ next \in start .. end
    BY <2>1, <2>2, <2>3 DEF Distances
  <2>6. q \in Sequence /\ Says(src, a, next, q) BY <2>1, <2>2, <2>5, MatchSays
  <2> HIDE DEF q, next
  <2>7. Told(src, start, next, more) BY <2>3, <2>5, <2>6, ToldFurther
  <2> HIDE DEF more
  <2>8. TakeBest(g, b) = Hunt(g.ldm, next, more) BY <2>4, AnchoredIs
  <2>9. g.ldm \in Ldm(c.l) BY HuntedFields
  <2>10. Hunt(g.ldm, next, more) \in Hunted(c, start)
    BY <2>5, <2>7, <2>9, HuntedIs DEF src, end
  <2> QED BY <2>8, <2>10
<1> QED BY <1>1, <1>2

(* A position the hash stops at, searched and inserted.                    *)
LEMMA NextSplitKeeps ==
  ASSUME NEW c, Hunting(c), NEW start \in Nat, NEW g \in Hunted(c, start), NEW upTo,
         NEW split \in Nat, split + c.l.minMatch <= c.end
  PROVE NextSplit(c, g, upTo, split) \in Hunted(c, start)
<1> DEFINE t == InsertSplit(c.l, c.src, g.ldm, split)
           h == Hunt(t, g.anchor, g.found)
           b == IF split < g.anchor THEN [len |-> 0] ELSE Best(c, g, split)
<1>0. c.src \in Seq(Nat) /\ c.end \in 0 .. Len(c.src) /\ Sized(c.l) BY DEF Hunting
<1>1. g.ldm \in Ldm(c.l) /\ g.anchor \in start .. c.end /\ Told(c.src, start, g.anchor, g.found)
  BY HuntedFields
<1>2. TakeSplit(c, g, split) = TakeBest(h, b)
  <2>1. \A u : [g EXCEPT !.ldm = u] = Hunt(u, g.anchor, g.found) BY HuntedFields
  <2>2. [g EXCEPT !.ldm = InsertSplit(c.l, c.src, @, split)] = h BY <2>1
  <2> HIDE DEF h, b
  <2> QED BY <2>2 DEF TakeSplit, b
<1>3. t \in Ldm(c.l)
  <2>1. split + c.l.minMatch <= Len(c.src)
    <3> DEFINE m == c.l.minMatch
               e == c.end
               n == Len(c.src)
    <3>1. m \in Nat /\ e \in 0 .. n /\ n \in Nat /\ split + m <= e BY <1>0 DEF Sized
    <3> HIDE DEF m, e, n
    <3>2. split + m <= n BY <3>1
    <3> QED BY <3>2 DEF m, n
  <2> QED BY <1>0, <1>1, <2>1, InsertSplitKeeps
<1>4. b.len = 0 \/ Taken(c.src, c.end, g.anchor, b)
  <2>1. CASE split < g.anchor BY <2>1
  <2>2. CASE ~(split < g.anchor)
    <3>1. g.anchor \in Nat /\ g.anchor <= split BY <1>0, <1>1, <2>2
    <3>2. b = Best(c, g, split) BY <2>2
    <3> HIDE DEF b
    <3>3. LET x == Best(c, g, split) IN x.len = 0 \/ Taken(c.src, c.end, g.anchor, x)
      BY <1>1, <3>1, BestTaken
    <3> QED BY <3>2, <3>3
  <2> QED BY <2>1, <2>2
<1> HIDE DEF t, b
<1>5. h \in Hunted(c, start) BY <1>1, <1>3, HuntedIs
<1>6. h.anchor = g.anchor BY DEF Hunt
<1> HIDE DEF h
<1>7. TakeBest(h, b) \in Hunted(c, start) BY <1>4, <1>5, <1>6, TakeBestKeeps
<1> QED BY <1>2, <1>7 DEF NextSplit

(* All of a batch.                                                         *)
LEMMA EachSplitKeeps ==
  ASSUME NEW c, Hunting(c), NEW start \in Nat, NEW g \in Hunted(c, start), NEW upTo,
         NEW splits \in Seq(c.l.minMatch .. c.end)
  PROVE EachSplit(c, g, splits, upTo) \in Hunted(c, start)
<1> DEFINE n == Len(splits)
           Y == Hunted(c, start)
           X == [k \in 0 .. n |-> Y]
           B(k, y) == NextSplit(c, y, upTo, splits[k] - c.l.minMatch)
           G == [k \in 1 .. n |-> [y \in Y |-> B(k, y)]]
           Rec(f) == f = [k \in 0 .. n |-> IF k = 0 THEN g ELSE B(k, f[k - 1])]
           h == CHOOSE f : Rec(f)
<1>n. n \in Nat OBVIOUS
<1>5. EachSplit(c, g, splits, upTo) = h[n] BY DEF EachSplit
<1>1. ASSUME NEW k \in 1 .. n, NEW y \in Y PROVE B(k, y) \in Y
  <2> DEFINE m == c.l.minMatch
             e == c.end
             x == splits[k]
             p == x - m
  <2>1. x \in m .. e
    <3> DEFINE Z == c.l.minMatch .. c.end
    <3>1. splits \in Seq(Z) OBVIOUS
    <3> HIDE DEF Z
    <3>2. \A i \in 1 .. Len(splits) : splits[i] \in Z BY <3>1
    <3> QED BY <1>1, <3>2 DEF Z
  <2>2. m \in Nat /\ e \in Nat BY DEF Hunting, Sized
  <2> HIDE DEF x, m, e
  <2>3. p \in Nat /\ p + m <= e BY <2>1, <2>2
  <2> HIDE DEF p
  <2>4. NextSplit(c, y, upTo, p) \in Hunted(c, start) BY <2>3, NextSplitKeeps DEF m, e
  <2> QED BY <2>4 DEF p, m, x
<1>g. \A k \in 1 .. n : \A y \in Y : G[k][y] = B(k, y) OBVIOUS
<1>e. g \in Y OBVIOUS
<1>x. \A k \in 0 .. n : X[k] = Y OBVIOUS
<1> HIDE DEF n
<1>i. \A k \in 1 .. n : k - 1 \in 0 .. n /\ k \in 0 .. n /\ k # 0 BY <1>n
<1>o. 0 \in 0 .. n /\ n \in 0 .. n BY <1>n
<1>j. \A k \in 0 .. n : k = 0 \/ k \in 1 .. n BY <1>n
<1> HIDE DEF X, Y, B, G
<1>2. PICK f : Walks(f, X, g, G, n)
  <2>1. Moves(X, G, n) BY <1>1, <1>g, <1>x, <1>i DEF Moves
  <2>2. g \in X[0] BY <1>x, <1>o, <1>e
  <2> QED BY <1>n, <2>1, <2>2, LoopMoves
<1>3. Rec(f)
  <2>1. \A k \in 1 .. n : f[k - 1] \in Y BY <1>2, <1>x, <1>i DEF Walks
  <2>2. \A k \in 1 .. n : f[k] = B(k, f[k - 1]) BY <1>g, <1>2, <2>1 DEF Walks
  <2>3. f[0] = g /\ f = [k \in 0 .. n |-> f[k]] BY <1>2 DEF Walks
  <2> QED BY <2>2, <2>3, <1>j
<1>4. Rec(h) BY <1>3
<1> HIDE DEF h
<1>6. h[0] \in X[0] BY <1>4, <1>x, <1>o, <1>e
<1>7. ASSUME NEW k \in 1 .. n, h[k - 1] \in X[k - 1] PROVE h[k] \in X[k]
  <2>1. h[k - 1] \in Y BY <1>7, <1>i, <1>x
  <2>2. h[k] = B(k, h[k - 1]) BY <1>4, <1>i
  <2> QED BY <1>1, <2>1, <2>2, <1>i, <1>x
<1>8. \A k \in 0 .. n : h[k] \in X[k] BY <1>n, <1>6, <1>7, LoopRule
<1>9. h[n] \in Y BY <1>8, <1>o, <1>x
<1> QED BY <1>5, <1>9 DEF Y

(* Where the hash has come to, behind a first minMatch bytes.              *)
Fed(c, start) == [g : Hunted(c, start), ip : { i \in Nat : i >= c.l.minMatch }]

(* A batch leaves the hash behind a whole minMatch bytes again.            *)
LEMMA BatchKeeps ==
  ASSUME NEW c, Hunting(c), NEW start \in Nat, NEW b \in Fed(c, start)
  PROVE Batch(c, b, c.end - 8) \in Fed(c, start)
<1> DEFINE m == c.l.minMatch
           e == c.end
           limit == e - 8
           ip == b.ip
           f == Feed(c.l, c.src, ip, limit)
           splits == f.splits
           upTo == f.upTo
           h == EachSplit(c, b.g, splits, upTo)
<1>0. m \in Nat /\ e \in Nat BY DEF Hunting, Sized
<1>1. b.g \in Hunted(c, start) /\ ip \in Nat /\ ip >= m BY DEF Fed
<1>2. limit \in Int /\ limit <= e BY <1>0
<1>3. Batch(c, b, limit) = IF ip >= limit THEN b ELSE [g |-> h, ip |-> Larger(h.anchor, upTo)]
  BY DEF Batch, BatchOf
<1> HIDE DEF limit, ip
<1>4. CASE ip >= limit
  <2>1. Batch(c, b, limit) = b BY <1>3, <1>4
  <2> QED BY <2>1 DEF limit
<1>5. CASE ~(ip >= limit)
  <2>1. ip < limit BY <1>1, <1>2, <1>5
  <2>2. splits \in Seq(ip + 1 .. limit) /\ upTo \in ip .. limit BY <1>1, <1>2, <2>1, FeedIs
  <2> HIDE DEF f, splits, upTo, m, e
  <2>3. ip + 1 .. limit \subseteq m .. e BY <1>0, <1>1, <1>2
  <2>4. splits \in Seq(m .. e)
    <3> DEFINE A == ip + 1 .. limit
               D == m .. e
    <3>1. A \subseteq D /\ splits \in Seq(A) BY <2>2, <2>3
    <3> HIDE DEF A, D
    <3>2. splits \in Seq(D) BY <3>1, SeqGrows
    <3> QED BY <3>2 DEF D
  <2>5. h \in Hunted(c, start) BY <1>1, <2>4, EachSplitKeeps DEF m, e
  <2> HIDE DEF h
  <2>6. upTo \in Nat /\ upTo >= m BY <1>0, <1>1, <1>2, <2>2
  <2>7. h.anchor \in Nat
    <3>1. h.anchor \in start .. c.end BY <2>5, HuntedFields
    <3> QED BY <1>0, <3>1 DEF e
  <2>8. Larger(h.anchor, upTo) \in { i \in Nat : i >= m } BY <1>0, <2>6, <2>7 DEF Larger
  <2>9. Batch(c, b, limit) = [g |-> h, ip |-> Larger(h.anchor, upTo)] BY <1>3, <1>5
  <2>10. Batch(c, b, limit) \in Fed(c, start) BY <2>5, <2>8, <2>9 DEF Fed, m
  <2> QED BY <2>10 DEF limit, e
<1> QED BY <1>4, <1>5

(* All the batches.                                                        *)
LEMMA BatchesKeep ==
  ASSUME NEW c, Hunting(c), NEW start \in Nat, NEW g \in Hunted(c, start),
         NEW ip \in Nat, ip >= c.l.minMatch
  PROVE Batches(c, g, ip, c.end - 8) \in Hunted(c, start)
<1> DEFINE limit == c.end - 8
           n == Larger(limit - ip, 0)
           z == [g |-> g, ip |-> ip]
           Y == Fed(c, start)
           X == [k \in 0 .. n |-> Y]
           B(y) == Batch(c, y, limit)
           G == [k \in 1 .. n |-> [y \in Y |-> B(y)]]
           Rec(f) == f = [k \in 0 .. n |-> IF k = 0 THEN z ELSE B(f[k - 1])]
           h == CHOOSE f : Rec(f)
<1>n. n \in Nat
  <2>1. c.end \in Nat BY DEF Hunting
  <2> QED BY <2>1 DEF Larger
<1>5. Batches(c, g, ip, limit) = h[n].g BY DEF Batches
<1>1. ASSUME NEW y \in Y PROVE B(y) \in Y BY BatchKeeps
<1>g. \A k \in 1 .. n : \A y \in Y : G[k][y] = B(y) OBVIOUS
<1>e. z \in Y BY DEF Fed
<1>x. \A k \in 0 .. n : X[k] = Y OBVIOUS
<1> HIDE DEF n, z
<1>i. \A k \in 1 .. n : k - 1 \in 0 .. n /\ k \in 0 .. n /\ k # 0 BY <1>n
<1>o. 0 \in 0 .. n /\ n \in 0 .. n BY <1>n
<1>j. \A k \in 0 .. n : k = 0 \/ k \in 1 .. n BY <1>n
<1> HIDE DEF X, Y, B, G
<1>2. PICK f : Walks(f, X, z, G, n)
  <2>1. Moves(X, G, n) BY <1>1, <1>g, <1>x, <1>i DEF Moves
  <2>2. z \in X[0] BY <1>x, <1>o, <1>e
  <2> QED BY <1>n, <2>1, <2>2, LoopMoves
<1>3. Rec(f)
  <2>1. \A k \in 1 .. n : f[k - 1] \in Y BY <1>2, <1>x, <1>i DEF Walks
  <2>2. \A k \in 1 .. n : f[k] = B(f[k - 1]) BY <1>g, <1>2, <2>1 DEF Walks
  <2>3. f[0] = z /\ f = [k \in 0 .. n |-> f[k]] BY <1>2 DEF Walks
  <2> QED BY <2>2, <2>3, <1>j
<1>4. Rec(h) BY <1>3
<1> HIDE DEF h
<1>6. h[0] \in X[0] BY <1>4, <1>x, <1>o, <1>e
<1>7. ASSUME NEW k \in 1 .. n, h[k - 1] \in X[k - 1] PROVE h[k] \in X[k]
  <2>1. h[k - 1] \in Y BY <1>7, <1>i, <1>x
  <2>2. h[k] = B(h[k - 1]) BY <1>4, <1>i
  <2> QED BY <1>1, <2>1, <2>2, <1>i, <1>x
<1>8. \A k \in 0 .. n : h[k] \in X[k] BY <1>n, <1>6, <1>7, LoopRule
<1>9. h[n] \in Y BY <1>8, <1>o, <1>x
<1>10. h[n].g \in Hunted(c, start) BY <1>9 DEF Y, Fed
<1> QED BY <1>5, <1>10 DEF limit

(* The long matches of a block, each where its bytes stood before.         *)
LEMMA GenerateTells ==
  ASSUME NEW l, Sized(l), NEW src \in Seq(Nat), NEW end \in 0 .. Len(src), NEW start \in 0 .. end,
         NEW t \in Ldm(l), NEW window
  PROVE LET g == Generate(l, src, t, start, end, window)
        IN  g.ldm \in Ldm(l) /\ g.anchor \in start .. end /\ Told(src, start, g.anchor, g.found)
<1> DEFINE c == [l |-> l, src |-> src, end |-> end, window |-> window]
           g0 == Hunt(t, start, << >>)
           m == l.minMatch
           ip == ScanFrom(l, start, end)
           g == Generate(l, src, t, start, end, window)
<1>0. m \in Nat /\ end \in Nat /\ start \in Nat /\ start <= end BY DEF Sized
<1>1. c.l = l /\ c.src = src /\ c.end = end OBVIOUS
<1>2. g = IF end - start < m THEN g0 ELSE Batches(c, g0, ip, end - 8) BY DEF Generate, Hunt
<1> HIDE DEF c, g0, g, ip, m
<1>3. Hunting(c) BY <1>1 DEF Hunting
<1>4. g0 \in Hunted(c, start)
  <2>1. Told(c.src, start, start, << >>) BY <1>0, ToldNothing
  <2>2. start \in start .. c.end BY <1>0, <1>1
  <2> QED BY <1>1, <2>1, <2>2, HuntedIs DEF g0
<1>5. g \in Hunted(c, start)
  <2>1. CASE end - start < m BY <1>2, <1>4, <2>1
  <2>2. CASE ~(end - start < m)
    <3>1. ip = Smaller(start + m, end) BY DEF ip, ScanFrom, m
    <3>2. ip \in Nat /\ ip >= m BY <1>0, <2>2, <3>1 DEF Smaller
    <3>3. Batches(c, g0, ip, c.end - 8) \in Hunted(c, start)
      BY <1>0, <1>1, <1>3, <1>4, <3>2, BatchesKeep DEF m
    <3> QED BY <1>1, <1>2, <2>2, <3>3
  <2> QED BY <2>1, <2>2
<1>6. g.ldm \in Ldm(l) /\ g.anchor \in start .. end /\ Told(src, start, g.anchor, g.found)
  BY <1>1, <1>5, HuntedFields
<1> QED BY <1>6 DEF g

(* What is told goes forward.                                              *)
LEMMA ToldForward ==
  ASSUME NEW src, NEW from \in Nat, NEW to, NEW seqs, Told(src, from, to, seqs)
  PROVE to \in Nat /\ from <= to
<1> DEFINE n == Len(seqs)
<1>1. PICK at \in [0 .. n -> Nat] : ToldAt(src, from, to, seqs, at) BY DEF Told
<1>2. seqs \in Seq(Sequence) BY DEF Told
<1>3. n \in Nat /\ at[0] = from /\ at[n] = to BY <1>1, <1>2 DEF ToldAt
<1>4. ASSUME NEW i \in 1 .. n PROVE Says(src, at[i - 1], at[i], seqs[i]) /\ at[i] <= to
  BY <1>1 DEF ToldAt
<1>5. CASE n = 0 BY <1>3, <1>5
<1>6. CASE n # 0
  <2> DEFINE q == seqs[1]
  <2>1. 1 \in 1 .. n /\ 1 - 1 = 0 BY <1>3, <1>6
  <2>2. q \in Sequence BY <1>2, <2>1
  <2> HIDE DEF q
  <2>3. Says(src, at[0], at[1], q) /\ at[1] <= to BY <1>4, <2>1 DEF q
  <2>4. q.ll \in Nat /\ q.ml \in Nat BY <2>2 DEF Sequence
  <2>5. at[1] = from + q.ll + q.ml BY <1>3, <2>3 DEF Says
  <2>6. to \in Nat
    <3>1. n \in 0 .. n BY <1>3
    <3> QED BY <1>1, <1>3, <3>1
  <2> QED BY <2>3, <2>4, <2>5, <2>6
<1> QED BY <1>5, <1>6

(* Sequences that tell up to a byte, and others from there on, tell        *)
(* together.                                                               *)
LEMMA ToldJoin ==
  ASSUME NEW src, NEW from \in Nat, NEW mid \in Nat, NEW to \in Nat, NEW s, NEW q,
         Told(src, from, mid, s), Told(src, mid, to, q)
  PROVE Told(src, from, to, s \o q)
<1> DEFINE n == Len(s)
           m == Len(q)
           all == s \o q
<1>1. PICK a \in [0 .. n -> Nat] : ToldAt(src, from, mid, s, a) BY DEF Told
<1>2. PICK b \in [0 .. m -> Nat] : ToldAt(src, mid, to, q, b) BY DEF Told
<1>3. s \in Seq(Sequence) /\ q \in Seq(Sequence) BY DEF Told
<1>4. mid <= to BY ToldForward
<1>5. /\ a[0] = from /\ a[n] = mid
      /\ \A i \in 1 .. n : Says(src, a[i - 1], a[i], s[i]) /\ a[i] <= mid
  BY <1>1 DEF ToldAt
<1>6. /\ b[0] = mid /\ b[m] = to
      /\ \A i \in 1 .. m : Says(src, b[i - 1], b[i], q[i]) /\ b[i] <= to
  BY <1>2 DEF ToldAt
<1>7. /\ all \in Seq(Sequence) /\ Len(all) = n + m /\ n \in Nat /\ m \in Nat
      /\ \A i \in 1 .. n : all[i] = s[i]
      /\ \A i \in 1 .. m : all[n + i] = q[i]
  <2>1. /\ s \o q \in Seq(Sequence) /\ Len(s \o q) = Len(s) + Len(q)
        /\ \A i \in 1 .. Len(s) : (s \o q)[i] = s[i]
        /\ \A i \in 1 .. Len(q) : (s \o q)[Len(s) + i] = q[i]
    BY <1>3, JoinFacts
  <2>2. Len(s) \in Nat /\ Len(q) \in Nat BY <1>3
  <2> QED BY <2>1, <2>2
<1> DEFINE at == [i \in 0 .. n + m |-> IF i <= n THEN a[i] ELSE b[i - n]]
<1> HIDE DEF n, m, all
<1>8. /\ \A i \in 0 .. n : at[i] = a[i]
      /\ \A i \in 0 .. m : at[n + i] = b[i]
  <2>1. ASSUME NEW i \in 0 .. n PROVE at[i] = a[i]
    <3>1. i \in 0 .. n + m /\ i <= n BY <1>7
    <3> QED BY <3>1
  <2>2. ASSUME NEW i \in 0 .. m PROVE at[n + i] = b[i]
    <3>1. n + i \in 0 .. n + m /\ (n + i) - n = i BY <1>7
    <3>2. CASE i = 0
      <4>1. n + i <= n /\ n + i = n /\ i = 0 BY <1>7, <3>2
      <4> QED BY <1>5, <1>6, <3>1, <4>1
    <3>3. CASE i # 0
      <4>1. ~(n + i <= n) BY <1>7, <3>3
      <4> QED BY <3>1, <4>1
    <3> QED BY <3>2, <3>3
  <2> QED BY <2>1, <2>2
<1>9. at \in [0 .. n + m -> Nat]
  <2>1. ASSUME NEW i \in 0 .. n + m PROVE at[i] \in Nat
    <3>1. CASE i <= n
      <4>1. i \in 0 .. n BY <1>7, <3>1
      <4> HIDE DEF at
      <4> QED BY <1>8, <4>1
    <3>2. CASE ~(i <= n)
      <4>1. i - n \in 0 .. m /\ n + (i - n) = i BY <1>7, <3>2
      <4> HIDE DEF at
      <4> QED BY <1>8, <4>1
    <3> QED BY <3>1, <3>2
  <2> QED BY <2>1
<1> HIDE DEF at
<1>10. ASSUME NEW i \in 1 .. n + m PROVE Says(src, at[i - 1], at[i], all[i]) /\ at[i] <= to
  <2>1. CASE i <= n
    <3>1. i \in 1 .. n /\ i \in 0 .. n /\ i - 1 \in 0 .. n BY <1>7, <2>1
    <3>2. at[i] = a[i] /\ at[i - 1] = a[i - 1] /\ all[i] = s[i] BY <1>7, <1>8, <3>1
    <3>3. Says(src, a[i - 1], a[i], s[i]) /\ a[i] <= mid BY <1>5, <3>1
    <3>4. a[i] \in Nat BY <3>1
    <3>5. a[i] <= to BY <1>4, <3>3, <3>4
    <3> QED BY <3>2, <3>3, <3>5
  <2>2. CASE ~(i <= n)
    <3> DEFINE k == i - n
    <3>1. k \in 1 .. m /\ k \in 0 .. m /\ k - 1 \in 0 .. m /\ n + k = i /\ n + (k - 1) = i - 1
      BY <1>7, <2>2
    <3> HIDE DEF k
    <3>2. at[i] = b[k] /\ at[i - 1] = b[k - 1] /\ all[i] = q[k] BY <1>7, <1>8, <3>1
    <3>3. Says(src, b[k - 1], b[k], q[k]) /\ b[k] <= to BY <1>6, <3>1
    <3> QED BY <3>2, <3>3
  <2> QED BY <2>1, <2>2
<1>11. at[0] = from /\ at[n + m] = to
  <2>1. 0 \in 0 .. n /\ m \in 0 .. m BY <1>7
  <2> QED BY <1>5, <1>6, <1>8, <2>1
<1>12. ToldAt(src, from, to, all, at) BY <1>7, <1>9, <1>10, <1>11 DEF ToldAt
<1>13. at \in [0 .. Len(all) -> Nat] BY <1>7, <1>9
<1>14. Told(src, from, to, all) BY <1>7, <1>12, <1>13 DEF Told
<1> QED BY <1>14 DEF all

(* The bytes that told sequences stand for.                                *)
LEMMA ConsumedIs ==
  ASSUME NEW src, NEW from \in Nat, NEW to \in Nat, NEW seqs, Told(src, from, to, seqs)
  PROVE Consumed(seqs) = to - from
<1> DEFINE n == Len(seqs)
           Rec(f) == f = [i \in 0 .. n |-> IF i = 0 THEN 0 ELSE f[i - 1] + seqs[i].ll + seqs[i].ml]
           h == CHOOSE f : Rec(f)
<1>1. PICK a \in [0 .. n -> Nat] : ToldAt(src, from, to, seqs, a) BY DEF Told
<1>2. seqs \in Seq(Sequence) BY DEF Told
<1>3. n \in Nat BY <1>2
<1>4. Consumed(seqs) = h[n] BY DEF Consumed
<1>5. /\ a[0] = from /\ a[n] = to
      /\ \A i \in 1 .. n : a[i] = a[i - 1] + seqs[i].ll + seqs[i].ml
  BY <1>1 DEF ToldAt, Says
<1>6. \A i \in 1 .. n : seqs[i].ll \in Nat /\ seqs[i].ml \in Nat
  <2>1. \A i \in 1 .. n : seqs[i] \in Sequence BY <1>2
  <2> QED BY <2>1 DEF Sequence
<1> HIDE DEF n
<1>i. \A k \in 1 .. n : k - 1 \in 0 .. n /\ k \in 0 .. n /\ k # 0 BY <1>3
<1>o. 0 \in 0 .. n /\ n \in 0 .. n BY <1>3
<1>j. \A k \in 0 .. n : k = 0 \/ k \in 1 .. n BY <1>3
<1>7. \E f : Rec(f)
  <2> DEFINE f == [i \in 0 .. n |-> a[i] - from]
  <2>1. f[0] = 0 BY <1>5, <1>o
  <2>2. ASSUME NEW k \in 1 .. n PROVE f[k] = f[k - 1] + seqs[k].ll + seqs[k].ml
    <3> DEFINE x == a[k]
               y == a[k - 1]
               ll == seqs[k].ll
               ml == seqs[k].ml
    <3>1. x \in Nat /\ y \in Nat BY <1>i
    <3>2. ll \in Nat /\ ml \in Nat /\ x = y + ll + ml BY <1>5, <1>6
    <3>3. f[k] = x - from /\ f[k - 1] = y - from BY <1>i
    <3> HIDE DEF x, y, ll, ml, f
    <3>4. x - from = (y - from) + ll + ml BY <3>1, <3>2
    <3> QED BY <3>3, <3>4 DEF ll, ml
  <2>3. f = [k \in 0 .. n |-> f[k]] OBVIOUS
  <2> HIDE DEF f
  <2>4. Rec(f) BY <2>1, <2>2, <2>3, <1>j
  <2> QED BY <2>4
<1>8. Rec(h) BY <1>7
<1> HIDE DEF h
<1> DEFINE X == [k \in 0 .. n |-> {a[k] - from}]
<1>x. \A k \in 0 .. n : X[k] = {a[k] - from} OBVIOUS
<1> HIDE DEF X
<1>9. h[0] \in X[0]
  <2>1. h[0] = 0 BY <1>8, <1>o
  <2>2. X[0] = {a[0] - from} BY <1>x, <1>o
  <2>3. a[0] - from = 0 BY <1>5
  <2> QED BY <2>1, <2>2, <2>3
<1>10. ASSUME NEW k \in 1 .. n, h[k - 1] \in X[k - 1] PROVE h[k] \in X[k]
  <2> DEFINE x == a[k]
             y == a[k - 1]
             ll == seqs[k].ll
             ml == seqs[k].ml
  <2>1. x \in Nat /\ y \in Nat BY <1>i
  <2>2. ll \in Nat /\ ml \in Nat /\ x = y + ll + ml BY <1>5, <1>6
  <2>3. h[k] = h[k - 1] + ll + ml BY <1>8, <1>i
  <2>4. X[k] = {x - from} /\ X[k - 1] = {y - from} BY <1>x, <1>i
  <2>5. h[k - 1] = y - from BY <2>4, <1>10
  <2> HIDE DEF x, y, ll, ml
  <2>6. (y - from) + ll + ml = x - from BY <2>1, <2>2
  <2> QED BY <2>3, <2>4, <2>5, <2>6
<1>11. \A k \in 0 .. n : h[k] \in X[k] BY <1>3, <1>9, <1>10, LoopRule
<1>12. h[n] = to - from BY <1>5, <1>11, <1>x, <1>o
<1> QED BY <1>4, <1>12

(* What a finder's tables may hold where a search starts.                  *)
Held(kind, x) == IF kind = "fast" THEN FastTable ELSE PositionTables(First(x))
Triples == Distances \X Distances \X Distances
Finders == {"fast", "dfast"}
Level(p) == Params(p) /\ p.window \in Nat

(* PositionTables held at x may be held later.                                     *)
LEMMA HeldGrows ==
  ASSUME NEW kind, NEW x \in Nat, NEW y \in Nat, x <= y
  PROVE Held(kind, x) \subseteq Held(kind, y)
<1>1. First(x) \in Nat /\ First(y) \in Nat /\ First(x) <= First(y) BY DEF First
<1>2. PositionTables(First(x)) \subseteq PositionTables(First(y)) BY <1>1, TablesGrow
<1> QED BY <1>2 DEF Held

(* Repeat offsets pushed on are repeat offsets.                            *)
LEMMA TripleIs ==
  ASSUME NEW r \in Triples, NEW d \in Distances
  PROVE GoodReps(r) /\ PushRep(d, r) \in Triples
BY DEF Triples, GoodReps, PushRep

(* Either finder's sequences say what they stand for, and its tables may   *)
(* be held at the end.                                                     *)
LEMMA SearchTells ==
  ASSUME NEW src \in Seq(Nat), NEW end \in 0 .. Len(src), NEW start \in 0 .. end, NEW kind \in Finders,
         NEW p, Level(p), NEW rep \in Triples, NEW table \in Held(kind, start)
  PROVE LET r == Search(kind, src, start, end, p, rep, table)
        IN  (\E a \in start .. end : Told(src, start, a, r.seqs)) /\ r.table \in Held(kind, end)
<1> DEFINE r == Search(kind, src, start, end, p, rep, table)
<1>1. GoodReps(rep)
  <2>1. 1 \in Distances BY DEF Distances
  <2> QED BY <2>1, TripleIs
<1>2. Params(p) /\ p.window \in Nat /\ p.minMatch \in Nat /\ p.strength \in Nat BY DEF Level, Params
<1>3. Outcome(src, start, end, r) /\ r.table \in Held(kind, end)
  <2>1. CASE kind = "fast"
    <3> DEFINE f == FastSearch(src, start, end, p, rep, table, FALSE, EmptyTable)
    <3>1. r = f BY <2>1 DEF Search
    <3>2. table \in FastTable BY <2>1 DEF Held
    <3>3. Outcome(src, start, end, f) /\ f.table \in FastTable BY <1>1, <1>2, <3>2, FastSearchTells
    <3> HIDE DEF f, r
    <3> QED BY <2>1, <3>1, <3>3 DEF Held
  <2>2. CASE kind = "dfast"
    <3> DEFINE f == DfastSearch(src, start, end, p, rep, table)
    <3>1. r = f BY <2>2 DEF Search
    <3>2. table \in PositionTables(First(start)) BY <2>2 DEF Held
    <3>3. Outcome(src, start, end, f) /\ f.table \in PositionTables(First(end))
      BY <1>1, <1>2, <3>2, DfastSearchTells
    <3> HIDE DEF f, r
    <3> QED BY <2>2, <3>1, <3>3 DEF Held
  <2> QED BY <2>1, <2>2 DEF Finders
<1> HIDE DEF r
<1>4. Told(src, start, r.anchor, r.seqs) /\ r.anchor \in 0 .. end BY <1>3 DEF Outcome
<1>5. start <= r.anchor
  <2>1. start \in Nat OBVIOUS
  <2> QED BY <1>4, <2>1, ToldForward
<1>6. r.anchor \in start .. end BY <1>4, <1>5
<1>7. (\E a \in start .. end : Told(src, start, a, r.seqs)) /\ r.table \in Held(kind, end)
  BY <1>3, <1>4, <1>6
<1> QED BY <1>7 DEF r

(* Between two long matches, x bytes into src.                             *)
Gap(cursor, rep, table, seqs) == [cursor |-> cursor, rep |-> rep, table |-> table, seqs |-> seqs]
Between(kind, src, start, x) ==
  { s \in [cursor : {x}, rep : Triples, table : Held(kind, x), seqs : Seq(Sequence)] :
      Told(src, start, x, s.seqs) }

(* What makes up a member of Between.                                      *)
LEMMA BetweenIs ==
  ASSUME NEW kind, NEW src, NEW start, NEW x, NEW rep \in Triples, NEW table \in Held(kind, x), NEW seqs,
         Told(src, start, x, seqs)
  PROVE Gap(x, rep, table, seqs) \in Between(kind, src, start, x)
<1> DEFINE g == Gap(x, rep, table, seqs)
<1>1. seqs \in Seq(Sequence) BY DEF Told
<1>2. g.seqs = seqs BY DEF Gap
<1>3. g \in [cursor : {x}, rep : Triples, table : Held(kind, x), seqs : Seq(Sequence)] BY <1>1 DEF Gap
<1> HIDE DEF g
<1>4. g \in Between(kind, src, start, x) BY <1>2, <1>3 DEF Between
<1> QED BY <1>4 DEF g

(* And the fields of one.                                                  *)
LEMMA BetweenFields ==
  ASSUME NEW kind, NEW src, NEW start, NEW x, NEW s \in Between(kind, src, start, x)
  PROVE s.cursor = x /\ s.rep \in Triples /\ s.table \in Held(kind, x) /\ Told(src, start, x, s.seqs)
BY DEF Between

(* The match behind a gap, once the gap's bytes up to a are told.          *)
LEMMA AfterGapKeeps ==
  ASSUME NEW kind, NEW src, NEW start \in Nat, NEW x \in Nat, NEW s \in Between(kind, src, start, x),
         NEW y \in Nat, NEW q \in Sequence, Says(src, x, y, q),
         NEW r, NEW a \in x .. x + q.ll, Told(src, x, a, r.seqs), r.table \in Held(kind, x + q.ll)
  PROVE AfterGap(s, q, r) \in Between(kind, src, start, y)
<1> DEFINE ll == q.ll
           ml == q.ml
           off == q.off
           new == [ll |-> LastLiterals(ll, r.seqs), off |-> off, ml |-> ml]
           rep == IF r.seqs = << >> THEN s.rep ELSE PushRep(r.seqs[Len(r.seqs)].off, s.rep)
           both == s.seqs \o r.seqs
           all == both \o << new >>
<1>1. ll \in Nat /\ ml \in Nat /\ off \in Nat BY DEF Sequence
<1>2. /\ y = x + ll + ml /\ y <= Len(src) /\ off \in 1 .. x + ll
      /\ \A i \in x + ll + 1 .. y : src[i] = src[i - off]
  BY DEF Says
<1>3. s.cursor = x /\ s.rep \in Triples /\ Told(src, start, x, s.seqs) BY BetweenFields
<1>4. s.seqs \in Seq(Sequence) /\ r.seqs \in Seq(Sequence) BY <1>3 DEF Told
<1>5. AfterGap(s, q, r) = Gap(x + ll + ml, PushRep(off, rep), r.table, all)
  BY <1>3 DEF AfterGap, Gap
<1> HIDE DEF ll, ml, off
<1>a. a \in Nat /\ a <= x + ll /\ x <= a BY <1>1 DEF ll
<1>6. LastLiterals(ll, r.seqs) = (x + ll) - a
  <2>1. Consumed(r.seqs) = a - x BY <1>a, ConsumedIs
  <2>2. ll - (a - x) = (x + ll) - a BY <1>1, <1>a
  <2> QED BY <2>1, <2>2 DEF LastLiterals
<1>7. new \in Sequence /\ new.ll = (x + ll) - a /\ new.ml = ml /\ new.off = off
  <2> DEFINE k == LastLiterals(ll, r.seqs)
  <2>1. k \in Nat BY <1>1, <1>6, <1>a
  <2> HIDE DEF k
  <2>2. new = [ll |-> k, off |-> off, ml |-> ml] BY DEF k
  <2> HIDE DEF new
  <2> QED BY <1>1, <1>6, <2>1, <2>2 DEF Sequence, k
<1> HIDE DEF new
<1>8. Says(src, a, y, new)
  <2>1. a + new.ll = x + ll /\ a + new.ll + new.ml = y BY <1>1, <1>2, <1>7, <1>a
  <2> QED BY <1>2, <1>7, <2>1 DEF Says
<1>9. Told(src, start, a, both) BY <1>3, <1>a, ToldJoin
<1>b. both \in Seq(Sequence) BY <1>9 DEF Told
<1> HIDE DEF both
<1>10. Told(src, start, y, Append(both, new)) BY <1>7, <1>8, <1>9, <1>a, ToldFurther
<1>11. all = Append(both, new) BY <1>7, <1>b
<1>12. rep \in Triples
  <2>1. CASE r.seqs = << >> BY <1>3, <2>1
  <2>2. CASE r.seqs # << >>
    <3> DEFINE n == Len(r.seqs)
               d == r.seqs[n].off
    <3>1. n \in 1 .. n BY <1>4, <2>2
    <3>2. PICK at \in [0 .. n -> Nat] : ToldAt(src, x, a, r.seqs, at) BY DEF Told
    <3>3. Says(src, at[n - 1], at[n], r.seqs[n]) BY <3>1, <3>2 DEF ToldAt
    <3>4. d \in 1 .. at[n - 1] + r.seqs[n].ll BY <3>3 DEF Says
    <3>5. d \in Nat
      <4>1. r.seqs[n] \in Sequence BY <1>4, <3>1
      <4> QED BY <4>1 DEF Sequence
    <3> HIDE DEF d
    <3>6. d \in Distances BY <3>4, <3>5 DEF Distances
    <3>7. PushRep(d, s.rep) \in Triples BY <1>3, <3>6, TripleIs
    <3> QED BY <2>2, <3>7 DEF d
  <2> QED BY <2>1, <2>2
<1> HIDE DEF rep, all
<1>13. PushRep(off, rep) \in Triples
  <2>1. off \in Distances BY <1>1, <1>2 DEF Distances
  <2> QED BY <1>12, <2>1, TripleIs
<1>14. r.table \in Held(kind, y)
  <2>1. x + ll \in Nat /\ x + ll <= y BY <1>1, <1>2
  <2>2. Held(kind, x + ll) \subseteq Held(kind, y) BY <2>1, HeldGrows
  <2> QED BY <2>2 DEF ll
<1>15. Gap(y, PushRep(off, rep), r.table, all) \in Between(kind, src, start, y)
  BY <1>10, <1>11, <1>13, <1>14, BetweenIs
<1> QED BY <1>2, <1>5, <1>15

(* A gap searched, and the long match behind it taken.                     *)
LEMMA LongMatchKeeps ==
  ASSUME NEW kind \in Finders, NEW src \in Seq(Nat), NEW p, Level(p), NEW start \in Nat, NEW x \in Nat,
         NEW s \in Between(kind, src, start, x), NEW y \in Nat, NEW q \in Sequence, Says(src, x, y, q)
  PROVE LongMatch(kind, src, p, s, q) \in Between(kind, src, start, y)
<1> DEFINE ll == q.ll
           r == IF ll > 0 THEN Search(kind, src, x, x + ll, p, s.rep, s.table)
                ELSE [seqs |-> << >>, table |-> s.table]
<1>1. s.cursor = x /\ s.rep \in Triples /\ s.table \in Held(kind, x) BY BetweenFields
<1>2. LongMatch(kind, src, p, s, q) = AfterGap(s, q, r) BY <1>1 DEF LongMatch
<1>3. ll \in Nat /\ x + ll <= Len(src)
  <2>1. q.ll \in Nat /\ q.ml \in Nat BY DEF Sequence
  <2>2. y = x + q.ll + q.ml /\ y <= Len(src) BY DEF Says
  <2>3. Len(src) \in Nat OBVIOUS
  <2> QED BY <2>1, <2>2, <2>3
<1> HIDE DEF r, ll
<1>4. (\E a \in x .. x + ll : Told(src, x, a, r.seqs)) /\ r.table \in Held(kind, x + ll)
  <2>1. CASE ll > 0
    <3>1. x + ll \in 0 .. Len(src) /\ x \in 0 .. x + ll BY <1>3
    <3> DEFINE f == Search(kind, src, x, x + ll, p, s.rep, s.table)
    <3>2. r = f BY <2>1 DEF r
    <3>3. (\E a \in x .. x + ll : Told(src, x, a, f.seqs)) /\ f.table \in Held(kind, x + ll)
      BY <1>1, <3>1, SearchTells
    <3> QED BY <3>2, <3>3
  <2>2. CASE ~(ll > 0)
    <3>1. ll = 0 /\ x + ll = x BY <1>3, <2>2
    <3>2. r.seqs = << >> /\ r.table = s.table BY <2>2 DEF r
    <3>3. Told(src, x, x, << >>) /\ x \in x .. x BY ToldNothing
    <3> QED BY <1>1, <3>1, <3>2, <3>3
  <2> QED BY <2>1, <2>2
<1>5. PICK a \in x .. x + q.ll : Told(src, x, a, r.seqs) BY <1>4 DEF ll
<1>6. r.table \in Held(kind, x + q.ll) BY <1>4 DEF ll
<1>7. AfterGap(s, q, r) \in Between(kind, src, start, y) BY <1>5, <1>6, AfterGapKeeps
<1> QED BY <1>2, <1>7

(* The gaps between the long matches filled.                               *)
LEMMA FilledTells ==
  ASSUME NEW kind \in Finders, NEW src \in Seq(Nat), NEW p, Level(p), NEW start \in Nat, NEW to \in Nat,
         NEW found, Told(src, start, to, found), NEW z \in Between(kind, src, start, start)
  PROVE Filled(found, kind, src, p, z) \in Between(kind, src, start, to)
<1> DEFINE n == Len(found)
<1>f. found \in Seq(Sequence) BY DEF Told
<1>n. n \in Nat BY <1>f
<1>a. PICK at \in [0 .. n -> Nat] : ToldAt(src, start, to, found, at) BY DEF Told
<1>t. at[0] = start /\ at[n] = to /\ \A i \in 1 .. n : Says(src, at[i - 1], at[i], found[i])
  BY <1>a DEF ToldAt
<1>q. \A i \in 1 .. n : found[i] \in Sequence BY <1>f
<1> DEFINE Y(k) == Between(kind, src, start, at[k])
           X == [k \in 0 .. n |-> Y(k)]
           B(k, y) == LongMatch(kind, src, p, y, found[k])
           G == [k \in 1 .. n |-> [y \in Y(k - 1) |-> B(k, y)]]
           Rec(f) == f = [k \in 0 .. n |-> IF k = 0 THEN z ELSE B(k, f[k - 1])]
           h == CHOOSE f : Rec(f)
<1>5. Filled(found, kind, src, p, z) = h[n] BY DEF Filled
<1>i. \A k \in 1 .. n : k - 1 \in 0 .. n /\ k \in 0 .. n /\ k # 0 BY <1>n
<1>o. 0 \in 0 .. n /\ n \in 0 .. n BY <1>n
<1>j. \A k \in 0 .. n : k = 0 \/ k \in 1 .. n BY <1>n
<1> HIDE DEF n
<1>1. ASSUME NEW k \in 1 .. n, NEW y \in Y(k - 1) PROVE B(k, y) \in Y(k)
  <2> DEFINE u == at[k - 1]
             v == at[k]
             q == found[k]
  <2>1. u \in Nat /\ v \in Nat BY <1>i
  <2>2. q \in Sequence /\ Says(src, u, v, q) BY <1>q, <1>t
  <2>3. y \in Between(kind, src, start, u) OBVIOUS
  <2> HIDE DEF u, v, q
  <2>4. LongMatch(kind, src, p, y, q) \in Between(kind, src, start, v)
    BY <2>1, <2>2, <2>3, LongMatchKeeps
  <2> QED BY <2>4 DEF v, q
<1>g. \A k \in 1 .. n : \A y \in Y(k - 1) : G[k][y] = B(k, y) OBVIOUS
<1>e. z \in Y(0) BY <1>t
<1>x. \A k \in 0 .. n : X[k] = Y(k) OBVIOUS
<1>w. \A s : s \in Y(n) => s \in Between(kind, src, start, to) BY <1>t
<1> HIDE DEF X, Y, B, G
<1>2. PICK f : Walks(f, X, z, G, n)
  <2>1. Moves(X, G, n) BY <1>1, <1>g, <1>x, <1>i DEF Moves
  <2>2. z \in X[0] BY <1>x, <1>o, <1>e
  <2> QED BY <1>n, <2>1, <2>2, LoopMoves
<1>3. Rec(f)
  <2>1. \A k \in 1 .. n : f[k - 1] \in Y(k - 1) BY <1>2, <1>x, <1>i DEF Walks
  <2>2. \A k \in 1 .. n : f[k] = B(k, f[k - 1]) BY <1>g, <1>2, <2>1 DEF Walks
  <2>3. f[0] = z /\ f = [k \in 0 .. n |-> f[k]] BY <1>2 DEF Walks
  <2> QED BY <2>2, <2>3, <1>j
<1>4. Rec(h) BY <1>3
<1> HIDE DEF h
<1>6. h[0] \in X[0] BY <1>4, <1>x, <1>o, <1>e
<1>7. ASSUME NEW k \in 1 .. n, h[k - 1] \in X[k - 1] PROVE h[k] \in X[k]
  <2>1. h[k - 1] \in Y(k - 1) BY <1>7, <1>i, <1>x
  <2>2. h[k] = B(k, h[k - 1]) BY <1>4, <1>i
  <2> QED BY <1>1, <2>1, <2>2, <1>i, <1>x
<1>8. \A k \in 0 .. n : h[k] \in X[k] BY <1>n, <1>6, <1>7, LoopRule
<1>9. h[n] \in Y(n) BY <1>8, <1>o, <1>x
<1> QED BY <1>5, <1>9, <1>w

(* What a block comes to: its sequences, the tables, the long table.       *)
Compressed(l, kind, src, start, end, r) ==
  /\ r.ldm \in Ldm(l) /\ r.table \in Held(kind, end)
  /\ \E a \in start .. end : Told(src, start, a, r.seqs)

(* The gap behind the last long match, and the whole block.                *)
LEMMA GapsTell ==
  ASSUME NEW l, NEW kind \in Finders, NEW src \in Seq(Nat), NEW end \in 0 .. Len(src),
         NEW start \in 0 .. end, NEW p, Level(p), NEW g, g.ldm \in Ldm(l),
         NEW to \in start .. end, Told(src, start, to, g.found),
         NEW rep \in Triples, NEW table \in Held(kind, start)
  PROVE Compressed(l, kind, src, start, end, Gaps(g, kind, src, start, end, p, rep, table))
<1> DEFINE z == Gap(start, rep, table, << >>)
           s == Filled(g.found, kind, src, p, z)
           f == Search(kind, src, to, end, p, s.rep, s.table)
           r == Gaps(g, kind, src, start, end, p, rep, table)
<1>0. start \in Nat /\ end \in Nat /\ to \in Nat /\ start <= to /\ to <= end OBVIOUS
<1>1. z \in Between(kind, src, start, start)
  <2>1. Told(src, start, start, << >>) BY <1>0, ToldNothing
  <2> QED BY <2>1, BetweenIs
<1>2. r = LastGap(g.ldm, kind, src, end, p, s) BY DEF Gaps, Gap
<1> HIDE DEF z
<1>3. s \in Between(kind, src, start, to) BY <1>0, <1>1, FilledTells
<1> HIDE DEF s, r
<1>4. s.cursor = to /\ s.rep \in Triples /\ s.table \in Held(kind, to) /\ Told(src, start, to, s.seqs)
  BY <1>3, BetweenFields
<1>5. CASE to < end
  <2>1. r = Ended(g.ldm, s.seqs, f) BY <1>2, <1>4, <1>5 DEF LastGap
  <2>2. to \in 0 .. end BY <1>0
  <2>3. (\E a \in to .. end : Told(src, to, a, f.seqs)) /\ f.table \in Held(kind, end)
    BY <1>4, <2>2, SearchTells
  <2> HIDE DEF f
  <2>4. PICK a \in to .. end : Told(src, to, a, f.seqs) BY <2>3
  <2>5. a \in Nat /\ a \in start .. end BY <1>0
  <2>6. Told(src, start, a, s.seqs \o f.seqs) BY <1>0, <1>4, <2>4, <2>5, ToldJoin
  <2>7. r.ldm = g.ldm /\ r.table = f.table /\ r.seqs = s.seqs \o f.seqs BY <2>1 DEF Ended
  <2>8. Compressed(l, kind, src, start, end, r) BY <2>3, <2>5, <2>6, <2>7 DEF Compressed
  <2> QED BY <2>8 DEF r
<1>6. CASE ~(to < end)
  <2>1. r = Ended(g.ldm, << >>, s) BY <1>2, <1>4, <1>6 DEF LastGap
  <2>2. to = end BY <1>0, <1>6
  <2>3. s.seqs \in Seq(Sequence) BY <1>4 DEF Told
  <2>4. << >> \o s.seqs = s.seqs BY <2>3
  <2>5. r.ldm = g.ldm /\ r.table = s.table /\ r.seqs = s.seqs BY <2>1, <2>4 DEF Ended
  <2>6. r.table \in Held(kind, end) /\ Told(src, start, to, r.seqs) BY <1>4, <2>2, <2>5
  <2>7. Compressed(l, kind, src, start, end, r) BY <2>5, <2>6 DEF Compressed
  <2> QED BY <2>7 DEF r
<1> QED BY <1>5, <1>6

(* With long distance matching, too, a block's sequences say what it is.   *)
THEOREM CompressBlockTells ==
  ASSUME NEW l, Sized(l), NEW ldm \in Ldm(l), NEW kind \in Finders, NEW src \in Seq(Nat),
         NEW end \in 0 .. Len(src), NEW start \in 0 .. end, NEW p, Level(p), NEW rep \in Triples,
         NEW table \in Held(kind, start)
  PROVE Compressed(l, kind, src, start, end,
                   CompressBlock(l, ldm, kind, src, start, end, p, rep, table))
<1> DEFINE only == [ldm |-> FillOnly(l, src, ldm, start, end), found |-> << >>]
           all  == Generate(l, src, ldm, start, end, p.window)
           g == IF ldm.inserted = 0 THEN only ELSE all
<1>0. start \in Nat /\ end \in Nat /\ start \in start .. end OBVIOUS
<1>1. CompressBlock(l, ldm, kind, src, start, end, p, rep, table)
        = Gaps(g, kind, src, start, end, p, rep, table)
  BY DEF CompressBlock
<1>2. FillOnly(l, src, ldm, start, end) \in Ldm(l) BY FillOnlyKeeps
<1>3. all.ldm \in Ldm(l) /\ all.anchor \in start .. end /\ Told(src, start, all.anchor, all.found)
  BY GenerateTells
<1>4. Told(src, start, start, << >>) BY <1>0, ToldNothing
<1>5. only.ldm \in Ldm(l) /\ only.found = << >> BY <1>2
<1>6. g = only \/ g = all OBVIOUS
<1> HIDE DEF only, all, g
<1>7. g.ldm \in Ldm(l) /\ \E to \in start .. end : Told(src, start, to, g.found)
  BY <1>0, <1>3, <1>4, <1>5, <1>6
<1>8. PICK to \in start .. end : Told(src, start, to, g.found) BY <1>7
<1>9. Compressed(l, kind, src, start, end, Gaps(g, kind, src, start, end, p, rep, table))
  BY <1>7, <1>8, GapsTell
<1> QED BY <1>1, <1>9

-----------------------------------------------------------------------------
(***************************************************************************)
(* Searches and executions.                                                *)
(*                                                                         *)
(* The tables that a dictionary fills, the invariant of SearchTrips, and   *)
(* what it implies.                                                        *)
(***************************************************************************)

Slotted(S) == [0 .. Slots - 1 -> S]

(* Positions of S stored one after the other in a table of such.           *)
LEMMA StoreAllKeeps ==
  ASSUME NEW S, NEW t \in Slotted(S), NEW src, NEW m, NEW ps \in Seq(S)
  PROVE StoreAll(t, src, m, ps) \in Slotted(S)
<1> DEFINE n == Len(ps)
           Y == Slotted(S)
           X == [k \in 0 .. n |-> Y]
           B(k, y) == Stored(y, src, ps[k], m)
           G == [k \in 1 .. n |-> [y \in Y |-> B(k, y)]]
           Rec(f) == f = [k \in 0 .. n |-> IF k = 0 THEN t ELSE B(k, f[k - 1])]
           h == CHOOSE f : Rec(f)
<1>n. n \in Nat OBVIOUS
<1>5. StoreAll(t, src, m, ps) = h[n] BY DEF StoreAll
<1>1. ASSUME NEW k \in 1 .. n, NEW y \in Y PROVE B(k, y) \in Y
  <2>1. ps[k] \in S OBVIOUS
  <2> QED BY <2>1 DEF Stored, Slotted
<1>g. \A k \in 1 .. n : \A y \in Y : G[k][y] = B(k, y) OBVIOUS
<1>e. t \in Y OBVIOUS
<1>x. \A k \in 0 .. n : X[k] = Y OBVIOUS
<1> HIDE DEF n
<1>i. \A k \in 1 .. n : k - 1 \in 0 .. n /\ k \in 0 .. n /\ k # 0 BY <1>n
<1>o. 0 \in 0 .. n /\ n \in 0 .. n BY <1>n
<1>j. \A k \in 0 .. n : k = 0 \/ k \in 1 .. n BY <1>n
<1> HIDE DEF X, Y, B, G
<1>2. PICK f : Walks(f, X, t, G, n)
  <2>1. Moves(X, G, n) BY <1>1, <1>g, <1>x, <1>i DEF Moves
  <2>2. t \in X[0] BY <1>x, <1>o, <1>e
  <2> QED BY <1>n, <2>1, <2>2, LoopMoves
<1>3. Rec(f)
  <2>1. \A k \in 1 .. n : f[k - 1] \in Y BY <1>2, <1>x, <1>i DEF Walks
  <2>2. \A k \in 1 .. n : f[k] = B(k, f[k - 1]) BY <1>g, <1>2, <2>1 DEF Walks
  <2>3. f[0] = t /\ f = [k \in 0 .. n |-> f[k]] BY <1>2 DEF Walks
  <2> QED BY <2>2, <2>3, <1>j
<1>4. Rec(h) BY <1>3
<1> HIDE DEF h
<1>6. h[0] \in X[0] BY <1>4, <1>x, <1>o, <1>e
<1>7. ASSUME NEW k \in 1 .. n, h[k - 1] \in X[k - 1] PROVE h[k] \in X[k]
  <2>1. h[k - 1] \in Y BY <1>7, <1>i, <1>x
  <2>2. h[k] = B(k, h[k - 1]) BY <1>4, <1>i
  <2> QED BY <1>1, <2>1, <2>2, <1>i, <1>x
<1>8. \A k \in 0 .. n : h[k] \in X[k] BY <1>n, <1>6, <1>7, LoopRule
<1>9. h[n] \in Y BY <1>8, <1>o, <1>x
<1> QED BY <1>5, <1>9 DEF Y

(* Every step-th position is one of the ends.                              *)
LEMMA EveryStep ==
  ASSUME NEW ends \in Nat, NEW step \in Nat, step >= 1, NEW i \in 1 .. (ends + step - 1) \div step
  PROVE (i - 1) * step \in 0 .. ends - 1
<1> DEFINE a == ends + step - 1
           k == a \div step
           d == k - i
           j == i - 1
<1>1. a \in Nat BY DEF a
<1>2. k \in Nat /\ k * step <= a
  <2> HIDE DEF a
  <2> QED BY <1>1
<1> HIDE DEF k
<1>3. i \in Nat /\ i >= 1 /\ i <= k BY <1>2 DEF k
<1>4. d \in Nat /\ j \in Nat /\ k = d + j + 1 BY <1>2, <1>3
<1> HIDE DEF d, j
<1>5. k * step = d * step + j * step + step BY <1>4
<1> DEFINE x == d * step
           y == j * step
<1>6. x \in Nat /\ y \in Nat BY <1>4
<1>7. x + y + step <= ends + step - 1 BY <1>2, <1>5 DEF a
<1> HIDE DEF x, y
<1>8. y \in 0 .. ends - 1 BY <1>6, <1>7
<1> QED BY <1>8 DEF y, j

(* A dictionary's positions fill a table with positions below its end.     *)
LEMMA PrefilledKeeps ==
  ASSUME NEW src, NEW ends \in Nat, NEW last \in 0 .. ends, NEW prefix \in Nat, NEW n,
         NEW S, 0 .. ends - 1 \subseteq S, 0 \in S
  PROVE Prefilled(src, ends, last, prefix, n) \in Slotted(S)
<1> DEFINE step == Larger(prefix \div Slots, 1)
           u == (ends + step - 1) \div step
           v == ends - last
           a == [i \in 1 .. u |-> (i - 1) * step]
           b == [i \in 1 .. v |-> last + i - 1]
<1>1. step \in Nat /\ step >= 1
  <2>1. prefix \div Slots \in Nat BY SlotsAssumption
  <2> QED BY <2>1 DEF Larger
<1>2. last \in Nat /\ last <= ends OBVIOUS
<1>3. Prefilled(src, ends, last, prefix, n) = StoreAll(EmptyTable, src, n, a \o b) BY DEF Prefilled
<1> HIDE DEF step
<1>4. u \in Nat
  <2> DEFINE x == ends + step - 1
  <2>1. x \in Nat BY <1>1
  <2> HIDE DEF x
  <2>2. x \div step \in Nat BY <1>1, <2>1
  <2> QED BY <2>2 DEF x
<1>5. \A i \in 1 .. u : (i - 1) * step \in S BY <1>1, EveryStep
<1>6. v \in Nat /\ \A i \in 1 .. v : last + i - 1 \in S
  <2>1. \A i \in 1 .. v : last + i - 1 \in 0 .. ends - 1 BY <1>2
  <2> QED BY <1>2, <2>1
<1> HIDE DEF u, v
<1>7. a \in Seq(S) BY <1>4, <1>5
<1>8. b \in Seq(S) BY <1>6
<1> HIDE DEF a, b
<1>9. a \o b \in Seq(S) BY <1>7, <1>8
<1>10. EmptyTable \in Slotted(S) BY DEF EmptyTable, Slotted
<1> QED BY <1>3, <1>9, <1>10, StoreAllKeeps

(* The tables that a job starts with may be held at its prefix.            *)
LEMMA StartTablesHeld ==
  ASSUME NEW j, IsSearchJob(j) PROVE StartTables(j) \in Held(j.finder, j.prefix)
<1> DEFINE src == j.src
           prefix == j.prefix
           p == j.p
<1>0. j.src \in Seq(Nat) /\ j.at \in 0 .. Len(j.src) /\ j.prefix \in 0 .. j.at
  BY DEF IsSearchJob
<1>1. prefix \in Nat BY <1>0
<1>2. PrefillFast(src, prefix, p) \in FastTable
  <2> DEFINE e == Smaller(prefix, Larger(Len(src) - 7, 0))
  <2>1. e \in Nat
    <3>1. Len(src) \in Nat BY <1>0
    <3> HIDE DEF src, prefix
    <3> QED BY <1>1, <3>1 DEF Smaller, Larger
  <2> HIDE DEF e, src, prefix, p
  <2>2. 0 .. e - 1 \subseteq Nat /\ 0 \in Nat /\ TailStart(e) \in 0 .. e BY <2>1 DEF TailStart, Larger
  <2>3. Prefilled(src, e, TailStart(e), prefix, Clamped(p.minMatch)) \in Slotted(Nat)
    BY <1>1, <2>1, <2>2, PrefilledKeeps
  <2> QED BY <2>3 DEF e, PrefillFast, Slotted, FastTable
<1>3. EmptyTable \in FastTable BY DEF EmptyTable, FastTable
<1> DEFINE x == First(prefix)
<1> HIDE DEF src, prefix, p
<1>4. x \in Nat /\ x >= 1 /\ prefix <= x BY <1>1 DEF First
<1>5. EmptyTable \in Positions(x) BY <1>4 DEF EmptyTable, Positions
<1>6. PrefillDfast(src, prefix, p) \in PositionTables(x)
  <2>1. CASE prefix < 8 BY <1>5, <2>1 DEF PrefillDfast, PositionTables
  <2>2. CASE ~(prefix < 8)
    <3> DEFINE e == prefix - 7
               tail == TailStart(prefix)
               P(n) == Prefilled(src, e, tail, prefix, n)
               S == 0 .. x - 1
    <3>1. e \in Nat /\ 0 .. e - 1 \subseteq S /\ 0 \in S BY <1>1, <1>4, <2>2
    <3>0. tail \in 0 .. e BY <1>1, <2>2 DEF TailStart, Larger
    <3>2. PrefillDfast(src, prefix, p) = [short |-> P(ShortMls(p.minMatch)), long |-> P(8)]
      BY <2>2 DEF PrefillDfast
    <3> HIDE DEF e, tail, S, x
    <3>3. ASSUME NEW n PROVE P(n) \in Slotted(S) BY <1>1, <3>0, <3>1, PrefilledKeeps
    <3> HIDE DEF P
    <3>4. \A n : P(n) \in Positions(x) BY <3>3 DEF Slotted, Positions, S
    <3> QED BY <3>2, <3>4 DEF PositionTables
  <2> QED BY <2>1, <2>2
<1>7. StartTables(j)
        = IF j.finder = "fast"
          THEN IF prefix > 0 /\ ~j.attached THEN PrefillFast(src, prefix, p) ELSE EmptyTable
          ELSE IF prefix > 0 THEN PrefillDfast(src, prefix, p)
          ELSE [short |-> EmptyTable, long |-> EmptyTable]
  BY DEF StartTables, src, prefix, p
<1>8. CASE j.finder = "fast" BY <1>2, <1>3, <1>7, <1>8 DEF Held
<1>9. CASE j.finder # "fast"
  <2>1. [short |-> EmptyTable, long |-> EmptyTable] \in PositionTables(x) BY <1>5 DEF PositionTables
  <2>2. StartTables(j) \in PositionTables(x) BY <1>6, <1>7, <1>9, <2>1
  <2> QED BY <1>9, <2>2 DEF Held, x, prefix
<1> QED BY <1>8, <1>9

(* An empty long distance table.                                           *)
LEMMA NewLdmIs ==
  ASSUME NEW l, Sized(l) PROVE NewLdm(l) \in Ldm(l)
<1>1. NoEntry \in Entries BY DEF NoEntry, Entries
<1>2. 0 \in 0 .. l.entries - 1 BY DEF Sized
<1> QED BY <1>1, <1>2 DEF NewLdm, Ldm

(* What a search of the block between start and end leaves.                *)
Fits(j, start, end, b) ==
  /\ \E a \in start .. end : Told(j.src, start, a, b.seqs)
  /\ b.table \in Held(j.finder, end)
  /\ Len(j.ldm) = 1 => b.ldm \in Ldm(j.ldm[1])

(* Packing a block's sequences keeps the recent offsets above zero.        *)
LEMMA PackedStay ==
  ASSUME NEW reps \in Triples, NEW seqs \in Seq(Sequence),
         \A i \in 1 .. Len(seqs) : seqs[i].off \in Distances
  PROVE PackedOffsets(reps, seqs) \in Triples
<1> DEFINE n == Len(seqs)
           Y == Triples
           X == [k \in 0 .. n |-> Y]
           B(k, y) == Packer!PackedHistory(y, seqs[k].off, seqs[k].ll = 0)
           G == [k \in 1 .. n |-> [y \in Y |-> B(k, y)]]
           Rec(f) == f = [k \in 0 .. n |-> IF k = 0 THEN reps ELSE B(k, f[k - 1])]
           h == CHOOSE f : Rec(f)
<1>n. n \in Nat OBVIOUS
<1>5. PackedOffsets(reps, seqs) = h[n] BY DEF PackedOffsets
<1>1. ASSUME NEW k \in 1 .. n, NEW y \in Y PROVE B(k, y) \in Y
  <2> DEFINE off == seqs[k].off
             none == seqs[k].ll = 0
  <2>1. off \in Distances OBVIOUS
  <2>2. y[1] \in Distances /\ y[2] \in Distances /\ y[3] \in Distances BY DEF Triples
  <2> HIDE DEF off, none
  <2> DEFINE z == Packer!PackedHistory(y, off, none)
  <2>3. \E a \in {y[1], y[2]}, b \in {y[2], y[3]} : z = << off, a, b >>
    BY DEF Packer!PackedHistory
  <2> HIDE DEF z
  <2>4. z \in Triples BY <2>1, <2>2, <2>3 DEF Triples
  <2> QED BY <2>4 DEF z, off, none
<1>g. \A k \in 1 .. n : \A y \in Y : G[k][y] = B(k, y) OBVIOUS
<1>e. reps \in Y OBVIOUS
<1>x. \A k \in 0 .. n : X[k] = Y OBVIOUS
<1> HIDE DEF n
<1>i. \A k \in 1 .. n : k - 1 \in 0 .. n /\ k \in 0 .. n /\ k # 0 BY <1>n
<1>o. 0 \in 0 .. n /\ n \in 0 .. n BY <1>n
<1>j. \A k \in 0 .. n : k = 0 \/ k \in 1 .. n BY <1>n
<1> HIDE DEF X, Y, B, G
<1>2. PICK f : Walks(f, X, reps, G, n)
  <2>1. Moves(X, G, n) BY <1>1, <1>g, <1>x, <1>i DEF Moves
  <2>2. reps \in X[0] BY <1>x, <1>o, <1>e
  <2> QED BY <1>n, <2>1, <2>2, LoopMoves
<1>3. Rec(f)
  <2>1. \A k \in 1 .. n : f[k - 1] \in Y BY <1>2, <1>x, <1>i DEF Walks
  <2>2. \A k \in 1 .. n : f[k] = B(k, f[k - 1]) BY <1>g, <1>2, <2>1 DEF Walks
  <2>3. f[0] = reps /\ f = [k \in 0 .. n |-> f[k]] BY <1>2 DEF Walks
  <2> QED BY <2>2, <2>3, <1>j
<1>4. Rec(h) BY <1>3
<1> HIDE DEF h
<1>6. h[0] \in X[0] BY <1>4, <1>x, <1>o, <1>e
<1>7. ASSUME NEW k \in 1 .. n, h[k - 1] \in X[k - 1] PROVE h[k] \in X[k]
  <2>1. h[k - 1] \in Y BY <1>7, <1>i, <1>x
  <2>2. h[k] = B(k, h[k - 1]) BY <1>4, <1>i
  <2> QED BY <1>1, <2>1, <2>2, <1>i, <1>x
<1>8. \A k \in 0 .. n : h[k] \in X[k] BY <1>n, <1>6, <1>7, LoopRule
<1>9. h[n] \in Y BY <1>8, <1>o, <1>x
<1> QED BY <1>5, <1>9 DEF Y

(* Sequences that tell bytes have offsets above zero.                      *)
LEMMA ToldDistances ==
  ASSUME NEW src, NEW start, NEW a, NEW seqs, Told(src, start, a, seqs)
  PROVE seqs \in Seq(Sequence) /\ \A i \in 1 .. Len(seqs) : seqs[i].off \in Distances
<1>1. PICK at : ToldAt(src, start, a, seqs, at) BY DEF Told
<1>2. seqs \in Seq(Sequence) BY DEF Told
<1>3. ASSUME NEW i \in 1 .. Len(seqs) PROVE seqs[i].off \in Distances
  <2>1. at[i - 1] \in Nat
    <3>1. i - 1 \in 0 .. Len(seqs) /\ at \in [0 .. Len(seqs) -> Nat] BY <1>1, <1>2 DEF ToldAt
    <3> QED BY <3>1
  <2>2. seqs[i] \in Sequence BY <1>2
  <2>3. seqs[i].ll \in Nat BY <2>2 DEF Sequence
  <2>4. seqs[i].off \in 1 .. at[i - 1] + seqs[i].ll BY <1>1 DEF ToldAt, Says
  <2> QED BY <2>1, <2>3, <2>4 DEF Distances
<1> QED BY <1>2, <1>3

(* A block searched by whatever the job asks for: with or without long     *)
(* distance matching, with or without an attached dictionary.              *)
LEMMA SearchBlockFits ==
  ASSUME NEW j, IsSearchJob(j), NEW end \in 0 .. Len(j.src), NEW start \in 0 .. end,
         j.attached => start = j.prefix, NEW rep \in Triples, NEW table \in Held(j.finder, start),
         NEW ldm, Len(j.ldm) = 1 => ldm \in Ldm(j.ldm[1])
  PROVE Fits(j, start, end, SearchBlock(j, start, end, rep, table, ldm))
<1> DEFINE src == j.src
           r == SearchBlock(j, start, end, rep, table, ldm)
           l == j.ldm[1]
           dict == PrefillFast(j.src, j.prefix, j.p)
<1>0. /\ j.src \in Seq(Nat) /\ j.at \in 0 .. Len(j.src) /\ j.prefix \in 0 .. j.at
      /\ IsLevel(j.p) /\ j.finder \in Finders /\ j.attached \in BOOLEAN
      /\ (j.attached => j.finder = "fast") /\ Len(j.ldm) \in {0, 1}
      /\ (Len(j.ldm) = 1 => IsLdm(j.ldm[1]))
  BY DEF IsSearchJob, Finders
<1>1. rep \in Triples /\ GoodReps(rep) BY DEF Triples, GoodReps
<1>2. Level(j.p) /\ Params(j.p) BY <1>0 DEF IsLevel, Level, Params
<1>3. r = IF Len(j.ldm) = 1
          THEN CompressBlock(l, ldm, j.finder, src, start, end, j.p, rep, table)
          ELSE IF j.attached
          THEN FastSearch(src, j.prefix, end, j.p, rep, table, TRUE, dict)
          ELSE Search(j.finder, src, start, end, j.p, rep, table)
  BY DEF SearchBlock
<1> HIDE DEF r, dict
<1>4. CASE Len(j.ldm) = 1
  <2> DEFINE f == CompressBlock(l, ldm, j.finder, src, start, end, j.p, rep, table)
  <2>1. r = f BY <1>3, <1>4
  <2>2. Sized(l) /\ ldm \in Ldm(l) BY <1>0, <1>4 DEF IsLdm, Sized
  <2>3. Compressed(l, j.finder, src, start, end, f)
    <3> HIDE DEF l
    <3> QED BY <1>0, <1>1, <1>2, <2>2, CompressBlockTells
  <2> HIDE DEF f
  <2>4. Fits(j, start, end, r) BY <2>1, <2>3 DEF Compressed, Fits
  <2> QED BY <2>4 DEF r
<1>5. CASE Len(j.ldm) # 1 /\ j.attached
  <2> DEFINE f == FastSearch(src, start, end, j.p, rep, table, TRUE, dict)
  <2>1. r = f BY <1>3, <1>5
  <2>2. j.finder = "fast" BY <1>0, <1>5
  <2>3. table \in FastTable BY <2>2 DEF Held
  <2>4. dict \in FastTable
    <3> DEFINE e == Smaller(j.prefix, Larger(Len(j.src) - 7, 0))
               u == j.prefix
               n == Clamped(j.p.minMatch)
    <3>1. u \in Nat /\ Len(j.src) \in Nat BY <1>0
    <3>2. e \in Nat BY <3>1 DEF Smaller, Larger
    <3>3. dict = Prefilled(j.src, e, TailStart(e), u, n) BY DEF dict, PrefillFast
    <3> HIDE DEF e, u, n
    <3>4. 0 .. e - 1 \subseteq Nat /\ 0 \in Nat /\ TailStart(e) \in 0 .. e BY <3>2 DEF TailStart, Larger
    <3>5. Prefilled(j.src, e, TailStart(e), u, n) \in Slotted(Nat) BY <3>1, <3>2, <3>4, PrefilledKeeps
    <3> QED BY <3>3, <3>5 DEF Slotted, FastTable
  <2>5. Outcome(src, start, end, f) /\ f.table \in FastTable
    <3> DEFINE att == TRUE
    <3>1. att \in BOOLEAN /\ (att => dict \in FastTable) BY <2>4
    <3> HIDE DEF att
    <3>2. LET g == FastSearch(src, start, end, j.p, rep, table, att, dict)
          IN  Outcome(src, start, end, g) /\ g.table \in FastTable
      BY <1>0, <1>1, <1>2, <2>3, <3>1, FastSearchTells
    <3> QED BY <3>2 DEF att
  <2> HIDE DEF f
  <2>6. Told(src, start, f.anchor, f.seqs) /\ f.anchor \in 0 .. end BY <2>5 DEF Outcome
  <2>7. f.anchor \in start .. end
    <3>1. start \in Nat OBVIOUS
    <3>2. start <= f.anchor BY <2>6, <3>1, ToldForward
    <3> QED BY <2>6, <3>2
  <2>8. Fits(j, start, end, r) BY <1>5, <2>1, <2>2, <2>5, <2>6, <2>7 DEF Fits, Held
  <2> QED BY <2>8 DEF r
<1>6. CASE Len(j.ldm) # 1 /\ ~j.attached
  <2> DEFINE f == Search(j.finder, src, start, end, j.p, rep, table)
  <2>1. r = f BY <1>3, <1>6
  <2>2. (\E a \in start .. end : Told(src, start, a, f.seqs)) /\ f.table \in Held(j.finder, end)
    BY <1>0, <1>1, <1>2, SearchTells
  <2> HIDE DEF f
  <2>3. Fits(j, start, end, r) BY <1>6, <2>1, <2>2 DEF Fits
  <2> QED BY <2>3 DEF r
<1> QED BY <1>4, <1>5, <1>6

(* What holds in every state: the first block built, the second coded,     *)
(* say what the job's bytes are.                                           *)
SearchInv ==
  /\ job \in SearchJobs /\ stage \in {"new", "built", "coded", "decoded"}
  /\ stage # "new" => Fits(job, job.prefix, job.at, built)
  /\ stage \in {"coded", "decoded"} =>
       job.attached \/ \E a \in job.at .. Len(job.src) : Told(job.src, job.at, a, coded.seqs)
  /\ stage = "decoded" => result = SearchDecoded(job, built, coded)

(* A block that its sequences tell is executed, whatever lies behind its   *)
(* literals.                                                               *)
LEMMA ToldIsExecuted ==
  ASSUME NEW j, IsSearchJob(j), NEW end \in 0 .. Len(j.src), NEW start \in 0 .. end, j.prefix <= start,
         NEW seqs, \E a \in start .. end : Told(j.src, start, a, seqs), NEW slack \in Nat
  PROVE Executed(j, start, end, seqs, slack)
          = [ok |-> TRUE, out |-> Part(j.src, j.prefix, end - j.prefix)]
<1> DEFINE z == [i \in 1 .. slack |-> 0]
<1>1. j.src \in Seq(Nat) /\ j.prefix \in 0 .. start
  <2>1. j.src \in Seq(Nat) /\ j.at \in 0 .. Len(j.src) /\ j.prefix \in 0 .. j.at BY DEF IsSearchJob
  <2> QED BY <2>1
<1>2. z \in Seq(Nat) OBVIOUS
<1>3. PICK a \in start .. end : Told(j.src, start, a, seqs) OBVIOUS
<1>4. a \in 0 .. end OBVIOUS
<1> HIDE DEF z
<1>5. Reproduced(j.src, j.prefix, start, end, seqs, z) BY <1>1, <1>2, <1>3, <1>4, ToldIsReproduced
<1> QED BY <1>5 DEF Reproduced, Executed, z

(* SearchBuild keeps SearchInv.                                            *)
LEMMA BuildKeeps ==
  ASSUME SearchInv, SearchBuild PROVE SearchInv'
<1> DEFINE j == job
<1>1. IsSearchJob(j) /\ j \in SearchJobs BY SearchJobsAssumption DEF SearchInv
<1>2. j.at \in 0 .. Len(j.src) /\ j.prefix \in 0 .. j.at /\ Len(j.ldm) \in {0, 1}
      /\ (Len(j.ldm) = 1 => IsLdm(j.ldm[1]))
  BY <1>1 DEF IsSearchJob
<1> DEFINE l0 == IF Len(j.ldm) = 0 THEN Nothing ELSE NewLdm(j.ldm[1])
           t == StartTables(j)
<1>3. t \in Held(j.finder, j.prefix) BY <1>1, StartTablesHeld
<1>4. Len(j.ldm) = 1 => l0 \in Ldm(j.ldm[1]) BY <1>2, NewLdmIs DEF IsLdm, Sized
<1>5. SearchBuilt(j) = SearchBlock(j, j.prefix, j.at, j.reps, t, l0) BY DEF SearchBuilt
<1>r. j.reps \in Triples BY <1>1 DEF IsSearchJob, Triples, Distances
<1> HIDE DEF l0, t, j
<1>6. Fits(j, j.prefix, j.at, SearchBuilt(j)) BY <1>1, <1>2, <1>3, <1>4, <1>5, <1>r, SearchBlockFits
<1>7. stage' = "built" /\ built' = SearchBuilt(j) /\ job' = j BY DEF SearchBuild, j
<1> QED BY <1>1, <1>6, <1>7 DEF SearchInv

(* SearchCode keeps SearchInv.                                             *)
LEMMA CodeKeeps ==
  ASSUME SearchInv, SearchCode PROVE SearchInv'
<1> DEFINE j == job
           b == built
<1>1. IsSearchJob(j) /\ j \in SearchJobs BY SearchJobsAssumption DEF SearchInv
<1>2. j.src \in Seq(Nat) /\ j.at \in 0 .. Len(j.src) /\ j.prefix \in 0 .. j.at /\ Len(j.ldm) \in {0, 1}
  BY <1>1 DEF IsSearchJob
<1>3. Fits(j, j.prefix, j.at, b) BY DEF SearchInv, SearchCode
<1>r. j.reps \in Triples /\ PackedOffsets(j.reps, b.seqs) \in Triples
  <2>1. j.reps \in Triples BY <1>1 DEF IsSearchJob, Triples, Distances
  <2>2. PICK a : Told(j.src, j.prefix, a, b.seqs) BY <1>3 DEF Fits
  <2> QED BY <2>1, <2>2, ToldDistances, PackedStay
<1>4. /\ stage' = "coded" /\ job' = j /\ built' = b
      /\ \E reps \in {j.reps, PackedOffsets(j.reps, b.seqs)} : coded' = SearchCoded(j, b, reps)
  BY DEF SearchCode
<1>p. PICK reps \in Triples : coded' = SearchCoded(j, b, reps) BY <1>r, <1>4
<1> DEFINE end == Len(j.src)
           l0 == IF Len(j.ldm) = 0 THEN Nothing ELSE b.ldm
           r == SearchBlock(j, j.at, end, reps, b.table, l0)
<1>5. j.attached \/ \E a \in j.at .. end : Told(j.src, j.at, a, SearchCoded(j, b, reps).seqs)
  <2>1. CASE ~j.attached
    <3>1. SearchCoded(j, b, reps) = r BY <2>1 DEF SearchCoded
    <3>2. Len(j.ldm) = 1 => l0 \in Ldm(j.ldm[1]) BY <1>3 DEF Fits
    <3>3. b.table \in Held(j.finder, j.at) BY <1>3 DEF Fits
    <3>4. end \in 0 .. Len(j.src) /\ j.at \in 0 .. end BY <1>2
    <3> HIDE DEF l0, end, j, b
    <3>5. Fits(j, j.at, end, r) BY <1>1, <2>1, <3>2, <3>3, <3>4, SearchBlockFits
    <3> QED BY <3>1, <3>5 DEF Fits
  <2> QED BY <2>1
<1> HIDE DEF j, b
<1> QED BY <1>1, <1>3, <1>4, <1>p, <1>5 DEF SearchInv

(* SearchDecode keeps SearchInv.                                           *)
LEMMA DecodeKeeps ==
  ASSUME SearchInv, SearchDecode PROVE SearchInv'
<1>1. stage = "coded" /\ stage' = "decoded" /\ result' = SearchDecoded(job, built, coded)
      /\ job' = job /\ built' = built /\ coded' = coded
  BY DEF SearchDecode
<1> QED BY <1>1 DEF SearchInv

(* What SearchInv says of the sequences is enough for the decoder.         *)
LEMMA InvReproduces == SearchInv => SearchReproduces
<1> SUFFICES ASSUME SearchInv, stage = "decoded", NEW i \in 1 .. 2
      PROVE /\ result.first[i].ok /\ result.first[i].out = Part(job.src, job.prefix, job.at - job.prefix)
            /\ job.attached \/ (/\ result.second[i].ok
                                /\ result.second[i].out
                                     = Part(job.src, job.prefix, Len(job.src) - job.prefix))
  BY DEF SearchReproduces
<1> DEFINE j == job
           end == Len(j.src)
           E1(n) == Executed(j, j.prefix, j.at, built.seqs, n)
           E2(n) == Executed(j, j.at, end, coded.seqs, n)
<1>1. IsSearchJob(j) BY SearchJobsAssumption DEF SearchInv
<1>2. j.src \in Seq(Nat) /\ j.at \in 0 .. Len(j.src) /\ j.prefix \in 0 .. j.at
  BY <1>1 DEF IsSearchJob
<1>3. \E a \in j.prefix .. j.at : Told(j.src, j.prefix, a, built.seqs) BY DEF SearchInv, Fits
<1>4. j.attached \/ \E a \in j.at .. end : Told(j.src, j.at, a, coded.seqs) BY DEF SearchInv
<1>5. result = [first |-> << E1(0), E1(40) >>, second |-> << E2(0), E2(40) >>]
  BY DEF SearchInv, SearchDecoded
<1>6. end \in 0 .. Len(j.src) /\ j.at \in 0 .. end /\ j.prefix <= j.at /\ j.prefix <= j.prefix BY <1>2
<1> HIDE DEF j, end
<1>7. \A n \in Nat : E1(n) = [ok |-> TRUE, out |-> Part(j.src, j.prefix, j.at - j.prefix)]
  <2> TAKE n \in Nat
  <2> DEFINE s == built.seqs
  <2>1. \E a \in j.prefix .. j.at : Told(j.src, j.prefix, a, s) BY <1>3
  <2> HIDE DEF s
  <2>2. Executed(j, j.prefix, j.at, s, n) = [ok |-> TRUE, out |-> Part(j.src, j.prefix, j.at - j.prefix)]
    BY <1>1, <1>2, <1>6, <2>1, ToldIsExecuted
  <2> QED BY <2>2 DEF s
<1>8. j.attached \/ \A n \in Nat : E2(n) = [ok |-> TRUE, out |-> Part(j.src, j.prefix, end - j.prefix)]
  <2> SUFFICES ASSUME ~j.attached, NEW n \in Nat
        PROVE E2(n) = [ok |-> TRUE, out |-> Part(j.src, j.prefix, end - j.prefix)]
    OBVIOUS
  <2> DEFINE s == coded.seqs
  <2>1. \E a \in j.at .. end : Told(j.src, j.at, a, s) BY <1>4
  <2> HIDE DEF s
  <2>2. Executed(j, j.at, end, s, n) = [ok |-> TRUE, out |-> Part(j.src, j.prefix, end - j.prefix)]
    BY <1>1, <1>2, <1>6, <2>1, ToldIsExecuted
  <2> QED BY <2>2 DEF s
<1> HIDE DEF E1, E2
<1>9. i = 1 \/ i = 2 OBVIOUS
<1>10. result.first[i] = E1(0) \/ result.first[i] = E1(40) BY <1>5, <1>9
<1>11. result.second[i] = E2(0) \/ result.second[i] = E2(40) BY <1>5, <1>9
<1>12. 0 \in Nat /\ 40 \in Nat OBVIOUS
<1>13. result.first[i] = [ok |-> TRUE, out |-> Part(j.src, j.prefix, j.at - j.prefix)]
  BY <1>7, <1>10, <1>12
<1>14. j.attached \/ result.second[i] = [ok |-> TRUE, out |-> Part(j.src, j.prefix, end - j.prefix)]
  BY <1>8, <1>11, <1>12
<1> QED BY <1>13, <1>14 DEF j, end

(* Whatever the searched blocks are, the decoder makes of the sequences    *)
(* found in them the bytes they were found in.                             *)
THEOREM SearchesReproduce == SearchSpec => []SearchReproduces
<1>1. SearchInit => SearchInv BY DEF SearchInit, SearchInv
<1>2. SearchInv /\ [SearchNext]_searchVars => SearchInv'
  <2> SUFFICES ASSUME SearchInv, [SearchNext]_searchVars PROVE SearchInv' OBVIOUS
  <2>1. CASE SearchBuild BY <2>1, BuildKeeps
  <2>2. CASE SearchCode BY <2>2, CodeKeeps
  <2>3. CASE SearchDecode BY <2>3, DecodeKeeps
  <2>4. CASE UNCHANGED searchVars BY <2>4 DEF searchVars, SearchInv
  <2> QED BY <2>1, <2>2, <2>3, <2>4 DEF SearchNext
<1> QED BY <1>1, <1>2, InvReproduces, PTL DEF SearchSpec
=============================================================================
