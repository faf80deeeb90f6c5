----------------------------- MODULE BlockCopies -----------------------------
(***************************************************************************)
(* How a decoded sequence becomes output: literals and matches copied in   *)
(* whole chunks into a buffer that reaches past the block's limit, or,     *)
(* for a block of one sequence, appended to the output.                    *)
(*                                                                         *)
(* A copy whose source or destination leaves its buffer is a Fault (the    *)
(* slice index panics), which is not an error the decoder reports.         *)
(***************************************************************************)
EXTENDS Integers, Sequences

Overlength      == 64
LiteralOverread == 32

Least(a, b) == IF a < b THEN a ELSE b
Part(bytes, from, n) == SubSeq(bytes, from + 1, from + n)

Fault == << >>
PutAt(buf, at, bytes) ==
  IF at + Len(bytes) > Len(buf) THEN Fault
  ELSE Part(buf, 0, at) \o bytes \o Part(buf, at + Len(bytes), Len(buf) - at - Len(bytes))
CopyFrom(buf, at, from, src, n) ==
  IF src < 0 \/ src + n > Len(from) THEN Fault ELSE PutAt(buf, at, Part(from, src, n))
Chunk(buf, src, dst, n) == CopyFrom(buf, dst, buf, src, n)

\* the chunks of n bytes that start before len, after the first
Further(len, n) == IF len = 0 THEN 0 ELSE (len - 1) \div n
Chunks(buf, src, dst, n, len) ==
  LET upTo[k \in 0 .. Further(len, n)] ==
        IF k = 0 THEN buf ELSE Chunk(upTo[k - 1], src + k * n, dst + k * n, n)
  IN  upTo[Further(len, n)]
LiteralChunks(buf, at, lits, lp, len) ==
  LET upTo[k \in 0 .. Further(len, 32)] ==
        IF k = 0 THEN buf ELSE CopyFrom(upTo[k - 1], at + k * 32, lits, lp + k * 32, 32)
  IN  upTo[Further(len, 32)]
WildLiterals(buf, at, lits, lp, len) ==
  LiteralChunks(CopyFrom(buf, at, lits, lp, 32), at, lits, lp, len)

\* A source less than eight bytes back is moved, so that from then on it is
\* eight or more back and shows the same bytes.
SpreadAdd == << 0, 1, 2, 1, 4, 4, 4, 4 >>
\* (A plausible slip: an offset of three moved like an offset of two.)
SpreadSubSlip == << 8, 8, 8, 8, 8, 9, 10, 11 >>
SpreadSub == << 8, 8, 8, 7, 8, 9, 10, 11 >>
OneByOne(buf, src, dst) ==
  LET b1 == Chunk(buf, src, dst, 1)
      b2 == Chunk(b1, src + 1, dst + 1, 1)
      b3 == Chunk(b2, src + 2, dst + 2, 1)
  IN  Chunk(b3, src + 3, dst + 3, 1)

WildMatch(buf, at, src, offset, len) ==
  IF offset >= 32 THEN Chunks(Chunk(buf, src, at, 32), src, at, 32, len)
  ELSE IF offset >= 16 THEN Chunks(Chunk(buf, src, at, 16), src, at, 16, len)
  ELSE IF offset >= 8 THEN Chunks(Chunk(buf, src, at, 8), src, at, 8, len)
  ELSE LET moved == src + SpreadAdd[offset + 1]
           four  == Chunk(OneByOne(buf, src, at), moved, at + 4, 4)
       IN  Chunks(four, moved - SpreadSub[offset + 1], at, 8, len)

-----------------------------------------------------------------------------
(* A block of several sequences.  lits is [fast, len]: the literals and    *)
(* the slack behind them, s is [ok, buf, op, lp], q is [ll, off, ml].      *)

Literals(bytes, len) ==
  [fast |-> Part(bytes, 0, Least(len + LiteralOverread, Len(bytes))), len |-> Least(len, Len(bytes))]
AsSlice(lits) == Part(lits.fast, 0, lits.len)

OpenBlock(out, max, base) ==
  [buf |-> Part(out, base, Len(out) - base) \o [i \in 1 .. max + Overlength |-> 0],
   op  |-> Len(out) - base]

Bad == [ok |-> FALSE]
Went(buf, op, lp) == [ok |-> TRUE, buf |-> buf, op |-> op, lp |-> lp]

ExecuteExact(s, q, lits, history) ==
  LET litEnd == s.op + q.ll
      before == q.off - litEnd
      done   == IF before > 0 THEN Least(before, q.ml) ELSE 0
      filled == PutAt(s.buf, s.op, Part(lits, s.lp, q.ll))
      begun  == IF before > 0
                THEN CopyFrom(filled, litEnd, history, Len(history) - before, done) ELSE filled
  IN  IF s.lp > Len(lits) \/ q.ll > Len(lits) - s.lp \/ q.off = 0 \/ before > Len(history) THEN Bad
      ELSE Went(IF q.ml > done
                THEN WildMatch(begun, litEnd + done, litEnd + done - q.off, q.off, q.ml - done)
                ELSE begun, litEnd + q.ml, s.lp + q.ll)

\* (A plausible slip: the chunks' reads behind the literals are not asked for.)
FastFitsNoSlack(lits, lp, ll) == lp + ll <= Len(lits.fast)
FastFits(lits, lp, ll) == lp + ll + LiteralOverread <= Len(lits.fast)

Execute(s, q, lits, history) ==
  LET litEnd == s.op + q.ll
  IN  IF litEnd + q.ml + Overlength > Len(s.buf) THEN Bad
      ELSE IF litEnd >= q.off /\ FastFits(lits, s.lp, q.ll) /\ q.off # 0
      THEN Went(WildMatch(WildLiterals(s.buf, s.op, lits.fast, s.lp, q.ll),
                          litEnd, litEnd - q.off, q.off, q.ml), litEnd + q.ml, s.lp + q.ll)
      ELSE ExecuteExact(s, q, AsSlice(lits), history)

ExtendLiterals(s, lits, len) ==
  IF s.lp > lits.len \/ len > lits.len - s.lp \/ len > Len(s.buf) - Overlength - s.op THEN Bad
  ELSE Went(PutAt(s.buf, s.op, Part(AsSlice(lits), s.lp, len)), s.op + len, s.lp + len)

ExecuteNext(s, q, lits, history) == IF ~s.ok THEN Bad ELSE Execute(s, q, lits, history)
\* the sequences one after the other, then the literals behind the last
ExecuteAll(s, seqs, lits, history) ==
  LET upTo[i \in 0 .. Len(seqs)] ==
        IF i = 0 THEN s
        ELSE ExecuteNext(upTo[i - 1], seqs[i], lits, history)
  IN  upTo[Len(seqs)]
ExecuteRest(s, lits) ==
  IF ~s.ok THEN Bad ELSE IF s.lp < lits.len THEN ExtendLiterals(s, lits, lits.len - s.lp) ELSE s

\* the output after the block, from the frame's first byte
BlockOutput(s) == IF s.ok THEN [ok |-> TRUE, out |-> Part(s.buf, 0, s.op)] ELSE Bad
RunSequences(out, max, base, seqs, lits, history) ==
  LET opened == OpenBlock(out, max, base)
  IN  BlockOutput(ExecuteRest(ExecuteAll(Went(opened.buf, opened.op, 0), seqs, lits, history), lits))

-----------------------------------------------------------------------------
(* A block of one sequence.                                                *)

\* wild_copy_match's loop: what is copied already is copied again
DoublingStep(d, len) ==
  LET n == Least(len - d.copied, d.copied)
  IN  IF d.copied >= len THEN d
      ELSE [out |-> d.out \o Part(d.out, Len(d.out) - d.copied, n), copied |-> d.copied + n]
Doubling(out, copied, len) ==
  LET upTo[k \in 0 .. len \div 2] ==
        IF k = 0 THEN [out |-> out, copied |-> copied] ELSE DoublingStep(upTo[k - 1], len)
  IN  upTo[len \div 2].out
AppendMatch(out, offset, len) ==
  LET start == Len(out) - offset
  IN  IF offset >= len THEN out \o Part(out, start, len)
      ELSE IF offset = 1 THEN out \o [i \in 1 .. len |-> out[start + 1]]
      ELSE Doubling(out \o Part(out, start, offset), offset, len)

\* the match reaches before the frame
AppendFromHistory(out, pos, offset, ml, history) ==
  LET reach == offset - pos
      taken == Least(reach, ml)
      begun == out \o Part(history, Len(history) - reach, taken)
  IN  IF offset > pos + Len(history) THEN Bad
      ELSE [ok |-> TRUE, out |-> IF ml > taken THEN AppendMatch(begun, offset, ml - taken) ELSE begun]

RunSingle(out, max, base, q, lits, history) ==
  LET begun == out \o Part(lits, 0, q.ll)
      pos   == Len(begun) - base
      rest  == Part(lits, q.ll, Len(lits) - q.ll)
      r == IF q.off > pos THEN AppendFromHistory(begun, pos, q.off, q.ml, history)
           ELSE [ok |-> TRUE, out |-> AppendMatch(begun, q.off, q.ml)]
  IN  IF q.ll + q.ml > max \/ q.ll > Len(lits) \/ q.off = 0 THEN Bad
      ELSE IF ~r.ok \/ Len(r.out) + Len(rest) > Len(out) + max THEN Bad
      ELSE [ok |-> TRUE, out |-> Part(r.out \o rest, base, Len(r.out \o rest) - base)]

-----------------------------------------------------------------------------
(* A block: its literals, `slack` behind them in their buffer.             *)
ExecuteBlock(out, max, base, seqs, lits, slack, history) ==
  IF Len(seqs) = 0
  THEN IF Len(lits) > max THEN Bad
       ELSE [ok |-> TRUE, out |-> Part(out, base, Len(out) - base) \o lits]
  ELSE IF Len(seqs) = 1 THEN RunSingle(out, max, base, seqs[1], lits, history)
  ELSE RunSequences(out, max, base, seqs, Literals(lits \o slack, Len(lits)), history)
=============================================================================
