----------------------------- MODULE BitStreams -----------------------------
(***************************************************************************)
(* The bit streams of the entropy coders.                                  *)
(*                                                                         *)
(* A stream is a sequence of bits, the least significant of each byte      *)
(* first, whole bytes long.  Writers gather bits in a 64-bit container and *)
(* move its whole bytes out now and then; a bit that does not fit into the *)
(* container is lost.  The reverse reader sees eight bytes of the stream   *)
(* through its container: the container is stood for by the place it was   *)
(* loaded from, and shifting past its low end reads zeros.                 *)
(***************************************************************************)
EXTENDS Integers, Sequences

Word == 64         \* bits of a container

\* n bits of v, least significant first, and back
Field(v, n) == [i \in 1 .. n |-> (v \div 2^(i - 1)) % 2]
Ones(n)     == [i \in 1 .. n |-> 1]
Zeros(n)    == [i \in 1 .. n |-> 0]

ValueOf(bits) ==
  LET low[i \in 0 .. Len(bits)] ==
        IF i = 0 THEN 0 ELSE low[i - 1] + bits[i] * 2^(i - 1)
  IN  low[Len(bits)]

HighBit(v) == CHOOSE b \in 0 .. 30 : 2^b <= v /\ v < 2 * 2^b
LeastOf2(a, b) == IF a < b THEN a ELSE b
MostOf2(a, b)  == IF a > b THEN a ELSE b
CeilDiv(a, b) == (a + b - 1) \div b

-----------------------------------------------------------------------------
(* Writers: bits moved out, and bits still in the container.               *)

EmptyWriter == [out |-> << >>, bits |-> << >>]

AddBits(w, field) ==
  LET all == w.bits \o field
  IN  [w EXCEPT !.bits = SubSeq(all, 1, LeastOf2(Len(all), Word))]

FlushBytes(w) ==
  LET whole == 8 * (Len(w.bits) \div 8)
  IN  [out  |-> w.out \o SubSeq(w.bits, 1, whole),
       bits |-> SubSeq(w.bits, whole + 1, Len(w.bits))]

\* the last byte is filled up with zeros
FlushRemaining(w) ==
  w.out \o w.bits \o Zeros((8 - (Len(w.bits) % 8)) % 8)

\* BitWriter moves bytes out once half the container is full.
WriteBits(w, v, n) ==
  LET added == AddBits(w, Field(v, n))
  IN  IF Len(added.bits) >= 32 THEN FlushBytes(added) ELSE added

\* A reverse stream ends with a marker bit.
CloseReverseStream(w) == FlushRemaining(WriteBits(w, 1, 1))
CloseStream(w) == FlushRemaining(AddBits(w, << 1 >>))

-----------------------------------------------------------------------------
(* Forward reading, from bit position `bit` (the first is 0).              *)

\* bits past the end read as zero
WindowAt(data, bit, n) ==
  ValueOf([i \in 1 .. n |-> IF bit + i <= Len(data) THEN data[bit + i] ELSE 0])

AlignToByte(bit) == 8 * CeilDiv(bit, 8)

-----------------------------------------------------------------------------
(* ReverseBitReader.                                                       *)

Bytes(r) == Len(r.data) \div 8

OpensReverse(data) ==
  Len(data) > 0 /\ \E i \in Len(data) - 7 .. Len(data) : data[i] = 1

\* bits above and with the marker bit
MarkerBits(data) ==
  LET top == CHOOSE i \in Len(data) - 7 .. Len(data) :
               data[i] = 1 /\ \A j \in i + 1 .. Len(data) : data[j] = 0
  IN  Len(data) - top + 1

NewReverse(data) ==
  LET bytes == Len(data) \div 8
  IN  [data |-> data,
       ptr  |-> MostOf2(bytes - 8, 0),
       consumed |-> MarkerBits(data) + (IF bytes >= 8 THEN 0 ELSE Word - Len(data))]

Refill(r) ==
  IF r.consumed <= 7 \/ r.ptr = 0 THEN r
  ELSE LET shift == LeastOf2(r.consumed \div 8, r.ptr)
       IN  [r EXCEPT !.ptr = @ - shift, !.consumed = @ - 8 * shift]

\* The fast refill never clamps: it gives way to the regular one.
RefillFastOrRegular(r) ==
  LET shift == r.consumed \div 8
  IN  IF shift <= r.ptr /\ Bytes(r) >= 8
      THEN [r EXCEPT !.ptr = @ - shift, !.consumed = @ - 8 * shift]
      ELSE Refill(r)

\* The next n bits of the container after `consumed` of them.
PeekAfter(r, consumed, n) ==
  LET low == Word - consumed - n          \* place of the lowest bit read
      At(i) == LET p == 8 * r.ptr + low + i
               IN  IF low + i < 0 \/ p >= Len(r.data) THEN 0 ELSE r.data[p + 1]
  IN  ValueOf([i \in 1 .. n |-> At(i - 1)])

PeekBits(r, n) == PeekAfter(r, r.consumed, n)
Consume(r, n) == [r EXCEPT !.consumed = @ + n]

\* read_bits refills first and refuses to read past the container.
CanRead(r, n) == n = 0 \/ n <= MostOf2(Word - Refill(r).consumed, 0)
AfterRead(r, n) == IF n = 0 THEN r ELSE Consume(Refill(r), n)
ReadBits(r, n) == PeekBits(Refill(r), n)

\* read_bits_branchless does neither.
ReadBranchless(r, n) == PeekAfter(r, r.consumed % Word, n)

BitsRemaining(r) == MostOf2(Word - r.consumed, 0) + 8 * r.ptr
IsExhausted(r) == r.ptr = 0 /\ r.consumed = Word
=============================================================================
