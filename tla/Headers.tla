------------------------------- MODULE Headers -------------------------------
(***************************************************************************)
(* Frame, block and literals headers: the encoders' writers and the        *)
(* decoder's parsers, as bits.  Content sizes stay below 2^30, so the      *)
(* eight-byte size field, for more than 2^32 - 1 bytes, never occurs.      *)
(***************************************************************************)
EXTENDS BitStreams

MaxWindow    == 2^27
WindowLogMin == 10
WindowLogMax == 27
NoSize == -1        \* content_size: None
NoDict == -1        \* dict_id: None
Refused == [ok |-> FALSE]

\* little-endian bytes of a value below 2^30
LittleEndian(v, bytes) ==
  IF bytes <= 3 THEN Field(v, 8 * bytes) ELSE Field(v, 30) \o Zeros(8 * bytes - 30)
ValueAt(bits, at, bytes) == WindowAt(bits, at, LeastOf2(8 * bytes, 30))
Magic == Field(40, 8) \o Field(181, 8) \o Field(47, 8) \o Field(253, 8)
Clamp(v, low, high) == LeastOf2(MostOf2(v, low), high)

-----------------------------------------------------------------------------
(* Frame headers.                                                          *)

FitsSingleSegment(size) == size <= MaxWindow
FrameWindowSize(size, log) == IF FitsSingleSegment(size) THEN size ELSE 2^log

\* (A plausible slip: the two-byte field begins with what one byte holds.)
SizeFieldOverlap(size, single) ==
  IF single /\ size <= 255 THEN 1 ELSE IF size \in 255 .. 65535 + 256 THEN 2 ELSE 4
FrameContentSizeFieldSize(size, single) ==
  IF single /\ size <= 255 THEN 1 ELSE IF size \in 256 .. 65535 + 256 THEN 2 ELSE 4

DictIdFlag(id) ==
  IF id = NoDict THEN 0 ELSE IF id <= 255 THEN 1 ELSE IF id <= 65535 THEN 2 ELSE 3
BytesOfFlag(flag) == << 0, 1, 2, 4 >>[flag + 1]

WriteFrameHeader(size, id, log, checksum) ==
  LET single  == id = NoDict /\ size # NoSize /\ FitsSingleSegment(size)
      fcs     == IF size = NoSize THEN 0 ELSE FrameContentSizeFieldSize(size, single)
      fcsFlag == CASE fcs <= 1 -> 0 [] fcs = 2 -> 1 [] OTHER -> 2
      Flag(b) == IF b THEN << 1 >> ELSE << 0 >>
  IN  Magic
      \o Field(DictIdFlag(id), 2) \o Flag(checksum) \o Zeros(2) \o Flag(single) \o Field(fcsFlag, 2)
      \o (IF single THEN << >>
          ELSE Zeros(3) \o Field(Clamp(log, WindowLogMin, WindowLogMax) - 10, 5))
      \o (IF id = NoDict THEN << >> ELSE LittleEndian(id, BytesOfFlag(DictIdFlag(id))))
      \o (CASE fcs = 0 -> << >>
            [] fcs = 2 -> LittleEndian(size - 256, 2)
            [] OTHER   -> LittleEndian(size, fcs))

\* Windows past 2^30 are as good as any other above the limit.
WindowOf(exponent, mantissa) ==
  IF exponent > 19 THEN 2^30 ELSE 2^(10 + exponent) + 2^(7 + exponent) * mantissa

ParseFrameHeader(bits) ==
  LET d        == SubSeq(bits, 33, 40)        \* the descriptor
      single   == d[6] = 1
      idBytes  == BytesOfFlag(d[1] + 2 * d[2])
      fcsFlag  == d[7] + 2 * d[8]
      fcsBytes == IF fcsFlag = 0 THEN (IF single THEN 1 ELSE 0) ELSE 2^fcsFlag
      idAt     == 40 + (IF single THEN 0 ELSE 8)
      fcsAt    == idAt + 8 * idBytes
      id       == ValueAt(bits, idAt, idBytes)
      fcs      == ValueAt(bits, fcsAt, fcsBytes) + (IF fcsBytes = 2 THEN 256 ELSE 0)
      size     == IF fcsBytes = 0 THEN NoSize ELSE fcs
  IN  IF Len(bits) < 40 \/ SubSeq(bits, 1, 32) # Magic THEN Refused
      ELSE IF d[4] = 1 \/ Len(bits) < fcsAt + 8 * fcsBytes THEN Refused
      ELSE [ok |-> TRUE, single |-> single, checksum |-> d[3] = 1, size |-> size,
            id |-> IF idBytes = 0 \/ id = 0 THEN NoDict ELSE id,
            window |-> IF single THEN size
                       ELSE WindowOf(WindowAt(bits, 43, 5), WindowAt(bits, 40, 3)),
            bits |-> fcsAt + 8 * fcsBytes]

-----------------------------------------------------------------------------
(* Block headers.                                                          *)

BlockTypes == << "raw", "rle", "compressed" >>
WriteBlockHeader(type, size, last) ==
  << IF last THEN 1 ELSE 0 >>
  \o (CASE type = "raw" -> << 0, 0 >> [] type = "compressed" -> << 0, 1 >>)
  \o Field(size, 21)

ParseBlockHeader(bits) ==
  LET type == bits[2] + 2 * bits[3]
  IN  IF Len(bits) < 24 THEN Refused
      ELSE IF type = 3 THEN Refused
      ELSE [ok |-> TRUE, last |-> bits[1] = 1, type |-> BlockTypes[type + 1],
            size |-> WindowAt(bits, 3, 21)]

-----------------------------------------------------------------------------
(* Literals headers: two bits of block type, then the size format.         *)

LiteralsTypes == << "raw", "rle", "compressed", "treeless" >>

RawLiteralsHeader(size) ==
  IF size <= 31 THEN Zeros(3) \o Field(size, 5)
  ELSE IF size <= 4095 THEN << 0, 0, 1, 0 >> \o Field(size, 12)
  ELSE << 0, 0, 1, 1 >> \o Field(size, 20)

\* `streams` only shows in the smallest format.
HuffmanLiteralsHeader(treeless, size, compressed, streams) ==
  LET type == << IF treeless THEN 1 ELSE 0, 1 >>
      Sizes(n) == Field(size, n) \o Field(compressed, n)
  IN  IF size <= 1023 /\ compressed <= 1023
      THEN type \o << IF streams = 4 THEN 1 ELSE 0, 0 >> \o Sizes(10)
      ELSE IF size <= 16383 /\ compressed <= 16383 THEN type \o << 0, 1 >> \o Sizes(14)
      ELSE type \o << 1, 1 >> \o Sizes(18)

ParseRawOrRle(bits) ==
  LET format == bits[3] + 2 * bits[4]
      header == CASE format = 1 -> 2 [] format = 3 -> 3 [] OTHER -> 1
  IN  IF Len(bits) < 8 * header THEN Refused
      ELSE [ok |-> TRUE, streams |-> 1, compressed |-> 0, bits |-> 8 * header,
            size |-> CASE header = 1 -> WindowAt(bits, 3, 5)
                       [] header = 2 -> WindowAt(bits, 4, 12)
                       [] header = 3 -> WindowAt(bits, 4, 20)]

ParseCompressedHeader(bits) ==
  LET format == bits[3] + 2 * bits[4]
      n      == << 10, 10, 14, 18 >>[format + 1]
  IN  IF Len(bits) < 4 + 2 * n THEN Refused
      ELSE [ok |-> TRUE, streams |-> IF format = 0 THEN 1 ELSE 4, bits |-> 4 + 2 * n,
            size |-> WindowAt(bits, 4, n), compressed |-> WindowAt(bits, 4 + n, n)]

ParseLiteralsHeader(bits) ==
  IF Len(bits) = 0 THEN [type |-> "none", header |-> Refused]
  ELSE LET type == LiteralsTypes[1 + bits[1] + 2 * bits[2]]
       IN  [type |-> type,
            header |-> IF type \in {"raw", "rle"} THEN ParseRawOrRle(bits)
                       ELSE ParseCompressedHeader(bits)]

-----------------------------------------------------------------------------
(* Which literals are sent as four streams: the smallest format is the     *)
(* only one that can say one.                                              *)

\* (A plausible slip: the limit is that of the middle format.)
StreamsOfLate(size) == IF size >= 16384 THEN 4 ELSE 1
StreamsOf(size) == IF size >= 1024 THEN 4 ELSE 1
=============================================================================
