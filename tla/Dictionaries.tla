----------------------------- MODULE Dictionaries -----------------------------
(***************************************************************************)
(* A dictionary's file: what finalize_dictionary lays down and             *)
(* Dictionary::from_bytes reads, as bits, and the tables that both sides   *)
(* take from it for a frame's first block.                                 *)
(***************************************************************************)
EXTENDS HuffmanCoding, SequenceDecoding, Headers

DictMagic == Byte(55) \o Byte(164) \o Byte(48) \o Byte(236)

\* with the given distributions, each with its log, up to the content
DictionaryBytes(id, given, reps) ==
  DictMagic \o LittleEndian(id, 4)
  \o Byte(MaxExplicit + 1) \o Byte(17)          \* two symbols of weight 1
  \o Describe(given["of"][1], given["of"][2]) \o Describe(given["ml"][1], given["ml"][2])
  \o Describe(given["ll"][1], given["ll"][2])
  \o LittleEndian(reps[1], 4) \o LittleEndian(reps[2], 4) \o LittleEndian(reps[3], 4)

\* finalize_dictionary's tables
Trained == [f \in Fields |-> << DefaultDist[f], DefaultLog[f] >>]

-----------------------------------------------------------------------------
(* Reading.  Whether a table has a cell for every code is not asked.       *)

WithDictTable(so, field, desc) ==
  IF ~desc.ok THEN Rejected
  ELSE LET table == BuildDecodeTable(desc.dist, desc.log)
       IN  IF table.ok THEN [so EXCEPT !.bits = @ + desc.bits, !.decode[field] = table] ELSE Rejected
ParseDictFse(so, field, data) ==
  IF ~so.ok THEN Rejected
  ELSE WithDictTable(so, field, ParseDescription(SubSeq(data, so.bits + 1, Len(data)),
                                                 MaxCode[field], MaxLogOf[field]))

ParseDictHuffman(data, weights) ==
  IF ~weights.ok \/ ~Buildable(weights.weights) THEN Rejected
  ELSE [ok |-> TRUE, id |-> ValueAt(data, 32, 4), bits |-> 64 + weights.used,
        huffman |-> BuildTable(weights.weights), decode |-> [f \in Fields |-> NoTable]]

WithRepOffsets(so, data) ==
  LET reps == [i \in 1 .. 3 |-> ValueAt(data, so.bits + 32 * (i - 1), 4)]
  IN  IF ~so.ok THEN Rejected
      ELSE IF so.bits + 96 > Len(data) \/ \E i \in 1 .. 3 : reps[i] = 0 THEN Rejected
      ELSE [ok |-> TRUE, id |-> so.id, huffman |-> so.huffman, decode |-> so.decode,
            reps |-> reps, bits |-> so.bits + 96]

DictionaryFromBytes(data) ==
  LET head == ParseDictHuffman(data, ParseWeights(SubSeq(data, 65, Len(data))))
      upTo[i \in 0 .. 3] ==
        IF i = 0 THEN head ELSE ParseDictFse(upTo[i - 1], << "of", "ml", "ll" >>[i], data)
  IN  IF Len(data) < 64 \/ SubSeq(data, 1, 32) # DictMagic \/ ValueAt(data, 32, 4) = 0
      THEN Rejected
      ELSE WithRepOffsets(upTo[3], data)

\* the encoder's tables for a first block, and the decoder's
DictEncodeTables(dict) == [f \in Fields |-> EncodeTableFromDecode(dict.decode[f], MaxCode[f])]
DictDecodeTables(dict) == [f \in Fields |-> SequenceTable(f, dict.decode[f])]
=============================================================================
