----------------------------- MODULE FreshTables -----------------------------
(***************************************************************************)
(* The entropy tables of a frame, as the format defines them.              *)
(*                                                                         *)
(* A frame starts with the dictionary's tables or none.  A literals        *)
(* section describes a Huffman table or is treeless and uses the last one; *)
(* a sequence section names, for each of its tables, the predefined one, a *)
(* description, or the last one.  Nothing of an earlier frame, and nothing *)
(* of a frame that failed, plays any part.                                 *)
(***************************************************************************)
EXTENDS Naturals

CONSTANTS
  TableKinds,   \* ll, of, ml
  HufHeaders,   \* Huffman descriptions a section may carry
  WeightsOf,    \* the weights each of them describes
  BadWeights,   \* weights no table can be built from
  Descs,        \* sequence table descriptions (RLE or FSE)
  BadDesc,      \* one that cannot be read
  Predefined,   \* a predefined sequence table
  Repeat,       \* the mode that repeats the last table
  Treeless,     \* a section coded with the last Huffman table
  DictHuf,      \* the dictionary's Huffman table
  DictSeq,      \* the dictionary's sequence tables
  NoTable

VARIABLES
  dict,    \* whether a dictionary is in use
  pc,      \* where the decoder is
  huf,     \* the last Huffman table of the frame
  seq,     \* the last sequence table of each kind
  used,    \* the last section and the tables it was decoded with
  error    \* why the last frame failed: a section, or its data

vars == << dict, pc, huf, seq, used, error >>

Modes == [TableKinds -> {Predefined, Repeat, BadDesc} \cup Descs]
Sections == HufHeaders \cup {Treeless}

InitialHuf == IF dict THEN DictHuf ELSE NoTable
InitialSeq == [k \in TableKinds |-> IF dict THEN DictSeq[k] ELSE NoTable]

(* The table a coded literals section names, and whether there is one.     *)
Named(s) == IF s = Treeless THEN huf ELSE WeightsOf[s]
Usable(t) == t \notin {BadWeights, NoTable}

(* The tables a sequence section names.                                    *)
NamedTables(m) == [k \in TableKinds |-> IF m[k] = Repeat THEN seq[k] ELSE m[k]]
AllUsable(ts) == \A k \in TableKinds : ts[k] \notin {BadDesc, NoTable}

Outside ==
  /\ pc' = "outside"
  /\ huf' = NoTable
  /\ seq' = [k \in TableKinds |-> NoTable]
  /\ used' = << >>
  /\ UNCHANGED dict

Begin ==
  /\ pc = "outside"
  /\ pc' = "frame"
  /\ huf' = InitialHuf
  /\ seq' = InitialSeq
  /\ used' = << >> /\ error' = << >>
  /\ UNCHANGED dict

CompressedBlock ==
  /\ pc = "frame"
  /\ pc' = "literals"
  /\ used' = << >>
  /\ UNCHANGED << dict, huf, seq, error >>

PlainLiterals ==
  /\ pc = "literals"
  /\ pc' = "tables"
  /\ used' = << >>
  /\ UNCHANGED << dict, huf, seq, error >>

CodedLiterals(s) ==
  /\ pc = "literals"
  /\ Usable(Named(s))
  /\ pc' = "tables"
  /\ huf' = Named(s)
  /\ used' = << s, Named(s) >>
  /\ UNCHANGED << dict, seq, error >>

Sequences(m) ==
  /\ pc = "tables"
  /\ AllUsable(NamedTables(m))
  /\ pc' = "frame"
  /\ seq' = NamedTables(m)
  /\ used' = << m, NamedTables(m) >>
  /\ UNCHANGED << dict, huf, error >>

NoSequences ==
  /\ pc = "tables"
  /\ pc' = "frame"
  /\ used' = << >>
  /\ UNCHANGED << dict, huf, seq, error >>

(* A frame fails on a section only when the section names no usable table. *)
Corrupt ==
  /\ pc # "outside"
  /\ Outside
  /\ error' = << "data" >>

RejectLiterals(s) ==
  /\ pc = "literals"
  /\ ~Usable(Named(s))
  /\ Outside
  /\ error' = << "literals", s >>

RejectSequences(m) ==
  /\ pc = "tables"
  /\ ~AllUsable(NamedTables(m))
  /\ Outside
  /\ error' = << "sequences", m >>

End ==
  /\ pc = "frame"
  /\ Outside
  /\ error' = << >>

Init ==
  /\ dict \in BOOLEAN
  /\ pc = "outside"
  /\ huf = NoTable
  /\ seq = [k \in TableKinds |-> NoTable]
  /\ used = << >>
  /\ error = << >>

Next ==
  \/ Begin \/ CompressedBlock
  \/ PlainLiterals \/ (\E s \in Sections : CodedLiterals(s) \/ RejectLiterals(s))
  \/ NoSequences \/ (\E m \in Modes : Sequences(m) \/ RejectSequences(m))
  \/ Corrupt \/ End

Spec == Init /\ [][Next]_vars
=============================================================================
