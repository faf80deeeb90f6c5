--------------------------- MODULE MCDecoderTables ---------------------------
(* A dictionary without a match-length table; two headers for the same     *)
(* weights, one for others, one for weights that build no table, and one   *)
(* that cannot be parsed.                                                  *)
EXTENDS DecoderTables

CONSTANTS of, ml, raw1, fse1, raw2, raw3, raw4, w1, w2, w3, d1, d2, dictof

MCWeightsOf ==
  [h \in HufHeaders |-> CASE h \in {raw1, fse1} -> w1
                          [] h = raw2 -> w2
                          [] h = raw3 -> w3
                          [] h = raw4 -> NoTable]

MCDictSeq ==
  [k \in TableKinds |-> IF k = of THEN dictof ELSE NoTable]
=============================================================================
