----------------------------- MODULE MCBlockSync -----------------------------
(* Instance of BlockSync: two describable tables, a 4-bit word, histories  *)
(* with the code's <<1, 4, 8>> and a dictionary whose second offset is too *)
(* large for any match.  The match offsets include the first offset minus  *)
(* one, so that code 3 without literals is taken, and the largest that fits.*)
EXTENDS BlockSync

MCPlainHistory == <<1, 4, 8>>
MCDictHistory  == <<2, 15, 4>>
MCMatchOffsets == {1, 2, 12}
=============================================================================
