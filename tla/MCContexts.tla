----------------------------- MODULE MCContexts -----------------------------
(* Lengths in the proportions of the code, 8192 being scaled to 8, except  *)
(* that blocks are cut to 16.                                              *)
EXTENDS Contexts

Fast(hash, min, rawLimit, smallMin) ==
  [strategy |-> "fast", hash |-> hash, chain |-> hash, min |-> min,
   rawLimit |-> rawLimit, smallMin |-> smallMin]
Dfast(hash, chain) ==
  [strategy |-> "dfast", hash |-> hash, chain |-> chain, min |-> 5,
   rawLimit |-> -1, smallMin |-> 5]

(* L-3, whose raw literals end below the tables' size; L1; L3.             *)
MCLevels == {Fast(4, 6, 4, 5), Fast(5, 7, -1, 7), Dfast(7, 6)}

(* L-6, whose raw literals end above it.                                   *)
MCLevelsRaw == {Fast(3, 8, 12, 5)}

MCDictLen == [d \in Dicts |-> IF d = "short" THEN 1 ELSE 2]
MCInputLens == {0, 1, 5, 9, 17}
MCExpectedLens == {1, 9}
=============================================================================
