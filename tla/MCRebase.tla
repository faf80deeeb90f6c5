------------------------------- MODULE MCRebase -------------------------------
(* Windows shorter than a block, shorter than the span and longer than it; *)
(* inputs that pass the span several times over.                           *)
EXTENDS LongRebase

MCWindows  == {1, 3, 8}
MCPrefixes == {0, 5}
=============================================================================
