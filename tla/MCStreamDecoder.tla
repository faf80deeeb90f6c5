--------------------------- MODULE MCStreamDecoder ---------------------------
(* Instance of DecoderPair.  Windows of 1 and (clamped) 2, exceeded by  *)
(* 3, and a dictionary longer than two windows; the limit of 5 lets a      *)
(* frame pass two windows and a second frame reach the limit.              *)
EXTENDS DecoderPair

MCWindows  == {1, 3}
MCSizes    == {0, 3}
MCDictLens == {0, 5}
=============================================================================
