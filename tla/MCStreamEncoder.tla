--------------------------- MODULE MCStreamEncoder ---------------------------
(* Instance of StreamEncoder.  With a window of 3 and blocks of 2 a frame  *)
(* of 8 bytes is compacted with and without a dictionary, and one of the   *)
(* dictionaries is longer than two windows.                                *)
EXTENDS StreamEncoder

MCDictLens == {0, 2, 7}
=============================================================================
