---------------------------- MODULE MCWindowReach ----------------------------
(* A window of 3 and blocks of 2: frames fill three windows.  Dictionaries *)
(* are none, shorter than the window, and longer than two; the first or    *)
(* the second offset of some is larger than the window.                    *)
EXTENDS WindowReach

MCDictLens == {0, 2, 7}
MCPlainHistory == <<1, 2, 3>>
MCDictHistories == {<<3, 1, 30>>, <<1, 2, 3>>, <<6, 1, 30>>, <<2, 5, 1>>}
=============================================================================
