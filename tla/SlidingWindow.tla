---------------------------- MODULE SlidingWindow ----------------------------
(***************************************************************************)
(* How much of dictionary and frame each side keeps and shows.  Both keep  *)
(* a suffix; all lengths are in bytes.                                     *)
(***************************************************************************)
EXTENDS Integers

AtLeastZero(n) == IF n > 0 THEN n ELSE 0

(* FrameEncoder: what flush_block drops once the window buffer passes two  *)
(* windows; it keeps one.                                                  *)
CompactionShift(len, window) == IF len > 2 * window THEN len - window ELSE 0

(* FrameDecoder: where the history that sequences may refer to begins.     *)
(* `done` is how much of the frame is decoded: all of the history is       *)
(* visible, the dictionary included, until that is a full window.          *)
ShownFrom(len, done, window) ==
  IF done >= window THEN AtLeastZero(len - window) ELSE 0

(* FrameDecoder: what append_history leaves of `len` bytes.                *)
Kept(len, done, window) ==
  IF done >= window /\ len > 2 * window THEN window ELSE len
=============================================================================
