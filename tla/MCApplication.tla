----------------------------- MODULE MCApplication -----------------------------
(* An instance of Application for TLC: two requests at a time, one known host  *)
(* beside the requests that show none, windows of two ticks that slide to tick *)
(* three.  The slots are interchangeable.                                      *)
EXTENDS Application, TLC

SlotSymmetry == Permutations(Slots)
=============================================================================
