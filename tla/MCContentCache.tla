----------------------------- MODULE MCContentCache -----------------------------
(* An instance of ContentCache for TLC: two requests for one document, one of      *)
(* which may as well be a listing of it and another.                               *)
EXTENDS ContentCache, TLC

CONSTANTS d1, d2, r1, r2

MCTargets == (r1 :> {d1}) @@ (r2 :> {d1, All})
=============================================================================
