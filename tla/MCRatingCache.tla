----------------------------- MODULE MCRatingCache -----------------------------
(* Instances of RatingCache for TLC: two profiles rate one of two films.      *)
EXTENDS RatingCache, TLC

CONSTANTS r1, r2, r3, r4, p1, p2, f1, f2

Call(op, p, f, v) == [op |-> op, profile |-> p, film |-> f, points |-> v]
Read(f) == Call("aggregate", Nil, f, Nil)

MCScript ==
    (r1 :> {Call("put", p1, f1, 20)})
    @@ (r2 :> {Call("put", p1, f1, 0), Call("put", p2, f1, 15), Call("get", p1, f1, Nil),
               Call("put", Nil, f1, 0)})
    @@ (r3 :> {Read(f1)})
    @@ (r4 :> {Read(f1), Read(f2), Call("put", p1, f1, 20)})
=============================================================================
