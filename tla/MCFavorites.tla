------------------------------ MODULE MCFavorites ------------------------------
(* Instances of Favorites for TLC: one profile, two films, and two readers who  *)
(* turn the page; one caller may turn out to have no profile.                  *)
EXTENDS Favorites, TLC

CONSTANTS r1, r2, r3, r4, p1, f1, f2

Change(op, p, f) == [op |-> op, profile |-> p, film |-> f, limit |-> 0, offset |-> 0]
Page(limit, offset) ==
    [op |-> "list", profile |-> p1, film |-> Nil, limit |-> limit, offset |-> offset]

MCScript ==
    (r1 :> {Change("add", p1, f1)})
    @@ (r2 :> {Change("add", p1, f1), Change("add", p1, f2), Change("delete", p1, f1)})
    @@ (r3 :> {Change("add", p1, f1), Change("delete", p1, f1), Change("add", Nil, f1),
               Page(1, 0)})
    @@ (r4 :> {Change("delete", p1, f1), Page(1, 1)})
=============================================================================
