------------------------------ MODULE MCAccounts ------------------------------
(* Instances of Accounts for TLC: two registrations of one address with passwords *)
(* that bcrypt tells apart or refuses, a login and a reader of /me.              *)
EXTENDS Accounts, TLC

CONSTANTS r1, r2, r3, r4, e1, e2, pw1, pw2, pw3, pw4, d1, d2

Register(e, p) == [op |-> "register", with |-> [email |-> e, password |-> p]]
LoginAs(e, p) == [op |-> "login", with |-> [email |-> e, password |-> p]]
Me(of, kind) == [op |-> "me", of |-> of, kind |-> kind]

MCDigest == (pw1 :> d1) @@ (pw2 :> d2) @@ (pw3 :> d1) @@ (pw4 :> Nil)

MCScript ==
    (r1 :> {Register(e1, pw1)})
    @@ (r2 :> {Register(e1, pw2), Register(e2, pw1), Register(e2, pw4)})
    @@ (r3 :> {LoginAs(e1, pw1), LoginAs(e1, pw3), LoginAs(e2, pw2), LoginAs(e1, pw4)})
    @@ (r4 :> {Me(r3, "access"), Me(r3, "refresh"), Me(Nil, "access"), Register(e1, pw2),
               LoginAs(e1, pw2)})
=============================================================================
