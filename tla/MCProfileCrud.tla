----------------------------- MODULE MCProfileCrud -----------------------------
(* Instances of ProfileCrud for TLC: two users, two numbers, one of which can   *)
(* be spelt in two ways, and an invalid spelling.                              *)
EXTENDS ProfileCrud, TLC

CONSTANTS r1, r2, r3, r4, r5, u1, u2, n1, n2, phoneA, phoneB, a, aSpaced, b, bad

Call(op, name, phone) == [op |-> op, name |-> name, phone |-> phone]

MCE164 == [x \in {a, aSpaced, b, bad} |->
             CASE x \in {a, aSpaced} -> phoneA [] x = b -> phoneB [] OTHER -> Nil]

\* r1 and r2 create profiles; r3 and r4 act on the profile of u1.
MCSub == (r1 :> u1) @@ (r2 :> u2) @@ (r3 :> u1) @@ (r4 :> u1)
MCScript ==
    LET updates == {Call("update", n2, Nil), Call("update", Nil, aSpaced),
                    Call("update", Nil, b), Call("update", n2, b),
                    Call("update", Nil, bad), Call("update", Nil, Nil)}
        reads == {Call("get", Nil, Nil), Call("delete", Nil, Nil)}
    IN (r1 :> {Call("create", n1, a)})
       @@ (r2 :> {Call("create", n1, b), Call("create", n1, aSpaced)})
       @@ (r3 :> updates \cup reads \cup {Call("create", n2, b)})
       @@ (r4 :> {Call("update", n2, Nil), Call("update", Nil, a)} \cup reads)

\* On SQLite the profile of u1 can be deleted under a concurrent update, while
\* u2 waits for each answer.
LiteSub == (r1 :> u1) @@ (r2 :> u2) @@ (r3 :> u1) @@ (r4 :> u1) @@ (r5 :> u2)
LiteScript ==
    (r1 :> {Call("create", n1, a)})
    @@ (r2 :> {Call("create", n1, b)})
    @@ (r3 :> {Call("update", Nil, b), Call("update", n2, Nil), Call("create", n2, aSpaced)})
    @@ (r4 :> {Call("delete", Nil, Nil), Call("get", Nil, Nil)})
    @@ (r5 :> {Call("update", n2, aSpaced), Call("delete", Nil, Nil)})
=============================================================================
