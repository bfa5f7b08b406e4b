------------------------------ MODULE MCUgcEvents ------------------------------
(* An instance of UgcEvents for TLC: three events whose timestamps order them      *)
(* against their arrival, two of them within one second, and two listings.         *)
EXTENDS UgcEvents, TLC

CONSTANTS e1, e2, e3, l1, l2

MCStamp == (e1 :> 4) @@ (e2 :> 1) @@ (e3 :> 0)
MCLimit == (l1 :> Nil) @@ (l2 :> 1)
=============================================================================
