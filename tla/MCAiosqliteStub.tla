---------------------------- MODULE MCAiosqliteStub ----------------------------
(* An instance of AiosqliteStub for TLC: three sessions on two threads, so that *)
(* two writers can hold every thread while the third has not committed.         *)
EXTENDS AiosqliteStub
=============================================================================
