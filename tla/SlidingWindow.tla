----------------------------- MODULE SlidingWindow -----------------------------
(***************************************************************************)
(* What services/common/security/rate_limit.py promises to each client of  *)
(* one process: a request passes unless Limit requests have already passed *)
(* in the Interval that ends now, and a refused request counts for nothing. *)
(***************************************************************************)
EXTENDS Integers, Sequences

CONSTANTS
    Callers,   \* identities of clients
    Limit,     \* limit
    Interval,  \* interval_seconds, in ticks of the clock
    Horizon,   \* bound: the clock stops here
    Nil

VARIABLES
    clock,     \* time.monotonic()
    passed,    \* passed[k]: when requests of k passed since the process started
    answer     \* the last answer; client Nil when nobody was asked

vars == <<clock, passed, answer>>

Init ==
    /\ clock = 0
    /\ passed = [k \in Callers |-> <<>>]
    /\ answer = [client |-> Nil, status |-> 200]

\* The Limit-th request from the end lies in the window.
Full(k) ==
    LET n == Len(passed[k]) IN
    n >= Limit /\ clock - passed[k][n - Limit + 1] <= Interval

Pass(k) ==
    /\ ~Full(k)
    /\ passed' = [passed EXCEPT ![k] = Append(@, clock)]
    /\ answer' = [client |-> k, status |-> 200]
    /\ UNCHANGED clock

Refuse(k) ==
    /\ Full(k)
    /\ answer' = [client |-> k, status |-> 429]
    /\ UNCHANGED <<clock, passed>>

PassExempt ==
    /\ answer' = [client |-> Nil, status |-> 200]
    /\ UNCHANGED <<clock, passed>>

Tick ==
    /\ clock < Horizon
    /\ clock' = clock + 1
    /\ UNCHANGED <<passed, answer>>

Restart ==
    /\ passed' = [k \in Callers |-> <<>>]
    /\ answer' = [client |-> Nil, status |-> 200]
    /\ UNCHANGED clock

Next ==
    \/ \E k \in Callers : Pass(k) \/ Refuse(k)
    \/ PassExempt \/ Tick \/ Restart

Spec == Init /\ [][Next]_vars
=============================================================================
