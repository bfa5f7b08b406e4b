------------------------------ MODULE RateLimiter ------------------------------
(***************************************************************************)
(* SlidingWindowRateLimiter and RateLimitMiddleware, which auth_service,   *)
(* content_api, profile_service and ugc_service each put in front of their *)
(* routes.                                                                 *)
(*                                                                         *)
(* allow() holds an asyncio.Lock around code that never awaits, so on the   *)
(* one event loop of a process it is never contended and a call is a step.  *)
(***************************************************************************)
EXTENDS Integers, Sequences

CONSTANTS
    Clients,   \* hosts, in X-Forwarded-For or of the connection
    Unknown,   \* the identity of a request that shows neither
    Limit, Interval,
    Horizon,   \* bound: the clock stops here
    Nil

Keys == Clients \cup {Unknown}
Request == [forwarded : Clients \cup {Nil}, host : Clients \cup {Nil}, exempt : BOOLEAN]

ASSUME LimiterAssumption ==
    /\ Limit \in Nat \ {0}
    /\ Interval \in Nat \ {0}
    /\ Horizon \in Nat
    /\ Nil \notin Keys

VARIABLES
    clock,     \* time.monotonic()
    buckets,   \* _buckets; a missing key is an empty deque
    admitted,  \* auxiliary: when requests of a key passed since the process started
    verdict    \* the last answer

vars == <<clock, buckets, admitted, verdict>>

Times == 0..Horizon

TypeOK ==
    /\ clock \in Times
    /\ buckets \in [Keys -> Seq(Times)]
    /\ admitted \in [Keys -> Seq(Times)]
    /\ verdict \in [client : Keys \cup {Nil}, status : {200, 429}]

Init ==
    /\ clock = 0
    /\ buckets = [k \in Keys |-> <<>>]
    /\ admitted = [k \in Keys |-> <<>>]
    /\ verdict = [client |-> Nil, status |-> 200]

-----------------------------------------------------------------------------
\* _default_identifier
Identifier(q) ==
    IF q.forwarded # Nil THEN q.forwarded ELSE IF q.host # Nil THEN q.host ELSE Unknown

ExpiredEarly(t) == clock - t >= Interval   \* Mutant: the boundary counts as outside.

Expired(t) == clock - t > Interval

\* How many times the loop pops: up to the first entry that has not expired.
Stale(bucket) ==
    CHOOSE n \in 0..Len(bucket) :
        /\ \A i \in 1..n : Expired(bucket[i])
        /\ n < Len(bucket) => ~Expired(bucket[n + 1])

Evict(bucket) == SubSeq(bucket, Stale(bucket) + 1, Len(bucket))

\* Mutant: a request beyond the limit is let through.
AllowOneMore(k) ==
    LET kept == Evict(buckets[k]) IN
    IF Len(kept) > Limit
    THEN /\ buckets' = [buckets EXCEPT ![k] = kept]
         /\ verdict' = [client |-> k, status |-> 429]
         /\ UNCHANGED admitted
    ELSE /\ buckets' = [buckets EXCEPT ![k] = Append(kept, clock)]
         /\ admitted' = [admitted EXCEPT ![k] = Append(@, clock)]
         /\ verdict' = [client |-> k, status |-> 200]

\* SlidingWindowRateLimiter.allow
Allow(k) ==
    LET kept == Evict(buckets[k]) IN
    IF Len(kept) >= Limit
    THEN /\ buckets' = [buckets EXCEPT ![k] = kept]
         /\ verdict' = [client |-> k, status |-> 429]
         /\ UNCHANGED admitted
    ELSE /\ buckets' = [buckets EXCEPT ![k] = Append(kept, clock)]
         /\ admitted' = [admitted EXCEPT ![k] = Append(@, clock)]
         /\ verdict' = [client |-> k, status |-> 200]

\* RateLimitMiddleware.dispatch
Dispatch(q) ==
    /\ IF q.exempt
       THEN /\ verdict' = [client |-> Nil, status |-> 200]
            /\ UNCHANGED <<buckets, admitted>>
       ELSE Allow(Identifier(q))
    /\ UNCHANGED clock

\* Mutant: time.time(), which an adjustment of the host's clock sets back.
TickWall ==
    /\ clock < Horizon
    /\ clock' \in {clock - 1, clock + 1}
    /\ UNCHANGED <<buckets, admitted, verdict>>

Tick ==
    /\ clock < Horizon
    /\ clock' = clock + 1
    /\ UNCHANGED <<buckets, admitted, verdict>>

\* The process restarts: create_app builds a limiter that has seen nobody.
Restart ==
    /\ buckets' = [k \in Keys |-> <<>>]
    /\ admitted' = [k \in Keys |-> <<>>]
    /\ verdict' = [client |-> Nil, status |-> 200]
    /\ UNCHANGED clock

Next == (\E q \in Request : Dispatch(q)) \/ Tick \/ Restart

Spec == Init /\ [][Next]_vars

-----------------------------------------------------------------------------
(* Properties. *)

\* No client passes more than Limit times in any Interval of the life of a
\* process, wherever the interval begins: the deque forgets only what has left it.
WindowRespected ==
    \A k \in Keys : \A i \in DOMAIN admitted[k] :
        i + Limit <= Len(admitted[k]) => admitted[k][i + Limit] - admitted[k][i] > Interval

\* The deque never holds more than Limit times, so a client costs bounded memory
\* (the number of clients remembered is not bounded).
BucketsBounded == \A k \in Keys : Len(buckets[k]) <= Limit

Window == INSTANCE SlidingWindow WITH Callers <- Keys, passed <- admitted, answer <- verdict

\* allow() decides as the abstract window does: it refuses a client exactly when
\* that client has passed Limit times in the window, whatever was refused to it
\* before and whatever the others do.
ImplementsWindow == Window!Spec
=============================================================================
