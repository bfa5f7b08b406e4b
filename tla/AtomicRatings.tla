----------------------------- MODULE AtomicRatings -----------------------------
(***************************************************************************)
(* What put_rating and get_rating of services/profile_service promise: a   *)
(* rating is a register, and every call that is answered took effect at    *)
(* one moment between its request and its answer.  Sessions, transactions, *)
(* rows and the unique constraint are out of sight.                        *)
(***************************************************************************)
EXTENDS Integers

CONSTANTS
    Callers,   \* requests
    Keys,      \* a profile and a film
    Values,    \* ratings
    Nil

VARIABLES
    value,   \* the rating under each key, Nil while there is none
    call,    \* what a caller asked, Nil until it does; put = Nil: to be told the rating
    found,   \* what a caller has read, or has written, and may be told
    done,    \* the callers whose call has taken effect
    reply    \* 200 or 404; 0 while a caller waits, and for one that was told of a failure

vars == <<value, call, found, done, reply>>

Call == [key : Keys, put : Values \cup {Nil}]

Init ==
    /\ value = [k \in Keys |-> Nil]
    /\ call = [c \in Callers |-> Nil]
    /\ found = [c \in Callers |-> Nil]
    /\ done = {}
    /\ reply = [c \in Callers |-> 0]

Waits(c) == call[c] # Nil /\ reply[c] = 0

Ask(c) ==
    /\ call[c] = Nil
    /\ \E a \in Call : call' = [call EXCEPT ![c] = a]
    /\ UNCHANGED <<value, found, done, reply>>

Read(c) ==
    /\ Waits(c)
    /\ value[call[c].key] # Nil
    /\ found' = [found EXCEPT ![c] = value[call[c].key]]
    /\ UNCHANGED <<value, call, done, reply>>

Forget(c) ==
    /\ Waits(c)
    /\ found' = [found EXCEPT ![c] = Nil]
    /\ UNCHANGED <<value, call, done, reply>>

Write(c) ==
    /\ Waits(c) /\ c \notin done
    /\ call[c].put # Nil
    /\ value' = [value EXCEPT ![call[c].key] = call[c].put]
    /\ found' = [found EXCEPT ![c] = call[c].put]
    /\ done' = done \cup {c}
    /\ UNCHANGED <<call, reply>>

\* A rating that was read as the caller wants it took effect when it was read.
Keep(c) ==
    /\ Waits(c) /\ c \notin done
    /\ found[c] # Nil /\ call[c].put \in {Nil, found[c]}
    /\ done' = done \cup {c}
    /\ \/ UNCHANGED reply
       \/ call[c].put = Nil /\ reply' = [reply EXCEPT ![c] = 200]
    /\ UNCHANGED <<value, call, found>>

Tell(c) ==
    /\ Waits(c) /\ c \in done /\ found[c] # Nil
    /\ reply' = [reply EXCEPT ![c] = 200]
    /\ UNCHANGED <<value, call, found, done>>

Miss(c) ==
    /\ Waits(c) /\ c \notin done
    /\ call[c].put = Nil /\ value[call[c].key] = Nil
    /\ reply' = [reply EXCEPT ![c] = 404]
    /\ UNCHANGED <<value, call, found, done>>

Next ==
    \E c \in Callers :
        Ask(c) \/ Read(c) \/ Forget(c) \/ Write(c) \/ Keep(c) \/ Tell(c) \/ Miss(c)

Spec == Init /\ [][Next]_vars
=============================================================================
