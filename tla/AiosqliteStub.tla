----------------------------- MODULE AiosqliteStub -----------------------------
(***************************************************************************)
(* services/common/db/aiosqlite_stub.py under concurrent AsyncSessions.    *)
(*                                                                         *)
(* The methods of a _Connection go through _run: they take its lock and    *)
(* have a thread of the event loop's executor make the call.  Those of a   *)
(* _Cursor make the call without the lock, and SQLAlchemy sends every      *)
(* statement through a cursor.  SQLAlchemy gives each session of a         *)
(* database file a connection of its own (NullPool) and all those of an    *)
(* in-memory one the same (StaticPool).  SQLite runs the calls on one      *)
(* connection one after another and lets one connection write at a time.   *)
(*                                                                         *)
(* A session here writes one row of its own and commits or gives up.  The  *)
(* task of a session may be cancelled while it waits, as the event loop    *)
(* does when it is closed: SQLAlchemy then closes its connection.          *)
(***************************************************************************)
EXTENDS Naturals, FiniteSets

CONSTANTS
    Sessions,
    Workers,  \* threads of the executor
    Pools,    \* of the engines to consider: "null", "static"
    Unsteady, \* the sessions whose task may be cancelled
    Nil

Outcomes == {"committed", "failed", "cancelled", "unknown"}

ASSUME StubAssumption ==
    /\ Workers \in Nat \ {0}
    /\ Pools \subseteq {"null", "static"} /\ Unsteady \subseteq Sessions
    /\ Nil \notin Sessions \cup Outcomes

VARIABLES
    pool,    \* of the engine
    call,    \* what a session does
    phase,   \* how far that call has come
    jobs,    \* the calls handed to threads; an orphan's task was cancelled
    failed,  \* the sessions whose last call raised
    lock,    \* _lock of a connection: the session that holds it
    writes,  \* the rows in the open transaction of a connection
    closed,  \* the connections that are closed
    stored,  \* the rows committed
    told,    \* what came of the session, as it learnt it
    mixed    \* auxiliary: rows whose transaction another session ended

vars == <<pool, call, phase, jobs, failed, lock, writes, closed, stored, told, mixed>>

Locked == {"cursor", "commit", "rollback", "close"}   \* the calls that go through _run
\* "execute" stands for a statement with the fetches and the close of its cursor, which
\* go round the lock like it.  SQLAlchemy uses the statements of a _Cursor only.
Calls == Locked \cup {"connect", "execute"}
JobType == [of : Sessions, call : Calls, running : BOOLEAN, orphan : BOOLEAN]

TypeOK ==
    /\ pool \in {"null", "static"}
    /\ call \in [Sessions -> Calls \cup {"begin", "end"}]
    /\ phase \in [Sessions -> {"asked", "waiting", "returned"}]
    /\ jobs \in SUBSET JobType
    /\ failed \subseteq Sessions
    /\ lock \in [Sessions -> Sessions \cup {Nil}]
    /\ writes \in [Sessions -> SUBSET Sessions]
    /\ closed \subseteq Sessions /\ stored \subseteq Sessions /\ mixed \subseteq Sessions
    /\ told \in [Sessions -> Outcomes \cup {Nil}]

\* A connection goes by the name of a session: its own, or one for all.
Connection(s) == IF pool = "null" THEN s ELSE CHOOSE t \in Sessions : TRUE

Init ==
    /\ pool \in Pools
    /\ call = [s \in Sessions |-> "begin"]
    /\ phase = [s \in Sessions |-> "returned"]
    /\ jobs = {} /\ failed = {} /\ closed = {} /\ stored = {} /\ mixed = {}
    /\ lock = [s \in Sessions |-> Nil]
    /\ writes = [s \in Sessions |-> {}]
    /\ told = [s \in Sessions |-> Nil]

-----------------------------------------------------------------------------
(* Calls of a session. *)

Go(s, next) ==
    /\ call' = [call EXCEPT ![s] = next]
    /\ phase' = [phase EXCEPT ![s] = IF next = "end" THEN "returned" ELSE "asked"]

\* Mutant: the lock is released by hand after the call, not by async with.
UnlockReturned(s) ==
    lock' = [c \in Sessions |-> IF lock[c] = s /\ phase[s] = "returned" THEN Nil ELSE lock[c]]

Unlock(s) == lock' = [c \in Sessions |-> IF lock[c] = s THEN Nil ELSE lock[c]]

\* Mutant: the future of a commit is not awaited.
ForgetAwait(s) == phase' = [phase EXCEPT ![s] = IF call[s] = "commit" THEN "returned" ELSE "waiting"]

Await(s) == phase' = [phase EXCEPT ![s] = "waiting"]

\* The thread that to_thread asks for; a locked call holds the lock from here.
Submit(s) ==
    /\ phase[s] = "asked"
    /\ IF call[s] \in Locked
       THEN /\ lock[Connection(s)] = Nil
            /\ lock' = [lock EXCEPT ![Connection(s)] = s]
       ELSE UNCHANGED lock
    /\ jobs' = jobs \cup {[of |-> s, call |-> call[s], running |-> FALSE, orphan |-> FALSE]}
    /\ Await(s)
    /\ UNCHANGED <<pool, call, failed, writes, closed, stored, told, mixed>>

\* The call returns to the session, which makes its next one.  A session gives up when a
\* statement failed or when the code above it raises; the pool rolls back what it gets.
Return(s) ==
    /\ phase[s] = "returned" /\ call[s] \notin {"begin", "end"}
    /\ Unlock(s)
    /\ CASE call[s] = "connect"  -> Go(s, "cursor") /\ UNCHANGED told
         [] call[s] = "cursor"   -> Go(s, "execute") /\ UNCHANGED told
         [] call[s] = "execute"  ->
               \/ s \notin failed /\ Go(s, "commit") /\ UNCHANGED told
               \/ Go(s, "rollback") /\ told' = [told EXCEPT ![s] = "failed"]
         [] call[s] = "commit"   -> Go(s, "rollback") /\ told' = [told EXCEPT ![s] = "committed"]
         [] call[s] = "rollback" -> Go(s, IF pool = "null" THEN "close" ELSE "end") /\ UNCHANGED told
         [] OTHER                -> Go(s, "end") /\ UNCHANGED told
    /\ UNCHANGED <<pool, jobs, failed, writes, closed, stored, mixed>>

Begin(s) ==
    /\ call[s] = "begin"
    /\ Go(s, IF pool = "null" THEN "connect" ELSE "cursor")
    /\ UNCHANGED <<pool, jobs, failed, lock, writes, closed, stored, told, mixed>>

Waiting(s) == {j \in jobs : j.of = s /\ ~j.orphan}
Orphans(s) == {[j EXCEPT !.orphan = TRUE] : j \in Waiting(s)}
Queued(s) == {j \in Waiting(s) : ~j.running}

\* The task is cancelled at its await: async with releases the lock at once, a thread
\* goes on with the call, one that has not started may be taken back.  What it opened
\* is closed, unless that is what was cancelled.  Sessions of an in-memory database,
\* which only tests have, are not cancelled.
Cancel(s) ==
    /\ s \in Unsteady /\ pool = "null" /\ call[s] \notin {"begin", "end"}
    /\ Unlock(s)
    /\ \/ jobs' = (jobs \ Waiting(s)) \cup Orphans(s)
       \/ Queued(s) # {} /\ jobs' = jobs \ Queued(s)
    /\ told' = [told EXCEPT ![s] = CASE call[s] = "commit" -> "unknown"
                                     [] call[s] \in {"rollback", "close"} -> @
                                     [] OTHER -> "cancelled"]
    /\ Go(s, IF call[s] \in {"connect", "close"} THEN "end" ELSE "close")
    /\ UNCHANGED <<pool, failed, writes, closed, stored, mixed>>

-----------------------------------------------------------------------------
(* Threads and SQLite. *)

Start(j) ==
    /\ ~j.running
    /\ Cardinality({k \in jobs : k.running}) < Workers
    /\ jobs' = (jobs \ {j}) \cup {[j EXCEPT !.running = TRUE]}
    /\ UNCHANGED <<pool, call, phase, failed, lock, writes, closed, stored, told, mixed>>

\* The thread is done; nobody hears an orphan.
Deliver(j, raises) ==
    /\ jobs' = jobs \ {j}
    /\ IF j.orphan THEN UNCHANGED <<phase, failed>>
       ELSE /\ phase' = [phase EXCEPT ![j.of] = "returned"]
            /\ failed' = IF raises THEN failed \cup {j.of} ELSE failed \ {j.of}
    /\ UNCHANGED <<pool, call, lock, told>>

Refused(j) ==
    /\ Deliver(j, TRUE)
    /\ UNCHANGED <<writes, closed, stored, mixed>>

\* Another connection has a transaction that writes: SQLite waits, at most as long as
\* the timeout of its connection.
Held(j) == \E c \in Sessions \ {Connection(j.of)} : writes[c] # {}

\* Mutant: with autocommit=False the end of a transaction begins the next, of nobody.
EndTransactionBegins(j, c) == writes' = [writes EXCEPT ![c] = {Nil}] /\ UNCHANGED mixed

\* The transaction of connection c ends for all who wrote in it.
EndTransaction(j, c) ==
    /\ writes' = [writes EXCEPT ![c] = {}]
    /\ mixed' = mixed \cup (writes[c] \ {j.of})

Make(j) ==
    LET c == Connection(j.of) IN
    CASE j.call = "execute" ->
           /\ ~Held(j)
           /\ writes' = [writes EXCEPT ![c] = @ \cup {j.of}]
           /\ UNCHANGED <<closed, stored, mixed>>
      [] j.call = "commit" ->
           /\ stored' = stored \cup writes[c]
           /\ EndTransaction(j, c)
           /\ UNCHANGED closed
      [] j.call = "rollback" -> EndTransaction(j, c) /\ UNCHANGED <<closed, stored>>
      [] j.call = "close" ->
           /\ closed' = closed \cup {c}
           /\ EndTransaction(j, c)
           /\ UNCHANGED stored
      [] OTHER -> UNCHANGED <<writes, closed, stored, mixed>>

Finish(j) ==
    /\ j.running
    /\ IF Connection(j.of) \in closed THEN Refused(j)
       ELSE \/ Make(j) /\ Deliver(j, FALSE)
            \/ j.call = "execute" /\ Held(j) /\ Refused(j)

\* Every session has ended and every thread is idle.
Finished == jobs = {} /\ (\A s \in Sessions : call[s] = "end") /\ UNCHANGED vars

Progress ==
    \/ \E s \in Sessions : Submit(s) \/ Return(s)
    \/ \E j \in jobs : Start(j) \/ Finish(j)

Next == Progress \/ Finished \/ \E s \in Sessions : Begin(s) \/ Cancel(s)

Spec == Init /\ [][Next]_vars

\* The event loop and the threads run what can run, and SQLite gives up a wait.
FairSpec == Spec /\ WF_vars(Progress)

-----------------------------------------------------------------------------
(* Properties. *)

\* A session told that it committed has its row stored, and one that failed, or was
\* cancelled before it asked for the commit, has not, whatever threads outlived their
\* tasks; sessions of one connection excepted where one ended the other's transaction.
TransactionsKept ==
    /\ pool = "null" => mixed = {}
    /\ \A s \in Sessions \ mixed :
          /\ told[s] = "committed" => s \in stored
          /\ told[s] \in {"failed", "cancelled"} => s \notin stored

\* A session that has begun ends: neither the lock of a cancelled task nor threads that
\* all wait for a writer whose commit has no thread keep it.
SessionsEnd == \A s \in Sessions : call[s] # "begin" ~> call[s] = "end"
=============================================================================
