------------------------------- MODULE UgcEvents -------------------------------
(***************************************************************************)
(* services/ugc_service: ingestion and listing of user events, and the     *)
(* choice of their store when the process starts.                          *)
(*                                                                         *)
(* ClickHouse is behind HTTP.  An INSERT that has been sent is on the wire *)
(* until the server stores it, for ever if it is lost, whether its sender  *)
(* still waits or not; one that sees an error or times out cannot tell.    *)
(* The in-memory store awaits nothing: its calls are atomic.  A POST is    *)
(* one row; the retry of an event is another request.                      *)
(***************************************************************************)
EXTENDS Integers, SequencesExt

CONSTANTS
    Requests,
    Posts,         \* those that ingest an event; the others list
    Stamp,         \* Stamp[r]: the timestamp of the event, in half seconds
    Limit,         \* Limit[r]: the limit a listing asks for; Nil: none
    DefaultLimit,  \* default_list_limit
    MaxLimit,      \* max_list_limit
    MaxEvents,     \* the capacity of the deque
    EnsureSchema,  \* what ensure_schema may be
    MaxLives,      \* bound: how often the process starts
    Nil

Lists == Requests \ Posts

ASSUME UgcAssumption ==
    /\ Posts \subseteq Requests /\ IsFiniteSet(Posts)
    /\ Stamp \in [Posts -> Nat]
    /\ Limit \in [Lists -> (Nat \ {0}) \cup {Nil}]
    /\ DefaultLimit \in Nat \ {0} /\ MaxLimit \in Nat \ {0} /\ MaxEvents \in Nat \ {0}
    /\ EnsureSchema \in (SUBSET BOOLEAN) \ {{}}
    /\ MaxLives \in Nat
    /\ Nil \notin Nat

VARIABLES
    phase,    \* of the process: down, in the lifespan before yield, or serving
    backend,  \* app.state.event_backend
    ensure,   \* settings.ensure_schema, read from the environment
    life,     \* auxiliary: how often it has started
    created,  \* ClickHouse has the table user_events
    table,    \* the rows of it, by the request that sent them
    wire,     \* the INSERTs that are on their way
    memory,   \* InMemoryEventRepository._events, oldest first
    pc,
    status,   \* the HTTP status answered, 0 while there is none
    items,    \* what a listing has been given
    via,      \* auxiliary: the backend and the life a request was served by
    arrived,  \* auxiliary: the events acknowledged, in that order
    before,   \* auxiliary: the events acknowledged when a listing began
    broken    \* auxiliary: requests whose exchange with ClickHouse failed

process == <<phase, backend, ensure, life>>
clickhouse == <<created, table, wire>>
history == <<via, arrived, before, broken>>
vars == <<process, clickhouse, memory, pc, status, items, history>>

Phases == {"down", "schema", "ping", "up"}
Backends == {"unknown", "clickhouse", "memory"}

EffectiveLimit(q) ==
    LET asked == IF Limit[q] = Nil THEN DefaultLimit ELSE Limit[q]
    IN IF asked < MaxLimit THEN asked ELSE MaxLimit

TypeOK ==
    /\ phase \in Phases /\ backend \in Backends /\ life \in 0..MaxLives
    /\ ensure \in BOOLEAN
    /\ created \in BOOLEAN
    /\ table \subseteq Posts /\ wire \subseteq Posts \ table
    /\ ToSet(memory) \subseteq Posts /\ IsInjective(memory) /\ Len(memory) <= MaxEvents
    /\ pc \in [Requests -> {"idle", "insert", "select", "respond", "done"}]
    /\ status \in [Requests -> {0, 200, 500}]
    /\ \A q \in Lists : /\ ToSet(items[q]) \subseteq Posts /\ IsInjective(items[q])
                        /\ Len(items[q]) <= EffectiveLimit(q)
    /\ via \in [Requests -> [by : Backends, life : 0..MaxLives]]
    /\ ToSet(arrived) \subseteq Posts /\ IsInjective(arrived)
    /\ before \in [Lists -> SUBSET Posts]
    /\ broken \subseteq Requests

Init ==
    /\ phase = "down" /\ backend = "unknown" /\ life = 0
    /\ ensure \in EnsureSchema
    /\ created \in BOOLEAN
    /\ table = {} /\ wire = {}
    /\ memory = <<>>
    /\ pc = [r \in Requests |-> "idle"]
    /\ status = [r \in Requests |-> 0]
    /\ items = [q \in Lists |-> <<>>]
    /\ via = [r \in Requests |-> [by |-> "unknown", life |-> 0]]
    /\ arrived = <<>>
    /\ before = [q \in Lists |-> {}]
    /\ broken = {}

-----------------------------------------------------------------------------
(* The process. *)

Start ==
    /\ phase = "down" /\ life < MaxLives
    /\ life' = life + 1
    /\ phase' = IF ensure THEN "schema" ELSE "ping"
    /\ UNCHANGED <<backend, ensure, clickhouse, memory, pc, status, items, history>>

\* An exception of either exchange selects the in-memory store for this life.
Fallback ==
    /\ phase' = "up" /\ backend' = "memory"
    /\ memory' = <<>>

\* Mutant: a failed CREATE TABLE is logged and forgotten.
CreateQuietly ==
    /\ phase = "schema"
    /\ created' \in {created, TRUE}
    /\ phase' = "ping"
    /\ UNCHANGED <<backend, ensure, life, table, wire, memory, pc, status, items, history>>

CreateTable ==
    /\ phase = "schema"
    /\ \/ created' = TRUE /\ phase' = "ping" /\ UNCHANGED <<backend, memory>>
       \/ created' \in {created, TRUE} /\ Fallback
    /\ UNCHANGED <<ensure, life, table, wire, pc, status, items, history>>

\* SELECT 1 does not touch the table.
Ping ==
    /\ phase = "ping"
    /\ \/ phase' = "up" /\ backend' = "clickhouse" /\ UNCHANGED memory
       \/ Fallback
    /\ UNCHANGED <<ensure, life, clickhouse, pc, status, items, history>>

Busy(r) == pc[r] \notin {"idle", "done"}

\* The process is gone; its clients see the connection close, and what it had sent is
\* still on the wire.
Crash ==
    /\ phase # "down" /\ life < MaxLives
    /\ phase' = "down" /\ backend' = "unknown"
    /\ memory' = <<>>
    /\ pc' = [r \in Requests |-> IF Busy(r) THEN "done" ELSE pc[r]]
    /\ UNCHANGED <<ensure, life, clickhouse, status, items, history>>

-----------------------------------------------------------------------------
(* ClickHouse. *)

Store(r) ==
    /\ r \in wire /\ created
    /\ table' = table \cup {r}
    /\ wire' = wire \ {r}
    /\ UNCHANGED <<process, created, memory, pc, status, items, history>>

-----------------------------------------------------------------------------
(* The handlers. *)

Answer(r, code) ==
    /\ pc' = [pc EXCEPT ![r] = "done"]
    /\ status' = [status EXCEPT ![r] = code]

Serve(r) ==
    /\ pc[r] = "idle" /\ phase = "up"
    /\ via' = [via EXCEPT ![r] = [by |-> backend, life |-> life]]

\* Mutant: the deque has no maxlen.
PushedAll(r) == Append(memory, r)

\* A full deque drops its oldest event.
Pushed(r) ==
    LET all == Append(memory, r)
    IN IF Len(all) > MaxEvents THEN Tail(all) ELSE all

PostToMemory(r) ==
    /\ r \in Posts /\ backend = "memory"
    /\ Serve(r)
    /\ memory' = Pushed(r)
    /\ arrived' = Append(arrived, r)
    /\ Answer(r, 200)
    /\ UNCHANGED <<process, clickhouse, items, before, broken>>

PostToClickHouse(r) ==
    /\ r \in Posts /\ backend = "clickhouse"
    /\ Serve(r)
    /\ pc' = [pc EXCEPT ![r] = "insert"]
    /\ wire' = wire \cup {r}
    /\ UNCHANGED <<process, created, table, memory, status, items, arrived, before, broken>>

Acknowledge(r) ==
    /\ pc[r] = "insert" /\ r \in table
    /\ arrived' = Append(arrived, r)
    /\ Answer(r, 200)
    /\ UNCHANGED <<process, clickhouse, memory, items, via, before, broken>>

\* ClickHouse answers that there is no table.
Refuse(r) ==
    /\ \/ pc[r] = "insert" /\ r \in wire /\ wire' = wire \ {r}
       \/ pc[r] = "select" /\ UNCHANGED wire
    /\ ~created
    /\ Answer(r, 500)
    /\ UNCHANGED <<process, created, table, memory, items, history>>

MinOf(m, n) == IF m < n THEN m ELSE n
First(s, n) == SubSeq(s, 1, MinOf(n, Len(s)))

\* Mutant: the slice is taken before the reversal.
OldestFromMemory(limit) == Reverse(First(memory, limit))

\* InMemoryEventRepository.fetch_recent: newest arrival first.
RecentFromMemory(limit) == First(Reverse(memory), limit)

ListFromMemory(q) ==
    /\ q \in Lists /\ backend = "memory"
    /\ Serve(q)
    /\ before' = [before EXCEPT ![q] = ToSet(arrived)]
    /\ items' = [items EXCEPT ![q] = RecentFromMemory(EffectiveLimit(q))]
    /\ Answer(q, 200)
    /\ UNCHANGED <<process, clickhouse, memory, arrived, broken>>

ListFromClickHouse(q) ==
    /\ q \in Lists /\ backend = "clickhouse"
    /\ Serve(q)
    /\ before' = [before EXCEPT ![q] = ToSet(arrived)]
    /\ pc' = [pc EXCEPT ![q] = "select"]
    /\ UNCHANGED <<process, clickhouse, memory, status, items, arrived, broken>>

\* insert_event drops the fraction of the second.
Second(r) == Stamp[r] \div 2

\* Mutant: ORDER BY timestamp without DESC.
OldestFromTable(limit) ==
    {First(s, limit) : s \in {o \in SetToSeqs(table) :
        \A i, k \in DOMAIN o : i < k => Second(o[i]) <= Second(o[k])}}

\* EventRepository.fetch_recent: latest timestamp first, ties in any order.
RecentFromTable(limit) ==
    {First(s, limit) : s \in {o \in SetToSeqs(table) :
        \A i, k \in DOMAIN o : i < k => Second(o[i]) >= Second(o[k])}}

Select(q) ==
    /\ pc[q] = "select" /\ created
    /\ \E s \in RecentFromTable(EffectiveLimit(q)) : items' = [items EXCEPT ![q] = s]
    /\ pc' = [pc EXCEPT ![q] = "respond"]
    /\ UNCHANGED <<process, clickhouse, memory, status, history>>

Respond(q) ==
    /\ pc[q] = "respond"
    /\ Answer(q, 200)
    /\ UNCHANGED <<process, clickhouse, memory, items, history>>

\* Mutant: _execute logs the HTTPError and returns.
FailQuietly(r) ==
    /\ pc[r] = "insert"
    /\ Answer(r, 200)
    /\ arrived' = Append(arrived, r)
    /\ broken' = broken \cup {r}
    /\ UNCHANGED <<process, clickhouse, memory, items, via, before>>

\* An HTTPError of the exchange: a timeout, a closed connection, an error status.
Fail(r) ==
    /\ Busy(r)
    /\ Answer(r, 500)
    /\ broken' = broken \cup {r}
    /\ UNCHANGED <<process, clickhouse, memory, items, via, arrived, before>>

Step(r) ==
    \/ PostToMemory(r) \/ PostToClickHouse(r) \/ Acknowledge(r) \/ Refuse(r)
    \/ ListFromMemory(r) \/ ListFromClickHouse(r) \/ Select(r) \/ Respond(r)
    \/ Fail(r)

\* Every request is over and the process stays as it is.
Finished == (\A r \in Requests : pc[r] = "done") /\ UNCHANGED vars

Next ==
    \/ Start \/ CreateTable \/ Ping \/ Crash
    \/ Finished
    \/ \E r \in Requests : Step(r) \/ Store(r)

Spec == Init /\ [][Next]_vars

-----------------------------------------------------------------------------
(* Properties. *)

\* The number of events acknowledged after r.
After(r) == Len(arrived) - CHOOSE i \in 1..Len(arrived) : arrived[i] = r

\* An acknowledged event is not lost to a crash, a timeout or a late INSERT when
\* ClickHouse took it; the in-memory store keeps it until the process ends or MaxEvents
\* later ones have pushed it out.
AcknowledgedKept ==
    \A r \in Posts : status[r] = 200 =>
        IF via[r].by = "clickhouse" THEN r \in table
        ELSE via[r].life = life /\ phase = "up" =>
                r \in ToSet(memory) \/ After(r) >= MaxEvents

SameStore(r, q) ==
    /\ via[r].by = via[q].by
    /\ via[r].by = "memory" => via[r].life = via[q].life

\* Who lists after an event was acknowledged by the same store finds it, unless the
\* listing is full of events at least as recent: by their second in ClickHouse, by their
\* arrival in memory, where the deque may also have dropped it.
AcknowledgedIsListed ==
    \A q \in Lists : status[q] = 200 =>
        \A r \in before[q] : SameStore(r, q) =>
            LET shown == ToSet(items[q]) IN
            \/ r \in shown
            \/ /\ via[q].by = "clickhouse"
               /\ Len(items[q]) = EffectiveLimit(q)
               /\ \A s \in shown : Second(s) >= Second(r)
            \/ /\ via[q].by = "memory"
               /\ Len(items[q]) = MinOf(EffectiveLimit(q), MaxEvents)
               /\ \A s \in shown : After(s) < After(r)

\* A listing is ordered, newest first, by second in ClickHouse and by arrival in memory;
\* and it shows nothing that was sent to the other store, or to the memory of an earlier
\* process.
ListedInOrder ==
    \A q \in Lists : status[q] = 200 =>
        /\ \A i, k \in DOMAIN items[q] : i < k =>
              IF via[q].by = "clickhouse" THEN Second(items[q][i]) >= Second(items[q][k])
              ELSE After(items[q][i]) < After(items[q][k])
        /\ \A i \in DOMAIN items[q] : SameStore(items[q][i], q)

\* A process that creates its table before it serves refuses a request only because its
\* exchange with ClickHouse failed; one on the in-memory store never does.
OnlyFaultsFail ==
    \A r \in Requests : status[r] = 500 =>
        via[r].by = "clickhouse" /\ (ensure => r \in broken)
=============================================================================
