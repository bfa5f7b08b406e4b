----------------------------- MODULE UgcEventsProofs -----------------------------
(***************************************************************************)
(* For any requests, stamps, limits and number of restarts: an event that  *)
(* was acknowledged is kept as far as its store keeps anything, and only   *)
(* an exchange that failed makes a request fail.                           *)
(***************************************************************************)
EXTENDS UgcEvents, FiniteSetTheorems, TLAPS

Typed ==
    /\ phase \in Phases /\ backend \in Backends /\ life \in 0..MaxLives
    /\ ensure \in BOOLEAN /\ created \in BOOLEAN
    /\ table \subseteq Posts /\ wire \subseteq Posts
    /\ memory \in Seq(Posts) /\ Len(memory) <= MaxEvents
    /\ pc \in [Requests -> {"idle", "insert", "select", "respond", "done"}]
    /\ status \in [Requests -> {0, 200, 500}]
    /\ via \in [Requests -> [by : Backends, life : 0..MaxLives]]
    /\ arrived \in Seq(Posts)
    /\ broken \subseteq Requests

\* A process has a backend while it is up, a table if it has ensured it, and events in
\* memory if that is its backend.
Process ==
    /\ backend # "unknown" <=> phase = "up"
    /\ ensure /\ (phase = "ping" \/ backend = "clickhouse") => created
    /\ backend # "memory" => memory = <<>>

\* A request under way is one of the process that runs, on ClickHouse.
Requested ==
    \A r \in Requests :
        /\ Busy(r) => phase = "up" /\ via[r] = [by |-> "clickhouse", life |-> life] /\ backend = "clickhouse"
        /\ pc[r] = "insert" => r \in Posts
        /\ pc[r] \in {"select", "respond"} => r \in Lists
        /\ status[r] # 0 => pc[r] = "done" /\ via[r].by # "unknown"
        /\ via[r].life <= life
        /\ phase \in {"schema", "ping"} => via[r].life < life
        /\ phase = "up" /\ pc[r] # "idle" /\ via[r].life = life => via[r].by = backend

Refused ==
    \A r \in Requests : status[r] = 500 =>
        via[r].by = "clickhouse" /\ (ensure => r \in broken)

PInv == Typed /\ Process /\ Requested /\ Refused

LEMMA ProcessInit == Init => PInv
BY UgcAssumption
   DEF Init, PInv, Typed, Process, Requested, Refused, Phases, Backends, Busy

LEMMA PushedType ==
    ASSUME Typed, NEW r \in Posts
    PROVE  /\ Pushed(r) \in Seq(Posts)
           /\ Len(Pushed(r)) <= MaxEvents
<1> DEFINE all == Append(memory, r)
<1>1. all \in Seq(Posts) /\ Len(all) = Len(memory) + 1  BY DEF Typed
<1>2. Len(memory) \in Nat /\ Len(memory) <= MaxEvents  BY DEF Typed
<1>3. CASE Len(all) > MaxEvents
  <2>1. Tail(all) \in Seq(Posts) /\ Len(Tail(all)) = Len(all) - 1  BY <1>1, <1>2
  <2> QED  BY <1>1, <1>2, <1>3, <2>1, UgcAssumption DEF Pushed
<1>4. CASE ~(Len(all) > MaxEvents)  BY <1>1, <1>2, <1>4, UgcAssumption DEF Pushed
<1> QED  BY <1>3, <1>4

LEMMA ProcessStep == PInv /\ [Next]_vars => PInv'
<1> SUFFICES ASSUME PInv, [Next]_vars  PROVE PInv'  OBVIOUS
<1> USE UgcAssumption DEF PInv, Typed, Process, Requested, Refused, process, clickhouse, history,
                          Phases, Backends, Busy
<1>1. CASE Start  BY <1>1 DEF Start
<1>0. <<>> \in Seq(Posts) /\ Len(<<>>) = 0  OBVIOUS
<1>2. CASE CreateTable
  <2>1. CASE phase' = "ping" /\ created' = TRUE /\ UNCHANGED <<backend, memory>>
    BY <1>2, <2>1 DEF CreateTable
  <2>2. CASE created' \in {created, TRUE} /\ Fallback
    <3>1. phase = "schema" /\ backend = "unknown" /\ created' \in BOOLEAN
      BY <1>2, <2>2 DEF CreateTable
    <3>2. Typed'  BY <1>0, <1>2, <2>2, <3>1 DEF CreateTable, Fallback
    <3>3. Process' /\ Refused'  BY <1>2, <2>2, <3>1 DEF CreateTable, Fallback
    <3>4. Requested'  BY <1>2, <2>2, <3>1 DEF CreateTable, Fallback
    <3> QED  BY <3>2, <3>3, <3>4
  <2> QED  BY <1>2, <2>1, <2>2 DEF CreateTable
<1>3. CASE Ping
  <2>1. CASE phase' = "up" /\ backend' = "clickhouse" /\ UNCHANGED memory
    BY <1>3, <2>1 DEF Ping
  <2>2. CASE Fallback  BY <1>0, <1>3, <2>2 DEF Ping, Fallback
  <2> QED  BY <1>3, <2>1, <2>2 DEF Ping
<1>4. CASE Crash  BY <1>4 DEF Crash
<1>5. ASSUME NEW r \in Requests, Store(r)  PROVE PInv'  BY <1>5 DEF Store
<1>6. ASSUME NEW r \in Requests, PostToMemory(r)  PROVE PInv'
  <2>1. Typed'  BY <1>6, PushedType DEF PostToMemory, Serve, Answer
  <2>2. Process' /\ Refused'  BY <1>6 DEF PostToMemory, Serve, Answer
  <2>3. Requested'  BY <1>6 DEF PostToMemory, Serve, Answer
  <2> QED  BY <2>1, <2>2, <2>3
<1>7. ASSUME NEW r \in Requests, PostToClickHouse(r)  PROVE PInv'
  BY <1>7 DEF PostToClickHouse, Serve
<1>8. ASSUME NEW r \in Requests, Acknowledge(r)  PROVE PInv'
  <2>1. r \in Posts /\ arrived' \in Seq(Posts)  BY <1>8 DEF Acknowledge
  <2>2. Typed'  BY <1>8, <2>1 DEF Acknowledge, Answer
  <2>3. Process' /\ Refused'  BY <1>8 DEF Acknowledge, Answer
  <2>4. Requested'  BY <1>8 DEF Acknowledge, Answer
  <2> QED  BY <2>2, <2>3, <2>4
<1>9. ASSUME NEW r \in Requests, Refuse(r)  PROVE PInv'
  <2>1. /\ pc[r] \in {"insert", "select"} /\ ~created /\ Answer(r, 500) /\ wire' \subseteq Posts
        /\ UNCHANGED <<process, created, table, memory, items, history>>
    BY <1>9 DEF Refuse
  <2>2. Busy(r)  BY <2>1
  <2>3. via[r].by = "clickhouse" /\ backend = "clickhouse"  BY <2>2
  <2>4. ~ensure  BY <2>1, <2>3
  <2> HIDE DEF Busy
  <2>5. \A q \in Requests : Busy(q)' => Busy(q)  BY <2>1 DEF Answer, Busy
  <2> USE DEF Busy
  <2>6. Typed' /\ Process' /\ Refused'  BY <2>1, <2>3, <2>4 DEF Answer
  <2>7. Requested'  BY <2>1, <2>3, <2>5 DEF Answer
  <2> QED  BY <2>6, <2>7
<1>10. ASSUME NEW r \in Requests, ListFromMemory(r)  PROVE PInv'
  BY <1>10 DEF ListFromMemory, Serve, Answer
<1>11. ASSUME NEW r \in Requests, ListFromClickHouse(r)  PROVE PInv'
  BY <1>11 DEF ListFromClickHouse, Serve
<1>12. ASSUME NEW r \in Requests, Select(r)  PROVE PInv'
  BY <1>12 DEF Select
<1>13. ASSUME NEW r \in Requests, Respond(r)  PROVE PInv'
  BY <1>13 DEF Respond, Answer
<1>14. ASSUME NEW r \in Requests, Fail(r)  PROVE PInv'
  BY <1>14 DEF Fail, Answer
<1>15. CASE UNCHANGED vars  BY <1>15 DEF vars
<1> HIDE DEF PInv, Typed, Process, Requested, Refused, process, clickhouse, history
<1> QED
  BY <1>1, <1>2, <1>3, <1>4, <1>5, <1>6, <1>7, <1>8, <1>9, <1>10, <1>11, <1>12, <1>13, <1>14,
     <1>15
     DEF Next, Step, Finished

LEMMA ProcessInvariant == Spec => []PInv
BY ProcessInit, ProcessStep, PTL DEF Spec

\* OnlyFaultsFail of UgcEvents.
THEOREM RefusalsAreFaults == Spec => []OnlyFaultsFail
<1>1. PInv => OnlyFaultsFail  BY DEF PInv, Refused, OnlyFaultsFail
<1> QED  BY <1>1, ProcessInvariant, PTL

-----------------------------------------------------------------------------
(* What becomes of an acknowledged event. *)

\* arrived lists the acknowledged posts, each once.
Arrivals ==
    /\ \A i, k \in 1..Len(arrived) : arrived[i] = arrived[k] => i = k
    /\ \A i \in 1..Len(arrived) : status[arrived[i]] = 200
    /\ \A r \in Posts : status[r] = 200 => \E i \in 1..Len(arrived) : arrived[i] = r

\* The memory holds the latest arrivals.
Suffix ==
    /\ Len(memory) <= Len(arrived)
    /\ \A i \in 1..Len(memory) : memory[i] = arrived[Len(arrived) - Len(memory) + i]

Stored == \A r \in Posts : status[r] = 200 /\ via[r].by = "clickhouse" => r \in table

\* What arrived in this memory is still in it, or it is full.
Remembered ==
    phase = "up" => \A i \in 1..Len(arrived) :
        via[arrived[i]] = [by |-> "memory", life |-> life] =>
            i > Len(arrived) - Len(memory) \/ Len(memory) = MaxEvents

KInv == Arrivals /\ Suffix /\ Stored /\ Remembered

LEMMA KeptInit == Init => KInv
BY UgcAssumption DEF Init, KInv, Arrivals, Suffix, Stored, Remembered

\* One more arrival, of a request that was not answered before.
LEMMA ArrivalStep ==
    ASSUME PInv, Arrivals, NEW r \in Posts, status[r] = 0,
           arrived' = Append(arrived, r), status' = [status EXCEPT ![r] = 200]
    PROVE  Arrivals'
<1>1. r \in Requests /\ arrived \in Seq(Posts) /\ Posts \subseteq Requests
  BY UgcAssumption DEF PInv, Typed
<1>2. /\ Len(arrived') = Len(arrived) + 1 /\ Len(arrived) \in Nat
      /\ \A i \in 1..Len(arrived) : arrived'[i] = arrived[i] /\ arrived[i] \in Posts
      /\ arrived'[Len(arrived) + 1] = r
  BY <1>1
<1>3. \A i \in 1..Len(arrived) : arrived[i] # r  BY DEF Arrivals
<1>4. \A i \in 1..Len(arrived') : i \in 1..Len(arrived) \/ i = Len(arrived) + 1  BY <1>2
<1>5. \A q \in Requests : status'[q] = IF q = r THEN 200 ELSE status[q]
  BY DEF PInv, Typed
<1>6. \A i, k \in 1..Len(arrived') : arrived'[i] = arrived'[k] => i = k
  BY <1>2, <1>3, <1>4 DEF Arrivals
<1>7. \A i \in 1..Len(arrived') : status'[arrived'[i]] = 200
  BY <1>1, <1>2, <1>4, <1>5 DEF Arrivals
<1>8. \A q \in Posts : status'[q] = 200 => \E i \in 1..Len(arrived') : arrived'[i] = q
  <2> SUFFICES ASSUME NEW q \in Posts, status'[q] = 200
               PROVE  \E i \in 1..Len(arrived') : arrived'[i] = q
    OBVIOUS
  <2>1. CASE q = r
    <3>1. Len(arrived) + 1 \in 1..Len(arrived')  BY <1>2
    <3> QED  BY <1>2, <2>1, <3>1
  <2>2. CASE q # r
    <3>1. PICK i \in 1..Len(arrived) : arrived[i] = q  BY <1>1, <1>5, <2>2 DEF Arrivals
    <3>2. i \in 1..Len(arrived')  BY <1>2
    <3> QED  BY <1>2, <3>1, <3>2
  <2> QED  BY <2>1, <2>2
<1> QED  BY <1>6, <1>7, <1>8 DEF Arrivals

\* Lengths and elements of the deque once r has been pushed.
LEMMA PushedElements ==
    ASSUME Typed, NEW r \in Posts
    PROVE  /\ Len(Pushed(r)) \in 1..MaxEvents
           /\ \/ Len(Pushed(r)) = Len(memory) + 1
              \/ Len(Pushed(r)) = Len(memory) /\ Len(memory) = MaxEvents
           /\ Pushed(r)[Len(Pushed(r))] = r
           /\ \A i \in 1..(Len(Pushed(r)) - 1) :
                 Pushed(r)[i] = memory[Len(memory) - Len(Pushed(r)) + 1 + i]
<1> DEFINE all == Append(memory, r)
<1>1. /\ memory \in Seq(Posts) /\ Len(memory) \in Nat /\ Len(memory) <= MaxEvents
      /\ MaxEvents \in Nat \ {0}
  BY UgcAssumption DEF Typed
<1>2. /\ all \in Seq(Posts) /\ Len(all) = Len(memory) + 1
      /\ all[Len(memory) + 1] = r
      /\ \A i \in 1..Len(memory) : all[i] = memory[i]
  BY <1>1
<1>3. CASE Len(all) > MaxEvents
  <2>1. /\ Tail(all) \in Seq(Posts) /\ Len(Tail(all)) = Len(all) - 1
        /\ \A i \in 1..(Len(all) - 1) : Tail(all)[i] = all[i + 1]
    BY <1>1, <1>2
  <2>2. Pushed(r) = Tail(all)  BY <1>3 DEF Pushed
  <2> HIDE DEF all
  <2>3. Len(memory) = MaxEvents /\ Len(Pushed(r)) = MaxEvents  BY <1>1, <1>2, <1>3, <2>1, <2>2
  <2>4. Pushed(r)[MaxEvents] = r  BY <1>1, <1>2, <2>1, <2>2, <2>3
  <2>5. \A i \in 1..(MaxEvents - 1) : Pushed(r)[i] = memory[1 + i]
    BY <1>1, <1>2, <2>1, <2>2, <2>3
  <2> QED  BY <1>1, <2>3, <2>4, <2>5
<1>4. CASE ~(Len(all) > MaxEvents)
  <2>1. Pushed(r) = all  BY <1>4 DEF Pushed
  <2> HIDE DEF all
  <2>2. Len(Pushed(r)) = Len(memory) + 1 /\ Len(memory) + 1 \in 1..MaxEvents
    BY <1>1, <1>2, <1>4, <2>1
  <2>3. Pushed(r)[Len(memory) + 1] = r  BY <1>2, <2>1
  <2>4. \A i \in 1..Len(memory) : Pushed(r)[i] = memory[i]  BY <1>2, <2>1
  <2> DEFINE n == Len(memory)
             m == Len(Pushed(r))
  <2>5. n \in Nat /\ m = n + 1 /\ m \in 1..MaxEvents  BY <1>1, <2>2
  <2>6. Pushed(r)[m] = r  BY <2>2, <2>3
  <2>7. \A i \in 1..n : Pushed(r)[i] = memory[i]  BY <2>4
  <2> HIDE DEF n, m
  <2>8. \A i \in 1..(m - 1) : i \in 1..n /\ n - m + 1 + i = i  BY <2>5
  <2>9. \A i \in 1..(m - 1) : Pushed(r)[i] = memory[n - m + 1 + i]  BY <2>7, <2>8
  <2> USE DEF n, m
  <2> HIDE DEF Pushed
  <2> QED  BY <2>5, <2>6, <2>9
<1> QED  BY <1>3, <1>4

LEMMA KeptPost ==
    ASSUME PInv, KInv, NEW r \in Requests, PostToMemory(r)
    PROVE  KInv'
<1>1. /\ r \in Posts /\ pc[r] = "idle" /\ phase = "up" /\ backend = "memory"
      /\ memory' = Pushed(r) /\ arrived' = Append(arrived, r)
      /\ status' = [status EXCEPT ![r] = 200]
      /\ via' = [via EXCEPT ![r] = [by |-> "memory", life |-> life]]
      /\ UNCHANGED <<phase, life, table>>
  BY DEF PostToMemory, Serve, Answer, process, clickhouse
<1>2. status[r] = 0  BY <1>1 DEF PInv, Typed, Requested
<1>3. Arrivals'  BY <1>1, <1>2, ArrivalStep DEF KInv
<1> DEFINE n == Len(memory)
           m == Len(Pushed(r))
           len == Len(arrived)
<1>4. /\ n \in Nat /\ m \in 1..MaxEvents
      /\ m = n + 1 \/ (m = n /\ n = MaxEvents)
      /\ Pushed(r)[m] = r
      /\ \A i \in 1..(m - 1) : Pushed(r)[i] = memory[n - m + 1 + i]
  <2>1. n \in Nat /\ Typed  BY DEF PInv, Typed
  <2> QED  BY <1>1, <2>1, PushedElements, Zenon
<1>5. /\ len \in Nat /\ Len(arrived') = len + 1 /\ n <= len
      /\ arrived'[len + 1] = r
      /\ \A i \in 1..len : arrived'[i] = arrived[i] /\ arrived[i] # r
      /\ \A i \in 1..n : memory[i] = arrived[len - n + i]
      /\ MaxEvents \in Nat
  BY <1>1, <1>2, UgcAssumption DEF PInv, Typed, KInv, Suffix, Arrivals
<1>6. Len(memory') = m  BY <1>1
<1> HIDE DEF n, m, len
<1>7. Suffix'
  <2>1. m <= len + 1  BY <1>4, <1>5
  <2> SUFFICES ASSUME NEW i \in 1..m  PROVE memory'[i] = arrived'[len + 1 - m + i]
    BY <1>5, <1>6, <2>1 DEF Suffix
  <2>2. CASE i = m
    <3>1. len + 1 - m + i = len + 1  BY <1>4, <1>5, <2>2
    <3> QED  BY <1>1, <1>4, <1>5, <2>2, <3>1
  <2>3. CASE i # m
    <3>1. i \in 1..(m - 1) /\ n - m + 1 + i \in 1..n  BY <1>4, <2>3
    <3>2. memory'[i] = memory[n - m + 1 + i]  BY <1>1, <1>4, <3>1
    <3>3. memory[n - m + 1 + i] = arrived[len - n + (n - m + 1 + i)]  BY <1>5, <3>1
    <3>4. len - n + (n - m + 1 + i) = len + 1 - m + i /\ len + 1 - m + i \in 1..len
      BY <1>4, <1>5, <3>1
    <3> QED  BY <1>5, <3>2, <3>3, <3>4
  <2> QED  BY <2>2, <2>3
<1>8. Stored'  BY <1>1, <1>2, UgcAssumption DEF KInv, Stored, PInv, Typed
<1>9. Remembered'
  <2> SUFFICES ASSUME NEW i \in 1..Len(arrived'),
                      via'[arrived'[i]] = [by |-> "memory", life |-> life']
               PROVE  i > Len(arrived') - Len(memory') \/ Len(memory') = MaxEvents
    BY DEF Remembered
  <2>0. life' = life /\ Len(arrived') = len + 1 /\ Len(memory') = m /\ i \in 1..(len + 1)
    BY <1>1, <1>5, <1>6
  <2>1. CASE i = len + 1  BY <1>4, <1>5, <2>0, <2>1
  <2>2. CASE i # len + 1
    <3>1. i \in 1..len /\ arrived'[i] = arrived[i] /\ arrived[i] # r  BY <1>5, <2>0, <2>2
    <3>2. arrived[i] \in Posts  BY <1>5, <3>1 DEF PInv, Typed, len
    <3>3. via[arrived[i]] = [by |-> "memory", life |-> life]
      BY <1>1, <2>0, <3>1, <3>2, UgcAssumption DEF PInv, Typed
    <3>4. i > len - n \/ n = MaxEvents
      BY <1>1, <3>1, <3>3 DEF KInv, Remembered, len, n
    <3> QED  BY <1>4, <1>5, <2>0, <3>1, <3>4
  <2> QED  BY <2>1, <2>2
<1> QED  BY <1>3, <1>7, <1>8, <1>9 DEF KInv

LEMMA KeptAcknowledge ==
    ASSUME PInv, KInv, NEW r \in Requests, Acknowledge(r)
    PROVE  KInv'
<1>1. /\ r \in Posts /\ r \in table /\ pc[r] = "insert"
      /\ arrived' = Append(arrived, r) /\ status' = [status EXCEPT ![r] = 200]
      /\ UNCHANGED <<phase, life, table, memory, via>>
  BY DEF Acknowledge, Answer, process, clickhouse, PInv, Requested
<1>2. status[r] = 0 /\ backend = "clickhouse" /\ memory = <<>> /\ via[r].by = "clickhouse"
  BY <1>1 DEF PInv, Typed, Requested, Process, Busy
<1>3. Arrivals'  BY <1>1, <1>2, ArrivalStep DEF KInv
<1>4. /\ Len(arrived) \in Nat /\ Len(arrived') = Len(arrived) + 1 /\ Len(memory) = 0
      /\ arrived'[Len(arrived) + 1] = r
      /\ \A i \in 1..Len(arrived) : arrived'[i] = arrived[i]
  BY <1>1, <1>2 DEF PInv, Typed
<1>5. Suffix'  BY <1>1, <1>4 DEF Suffix
<1>6. Stored'  BY <1>1, UgcAssumption DEF KInv, Stored, PInv, Typed
<1>7. Remembered'
  <2>1. \A i \in 1..Len(arrived') : via[arrived'[i]].by # "memory" \/ via[arrived'[i]].life # life
    <3> SUFFICES ASSUME NEW i \in 1..Len(arrived'), via[arrived'[i]].by = "memory",
                        via[arrived'[i]].life = life
                 PROVE  FALSE
      OBVIOUS
    <3>1. arrived'[i] \in Requests /\ pc[arrived'[i]] # "idle"
      <4>1. CASE i = Len(arrived) + 1  BY <1>1, <1>4, <4>1
      <4>2. CASE i # Len(arrived) + 1
        <5>1. i \in 1..Len(arrived)  BY <1>4, <4>2
        <5>2. arrived[i] \in Posts /\ status[arrived[i]] = 200
          BY <5>1 DEF PInv, Typed, KInv, Arrivals
        <5> QED  BY <1>4, <5>1, <5>2, UgcAssumption DEF PInv, Requested
      <4> QED  BY <4>1, <4>2
    <3> QED  BY <1>1, <1>2, <3>1 DEF PInv, Requested, Process
  <2> QED  BY <1>1, <2>1 DEF Remembered
<1> QED  BY <1>3, <1>5, <1>6, <1>7 DEF KInv

\* What acknowledges no post leaves each kept, unless the process ends, which forgets.
LEMMA KeptOther ==
    ASSUME PInv, KInv, UNCHANGED arrived, table \subseteq table',
           \A r \in Posts : status[r] # 0 \/ status'[r] = 200 =>
               status'[r] = status[r] /\ via'[r] = via[r],
           \/ UNCHANGED <<memory, life, phase>>
           \/ memory' = <<>> /\ phase' # "up"
           \/ memory' = <<>> /\ phase \in {"schema", "ping"} /\ UNCHANGED life
    PROVE  KInv'
<1>1. Arrivals'
  <2>1. \A i \in 1..Len(arrived) : arrived[i] \in Posts  BY DEF PInv, Typed
  <2> QED  BY <2>1 DEF KInv, Arrivals
<1>2. Len(arrived) \in Nat /\ Len(<<>>) = 0  BY DEF PInv, Typed
<1>3. Suffix'
  <2>1. CASE UNCHANGED memory  BY <2>1 DEF KInv, Suffix
  <2>2. CASE memory' = <<>>  BY <1>2, <2>2 DEF Suffix
  <2> QED  BY <2>1, <2>2
<1>4. Stored'  BY DEF KInv, Stored
<1>5. Remembered'
  <2>1. \A i \in 1..Len(arrived) :
            /\ arrived[i] \in Posts /\ arrived[i] \in Requests
            /\ via'[arrived[i]] = via[arrived[i]]
    <3> SUFFICES ASSUME NEW i \in 1..Len(arrived)
                 PROVE  /\ arrived[i] \in Posts /\ arrived[i] \in Requests
                        /\ via'[arrived[i]] = via[arrived[i]]
      OBVIOUS
    <3>1. arrived[i] \in Posts  BY DEF PInv, Typed
    <3>2. status[arrived[i]] # 0  BY DEF KInv, Arrivals
    <3> QED  BY <3>1, <3>2, UgcAssumption
  <2>2. CASE UNCHANGED <<memory, life, phase>>  BY <2>1, <2>2 DEF KInv, Remembered
  <2>3. CASE phase' # "up"  BY <2>3 DEF Remembered
  <2>4. CASE phase \in {"schema", "ping"} /\ UNCHANGED life
    <3>1. \A i \in 1..Len(arrived) : via[arrived[i]].life \in Nat /\ via[arrived[i]].life < life
      BY <2>1, <2>4 DEF PInv, Typed, Requested
    <3>2. life \in Nat  BY DEF PInv, Typed
    <3>3. \A i \in 1..Len(arrived) : via'[arrived[i]].life # life'
      BY <2>1, <2>4, <3>1, <3>2
    <3> QED  BY <3>3 DEF Remembered
  <2> QED  BY <2>2, <2>3, <2>4
<1> QED  BY <1>1, <1>3, <1>4, <1>5 DEF KInv

LEMMA KeptStep == PInv /\ KInv /\ [Next]_vars => KInv'
<1> SUFFICES ASSUME PInv, KInv, [Next]_vars  PROVE KInv'  OBVIOUS
<1>0. /\ Posts \subseteq Requests
      /\ \A r \in Requests : status[r] # 0 => pc[r] = "done"
      /\ \A r, q \in Requests : r # q => \A v : [via EXCEPT ![q] = v][r] = via[r]
      /\ \A r, q \in Requests : r # q => \A v : [status EXCEPT ![q] = v][r] = status[r]
      /\ \A q \in Requests : [status EXCEPT ![q] = 500][q] = 500
      /\ \A q \in Requests : [status EXCEPT ![q] = 200][q] = 200
  BY UgcAssumption DEF PInv, Typed, Requested
<1> USE DEF process, clickhouse, history
<1>1. CASE Start
  <2>1. phase' # "up" /\ memory' = <<>>  BY <1>1 DEF Start, PInv, Process
  <2> QED  BY <1>1, <2>1, KeptOther DEF Start
<1>2. CASE CreateTable  BY <1>2, KeptOther DEF CreateTable, Fallback, PInv, Process
<1>3. CASE Ping  BY <1>3, KeptOther DEF Ping, Fallback, PInv, Process
<1>4. CASE Crash  BY <1>4, KeptOther DEF Crash
<1>5. ASSUME NEW r \in Requests, Store(r)  PROVE KInv'  BY <1>5, KeptOther DEF Store
<1>6. ASSUME NEW r \in Requests, PostToMemory(r)  PROVE KInv'  BY <1>6, KeptPost
<1>7. ASSUME NEW r \in Requests, PostToClickHouse(r)  PROVE KInv'
  BY <1>0, <1>7, KeptOther DEF PostToClickHouse, Serve
<1>8. ASSUME NEW r \in Requests, Acknowledge(r)  PROVE KInv'  BY <1>8, KeptAcknowledge
<1>9. ASSUME NEW r \in Requests, Refuse(r)  PROVE KInv'
  BY <1>0, <1>9, KeptOther DEF Refuse, Answer
<1>10. ASSUME NEW r \in Requests, ListFromMemory(r)  PROVE KInv'
  BY <1>0, <1>10, KeptOther DEF ListFromMemory, Serve, Answer, Lists
<1>11. ASSUME NEW r \in Requests, ListFromClickHouse(r)  PROVE KInv'
  BY <1>0, <1>11, KeptOther DEF ListFromClickHouse, Serve, Lists
<1>12. ASSUME NEW r \in Requests, Select(r)  PROVE KInv'  BY <1>12, KeptOther DEF Select
<1>13. ASSUME NEW r \in Requests, Respond(r)  PROVE KInv'
  BY <1>0, <1>13, KeptOther DEF Respond, Answer, PInv, Requested, Lists
<1>14. ASSUME NEW r \in Requests, Fail(r)  PROVE KInv'
  BY <1>0, <1>14, KeptOther DEF Fail, Answer, Busy
<1>15. CASE UNCHANGED vars  BY <1>15, KeptOther DEF vars
<1> QED
  BY <1>1, <1>2, <1>3, <1>4, <1>5, <1>6, <1>7, <1>8, <1>9, <1>10, <1>11, <1>12, <1>13, <1>14,
     <1>15
     DEF Next, Step, Finished

\* AcknowledgedKept of UgcEvents.
THEOREM AcknowledgedAreKept == Spec => []AcknowledgedKept
<1>1. PInv /\ KInv => AcknowledgedKept
  <2> SUFFICES ASSUME PInv, KInv, NEW r \in Posts, status[r] = 200
               PROVE  IF via[r].by = "clickhouse" THEN r \in table
                      ELSE via[r].life = life /\ phase = "up" =>
                              r \in ToSet(memory) \/ After(r) >= MaxEvents
    BY DEF AcknowledgedKept
  <2>1. CASE via[r].by = "clickhouse"  BY <2>1 DEF KInv, Stored
  <2>2. ASSUME via[r].by # "clickhouse", via[r].life = life, phase = "up"
        PROVE  r \in ToSet(memory) \/ After(r) >= MaxEvents
    <3>1. via[r] = [by |-> "memory", life |-> life]
      BY <2>2, UgcAssumption DEF PInv, Typed, Requested, Backends
    <3>2. PICK i \in 1..Len(arrived) : arrived[i] = r  BY DEF KInv, Arrivals
    <3>3. \A k \in 1..Len(arrived) : arrived[k] = r => k = i  BY <3>2 DEF KInv, Arrivals
    <3>4. After(r) = Len(arrived) - i  BY <3>2, <3>3, Zenon DEF After
    <3>5. CASE Len(memory) = MaxEvents /\ ~(i > Len(arrived) - Len(memory))
      BY <3>4, <3>5, UgcAssumption DEF PInv, Typed
    <3>6. CASE i > Len(arrived) - Len(memory)
      <4> DEFINE k == i - (Len(arrived) - Len(memory))
      <4>1. Len(arrived) \in Nat /\ Len(memory) \in Nat  BY DEF PInv, Typed
      <4>2. k \in 1..Len(memory) /\ Len(arrived) - Len(memory) + k = i  BY <3>6, <4>1
      <4>3. memory[k] = r  BY <3>2, <4>2 DEF KInv, Suffix
      <4>4. DOMAIN memory = 1..Len(memory)  BY DEF PInv, Typed
      <4> QED  BY <4>2, <4>3, <4>4 DEF ToSet
    <3> QED  BY <2>2, <3>1, <3>2, <3>5, <3>6 DEF KInv, Remembered
  <2> QED  BY <2>1, <2>2
<1> QED  BY <1>1, KeptInit, KeptStep, ProcessInit, ProcessStep, PTL DEF Spec

-----------------------------------------------------------------------------
(* What a listing shows. *)

LEMMA MinOfType ==
    ASSUME NEW m \in Nat, NEW n \in Nat
    PROVE  MinOf(m, n) \in Nat /\ MinOf(m, n) <= m /\ MinOf(m, n) <= n
           /\ (MinOf(m, n) = m \/ MinOf(m, n) = n)
BY DEF MinOf

LEMMA LimitType == \A q \in Lists : EffectiveLimit(q) \in Nat \ {0}
BY UgcAssumption DEF EffectiveLimit

\* First(s, n) is the beginning of s.
LEMMA FirstElements ==
    ASSUME NEW s \in Seq(Posts), NEW n \in Nat
    PROVE  /\ First(s, n) \in Seq(Posts)
           /\ Len(First(s, n)) = MinOf(n, Len(s))
           /\ Len(First(s, n)) \in Nat /\ Len(First(s, n)) <= Len(s)
           /\ \A i \in 1..Len(First(s, n)) : i \in 1..Len(s) /\ First(s, n)[i] = s[i]
<1> DEFINE m == MinOf(n, Len(s))
<1>0. Len(s) \in Nat  OBVIOUS
<1>1. m \in Nat /\ m <= Len(s) /\ Len(s) \in Nat  BY <1>0, MinOfType, Zenon
<1> HIDE DEF m
<1>2. /\ SubSeq(s, 1, m) \in Seq(Posts)
      /\ Len(SubSeq(s, 1, m)) = m
      /\ \A i \in 1..m : SubSeq(s, 1, m)[i] = s[i]
  BY <1>1
<1>3. First(s, n) = SubSeq(s, 1, m)  BY DEF First, m
<1> QED  BY <1>1, <1>2, <1>3 DEF m

LEMMA ReverseElements ==
    ASSUME NEW s \in Seq(Posts)
    PROVE  /\ Reverse(s) \in Seq(Posts)
           /\ Len(Reverse(s)) = Len(s)
           /\ \A i \in 1..Len(s) : Reverse(s)[i] = s[Len(s) - i + 1] /\ Len(s) - i + 1 \in 1..Len(s)
<1>1. \A i \in 1..Len(s) : Len(s) - i + 1 \in 1..Len(s)  OBVIOUS
<1>2. Reverse(s) \in [1..Len(s) -> Posts]  BY <1>1 DEF Reverse
<1> QED  BY <1>1, <1>2 DEF Reverse

\* SetToSeqs(S) are the permutations of S: by counting, an injection is onto.
LEMMA PermutationElements ==
    ASSUME NEW S, S \subseteq Posts, NEW o \in SetToSeqs(S)
    PROVE  /\ o \in Seq(Posts)
           /\ \A i \in 1..Len(o) : o[i] \in S
           /\ \A i, k \in 1..Len(o) : o[i] = o[k] => i = k
           /\ \A x \in S : \E i \in 1..Len(o) : o[i] = x
<1> DEFINE n == Cardinality(S)
<1>1. IsFiniteSet(S) /\ n \in Nat  BY UgcAssumption, FS_Subset, FS_CardinalityType
<1>2. o \in [1..n -> S] /\ \A i, k \in 1..n : i # k => o[i] # o[k]  BY DEF SetToSeqs
<1>3. Cardinality(1..n) = n
  <2>1. Cardinality(1..n) = IF 1 > n THEN 0 ELSE n - 1 + 1  BY <1>1, FS_Interval
  <2> HIDE DEF n
  <2> QED  BY <1>1, <2>1
<1>4. o \in Injection(1..n, S)  BY <1>2 DEF Injection, IsInjective
<1>5. o \in Surjection(1..n, S)  BY <1>1, <1>3, <1>4, FS_Injection
<1> HIDE DEF n
<1>6. o \in Seq(Posts) /\ Len(o) = n  BY <1>1, <1>2
<1>7. \A x \in S : \E i \in 1..n : o[i] = x  BY <1>5 DEF Surjection
<1> QED  BY <1>2, <1>6, <1>7

\* Where an event is, it was sent: to ClickHouse, or to the memory of this process.
Placed ==
    /\ \A r \in table \cup wire : pc[r] # "idle" /\ via[r].by = "clickhouse"
    /\ table \cap wire = {}
    /\ \A i \in 1..Len(memory) : via[memory[i]] = [by |-> "memory", life |-> life]

Newer(r, s) ==
    \E a, b \in 1..Len(arrived) : arrived[a] = r /\ arrived[b] = s /\ b < a

\* AcknowledgedIsListed for q and r, with Newer in place of After.
Shown(q, r) ==
    \/ \E i \in 1..Len(items[q]) : items[q][i] = r
    \/ /\ via[q].by = "clickhouse"
       /\ Len(items[q]) = EffectiveLimit(q)
       /\ \A i \in 1..Len(items[q]) : Second(items[q][i]) >= Second(r)
    \/ /\ via[q].by = "memory"
       /\ Len(items[q]) = MinOf(EffectiveLimit(q), MaxEvents)
       /\ \A i \in 1..Len(items[q]) : Newer(items[q][i], r)

\* What a listing has been given, as long as nothing but the history grows.
Listing(q) ==
    /\ items[q] \in Seq(Posts) /\ Len(items[q]) <= EffectiveLimit(q)
    /\ pc[q] \in {"idle", "select"} => items[q] = <<>>
    /\ \A i \in 1..Len(items[q]) : pc[items[q][i]] # "idle" /\ SameStore(items[q][i], q)
    /\ \A i, k \in 1..Len(items[q]) : items[q][i] = items[q][k] => i = k
    /\ \A i, k \in 1..Len(items[q]) : i < k =>
          /\ via[q].by = "clickhouse" => Second(items[q][i]) >= Second(items[q][k])
          /\ via[q].by = "memory" => Newer(items[q][i], items[q][k])
    /\ \A r \in before[q] : status[r] = 200
    /\ pc[q] = "respond" \/ status[q] = 200 =>
          \A r \in before[q] : SameStore(r, q) => Shown(q, r)

Listed ==
    /\ DOMAIN items = Lists /\ before \in [Lists -> SUBSET Posts]
    /\ \A q \in Lists : Listing(q)

LInv == Placed /\ Listed

LEMMA ListedInit == Init => LInv
BY UgcAssumption, LimitType DEF Init, LInv, Placed, Listed, Listing, Lists

LEMMA PlacedStep == PInv /\ Placed /\ [Next]_vars => Placed'
<1> SUFFICES ASSUME PInv, Placed, [Next]_vars  PROVE Placed'  OBVIOUS
<1>0. /\ Posts \subseteq Requests
      /\ memory \in Seq(Posts) /\ Len(<<>>) = 0
      /\ \A i \in 1..Len(memory) : memory[i] \in Posts
      /\ pc \in [Requests -> {"idle", "insert", "select", "respond", "done"}]
      /\ via \in [Requests -> [by : Backends, life : 0..MaxLives]]
      /\ table \subseteq Posts /\ wire \subseteq Posts
      /\ backend # "memory" => memory = <<>>
  BY UgcAssumption DEF PInv, Typed, Process
<1> USE DEF process, clickhouse, history, Placed
<1>1. CASE Start  BY <1>0, <1>1 DEF Start, PInv, Process
<1>2. CASE CreateTable
  <2>1. /\ UNCHANGED <<life, table, wire, pc, via>>
        /\ UNCHANGED memory \/ memory' = <<>>
    BY <1>2 DEF CreateTable, Fallback
  <2> QED  BY <1>0, <2>1
<1>3. CASE Ping  BY <1>0, <1>3 DEF Ping, Fallback
<1>4. CASE Crash  BY <1>0, <1>4 DEF Crash
<1>5. ASSUME NEW r \in Requests, Store(r)  PROVE Placed'  BY <1>5 DEF Store
<1>6. ASSUME NEW r \in Requests, PostToMemory(r)  PROVE Placed'
  <2>1. /\ r \in Posts /\ pc[r] = "idle" /\ memory' = Pushed(r)
        /\ via' = [via EXCEPT ![r] = [by |-> "memory", life |-> life]]
        /\ pc' = [pc EXCEPT ![r] = "done"] /\ UNCHANGED <<life, table, wire>>
    BY <1>6 DEF PostToMemory, Serve, Answer
  <2>2. \A x \in table \cup wire : x \in Requests /\ x # r  BY <1>0, <2>1
  <2>3. \A x \in table \cup wire : pc'[x] # "idle" /\ via'[x].by = "clickhouse"
    BY <1>0, <2>1, <2>2
  <2>4. \A i \in 1..Len(memory') : memory'[i] = r \/ \E k \in 1..Len(memory) : memory'[i] = memory[k]
    <3> SUFFICES ASSUME NEW i \in 1..Len(Pushed(r)), Pushed(r)[i] # r
                 PROVE  \E k \in 1..Len(memory) : Pushed(r)[i] = memory[k]
      BY <2>1
    <3> DEFINE n == Len(memory)
               m == Len(Pushed(r))
    <3>1. /\ m \in 1..MaxEvents /\ (m = n + 1 \/ m = n)
          /\ Pushed(r)[m] = r
          /\ \A j \in 1..(m - 1) : Pushed(r)[j] = memory[n - m + 1 + j]
      <4>1. Typed  BY DEF PInv
      <4> QED  BY <2>1, <4>1, PushedElements, Zenon
    <3>2. n \in Nat /\ i \in 1..m /\ i # m  BY <1>0, <3>1
    <3> HIDE DEF n, m
    <3>3. i \in 1..(m - 1) /\ n - m + 1 + i \in 1..n  BY <3>1, <3>2
    <3> QED  BY <3>1, <3>3 DEF n
  <2>5. \A i \in 1..Len(memory') : via'[memory'[i]] = [by |-> "memory", life |-> life]
    BY <1>0, <2>1, <2>4
  <2> QED  BY <2>1, <2>3, <2>5
<1>7. ASSUME NEW r \in Requests, PostToClickHouse(r)  PROVE Placed'
  <2>1. memory = <<>>  BY <1>0, <1>7 DEF PostToClickHouse
  <2> QED  BY <1>0, <1>7, <2>1 DEF PostToClickHouse, Serve
<1>8. ASSUME NEW r \in Requests, Acknowledge(r)  PROVE Placed'
  BY <1>0, <1>8 DEF Acknowledge, Answer
<1>9. ASSUME NEW r \in Requests, Refuse(r)  PROVE Placed'
  BY <1>0, <1>9 DEF Refuse, Answer
<1>10. ASSUME NEW r \in Requests, ListFromMemory(r)  PROVE Placed'
  BY <1>0, <1>10 DEF ListFromMemory, Serve, Answer, Lists
<1>11. ASSUME NEW r \in Requests, ListFromClickHouse(r)  PROVE Placed'
  BY <1>0, <1>11 DEF ListFromClickHouse, Serve, Lists
<1>12. ASSUME NEW r \in Requests, Select(r)  PROVE Placed'  BY <1>0, <1>12 DEF Select
<1>13. ASSUME NEW r \in Requests, Respond(r)  PROVE Placed'  BY <1>0, <1>13 DEF Respond, Answer
<1>14. ASSUME NEW r \in Requests, Fail(r)  PROVE Placed'  BY <1>0, <1>14 DEF Fail, Answer
<1>15. CASE UNCHANGED vars  BY <1>15 DEF vars
<1> QED
  BY <1>1, <1>2, <1>3, <1>4, <1>5, <1>6, <1>7, <1>8, <1>9, <1>10, <1>11, <1>12, <1>13, <1>14,
     <1>15
     DEF Next, Step, Finished

\* A step that leaves listing q alone and adds to the history at most.
LEMMA ListedOther ==
    ASSUME PInv, NEW q \in Lists, Listing(q), before[q] \in SUBSET Posts,
           items'[q] = items[q], before'[q] = before[q], via'[q] = via[q],
           \A a \in 1..Len(arrived) : a \in 1..Len(arrived') /\ arrived'[a] = arrived[a],
           \A r \in Posts : pc[r] # "idle" => pc'[r] # "idle" /\ via'[r] = via[r],
           \A r \in Posts : status[r] = 200 => status'[r] = 200,
           pc'[q] \in {"idle", "select"} => pc[q] \in {"idle", "select"},
           pc'[q] = "respond" \/ status'[q] = 200 => pc[q] = "respond" \/ status[q] = 200
    PROVE  Listing(q)'
<1>1. \A i \in 1..Len(items[q]) : items[q][i] \in Posts  BY DEF Listing
<1>2. \A r \in before[q] : r \in Posts /\ r \in Requests /\ status[r] # 0 /\ pc[r] # "idle"
  BY UgcAssumption DEF Listing, PInv, Requested
<1>3. \A r, s : Newer(r, s) => Newer(r, s)'
  <2> SUFFICES ASSUME NEW r, NEW s, Newer(r, s)  PROVE Newer(r, s)'  OBVIOUS
  <2>1. PICK a, b \in 1..Len(arrived) : arrived[a] = r /\ arrived[b] = s /\ b < a  BY DEF Newer
  <2> QED  BY <2>1 DEF Newer
<1>4. \A r \in Posts : pc[r] # "idle" => (SameStore(r, q)' <=> SameStore(r, q))
  BY DEF SameStore
<1>5. EffectiveLimit(q)' = EffectiveLimit(q)  BY DEF EffectiveLimit
<1>6. \A r : Second(r)' = Second(r)  BY DEF Second
<1>7. \A r : Shown(q, r) => Shown(q, r)'  BY <1>3, <1>5, <1>6 DEF Shown, MinOf
<1> HIDE DEF SameStore, Shown, Newer, Second, EffectiveLimit
<1>8. (\A i \in 1..Len(items[q]) : pc[items[q][i]] # "idle" /\ SameStore(items[q][i], q))'
  BY <1>1, <1>4 DEF Listing
<1>9. (\A i, k \in 1..Len(items[q]) : i < k =>
          /\ via[q].by = "clickhouse" => Second(items[q][i]) >= Second(items[q][k])
          /\ via[q].by = "memory" => Newer(items[q][i], items[q][k]))'
  BY <1>3, <1>6 DEF Listing
<1>10. (\A r \in before[q] : status[r] = 200)'  BY <1>2 DEF Listing
<1>11. (pc[q] = "respond" \/ status[q] = 200 =>
          \A r \in before[q] : SameStore(r, q) => Shown(q, r))'
  BY <1>2, <1>4, <1>7 DEF Listing
<1>12. (/\ items[q] \in Seq(Posts) /\ Len(items[q]) <= EffectiveLimit(q)
        /\ pc[q] \in {"idle", "select"} => items[q] = <<>>
        /\ \A i, k \in 1..Len(items[q]) : items[q][i] = items[q][k] => i = k)'
  BY <1>5 DEF Listing
<1> QED  BY <1>8, <1>9, <1>10, <1>11, <1>12 DEF Listing

\* The in-memory store lists the latest arrivals.
LEMMA RecentElements ==
    ASSUME PInv, KInv, NEW n \in Nat
    PROVE  LET s == RecentFromMemory(n) IN
           /\ s \in Seq(Posts) /\ Len(s) = MinOf(n, Len(memory))
           /\ \A i \in 1..Len(s) : /\ i \in 1..Len(memory)
                                   /\ Len(memory) - i + 1 \in 1..Len(memory)
                                   /\ s[i] = memory[Len(memory) - i + 1]
                                   /\ Len(arrived) - i + 1 \in 1..Len(arrived)
                                   /\ s[i] = arrived[Len(arrived) - i + 1]
<1> DEFINE v == Reverse(memory)
           s == RecentFromMemory(n)
           m == Len(memory)
           len == Len(arrived)
<1>1. /\ memory \in Seq(Posts) /\ m \in Nat /\ len \in Nat /\ m <= len
      /\ \A i \in 1..m : memory[i] = arrived[len - m + i]
  BY DEF PInv, Typed, KInv, Suffix
<1>2. v \in Seq(Posts) /\ Len(v) = m /\ \A i \in 1..m : v[i] = memory[m - i + 1]
  BY <1>1, ReverseElements, Zenon
<1>3. s = First(v, n)  BY DEF RecentFromMemory
<1> HIDE DEF v, s
<1>4. /\ s \in Seq(Posts) /\ Len(s) = MinOf(n, m)
      /\ \A i \in 1..Len(s) : i \in 1..m /\ s[i] = v[i]
  BY <1>2, <1>3, FirstElements, Zenon
<1>5. ASSUME NEW i \in 1..Len(s)
      PROVE  /\ i \in 1..m /\ m - i + 1 \in 1..m /\ s[i] = memory[m - i + 1]
             /\ len - i + 1 \in 1..len /\ s[i] = arrived[len - i + 1]
  <2>1. i \in 1..m /\ s[i] = memory[m - i + 1]  BY <1>2, <1>4
  <2> HIDE DEF m, len
  <2>2. m - i + 1 \in 1..m /\ len - m + (m - i + 1) = len - i + 1 /\ len - i + 1 \in 1..len
    BY <1>1, <2>1
  <2>3. memory[m - i + 1] = arrived[len - i + 1]  BY <1>1, <2>2
  <2> QED  BY <2>1, <2>2, <2>3
<1> QED  BY <1>4, <1>5 DEF s

\* ClickHouse lists rows of the table, by the second.
LEMMA TableElements ==
    ASSUME PInv, NEW n \in Nat, NEW s \in RecentFromTable(n)
    PROVE  /\ s \in Seq(Posts) /\ Len(s) <= n
           /\ \A i \in 1..Len(s) : s[i] \in table
           /\ \A i, k \in 1..Len(s) : s[i] = s[k] => i = k
           /\ \A i, k \in 1..Len(s) : i < k => Second(s[i]) >= Second(s[k])
           /\ \A r \in table : \/ \E i \in 1..Len(s) : s[i] = r
                               \/ Len(s) = n /\ \A i \in 1..Len(s) : Second(s[i]) >= Second(r)
<1>1. PICK o \in SetToSeqs(table) :
          /\ \A i, k \in DOMAIN o : i < k => Second(o[i]) >= Second(o[k])
          /\ s = First(o, n)
  BY DEF RecentFromTable
<1>2. table \subseteq Posts  BY DEF PInv, Typed
<1>3. /\ o \in Seq(Posts)
      /\ \A i \in 1..Len(o) : o[i] \in table
      /\ \A i, k \in 1..Len(o) : o[i] = o[k] => i = k
      /\ \A x \in table : \E i \in 1..Len(o) : o[i] = x
  BY <1>2, PermutationElements, Zenon
<1>4. Len(o) \in Nat /\ DOMAIN o = 1..Len(o)  BY <1>3
<1>5. /\ s \in Seq(Posts) /\ Len(s) = MinOf(n, Len(o)) /\ Len(s) \in Nat /\ Len(s) <= Len(o)
      /\ \A i \in 1..Len(s) : i \in 1..Len(o) /\ s[i] = o[i]
  BY <1>1, <1>3, FirstElements, Zenon
<1>6. Len(s) <= n /\ (Len(s) = n \/ Len(s) = Len(o))  BY <1>4, <1>5, MinOfType, Zenon
<1>7. ASSUME NEW r \in table, ~\E i \in 1..Len(s) : s[i] = r
      PROVE  Len(s) = n /\ \A i \in 1..Len(s) : Second(s[i]) >= Second(r)
  <2>1. PICK k \in 1..Len(o) : o[k] = r  BY <1>3
  <2>2. k \notin 1..Len(s)  BY <1>5, <1>7, <2>1
  <2>3. Len(s) < k /\ Len(s) = n  BY <1>4, <1>5, <1>6, <2>1, <2>2
  <2>4. ASSUME NEW i \in 1..Len(s)  PROVE Second(s[i]) >= Second(r)
    <3>1. i \in DOMAIN o /\ k \in DOMAIN o /\ i < k /\ s[i] = o[i]  BY <1>4, <1>5, <2>1, <2>3
    <3> HIDE DEF Second
    <3> QED  BY <1>1, <2>1, <3>1
  <2> QED  BY <2>3, <2>4
<1> HIDE DEF Second
<1>8. \A i, k \in 1..Len(s) : i < k => Second(s[i]) >= Second(s[k])  BY <1>1, <1>4, <1>5
<1>9. \A i, k \in 1..Len(s) : s[i] = s[k] => i = k  BY <1>3, <1>5
<1> QED  BY <1>3, <1>5, <1>6, <1>7, <1>8, <1>9

LEMMA ListedFromMemory ==
    ASSUME PInv, KInv, LInv, NEW q \in Lists, ListFromMemory(q)
    PROVE  Listing(q)'
<1>0. PICK n, s : n = EffectiveLimit(q) /\ s = RecentFromMemory(n)  OBVIOUS
<1> DEFINE m == Len(memory)
           len == Len(arrived)
           own == [by |-> "memory", life |-> life]
<1>1. /\ items' = [items EXCEPT ![q] = s] /\ before' = [before EXCEPT ![q] = ToSet(arrived)]
      /\ via' = [via EXCEPT ![q] = own] /\ pc' = [pc EXCEPT ![q] = "done"]
      /\ status' = [status EXCEPT ![q] = 200] /\ phase = "up"
      /\ UNCHANGED <<arrived, life>>
  BY <1>0 DEF ListFromMemory, Serve, Answer, process
<1>2. /\ q \in Requests /\ q \notin Posts /\ Posts \subseteq Requests /\ n \in Nat
      /\ MaxEvents \in Nat /\ m \in Nat /\ m <= MaxEvents /\ len \in Nat
      /\ \A i \in 1..len : arrived[i] \in Posts
      /\ DOMAIN arrived = 1..len
  BY <1>0, UgcAssumption, LimitType DEF Lists, PInv, Typed
<1>3. /\ items'[q] = s /\ before'[q] = ToSet(arrived) /\ via'[q] = own
      /\ pc'[q] = "done" /\ status'[q] = 200
      /\ \A r \in Posts : via'[r] = via[r] /\ pc'[r] = pc[r] /\ status'[r] = status[r]
  <2>1. q \in DOMAIN items /\ q \in DOMAIN before  BY DEF LInv, Listed
  <2>2. q \in DOMAIN via /\ q \in DOMAIN pc /\ q \in DOMAIN status  BY <1>2 DEF PInv, Typed
  <2>3. \A r \in Posts : r # q  BY <1>2
  <2> QED  BY <1>1, <2>1, <2>2, <2>3
<1>4. /\ s \in Seq(Posts) /\ Len(s) = MinOf(n, m)
      /\ \A i \in 1..Len(s) : /\ m - i + 1 \in 1..m /\ s[i] = memory[m - i + 1]
                              /\ len - i + 1 \in 1..len /\ s[i] = arrived[len - i + 1]
  BY <1>0, <1>2, RecentElements, Zenon
<1>5. \A a \in 1..len : status[arrived[a]] = 200 /\ pc[arrived[a]] # "idle"
  <2>1. \A a \in 1..len : status[arrived[a]] = 200 /\ arrived[a] \in Requests
    BY <1>2 DEF KInv, Arrivals
  <2> QED  BY <2>1 DEF PInv, Requested
<1>6. ToSet(arrived) \in SUBSET Posts /\ \A r \in ToSet(arrived) : \E a \in 1..len : arrived[a] = r
  BY <1>2 DEF ToSet
<1>7. Len(s) \in Nat /\ Len(s) <= n /\ Len(s) <= m /\ (Len(s) = n \/ Len(s) = m)
  BY <1>2, <1>4, MinOfType, Zenon
<1>8. ASSUME NEW i \in 1..Len(s)
      PROVE  pc'[s[i]] # "idle" /\ SameStore(s[i], q)'
  <2>1. s[i] \in Posts /\ pc[s[i]] # "idle"  BY <1>2, <1>4, <1>5
  <2>2. via[s[i]] = own  BY <1>4 DEF LInv, Placed
  <2> QED  BY <1>3, <2>1, <2>2 DEF SameStore
<1>9. ASSUME NEW i \in 1..Len(s), NEW k \in 1..Len(s), s[i] = s[k]  PROVE i = k
  <2>1. PICK a, b \in 1..len : a = len - i + 1 /\ b = len - k + 1  BY <1>4
  <2>2. arrived[a] = arrived[b]  BY <1>4, <1>9, <2>1
  <2>3. a = b  BY <2>2 DEF KInv, Arrivals
  <2> QED  BY <1>2, <2>1, <2>3
<1>10. ASSUME NEW i \in 1..Len(s), NEW b \in 1..len, b < len - i + 1
       PROVE  Newer(s[i], arrived[b])'
  <2>1. PICK a \in 1..len : a = len - i + 1  BY <1>4
  <2>2. arrived[a] = s[i] /\ b < a  BY <1>4, <1>10, <2>1
  <2> QED  BY <1>1, <2>2 DEF Newer
<1>11. ASSUME NEW i \in 1..Len(s), NEW k \in 1..Len(s), i < k  PROVE Newer(s[i], s[k])'
  <2>1. PICK b \in 1..len : b = len - k + 1  BY <1>4
  <2>2. s[k] = arrived[b]  BY <1>4, <2>1
  <2>3. b < len - i + 1
    <3> HIDE DEF len
    <3> QED  BY <1>2, <1>7, <1>11, <2>1
  <2> QED  BY <1>1, <1>10, <2>2, <2>3
<1>12. ASSUME NEW r \in ToSet(arrived), SameStore(r, q)'  PROVE Shown(q, r)'
  <2>1. PICK a \in 1..len : arrived[a] = r  BY <1>6
  <2>2. via[r] = own
    <3>1. r \in Posts /\ r \in Requests  BY <1>2, <2>1
    <3>2. via[r].by = "memory" /\ via[r].life = life  BY <1>3, <1>12, <3>1 DEF SameStore
    <3>3. via[r] \in [by : Backends, life : 0..MaxLives]  BY <3>1 DEF PInv, Typed
    <3> QED  BY <3>2, <3>3
  <2>3. a > len - m \/ m = MaxEvents  BY <1>1, <2>1, <2>2 DEF KInv, Remembered
  <2>4. CASE a > len - Len(s)
    <3> DEFINE i == len - a + 1
    <3>1. i \in 1..Len(s) /\ len - i + 1 = a  BY <1>2, <1>7, <2>4
    <3>2. s[i] = r  BY <1>4, <2>1, <3>1
    <3> QED  BY <1>3, <3>1, <3>2 DEF Shown
  <2>5. CASE ~(a > len - Len(s))
    <3>1. m # MaxEvents => Len(s) = n  BY <1>2, <1>7, <2>3, <2>5
    <3>2. Len(s) = MinOf(n, MaxEvents)  BY <1>2, <1>4, <1>7, <3>1 DEF MinOf
    <3>3. ASSUME NEW i \in 1..Len(s)  PROVE Newer(s[i], r)'
      <4>1. a < len - i + 1  BY <1>2, <1>7, <2>5
      <4> QED  BY <1>1, <1>10, <2>1, <4>1
    <3>4. EffectiveLimit(q)' = n  BY <1>0 DEF EffectiveLimit
    <3> QED  BY <1>3, <3>2, <3>3, <3>4 DEF Shown, MinOf
  <2> QED  BY <2>4, <2>5
<1>13. Len(s) <= EffectiveLimit(q)'  BY <1>0, <1>7 DEF EffectiveLimit
<1>14. \A r \in ToSet(arrived) : status'[r] = 200  BY <1>2, <1>3, <1>5, <1>6
<1>15. via'[q].by = "memory"  BY <1>3
<1> HIDE DEF own, m, len
<1>16. (\A i \in 1..Len(items[q]) : pc[items[q][i]] # "idle" /\ SameStore(items[q][i], q))'
  BY <1>3, <1>8
<1>17. (\A i, k \in 1..Len(items[q]) : i < k =>
          /\ via[q].by = "clickhouse" => Second(items[q][i]) >= Second(items[q][k])
          /\ via[q].by = "memory" => Newer(items[q][i], items[q][k]))'
  BY <1>3, <1>11, <1>15
<1>18. (\A i, k \in 1..Len(items[q]) : items[q][i] = items[q][k] => i = k)'  BY <1>3, <1>9
<1>19. (\A r \in before[q] : status[r] = 200 /\ (SameStore(r, q) => Shown(q, r)))'
  BY <1>3, <1>12, <1>14
<1>20. (items[q] \in Seq(Posts) /\ Len(items[q]) <= EffectiveLimit(q))' /\ pc'[q] = "done"
  BY <1>3, <1>4, <1>13
<1> QED  BY <1>16, <1>17, <1>18, <1>19, <1>20 DEF Listing

LEMMA ListedFromTable ==
    ASSUME PInv, KInv, LInv, NEW q \in Lists, Select(q)
    PROVE  Listing(q)'
<1> DEFINE n == EffectiveLimit(q)
<1>1. PICK s \in RecentFromTable(n) : items' = [items EXCEPT ![q] = s]  BY DEF Select
<1>2. /\ pc' = [pc EXCEPT ![q] = "respond"] /\ pc[q] = "select"
      /\ UNCHANGED <<table, via, before, status, arrived>>
  BY DEF Select, history, clickhouse
<1>3. q \in Requests /\ q \notin Posts /\ Posts \subseteq Requests /\ n \in Nat
  BY UgcAssumption, LimitType DEF Lists
<1>4. items'[q] = s /\ before'[q] = before[q] /\ pc'[q] = "respond" /\ \A r \in Posts : pc'[r] = pc[r]
  BY <1>1, <1>2, <1>3 DEF LInv, Listed, PInv, Typed
<1>5. via[q].by = "clickhouse"  BY <1>2, <1>3 DEF PInv, Requested, Busy
<1> HIDE DEF n
<1>6. /\ s \in Seq(Posts) /\ Len(s) <= n
      /\ \A i \in 1..Len(s) : s[i] \in table
      /\ \A i, k \in 1..Len(s) : s[i] = s[k] => i = k
      /\ \A i, k \in 1..Len(s) : i < k => Second(s[i]) >= Second(s[k])
      /\ \A r \in table : \/ \E i \in 1..Len(s) : s[i] = r
                          \/ Len(s) = n /\ \A i \in 1..Len(s) : Second(s[i]) >= Second(r)
  BY <1>1, <1>3, TableElements, Zenon
<1>7. ASSUME NEW i \in 1..Len(s)  PROVE pc'[s[i]] # "idle" /\ SameStore(s[i], q)'
  <2>1. s[i] \in table /\ s[i] \in Posts  BY <1>6 DEF PInv, Typed
  <2>2. pc[s[i]] # "idle" /\ via[s[i]].by = "clickhouse"  BY <2>1 DEF LInv, Placed
  <2> QED  BY <1>2, <1>4, <1>5, <2>1, <2>2 DEF SameStore
<1>8. Listing(q)  BY DEF LInv, Listed
<1>9. ASSUME NEW r \in before[q], SameStore(r, q)'  PROVE Shown(q, r)'
  <2>1. r \in Posts /\ status[r] = 200  BY <1>8 DEF Listing, LInv, Listed
  <2>2. via[r].by = "clickhouse"  BY <1>2, <1>5, <1>9 DEF SameStore
  <2>3. r \in table  BY <2>1, <2>2 DEF KInv, Stored
  <2>4. n' = n /\ Second(r)' = Second(r)  BY DEF n, EffectiveLimit, Second
  <2> QED  BY <1>2, <1>4, <1>5, <1>6, <2>3, <2>4 DEF Shown, n, Second
<1>10. Len(s) <= EffectiveLimit(q)'  BY <1>6 DEF n, EffectiveLimit
<1>11. before[q] \in SUBSET Posts /\ \A r \in before[q] : status'[r] = 200
  BY <1>2, <1>8 DEF Listing, LInv, Listed
<1> QED
  BY <1>2, <1>4, <1>5, <1>6, <1>7, <1>9, <1>10, <1>11 DEF Listing, Second

LEMMA ListedStep == PInv /\ KInv /\ LInv /\ [Next]_vars => Listed'
<1> SUFFICES ASSUME PInv, KInv, LInv, [Next]_vars  PROVE Listed'  OBVIOUS
<1>0. /\ Posts \subseteq Requests /\ Lists \subseteq Requests
      /\ \A q \in Lists : q \notin Posts
      /\ \A q \in Lists : Listing(q)
      /\ DOMAIN items = Lists /\ before \in [Lists -> SUBSET Posts]
      /\ ToSet(arrived) \in SUBSET Posts /\ \A q \in Lists : before[q] \in SUBSET Posts
      /\ arrived \in Seq(Posts)
      /\ pc \in [Requests -> {"idle", "insert", "select", "respond", "done"}]
      /\ status \in [Requests -> {0, 200, 500}]
      /\ DOMAIN via = Requests
      /\ \A r \in Requests : status[r] # 0 => pc[r] = "done"
      /\ \A r \in Requests : pc[r] = "insert" => r \in Posts
      /\ \A r \in Requests : pc[r] \in {"select", "respond"} => r \in Lists
      /\ \A r \in Requests : Busy(r) => pc[r] \notin {"idle", "done"}
  BY UgcAssumption DEF PInv, Typed, Requested, Lists, LInv, Listed, Busy, ToSet
<1>a. \A x : /\ \A a \in 1..Len(arrived) : /\ a \in 1..Len(Append(arrived, x))
                                           /\ Append(arrived, x)[a] = arrived[a]
  BY <1>0
<1> USE DEF process, clickhouse, history
<1>1. ASSUME UNCHANGED <<items, before, via, pc, status, arrived>>  PROVE Listed'
  <2>1. ASSUME NEW q \in Lists  PROVE Listing(q)'  BY <1>0, <1>1, <2>1, ListedOther
  <2> QED  BY <1>0, <1>1, <2>1 DEF Listed
<1>2. CASE Start  BY <1>1, <1>2 DEF Start
<1>3. CASE CreateTable  BY <1>1, <1>3 DEF CreateTable
<1>4. CASE Ping  BY <1>1, <1>4 DEF Ping
<1>5. CASE Crash
  <2>1. /\ UNCHANGED <<items, before, via, status, arrived>>
        /\ \A r \in Requests : pc'[r] = IF Busy(r) THEN "done" ELSE pc[r]
    BY <1>5 DEF Crash
  <2>2. ASSUME NEW q \in Lists  PROVE Listing(q)'
    <3>1. \A r \in Posts : pc[r] # "idle" => pc'[r] # "idle"  BY <1>0, <2>1
    <3>2. /\ pc'[q] \in {"idle", "select"} => pc[q] \in {"idle", "select"}
          /\ pc'[q] = "respond" => pc[q] = "respond"
      BY <1>0, <2>1
    <3> QED  BY <1>0, <2>1, <3>1, <3>2, ListedOther
  <2> QED  BY <1>0, <2>1, <2>2 DEF Listed
<1>6. ASSUME NEW r \in Requests, Store(r)  PROVE Listed'  BY <1>1, <1>6 DEF Store
<1>7. ASSUME NEW r \in Posts, pc' = [pc EXCEPT ![r] = "done"] \/ pc' = [pc EXCEPT ![r] = "insert"],
             arrived' = arrived \/ arrived' = Append(arrived, r),
             status' = status \/ (status[r] = 0 /\ \E code : status' = [status EXCEPT ![r] = code]),
             via' = via \/ (pc[r] = "idle" /\ \E v : via' = [via EXCEPT ![r] = v]),
             UNCHANGED <<items, before>>
      PROVE  Listed'
  <2>1. ASSUME NEW q \in Lists  PROVE Listing(q)'
    <3>1. q # r /\ q \in Requests /\ r \in Requests  BY <1>0
    <3>2. pc'[q] = pc[q] /\ status'[q] = status[q] /\ via'[q] = via[q]  BY <1>0, <1>7, <3>1
    <3>3. \A x \in Posts : pc[x] # "idle" => pc'[x] # "idle" /\ via'[x] = via[x]  BY <1>0, <1>7
    <3>4. \A x \in Posts : status[x] = 200 => status'[x] = 200  BY <1>0, <1>7
    <3>5. \A a \in 1..Len(arrived) : a \in 1..Len(arrived') /\ arrived'[a] = arrived[a]
      BY <1>a, <1>7
    <3> QED  BY <1>0, <1>7, <3>2, <3>3, <3>4, <3>5, ListedOther
  <2> QED  BY <1>0, <1>7, <2>1 DEF Listed
<1>8. ASSUME NEW r \in Requests, PostToMemory(r)  PROVE Listed'
  <2>1. r \in Posts /\ status[r] = 0  BY <1>0, <1>8 DEF PostToMemory, Serve
  <2> QED  BY <1>7, <1>8, <2>1 DEF PostToMemory, Serve, Answer
<1>9. ASSUME NEW r \in Requests, PostToClickHouse(r)  PROVE Listed'
  BY <1>7, <1>9 DEF PostToClickHouse, Serve
<1>10. ASSUME NEW r \in Requests, Acknowledge(r)  PROVE Listed'
  <2>1. r \in Posts /\ status[r] = 0  BY <1>0, <1>10 DEF Acknowledge
  <2> QED  BY <1>7, <1>10, <2>1 DEF Acknowledge, Answer
<1>11. ASSUME NEW r \in Lists, NEW next, NEW code,
              pc' = [pc EXCEPT ![r] = next], UNCHANGED arrived,
              status' = status \/ status' = [status EXCEPT ![r] = code],
              via' = via \/ \E v : via' = [via EXCEPT ![r] = v],
              items' = items \/ \E s : items' = [items EXCEPT ![r] = s],
              before' = before \/ \E b \in SUBSET Posts : before' = [before EXCEPT ![r] = b],
              Listing(r)'
       PROVE  Listed'
  <2>1. ASSUME NEW q \in Lists, q # r  PROVE Listing(q)'
    <3>1. q \in Requests /\ r \in Requests /\ \A x \in Posts : x # r  BY <1>0
    <3>2. /\ pc'[q] = pc[q] /\ status'[q] = status[q] /\ via'[q] = via[q]
          /\ items'[q] = items[q] /\ before'[q] = before[q]
      BY <1>0, <1>11, <2>1, <3>1
    <3>3. \A x \in Posts : pc'[x] = pc[x] /\ via'[x] = via[x] /\ status'[x] = status[x]
      BY <1>0, <1>11, <3>1
    <3> QED  BY <1>0, <1>11, <3>2, <3>3, ListedOther
  <2>2. DOMAIN items' = Lists /\ before' \in [Lists -> SUBSET Posts]  BY <1>0, <1>11
  <2> QED  BY <1>11, <2>1, <2>2 DEF Listed
<1>12. ASSUME NEW r \in Lists, UNCHANGED <<items, before, via, arrived>>,
              pc' = [pc EXCEPT ![r] = "done"],
              \/ status' = [status EXCEPT ![r] = 500]
              \/ pc[r] = "respond" /\ status' = [status EXCEPT ![r] = 200]
       PROVE  Listed'
  <2>1. r \in Requests /\ \A x \in Posts : x # r  BY <1>0
  <2>2. pc'[r] = "done" /\ (status'[r] = 500 \/ pc[r] = "respond")  BY <1>0, <1>12, <2>1
  <2>3. \A x \in Posts : pc'[x] = pc[x] /\ status'[x] = status[x]  BY <1>0, <1>12, <2>1
  <2>4. Listing(r)'  BY <1>0, <1>12, <2>2, <2>3, ListedOther
  <2> QED  BY <1>11, <1>12, <2>4
<1>13. ASSUME NEW r \in Requests, Refuse(r)  PROVE Listed'
  <2>1. CASE r \in Posts
    <3>1. status[r] = 0  BY <1>0, <1>13 DEF Refuse
    <3> QED  BY <1>7, <1>13, <2>1, <3>1 DEF Refuse, Answer
  <2>2. CASE r \in Lists  BY <1>12, <1>13, <2>2 DEF Refuse, Answer
  <2> QED  BY <2>1, <2>2 DEF Lists
<1>14. ASSUME NEW r \in Requests, ListFromMemory(r)  PROVE Listed'
  <2>1. r \in Lists /\ Listing(r)'  BY <1>14, ListedFromMemory DEF ListFromMemory
  <2>2. ToSet(arrived) \in SUBSET Posts  BY <1>0
  <2> QED  BY <1>11, <1>14, <2>1, <2>2 DEF ListFromMemory, Serve, Answer
<1>15. ASSUME NEW r \in Requests, ListFromClickHouse(r)  PROVE Listed'
  <2>1. /\ r \in Lists /\ pc[r] = "idle" /\ pc' = [pc EXCEPT ![r] = "select"]
        /\ before' = [before EXCEPT ![r] = ToSet(arrived)]
        /\ via' = [via EXCEPT ![r] = [by |-> backend, life |-> life]]
        /\ UNCHANGED <<items, status, arrived>>
    BY <1>15 DEF ListFromClickHouse, Serve
  <2>2. /\ items'[r] = <<>> /\ pc'[r] = "select" /\ status'[r] # 200
        /\ before'[r] = ToSet(arrived)
    <3>1. r \in DOMAIN items /\ items[r] = <<>> /\ pc'[r] = "select" /\ before'[r] = ToSet(arrived)
      BY <1>0, <2>1 DEF Listing
    <3>2. r \in Requests /\ status[r] # 200  BY <1>0, <2>1
    <3> QED  BY <2>1, <3>1, <3>2
  <2>3. \A x \in ToSet(arrived) : status'[x] = 200  BY <1>0, <2>1 DEF ToSet, KInv, Arrivals
  <2>4. Len(<<>>) = 0 /\ EffectiveLimit(r)' \in Nat /\ <<>> \in Seq(Posts)
    BY <2>1, LimitType DEF EffectiveLimit
  <2>5. Listing(r)'  BY <2>2, <2>3, <2>4 DEF Listing
  <2>6. ToSet(arrived) \in SUBSET Posts  BY <1>0
  <2> QED  BY <1>11, <2>1, <2>5, <2>6
<1>16. ASSUME NEW r \in Requests, Select(r)  PROVE Listed'
  <2>1. r \in Lists  BY <1>0, <1>16 DEF Select
  <2>2. Listing(r)'  BY <1>16, <2>1, ListedFromTable
  <2> QED  BY <1>11, <1>16, <2>1, <2>2 DEF Select
<1>17. ASSUME NEW r \in Requests, Respond(r)  PROVE Listed'
  <2>1. r \in Lists  BY <1>0, <1>17 DEF Respond
  <2> QED  BY <1>12, <1>17, <2>1 DEF Respond, Answer
<1>18. ASSUME NEW r \in Requests, Fail(r)  PROVE Listed'
  <2>1. CASE r \in Posts
    <3>1. status[r] = 0  BY <1>0, <1>18 DEF Fail
    <3> QED  BY <1>7, <1>18, <2>1, <3>1 DEF Fail, Answer
  <2>2. CASE r \in Lists  BY <1>12, <1>18, <2>2 DEF Fail, Answer
  <2> QED  BY <2>1, <2>2 DEF Lists
<1>19. CASE UNCHANGED vars  BY <1>1, <1>19 DEF vars
<1> QED
  BY <1>2, <1>3, <1>4, <1>5, <1>6, <1>8, <1>9, <1>10, <1>13, <1>14, <1>15, <1>16, <1>17, <1>18,
     <1>19
     DEF Next, Step, Finished

LEMMA ListedInvariant == Spec => [](PInv /\ KInv /\ LInv)
<1>1. PInv /\ KInv /\ LInv /\ [Next]_vars => (PInv /\ KInv /\ LInv)'
  BY ProcessStep, KeptStep, PlacedStep, ListedStep DEF LInv
<1> QED  BY <1>1, ProcessInit, KeptInit, ListedInit, PTL DEF Spec

\* Positions in arrived are what After counts.
LEMMA NewerAfter ==
    ASSUME PInv, KInv, NEW r, NEW s, Newer(r, s)
    PROVE  After(r) < After(s)
<1>1. PICK a, b \in 1..Len(arrived) : arrived[a] = r /\ arrived[b] = s /\ b < a  BY DEF Newer
<1>2. \A i, k \in 1..Len(arrived) : arrived[i] = arrived[k] => i = k  BY DEF KInv, Arrivals
<1>3. After(r) = Len(arrived) - a /\ After(s) = Len(arrived) - b  BY <1>1, <1>2, Zenon DEF After
<1>4. Len(arrived) \in Nat  BY DEF PInv, Typed
<1> QED  BY <1>1, <1>3, <1>4

LEMMA StoreOf ==
    ASSUME PInv, NEW q \in Lists, status[q] = 200
    PROVE  via[q].by \in {"clickhouse", "memory"}
BY UgcAssumption DEF PInv, Typed, Requested, Backends, Lists

\* TypeOK of UgcEvents.
THEOREM TypeCorrect == Spec => []TypeOK
<1>1. PInv /\ KInv /\ LInv => TypeOK
  <2> SUFFICES ASSUME PInv, KInv, LInv  PROVE TypeOK  OBVIOUS
  <2>1. /\ memory \in Seq(Posts) /\ DOMAIN memory = 1..Len(memory)
        /\ arrived \in Seq(Posts) /\ DOMAIN arrived = 1..Len(arrived)
        /\ Len(memory) \in Nat /\ Len(arrived) \in Nat
    BY DEF PInv, Typed
  <2>2. IsInjective(arrived) /\ ToSet(arrived) \subseteq Posts
    BY <2>1 DEF KInv, Arrivals, IsInjective, ToSet
  <2>3. IsInjective(memory) /\ ToSet(memory) \subseteq Posts
    <3>1. ASSUME NEW i \in 1..Len(memory), NEW k \in 1..Len(memory), memory[i] = memory[k]
          PROVE  i = k
      <4> DEFINE d == Len(arrived) - Len(memory)
      <4>1. d \in Nat /\ d + i \in 1..Len(arrived) /\ d + k \in 1..Len(arrived)
        BY <2>1 DEF KInv, Suffix
      <4>2. PICK a, b \in 1..Len(arrived) : a = d + i /\ b = d + k  BY <4>1
      <4>3. arrived[a] = memory[i] /\ arrived[b] = memory[k]  BY <4>2 DEF KInv, Suffix
      <4>4. a = b  BY <3>1, <4>3 DEF KInv, Arrivals
      <4> QED  BY <4>1, <4>2, <4>4
    <3> QED  BY <2>1, <3>1 DEF IsInjective, ToSet
  <2>4. \A q \in Lists : /\ ToSet(items[q]) \subseteq Posts /\ IsInjective(items[q])
                         /\ Len(items[q]) <= EffectiveLimit(q)
    <3> SUFFICES ASSUME NEW q \in Lists
                 PROVE  /\ ToSet(items[q]) \subseteq Posts /\ IsInjective(items[q])
                        /\ Len(items[q]) <= EffectiveLimit(q)
      OBVIOUS
    <3>1. /\ items[q] \in Seq(Posts) /\ Len(items[q]) <= EffectiveLimit(q)
          /\ \A i, k \in 1..Len(items[q]) : items[q][i] = items[q][k] => i = k
      BY DEF LInv, Listed, Listing
    <3>2. DOMAIN items[q] = 1..Len(items[q])  BY <3>1
    <3> QED  BY <3>1, <3>2 DEF IsInjective, ToSet
  <2>5. wire \subseteq Posts \ table  BY DEF PInv, Typed, LInv, Placed
  <2>6. before \in [Lists -> SUBSET Posts]  BY DEF LInv, Listed
  <2> QED  BY <2>2, <2>3, <2>4, <2>5, <2>6 DEF PInv, Typed, TypeOK
<1> QED  BY <1>1, ListedInvariant, PTL

\* ListedInOrder of UgcEvents.
THEOREM ListingsAreOrdered == Spec => []ListedInOrder
<1>1. PInv /\ KInv /\ LInv => ListedInOrder
  <2> SUFFICES ASSUME PInv, KInv, LInv, NEW q \in Lists, status[q] = 200
               PROVE  /\ \A i, k \in DOMAIN items[q] : i < k =>
                           IF via[q].by = "clickhouse" THEN Second(items[q][i]) >= Second(items[q][k])
                           ELSE After(items[q][i]) < After(items[q][k])
                      /\ \A i \in DOMAIN items[q] : SameStore(items[q][i], q)
    BY DEF ListedInOrder
  <2>1. Listing(q)  BY DEF LInv, Listed
  <2>2. DOMAIN items[q] = 1..Len(items[q])  BY <2>1 DEF Listing
  <2>3. \A i \in 1..Len(items[q]) : SameStore(items[q][i], q)  BY <2>1 DEF Listing
  <2>4. ASSUME NEW i \in 1..Len(items[q]), NEW k \in 1..Len(items[q]), i < k
        PROVE  IF via[q].by = "clickhouse" THEN Second(items[q][i]) >= Second(items[q][k])
               ELSE After(items[q][i]) < After(items[q][k])
    <3>1. CASE via[q].by = "clickhouse"  BY <2>1, <2>4, <3>1 DEF Listing
    <3>2. CASE via[q].by = "memory"
      <4>1. Newer(items[q][i], items[q][k])  BY <2>1, <2>4, <3>2 DEF Listing
      <4> QED  BY <3>2, <4>1, NewerAfter
    <3> QED  BY <3>1, <3>2, StoreOf
  <2> QED  BY <2>2, <2>3, <2>4
<1> QED  BY <1>1, ListedInvariant, PTL

\* AcknowledgedIsListed of UgcEvents.
THEOREM AcknowledgedAreListed == Spec => []AcknowledgedIsListed
<1>1. PInv /\ KInv /\ LInv => AcknowledgedIsListed
  <2> SUFFICES ASSUME PInv, KInv, LInv, NEW q \in Lists, status[q] = 200,
                      NEW r \in before[q], SameStore(r, q)
               PROVE  LET shown == ToSet(items[q]) IN
                      \/ r \in shown
                      \/ /\ via[q].by = "clickhouse"
                         /\ Len(items[q]) = EffectiveLimit(q)
                         /\ \A s \in shown : Second(s) >= Second(r)
                      \/ /\ via[q].by = "memory"
                         /\ Len(items[q]) = MinOf(EffectiveLimit(q), MaxEvents)
                         /\ \A s \in shown : After(s) < After(r)
    BY DEF AcknowledgedIsListed
  <2>1. Shown(q, r) /\ items[q] \in Seq(Posts)  BY DEF LInv, Listed, Listing
  <2>2. DOMAIN items[q] = 1..Len(items[q])  BY <2>1
  <2>3. \A s \in ToSet(items[q]) : \E i \in 1..Len(items[q]) : items[q][i] = s
    BY <2>2 DEF ToSet
  <2>4. CASE \E i \in 1..Len(items[q]) : items[q][i] = r  BY <2>2, <2>4 DEF ToSet
  <2>5. CASE /\ via[q].by = "clickhouse" /\ Len(items[q]) = EffectiveLimit(q)
             /\ \A i \in 1..Len(items[q]) : Second(items[q][i]) >= Second(r)
    BY <2>3, <2>5
  <2>6. CASE /\ via[q].by = "memory" /\ Len(items[q]) = MinOf(EffectiveLimit(q), MaxEvents)
             /\ \A i \in 1..Len(items[q]) : Newer(items[q][i], r)
    <3>1. \A s \in ToSet(items[q]) : After(s) < After(r)  BY <2>3, <2>6, NewerAfter
    <3> QED  BY <2>6, <3>1
  <2> QED  BY <2>1, <2>4, <2>5, <2>6 DEF Shown
<1> QED  BY <1>1, ListedInvariant, PTL
==================================================================================
