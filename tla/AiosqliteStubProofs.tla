-------------------------- MODULE AiosqliteStubProofs --------------------------
(***************************************************************************)
(* For any number of sessions and of threads: what a session learns of its *)
(* transaction is what became of it, whatever threads outlive their tasks. *)
(*                                                                         *)
(* The argument: a session waits for one call, the one it has made (Jobs); *)
(* a call that outlived its task finds its session past its transaction    *)
(* (Jobs), and its connection is closed after that (Course); so the row of *)
(* a session is in the transaction of its connection from its statement to *)
(* its own commit, unless another session on the connection ended it       *)
(* (Rows).                                                                 *)
(***************************************************************************)
EXTENDS AiosqliteStub, TLAPS

Jobs ==
    /\ \A s \in Sessions : call[s] \in {"begin", "end"} => phase[s] = "returned"
    /\ \A j \in jobs :
          /\ ~j.orphan => phase[j.of] = "waiting" /\ call[j.of] = j.call
          /\ j.orphan => pool = "null" /\ call[j.of] \in {"close", "end"}
          /\ j.orphan /\ j.call = "commit" => told[j.of] = "unknown"
    /\ \A j, k \in jobs : j.of = k.of /\ ~j.orphan /\ ~k.orphan => j = k

Unfinished == {"begin", "connect", "cursor", "execute", "commit"}

Course ==
    /\ \A s \in Sessions : call[s] \in Unfinished => told[s] = Nil
    /\ pool = "static" => \A s \in Sessions : call[s] # "close"
    /\ \A c \in closed : pool = "null" /\ call[c] \in {"close", "end"}
    /\ pool = "null" => mixed = {} /\ \A c \in Sessions : writes[c] \subseteq {c}

HasCommitted(s) == call[s] = "commit" /\ phase[s] = "returned"
HasWritten(s) ==
    \/ call[s] = "execute" /\ phase[s] = "returned" /\ s \notin failed
    \/ call[s] = "commit" /\ phase[s] # "returned"

Row(s) ==
    /\ told[s] = "committed" => s \in stored
    /\ told[s] \in {"failed", "cancelled"} => s \notin stored
    /\ told[s] = Nil => (s \in stored <=> HasCommitted(s))
    /\ HasWritten(s) => s \in writes[Connection(s)]

Rows == \A s \in Sessions \ mixed : Row(s)

SInv == TypeOK /\ Jobs /\ Course /\ Rows

LEMMA StubInit == Init => SInv
BY StubAssumption
   DEF Init, Outcomes, SInv, TypeOK, Calls, Locked, Jobs, Course, Unfinished, Rows, Row, HasCommitted,
       HasWritten

LEMMA ConnectionType ==
    ASSUME TypeOK, NEW s \in Sessions
    PROVE  /\ Connection(s) \in Sessions
           /\ pool = "null" => Connection(s) = s
           /\ pool = "static" => \A t \in Sessions : Connection(t) = Connection(s)
BY DEF TypeOK, Connection

LEMMA JobFields ==
    ASSUME TypeOK, NEW j \in jobs
    PROVE  /\ j.of \in Sessions /\ j.call \in Calls
           /\ j.running \in BOOLEAN /\ j.orphan \in BOOLEAN
           /\ j = [of |-> j.of, call |-> j.call, running |-> j.running, orphan |-> j.orphan]
BY DEF TypeOK, JobType

-----------------------------------------------------------------------------
(* What a session does.  The tables and what is in them stay. *)

Tables == <<writes, closed, stored, mixed>>

\* The facts about the other sessions, and about what has been written, stay.
LEMMA SessionStep ==
    ASSUME SInv, NEW s \in Sessions, TypeOK', Jobs', UNCHANGED <<pool, Tables, failed>>,
           \A t \in Sessions \ {s} :
              call'[t] = call[t] /\ phase'[t] = phase[t] /\ told'[t] = told[t],
           call'[s] \in Unfinished => told'[s] = Nil,
           pool = "static" => call'[s] # "close",
           s \in closed => call'[s] \in {"close", "end"},
           s \notin mixed => Row(s)'
    PROVE  SInv'
<1> USE DEF SInv, Tables
<1>1. Course'  BY DEF Course, TypeOK
<1>2. ASSUME NEW t \in Sessions \ mixed, t # s  PROVE Row(t)'
  BY <1>2 DEF Rows, Row, HasCommitted, HasWritten, Connection
<1>3. Rows'  BY <1>2 DEF Rows
<1> QED  BY <1>1, <1>3

LEMMA BeginKeeps ==
    ASSUME SInv, NEW s \in Sessions, Begin(s)  PROVE SInv'
<1> USE DEF SInv, Tables
<1> DEFINE next == IF pool = "null" THEN "connect" ELSE "cursor"
<1>1. /\ call[s] = "begin"
      /\ call' = [call EXCEPT ![s] = next] /\ phase' = [phase EXCEPT ![s] = "asked"]
      /\ UNCHANGED <<pool, jobs, failed, lock, Tables, told>>
  BY DEF Begin, Go
<1>2. TypeOK'  BY <1>1 DEF TypeOK, Calls, Locked
<1>3. \A j \in jobs : j.of # s
  BY <1>1, JobFields DEF Jobs, Calls, Locked
<1>4. Jobs'  BY <1>1, <1>3, JobFields DEF Jobs, TypeOK
<1>5. told[s] = Nil  BY <1>1 DEF Course, Unfinished
<1>6. s \notin mixed => Row(s)'
  BY <1>1, <1>5, StubAssumption DEF Rows, Row, Outcomes, HasCommitted, HasWritten, TypeOK
<1>7. s \notin closed  BY <1>1 DEF Course
<1> QED  BY <1>1, <1>2, <1>4, <1>5, <1>6, <1>7, SessionStep DEF TypeOK

LEMMA SubmitKeeps ==
    ASSUME SInv, NEW s \in Sessions, Submit(s)  PROVE SInv'
<1> USE DEF SInv, Tables
<1> DEFINE new == [of |-> s, call |-> call[s], running |-> FALSE, orphan |-> FALSE]
<1>1. /\ phase[s] = "asked"
      /\ phase' = [phase EXCEPT ![s] = "waiting"]
      /\ jobs' = jobs \cup {new}
      /\ UNCHANGED <<pool, call, failed, Tables, told>>
  BY DEF Submit, Await
<1>2. call[s] \in Calls  BY <1>1 DEF Jobs, TypeOK
<1>3. TypeOK'
  <2>1. lock' \in [Sessions -> Sessions \cup {Nil}]
    BY ConnectionType DEF Submit, TypeOK
  <2>2. new \in JobType  BY <1>2 DEF JobType
  <2> QED  BY <1>1, <2>1, <2>2 DEF TypeOK
<1>4. \A j \in jobs : j.of = s => j.orphan
  BY <1>1 DEF Jobs
<1>5. Jobs'
  <2>1. /\ phase'[s] = "waiting" /\ new.of = s /\ new.call = call[s] /\ new.orphan = FALSE
        /\ \A t \in Sessions : t # s => phase'[t] = phase[t]
    BY <1>1 DEF TypeOK
  <2>2. ASSUME NEW t \in Sessions, call[t] \in {"begin", "end"}  PROVE phase'[t] = "returned"
    BY <1>2, <2>1, <2>2 DEF Jobs, Calls, Locked
  <2>3. ASSUME NEW j \in jobs'
        PROVE  /\ ~j.orphan => phase'[j.of] = "waiting" /\ call[j.of] = j.call
               /\ j.orphan => pool = "null" /\ call[j.of] \in {"close", "end"}
               /\ j.orphan /\ j.call = "commit" => told[j.of] = "unknown"
    BY <1>1, <1>4, <2>1, JobFields DEF Jobs
  <2>4. ASSUME NEW j \in jobs', NEW k \in jobs', j.of = k.of, ~j.orphan, ~k.orphan  PROVE j = k
    <3>1. j = new \/ (j \in jobs /\ j.of # s)  BY <1>1, <1>4, <2>4
    <3>2. k = new \/ (k \in jobs /\ k.of # s)  BY <1>1, <1>4, <2>4
    <3> HIDE DEF new
    <3> QED  BY <2>1, <2>4, <3>1, <3>2 DEF Jobs
  <2> QED  BY <1>1, <2>2, <2>3, <2>4 DEF Jobs
<1>6. s \notin mixed => Row(s)'
  BY <1>1 DEF Rows, Row, HasCommitted, HasWritten, Connection, TypeOK
<1> QED  BY <1>1, <1>3, <1>5, <1>6, SessionStep DEF TypeOK, Course

\* A session makes its next call when the last one has returned.
LEMMA ReturnKeeps ==
    ASSUME SInv, NEW s \in Sessions, Return(s)  PROVE SInv'
<1> USE DEF SInv, Tables
<1>1. /\ phase[s] = "returned" /\ call[s] \in Calls
      /\ UNCHANGED <<pool, jobs, failed, Tables>>
  BY DEF Return, TypeOK
<1> DEFINE Moves(next, answer) ==
      /\ Go(s, next)
      /\ IF answer = Nil THEN UNCHANGED told ELSE told' = [told EXCEPT ![s] = answer]
      /\ \/ call[s] \in {"connect", "cursor"} /\ next \in {"cursor", "execute"} /\ answer = Nil
         \/ call[s] = "execute" /\ s \notin failed /\ next = "commit" /\ answer = Nil
         \/ call[s] = "execute" /\ next = "rollback" /\ answer = "failed"
         \/ call[s] = "commit" /\ next = "rollback" /\ answer = "committed"
         \/ call[s] \in {"rollback", "close"} /\ next \in {"close", "end"} /\ answer = Nil
      /\ next = "close" => pool = "null"
<1>2. PICK next \in {"cursor", "execute", "commit", "rollback", "close", "end"},
           answer \in {Nil, "failed", "committed"} : Moves(next, answer)
  <2> USE StubAssumption DEF Outcomes
  <2>1. CASE call[s] = "connect"
    <3>1. Moves("cursor", Nil)  BY <2>1 DEF Return
    <3> QED  BY <3>1
  <2>2. CASE call[s] = "cursor"
    <3>1. Moves("execute", Nil)  BY <2>2 DEF Return
    <3> QED  BY <3>1
  <2>3. CASE call[s] = "execute"
    <3>1. Moves("commit", Nil) \/ Moves("rollback", "failed")  BY <2>3 DEF Return
    <3> QED  BY <3>1
  <2>4. CASE call[s] = "commit"
    <3>1. Moves("rollback", "committed")  BY <2>4 DEF Return
    <3> QED  BY <3>1
  <2>5. CASE call[s] = "rollback"
    <3>1. Moves(IF pool = "null" THEN "close" ELSE "end", Nil)  BY <2>5 DEF Return
    <3> QED  BY <3>1
  <2>6. CASE call[s] = "close"
    <3>1. Go(s, "end") /\ UNCHANGED told  BY <2>6 DEF Return
    <3>2. Moves("end", Nil)  BY <2>6, <3>1
    <3> QED  BY <3>2
  <2> QED  BY <1>1, <2>1, <2>2, <2>3, <2>4, <2>5, <2>6 DEF Calls, Locked
<1>3. /\ call' = [call EXCEPT ![s] = next]
      /\ phase' = [phase EXCEPT ![s] = IF next = "end" THEN "returned" ELSE "asked"]
  BY <1>2 DEF Go
<1>4. TypeOK'
  <2>1. lock' \in [Sessions -> Sessions \cup {Nil}]  BY DEF Return, Unlock, TypeOK
  <2>2. told' \in [Sessions -> Outcomes \cup {Nil}]
    BY <1>2 DEF TypeOK, Outcomes
  <2> QED  BY <1>1, <1>3, <2>1, <2>2 DEF TypeOK, Calls, Locked
<1>5. \A j \in jobs : j.of = s => j.orphan
  BY <1>1 DEF Jobs
<1>6. Jobs'
  BY <1>1, <1>2, <1>3, <1>5, JobFields DEF Jobs, TypeOK
<1>7. call'[s] \in Unfinished => told'[s] = Nil
  BY <1>2, <1>3 DEF Course, Unfinished, TypeOK
<1>8. s \notin mixed => Row(s)'
  <2> SUFFICES ASSUME s \notin mixed  PROVE Row(s)'  OBVIOUS
  <2>1. Row(s)  BY DEF Rows
  <2>2. Connection(s)' = Connection(s)  BY <1>1 DEF Connection
  <2>3. HasWritten(s)' => next = "commit" /\ HasWritten(s)
    BY <1>1, <1>2, <1>3 DEF HasWritten, TypeOK
  <2>4. ~HasCommitted(s)'  BY <1>1, <1>2, <1>3 DEF HasCommitted, TypeOK
  <2>5. HasCommitted(s) <=> answer = "committed"
    BY <1>1, <1>2, StubAssumption DEF HasCommitted, Outcomes
  <2>6. answer # Nil => told[s] = Nil
    BY <1>2 DEF Course, Unfinished
  <2> QED
    BY <1>1, <1>2, <2>1, <2>2, <2>3, <2>4, <2>5, <2>6, StubAssumption DEF Row, TypeOK, Outcomes
<1>9. pool = "static" => call'[s] # "close"
  BY <1>2, <1>3 DEF TypeOK
<1>10. s \in closed => call'[s] \in {"close", "end"}
  BY <1>2, <1>3 DEF Course, TypeOK
<1>11. \A t \in Sessions \ {s} :
          call'[t] = call[t] /\ phase'[t] = phase[t] /\ told'[t] = told[t]
  BY <1>2, <1>3 DEF TypeOK
<1> QED  BY <1>1, <1>4, <1>6, <1>7, <1>8, <1>9, <1>10, <1>11, SessionStep

\* The task of a session is cancelled; its call becomes an orphan or is taken back.
LEMMA CancelKeeps ==
    ASSUME SInv, NEW s \in Sessions, Cancel(s)  PROVE SInv'
<1> USE DEF SInv, Tables
<1> DEFINE answer == CASE call[s] = "commit" -> "unknown"
                       [] call[s] \in {"rollback", "close"} -> told[s]
                       [] OTHER -> "cancelled"
           next == IF call[s] \in {"connect", "close"} THEN "end" ELSE "close"
<1>1. /\ pool = "null" /\ call[s] \in Calls
      /\ \/ jobs' = (jobs \ Waiting(s)) \cup Orphans(s)
         \/ jobs' = jobs \ Queued(s) /\ Queued(s) # {}
      /\ told' = [told EXCEPT ![s] = answer]
      /\ call' = [call EXCEPT ![s] = next]
      /\ phase' = [phase EXCEPT ![s] = IF next = "end" THEN "returned" ELSE "asked"]
      /\ UNCHANGED <<pool, failed, Tables>>
  BY DEF Cancel, Go, TypeOK
<1>2. \A j \in jobs : j.of = s /\ j.orphan => call[s] = "close"
  BY <1>1 DEF Jobs, Calls, Locked
<1>3. /\ \A j \in jobs' : j.of # s => j \in jobs
      /\ \A j \in jobs' : j.of = s =>
            j.orphan /\ (j.call = call[s] \/ (j \in jobs /\ call[s] = "close"))
      /\ jobs' \subseteq JobType
  <2>1. CASE jobs' = (jobs \ Waiting(s)) \cup Orphans(s)
    <3>1. \A j \in Orphans(s) : j.of = s /\ j.orphan /\ j.call = call[s] /\ j \in JobType
      <4> SUFFICES ASSUME NEW k \in Orphans(s)
                   PROVE  k.of = s /\ k.orphan /\ k.call = call[s] /\ k \in JobType
        OBVIOUS
      <4>1. PICK j \in jobs : j.of = s /\ ~j.orphan /\ k = [j EXCEPT !.orphan = TRUE]
        BY DEF Orphans, Waiting
      <4>2. j.call = call[s] /\ j \in JobType  BY <4>1 DEF Jobs, TypeOK
      <4>3. k \in JobType /\ k.of = j.of /\ k.call = j.call /\ k.orphan = TRUE
        BY <4>1, <4>2 DEF JobType
      <4> QED  BY <4>1, <4>2, <4>3
    <3>2. \A j \in jobs \ Waiting(s) : j.of = s => j.orphan  BY DEF Waiting
    <3> QED  BY <1>2, <2>1, <3>1, <3>2 DEF TypeOK
  <2>2. CASE jobs' = jobs \ Queued(s) /\ Queued(s) # {}
    <3>1. \A j \in jobs : j.of = s => j.orphan \/ j \in Queued(s)
      BY <2>2 DEF Queued, Waiting, Jobs
    <3> QED  BY <1>2, <2>2, <3>1 DEF TypeOK
  <2> QED  BY <1>1, <2>1, <2>2
<1>4. TypeOK'
  <2>1. lock' \in [Sessions -> Sessions \cup {Nil}]  BY DEF Cancel, Unlock, TypeOK
  <2>2. told' \in [Sessions -> Outcomes \cup {Nil}]  BY <1>1 DEF TypeOK, Outcomes
  <2> QED  BY <1>1, <1>3, <2>1, <2>2 DEF TypeOK, Calls, Locked
<1>5. /\ call'[s] = next /\ next \in {"close", "end"} /\ told'[s] = answer
      /\ next = "end" => phase'[s] = "returned"
      /\ \A t \in Sessions \ {s} :
            call'[t] = call[t] /\ phase'[t] = phase[t] /\ told'[t] = told[t]
  BY <1>1 DEF TypeOK
<1>6. Jobs'
  <2>1. ASSUME NEW j \in jobs', j.of = s, j.call = "commit"  PROVE told'[s] = "unknown"
    BY <1>3, <1>5, <2>1 DEF Jobs
  <2> HIDE DEF next, answer
  <2>2. ASSUME NEW j \in jobs'
        PROVE  /\ ~j.orphan => phase'[j.of] = "waiting" /\ call'[j.of] = j.call
               /\ j.orphan => pool' = "null" /\ call'[j.of] \in {"close", "end"}
               /\ j.orphan /\ j.call = "commit" => told'[j.of] = "unknown"
    BY <1>1, <1>3, <1>5, <2>1 DEF Jobs, TypeOK, JobType
  <2>3. ASSUME NEW j \in jobs', NEW k \in jobs', j.of = k.of, ~j.orphan, ~k.orphan
        PROVE  j = k
    BY <1>3, <2>3 DEF Jobs
  <2>4. ASSUME NEW t \in Sessions, call'[t] \in {"begin", "end"}  PROVE phase'[t] = "returned"
    BY <1>5, <2>4 DEF Jobs
  <2> QED  BY <2>2, <2>3, <2>4 DEF Jobs
<1>7. s \notin mixed => Row(s)'
  <2> SUFFICES ASSUME s \notin mixed  PROVE Row(s)'  OBVIOUS
  <2>1. Row(s)  BY DEF Rows
  <2>2. ~HasWritten(s)' /\ ~HasCommitted(s)'  BY <1>5 DEF HasWritten, HasCommitted
  <2>3. CASE call[s] \in {"rollback", "close"}
    BY <1>1, <1>5, <2>1, <2>2, <2>3 DEF Row, HasCommitted
  <2>4. CASE call[s] \in {"connect", "cursor", "execute", "commit"}
    <3>1. told[s] = Nil  BY <2>4 DEF Course, Unfinished
    <3>2. answer = "cancelled" => ~HasCommitted(s)  BY <2>4 DEF HasCommitted
    <3>3. answer \in {"cancelled", "unknown"}  BY <2>4
    <3> QED  BY <1>1, <1>5, <2>1, <2>2, <3>1, <3>2, <3>3, StubAssumption DEF Row, Outcomes
  <2> QED  BY <1>1, <2>3, <2>4 DEF Calls, Locked
<1>8. call'[s] \notin Unfinished  BY <1>5 DEF Unfinished
<1> HIDE DEF next, answer
<1> QED  BY <1>1, <1>4, <1>5, <1>6, <1>7, <1>8, SessionStep DEF TypeOK

-----------------------------------------------------------------------------
(* Threads and SQLite. *)

LEMMA StartKeeps ==
    ASSUME SInv, NEW j \in jobs, Start(j)  PROVE SInv'
<1> USE DEF SInv
<1> DEFINE new == [j EXCEPT !.running = TRUE]
<1>1. /\ jobs' = (jobs \ {j}) \cup {new}
      /\ UNCHANGED <<pool, call, phase, failed, lock, writes, closed, stored, told, mixed>>
  BY DEF Start
<1>2. new \in JobType /\ new.of = j.of /\ new.call = j.call /\ new.orphan = j.orphan
  <2>1. j \in JobType  BY DEF TypeOK
  <2> QED  BY <2>1 DEF JobType
<1>3. TypeOK'  BY <1>1, <1>2 DEF TypeOK
<1>4. Jobs'
  <2> HIDE DEF new
  <2>1. \A k, l \in jobs' : k.of = l.of /\ ~k.orphan /\ ~l.orphan => k = l
    BY <1>1, <1>2 DEF Jobs
  <2> QED  BY <1>1, <1>2, <2>1 DEF Jobs
<1>5. Course' /\ Rows'
  BY <1>1 DEF Course, Rows, Row, HasCommitted, HasWritten, Connection
<1> QED  BY <1>3, <1>4, <1>5

\* The call is over for the session that waits for it, if one does.
LEMMA DeliveredJobs ==
    ASSUME SInv, NEW j \in jobs, NEW raises \in BOOLEAN, Deliver(j, raises)
    PROVE  /\ jobs' \in SUBSET JobType /\ Jobs'
           /\ phase' \in [Sessions -> {"asked", "waiting", "returned"}] /\ failed' \subseteq Sessions
<1> USE DEF SInv
<1>0. jobs' = jobs \ {j} /\ UNCHANGED <<pool, call, lock, told>> /\ j.of \in Sessions
  BY JobFields DEF Deliver
<1>1. CASE j.orphan
  BY <1>0, <1>1 DEF Deliver, TypeOK, Jobs
<1>2. CASE ~j.orphan
  <2>1. /\ phase' = [phase EXCEPT ![j.of] = "returned"]
        /\ failed' = IF raises THEN failed \cup {j.of} ELSE failed \ {j.of}
    BY <1>2 DEF Deliver
  <2>2. \A k \in jobs' : k.of = j.of => k.orphan
    BY <1>0, <1>2 DEF Jobs
  <2>3. Jobs'
    BY <1>0, <2>1, <2>2, JobFields DEF Jobs, TypeOK
  <2> QED  BY <1>0, <2>1, <2>3 DEF TypeOK
<1> QED  BY <1>1, <1>2

\* SQLite ends a transaction for all who wrote in it.
LEMMA MakeFacts ==
    ASSUME SInv, NEW j \in jobs, Make(j), NEW c, c = Connection(j.of)
    PROVE  /\ writes' \in [Sessions -> SUBSET Sessions] /\ closed' \subseteq Sessions
           /\ stored' \subseteq Sessions /\ mixed' \subseteq Sessions
           /\ \A d \in Sessions \ {c} : writes'[d] = writes[d]
           /\ \/ j.call = "execute" /\ writes'[c] = writes[c] \cup {j.of} /\ mixed' = mixed
              \/ /\ j.call \in {"commit", "rollback", "close"}
                 /\ writes'[c] = {} /\ mixed' = mixed \cup (writes[c] \ {j.of})
              \/ j.call \in {"connect", "cursor"} /\ writes' = writes /\ mixed' = mixed
           /\ stored' = IF j.call = "commit" THEN stored \cup writes[c] ELSE stored
           /\ closed' = IF j.call = "close" THEN closed \cup {c} ELSE closed
<1> USE DEF SInv
<1>1. j.call \in Calls /\ j.of \in Sessions /\ c \in Sessions
  BY JobFields, ConnectionType
<1>2. CASE j.call = "execute"  BY <1>1, <1>2 DEF Make, TypeOK
<1>3. CASE j.call = "commit"  BY <1>1, <1>3 DEF Make, EndTransaction, TypeOK
<1>4. CASE j.call = "rollback"  BY <1>1, <1>4 DEF Make, EndTransaction, TypeOK
<1>5. CASE j.call = "close"  BY <1>1, <1>5 DEF Make, EndTransaction, TypeOK
<1>6. CASE j.call \in {"connect", "cursor"}  BY <1>1, <1>6 DEF Make, TypeOK
<1> QED  BY <1>1, <1>2, <1>3, <1>4, <1>5, <1>6 DEF Calls, Locked

\* The call raised: the tables stay, and the session is told.
LEMMA RefusedKeeps ==
    ASSUME SInv, NEW j \in jobs, Refused(j),
           Connection(j.of) \in closed \/ j.call = "execute"
    PROVE  SInv'
<1> USE DEF SInv
<1>1. Deliver(j, TRUE) /\ UNCHANGED <<writes, closed, stored, mixed, pool, call, lock, told>>
  BY DEF Refused, Deliver
<1>2. TypeOK' /\ Jobs'  BY <1>1, DeliveredJobs DEF TypeOK
<1>3. Course'  BY <1>1 DEF Course
<1>4. j.of \in Sessions /\ (Connection(j.of) \in closed => call[j.of] # "commit")
  BY JobFields, ConnectionType DEF Course, TypeOK
<1>5. ASSUME NEW s \in Sessions \ mixed  PROVE Row(s)'
  <2>1. Row(s) /\ Connection(s)' = Connection(s)  BY <1>1 DEF Rows, Connection
  <2>2. CASE s # j.of \/ j.orphan
    <3>1. phase'[s] = phase[s] /\ (s \in failed' <=> s \in failed)
      BY <1>1, <2>2 DEF Deliver, TypeOK
    <3> QED  BY <1>1, <2>1, <3>1 DEF Row, HasCommitted, HasWritten
  <2>3. CASE s = j.of /\ ~j.orphan
    <3>1. phase'[s] = "returned" /\ s \in failed' /\ call[s] # "commit"
      BY <1>1, <1>4, <2>3 DEF Deliver, TypeOK, Jobs
    <3> QED  BY <1>1, <2>1, <3>1 DEF Row, HasCommitted, HasWritten
  <2> QED  BY <2>2, <2>3
<1>6. Rows'  BY <1>1, <1>5 DEF Rows
<1> QED  BY <1>2, <1>3, <1>6

LEMMA MadeKeeps ==
    ASSUME SInv, NEW j \in jobs, Make(j), Deliver(j, FALSE), Connection(j.of) \notin closed
    PROVE  SInv'
<1> USE DEF SInv
<1> DEFINE t == j.of
           c == Connection(t)
<1>1. t \in Sessions /\ c \in Sessions /\ j.call \in Calls
  BY JobFields, ConnectionType
<1>2. UNCHANGED <<pool, call, lock, told>>  BY DEF Deliver
<1>3. TypeOK' /\ Jobs'  BY <1>2, DeliveredJobs, MakeFacts DEF TypeOK
<1>4. ~j.orphan => /\ phase[t] = "waiting" /\ call[t] = j.call
                   /\ phase'[t] = "returned" /\ failed' = failed \ {t}
  BY <1>1 DEF Jobs, Deliver, TypeOK
<1>5. \A s \in Sessions : s # t \/ j.orphan =>
         phase'[s] = phase[s] /\ (s \in failed' <=> s \in failed)
  BY DEF Deliver, TypeOK
<1>6. j.orphan => pool = "null" /\ call[t] \in {"close", "end"} /\ c = t
  BY <1>1, ConnectionType DEF Jobs
<1>7. pool \in {"null", "static"} /\ (pool = "null" => c = t /\ writes[c] \subseteq {t})
  BY <1>1, ConnectionType DEF Course, TypeOK
<1>8. \A d \in closed' : d \in closed \/ (d = c /\ j.call = "close")
  BY MakeFacts
<1>9. Course'
  <2>1. \A d \in closed' : pool = "null" /\ call[d] \in {"close", "end"}
    <3>1. j.call = "close" => pool = "null" /\ c = t /\ call[t] \in {"close", "end"}
      BY <1>1, <1>4, <1>6, <1>7 DEF Course
    <3> QED  BY <1>8, <3>1 DEF Course
  <2>2. pool = "null" => mixed' = {} /\ \A d \in Sessions : writes'[d] \subseteq {d}
    BY <1>1, <1>7, MakeFacts DEF Course
  <2> QED  BY <1>2, <2>1, <2>2 DEF Course
\* Whoever wrote in a transaction that another session ends is in mixed.
<1>10. ASSUME NEW s \in Sessions \ mixed', s # t  PROVE Row(s)'
  <2>1. s \notin mixed /\ Row(s) /\ Connection(s)' = Connection(s)
    BY <1>2, <1>10, MakeFacts DEF Rows, Connection
  <2>2. Connection(s) # c => writes'[Connection(s)] = writes[Connection(s)]
    BY MakeFacts, ConnectionType
  <2>3. s \in writes[c] /\ Connection(s) = c => s \in writes'[c]
    BY <1>10, MakeFacts
  <2>4. s \in stored' <=> s \in stored
    <3>1. j.call = "commit" => s \notin writes[c]
      BY <1>10, MakeFacts
    <3> QED  BY <3>1, MakeFacts
  <2>5. (HasWritten(s)' <=> HasWritten(s)) /\ (HasCommitted(s)' <=> HasCommitted(s))
    BY <1>2, <1>5, <1>10 DEF HasWritten, HasCommitted
  <2> QED  BY <1>2, <2>1, <2>2, <2>3, <2>4, <2>5 DEF Row
<1>11. ASSUME t \notin mixed'  PROVE Row(t)'
  <2>1. t \notin mixed /\ Row(t) /\ c' = c
    BY <1>1, <1>2, <1>11, MakeFacts DEF Rows, Connection
  <2>2. CASE j.orphan
    <3>1. ~HasWritten(t)' /\ ~HasCommitted(t)' /\ ~HasCommitted(t)
      BY <1>2, <1>6, <2>2 DEF HasWritten, HasCommitted
    <3>2. j.call = "commit" => told[t] = "unknown"  BY <2>2 DEF Jobs
    <3> QED  BY <1>2, <2>1, <3>1, <3>2, MakeFacts, StubAssumption DEF Row, Outcomes
  <2>3. CASE ~j.orphan
    <3>1. phase'[t] = "returned" /\ phase[t] = "waiting" /\ call'[t] = j.call /\ call[t] = j.call
      BY <1>2, <1>4, <2>3
    <3>2. CASE j.call = "commit"
      <4>1. t \in writes[c] /\ told[t] = Nil
        BY <1>1, <2>1, <3>1, <3>2 DEF Row, HasWritten, Course, Unfinished
      <4>2. t \in stored'  BY <3>2, <4>1, MakeFacts
      <4> QED
        BY <1>2, <3>1, <3>2, <4>1, <4>2, StubAssumption DEF Row, HasWritten, HasCommitted, Outcomes
    <3>3. CASE j.call = "execute"
      <4>1. t \in writes'[c] /\ stored' = stored  BY <3>3, MakeFacts
      <4> QED  BY <1>2, <2>1, <3>1, <3>3, <4>1 DEF Row, HasWritten, HasCommitted
    <3>4. CASE j.call \notin {"commit", "execute"}
      <4>1. stored' = stored  BY <3>4, MakeFacts
      <4> QED  BY <1>2, <2>1, <3>1, <3>4, <4>1 DEF Row, HasWritten, HasCommitted
    <3> QED  BY <3>2, <3>3, <3>4
  <2> QED  BY <2>2, <2>3
<1>12. Rows'  BY <1>10, <1>11 DEF Rows
<1> QED  BY <1>3, <1>9, <1>12

LEMMA FinishKeeps ==
    ASSUME SInv, NEW j \in jobs, Finish(j)  PROVE SInv'
<1>1. CASE Connection(j.of) \in closed  BY <1>1, RefusedKeeps DEF Finish
<1>2. CASE Connection(j.of) \notin closed  BY <1>2, RefusedKeeps, MadeKeeps DEF Finish
<1> QED  BY <1>1, <1>2

-----------------------------------------------------------------------------
LEMMA StubStep == SInv /\ [Next]_vars => SInv'
<1> SUFFICES ASSUME SInv, [Next]_vars  PROVE SInv'  OBVIOUS
<1>1. ASSUME NEW s \in Sessions, Begin(s) \/ Cancel(s) \/ Submit(s) \/ Return(s)  PROVE SInv'
  BY <1>1, BeginKeeps, CancelKeeps, SubmitKeeps, ReturnKeeps
<1>2. ASSUME NEW j \in jobs, Start(j) \/ Finish(j)  PROVE SInv'
  BY <1>2, StartKeeps, FinishKeeps
<1>3. CASE UNCHANGED vars
  BY <1>3 DEF vars, SInv, TypeOK, Jobs, Course, Rows, Row, HasCommitted, HasWritten, Connection
<1> QED  BY <1>1, <1>2, <1>3 DEF Next, Progress, Finished

LEMMA StubInvariant == Spec => []SInv
BY StubInit, StubStep, PTL DEF Spec

\* TypeOK: calls, threads, connections and outcomes keep their types.
THEOREM TypeCorrect == Spec => []TypeOK
<1>1. SInv => TypeOK  BY DEF SInv
<1> QED  BY <1>1, StubInvariant, PTL

\* A session told that it committed has its row stored; one that failed, or was cancelled
\* before it asked for the commit, has not; and with a connection to each session nobody
\* ends the transaction of another, not even a thread nobody waits for any more.
THEOREM TransactionsAreKept == Spec => []TransactionsKept
<1>1. SInv => TransactionsKept
  BY DEF SInv, Course, Rows, Row, TransactionsKept
<1> QED  BY <1>1, StubInvariant, PTL
================================================================================
