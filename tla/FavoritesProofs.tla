---------------------------- MODULE FavoritesProofs ----------------------------
(***************************************************************************)
(* Theorems about Favorites for every set of requests, profiles and films: *)
(* what a client is told was true while it waited, only races fail, and    *)
(* the audit trail explains the list.                                      *)
(***************************************************************************)
EXTENDS Favorites, FiniteSetTheorems, TLAPS

-----------------------------------------------------------------------------
(* The inductive invariant, request by request. *)

Shape ==
    /\ favorites = [e \in Entries |-> favorites[e]]
    /\ pc \in [Requests -> Labels]
    /\ job \in [Requests -> Job \cup {Nil}]
    /\ now \in Times
    /\ began \in [Requests -> Times]
    /\ orm = [r \in Requests |-> orm[r]]
    /\ pending \in [Requests -> {"none", "insert", "delete"}]
    /\ status \in [Requests -> {0, 200, 201, 204, 404, 500}]
    /\ held \in [Requests -> SUBSET {"present", "absent"}]

\* Where a request stands bounds what it may be.
Calls(r) ==
    /\ pc[r] # "idle" => job[r] \in Script[r]
    /\ pc[r] \in {"select", "flush", "list", "count", "commit", "refresh"} =>
          job[r].profile # Nil
    /\ pc[r] \in {"select", "flush"} => job[r].op \in {"add", "delete"}
    /\ pc[r] \in {"list", "count"} => job[r].op = "list"
    /\ pc[r] = "refresh" => job[r].op = "add"
    /\ pc[r] # "done" => status[r] = 0
    /\ pending[r] = "insert" => pc[r] = "commit" /\ job[r].op = "add"
    /\ pending[r] = "delete" => pc[r] = "commit" /\ job[r].op = "delete"

\* A flushed write is the only one of its entry, and an insertion finds none there.
Locks(r) ==
    pending[r] # "none" =>
        /\ Free(r)
        /\ pending[r] = "insert" => favorites[Entry(r)] = Nil /\ orm[r] # Nil

Changing(r) == Busy(r) /\ job[r].op # "list" /\ job[r].profile # Nil

\* What a request has decided rests on what the entry was while it ran; and a row
\* it has loaded was not replaced without having been absent.
Witness(r) ==
    Changing(r) =>
        /\ Presence(favorites[Entry(r)]) \in held[r]
        /\ pc[r] = "flush" /\ job[r].op = "add" => "absent" \in held[r]
        /\ pc[r] = "flush" /\ job[r].op = "delete" =>
              orm[r] # Nil /\ (favorites[Entry(r)] # orm[r] => "absent" \in held[r])
        /\ pc[r] = "commit" /\ job[r].op = "add" /\ pending[r] = "none" => "present" \in held[r]
        /\ pc[r] = "commit" /\ job[r].op = "delete" /\ pending[r] = "none" =>
              "absent" \in held[r]
        /\ pc[r] = "refresh" => "present" \in held[r]

Told(r) ==
    /\ status[r] = 201 => "present" \in held[r]
    /\ status[r] = 204 => "absent" \in held[r]
    /\ status[r] = 500 /\ r \notin broken =>
          job[r].op = "add" /\ {"present", "absent"} \subseteq held[r]

FInv == Shape /\ \A r \in Requests : Calls(r) /\ Locks(r) /\ Witness(r) /\ Told(r)

LEMMA InitInvariant == Init => FInv
BY FavoritesAssumption
DEF Init, FInv, Shape, Calls, Locks, Witness, Told, Changing, Busy, Labels, Times

\* What the call of a request looks like.
LEMMA CallType ==
    ASSUME FInv, NEW r \in Requests, pc[r] # "idle"
    PROVE  /\ job[r] \in Job
           /\ job[r].op \in {"add", "delete"} /\ job[r].profile # Nil => Entry(r) \in Entries
BY FavoritesAssumption DEF FInv, Calls, Job, Entry, Entries

\* The other requests stay where they are.
Others(r) ==
    \A q \in Requests \ {r} :
        /\ pc'[q] = pc[q] /\ job'[q] = job[q] /\ orm'[q] = orm[q]
        /\ pending'[q] = pending[q] /\ status'[q] = status[q] /\ held'[q] = held[q]
        /\ q \notin broken' <=> q \notin broken

\* A step of r that leaves the table alone keeps the facts about the others.
LEMMA LocalStep ==
    ASSUME FInv, NEW r \in Requests, UNCHANGED favorites, Shape',
           Others(r),
           Calls(r)', Witness(r)', Told(r)',
           pending'[r] # "none" =>
              /\ Free(r) /\ job'[r] = job[r]
              /\ pending'[r] = "insert" => favorites[Entry(r)] = Nil /\ orm'[r] # Nil
    PROVE  FInv'
<1>1. ASSUME NEW q \in Requests \ {r}  PROVE Calls(q)' /\ Witness(q)' /\ Told(q)'
  BY <1>1 DEF FInv, Calls, Witness, Told, Changing, Busy, Entry, Others
<1>2. ASSUME NEW q \in Requests  PROVE Locks(q)'
  BY <1>2 DEF FInv, Locks, Free, Entry, Others
<1> QED
  BY <1>1, <1>2 DEF FInv

-----------------------------------------------------------------------------
(* The actions. *)

LEMMA BeginKeeps ==
    ASSUME FInv, NEW r \in Requests, Begin(r)  PROVE FInv'
<1>1. PICK j \in Script[r] :
         /\ job' = [job EXCEPT ![r] = j]
         /\ held' = [held EXCEPT ![r] = IF j.op = "list" \/ j.profile = Nil THEN {}
                                        ELSE {Presence(favorites[<<j.profile, j.film>>])}]
  BY DEF Begin
<1>2. j \in Job  BY FavoritesAssumption
<1>3. /\ pc[r] = "idle" /\ pc' = [pc EXCEPT ![r] = "load"]
      /\ UNCHANGED <<favorites, now, began, orm, pending, status, broken>>
  BY DEF Begin, Goto, db, session
<1>4. Shape'
  BY <1>1, <1>2, <1>3 DEF FInv, Shape, Labels, Presence
<1>5. pending[r] = "none" /\ status[r] = 0
  BY <1>3 DEF FInv, Shape, Calls
<1>6. Calls(r)' /\ Witness(r)' /\ Told(r)'
  BY <1>1, <1>2, <1>3, <1>5 DEF FInv, Shape, Calls, Witness, Told, Changing, Busy, Entry
<1>7. Others(r)
  BY <1>1, <1>3, <1>4, <1>5, <1>6 DEF FInv, Shape, Others
<1> QED
  BY <1>1, <1>3, <1>4, <1>5, <1>6, <1>7, LocalStep

LEMMA LoadKeeps ==
    ASSUME FInv, NEW r \in Requests, GetProfileOrRaise(r)  PROVE FInv'
<1>1. /\ pc[r] = "load"
      /\ began' = [began EXCEPT ![r] = now]
      /\ UNCHANGED <<favorites, now, job, orm, pending, held, broken>>
  BY DEF GetProfileOrRaise, db
<1>2. pending[r] = "none" /\ status[r] = 0 /\ job[r] \in Job
  BY <1>1, CallType DEF FInv, Shape, Calls
<1>3. Shape'
  BY <1>1 DEF FInv, Shape, GetProfileOrRaise, Answer, Goto, Labels
<1>4. Calls(r)' /\ Witness(r)' /\ Told(r)'
  <2>1. CASE job[r].profile = Nil
    <3>1. pc' = [pc EXCEPT ![r] = "done"] /\ status' = [status EXCEPT ![r] = 404]
      BY <2>1 DEF GetProfileOrRaise, Answer
    <3> QED
      BY <1>1, <1>2, <3>1 DEF FInv, Shape, Calls, Witness, Told, Changing, Busy
  <2>2. CASE job[r].profile # Nil
    <3>1. /\ pc' = [pc EXCEPT ![r] = IF job[r].op = "list" THEN "list" ELSE "select"]
          /\ UNCHANGED status
      BY <2>2 DEF GetProfileOrRaise, Goto
    <3>2. job[r].op \in {"add", "delete", "list"} /\ job[r] \in Script[r]
      BY <1>1, <1>2 DEF FInv, Calls, Job
    <3>3. Calls(r)' /\ Told(r)'
      BY <1>1, <1>2, <2>2, <3>1, <3>2 DEF FInv, Shape, Calls, Told
    <3>4. Witness(r)'
      BY <1>1, <1>2, <2>2, <3>1 DEF FInv, Shape, Witness, Changing, Busy, Entry
    <3> QED
      BY <3>3, <3>4
  <2> QED
    BY <2>1, <2>2
<1>5. Others(r)
  BY <1>1 DEF GetProfileOrRaise, Answer, Goto, FInv, Shape, Others
<1> QED
  BY <1>1, <1>2, <1>3, <1>4, <1>5, LocalStep

LEMMA SelectKeeps ==
    ASSUME FInv, NEW r \in Requests, SelectFavorite(r)  PROVE FInv'
<1>1. /\ pc[r] = "select"
      /\ orm' = [orm EXCEPT ![r] = favorites[Entry(r)]]
      /\ pc' = [pc EXCEPT ![r] =
                  IF (favorites[Entry(r)] # Nil) = (job[r].op = "delete") THEN "flush"
                  ELSE "commit"]
      /\ UNCHANGED <<favorites, now, began, job, pending, status, held, broken>>
  BY DEF SelectFavorite, Goto, db
<1>2. /\ pending[r] = "none" /\ status[r] = 0 /\ job[r] \in Script[r]
      /\ job[r].op \in {"add", "delete"} /\ job[r].profile # Nil
      /\ Presence(favorites[Entry(r)]) \in held[r]
  BY <1>1 DEF FInv, Shape, Calls, Witness, Changing, Busy
<1>3. Shape'
  BY <1>1 DEF FInv, Shape, Labels
<1>4. Calls(r)' /\ Told(r)'
  BY <1>1, <1>2 DEF FInv, Shape, Calls, Told
<1>5. Witness(r)'
  BY <1>1, <1>2 DEF FInv, Shape, Witness, Changing, Busy, Entry, Presence
<1>6. Others(r)
  BY <1>1, <1>2, <1>3, <1>4, <1>5 DEF FInv, Shape, Others
<1> QED
  BY <1>1, <1>2, <1>3, <1>4, <1>5, <1>6, LocalStep

\* An exception ends the request; what is recorded of it stays.
LEMMA AbortKeeps ==
    ASSUME FInv, NEW r \in Requests, Busy(r), Abort(r), UNCHANGED <<favorites, now, began, job, held>>,
           \A q \in Requests \ {r} : q \notin broken' <=> q \notin broken,
           r \in broken' \/ (job[r].op = "add" /\ {"present", "absent"} \subseteq held[r])
    PROVE  FInv'
<1>1. /\ pc' = [pc EXCEPT ![r] = "done"]
      /\ status' = [status EXCEPT ![r] = 500]
      /\ pending' = [pending EXCEPT ![r] = "none"]
      /\ UNCHANGED orm
  BY DEF Abort, Answer
<1>2. Shape'
  BY <1>1 DEF FInv, Shape, Labels
<1>3. Calls(r)' /\ Witness(r)' /\ Told(r)'
  BY <1>1 DEF FInv, Shape, Calls, Witness, Told, Changing, Busy
<1>4. Others(r) /\ pending'[r] = "none"
  BY <1>1, <1>2, <1>3 DEF FInv, Shape, Others
<1> QED
  BY <1>1, <1>2, <1>3, <1>4, LocalStep

LEMMA InsertKeeps ==
    ASSUME FInv, NEW r \in Requests, FlushInsert(r)  PROVE FInv'
<1>1. /\ pc[r] = "flush" /\ job[r].op = "add" /\ Free(r)
      /\ UNCHANGED <<favorites, now, began, job, held, broken>>
  BY DEF FlushInsert, db
<1>2. /\ pending[r] = "none" /\ status[r] = 0 /\ job[r] \in Script[r]
      /\ job[r].profile # Nil /\ "absent" \in held[r]
      /\ Presence(favorites[Entry(r)]) \in held[r]
  BY <1>1 DEF FInv, Shape, Calls, Witness, Changing, Busy
<1>3. CASE favorites[Entry(r)] # Nil
  <2>1. Abort(r) /\ Busy(r)  BY <1>1, <1>3 DEF FlushInsert, Busy
  <2> QED  BY <1>1, <1>2, <1>3, <2>1, AbortKeeps DEF Presence
<1>4. CASE favorites[Entry(r)] = Nil
  <2>1. /\ orm' = [orm EXCEPT ![r] = [by |-> r, at |-> began[r]]]
        /\ pending' = [pending EXCEPT ![r] = "insert"]
        /\ pc' = [pc EXCEPT ![r] = "commit"]
        /\ UNCHANGED status
    BY <1>4 DEF FlushInsert, Goto
  <2>2. orm'[r] # Nil
    BY <2>1, FavoritesAssumption DEF FInv, Shape, Row
  <2>3. Shape'
    BY <1>1, <2>1 DEF FInv, Shape, Labels
  <2>4. Calls(r)' /\ Witness(r)' /\ Told(r)'
    BY <1>1, <1>2, <2>1 DEF FInv, Shape, Calls, Witness, Told, Changing, Busy, Entry
  <2>5. Others(r)
    BY <1>1, <1>2, <1>4, <2>1, <2>2, <2>3, <2>4 DEF FInv, Shape, Others
  <2> QED
    BY <1>1, <1>2, <1>4, <2>1, <2>2, <2>3, <2>4, <2>5, LocalStep
<1> QED
  BY <1>3, <1>4

LEMMA DeleteKeeps ==
    ASSUME FInv, NEW r \in Requests, FlushDelete(r)  PROVE FInv'
<1>1. /\ pc[r] = "flush" /\ job[r].op = "delete" /\ Free(r)
      /\ pc' = [pc EXCEPT ![r] = "commit"]
      /\ UNCHANGED <<favorites, now, began, job, orm, status, held, broken>>
  BY DEF FlushDelete, Goto, db
<1>2. /\ pending[r] = "none" /\ status[r] = 0 /\ job[r] \in Script[r]
      /\ job[r].profile # Nil
      /\ Presence(favorites[Entry(r)]) \in held[r]
      /\ favorites[Entry(r)] # orm[r] => "absent" \in held[r]
  BY <1>1 DEF FInv, Shape, Calls, Witness, Changing, Busy
<1>3. \/ pending' = [pending EXCEPT ![r] = "delete"]
      \/ favorites[Entry(r)] # orm[r] /\ UNCHANGED pending
  BY DEF FlushDelete
<1>4. Shape'
  BY <1>1, <1>3 DEF FInv, Shape, Labels
<1>5. Calls(r)' /\ Witness(r)' /\ Told(r)'
  BY <1>1, <1>2, <1>3 DEF FInv, Shape, Calls, Witness, Told, Changing, Busy, Entry
<1>6. Others(r) /\ pending'[r] \in {"none", "delete"}
  BY <1>1, <1>2, <1>3, <1>4, <1>5 DEF FInv, Shape, Others
<1> QED
  BY <1>1, <1>2, <1>3, <1>4, <1>5, <1>6, LocalStep

LEMMA ListingKeeps ==
    ASSUME FInv, NEW r \in Requests, ListByProfile(r) \/ CountByProfile(r)  PROVE FInv'
<1>1. /\ pc[r] \in {"list", "count"}
      /\ pc' = [pc EXCEPT ![r] = IF pc[r] = "list" THEN "count" ELSE "commit"]
      /\ UNCHANGED <<favorites, now, began, job, orm, pending, status, held, broken>>
  BY DEF ListByProfile, CountByProfile, Goto, db, session
<1>2. /\ pending[r] = "none" /\ status[r] = 0 /\ job[r] \in Script[r]
      /\ job[r].profile # Nil /\ job[r].op = "list"
  BY <1>1 DEF FInv, Shape, Calls
<1>3. Shape'
  BY <1>1 DEF FInv, Shape, Labels
<1>4. Calls(r)' /\ Witness(r)' /\ Told(r)'
  BY <1>1, <1>2 DEF FInv, Shape, Calls, Witness, Told, Changing, Busy, Entry
<1>5. Others(r)
  BY <1>1, <1>2, <1>3, <1>4 DEF FInv, Shape, Others
<1> QED
  BY <1>1, <1>2, <1>3, <1>4, <1>5, LocalStep

\* COMMIT publishes the write: every other request on the entry is told what it
\* has become, and those that hold a write are on other entries.
LEMMA CommitKeeps ==
    ASSUME FInv, NEW r \in Requests, Commit(r)  PROVE FInv'
<1>1. /\ pc[r] = "commit"
      /\ favorites' = Committed(r)
      /\ pending' = [pending EXCEPT ![r] = "none"]
      /\ held' = [q \in Requests |->
                    IF held[q] # {} /\ Busy(q) THEN held[q] \cup {Presence(favorites'[Entry(q)])}
                    ELSE held[q]]
      /\ UNCHANGED <<now, job, began, orm, broken>>
  BY DEF Commit
<1>2. /\ job[r] \in Job /\ job[r].profile # Nil /\ status[r] = 0
      /\ job[r].op # "list" => Entry(r) \in Entries /\ Changing(r)
  BY <1>1, CallType DEF FInv, Calls, Job, Changing, Busy
<1>3. /\ \/ job[r].op = "add" /\ pc' = [pc EXCEPT ![r] = "refresh"] /\ UNCHANGED status
         \/ /\ job[r].op = "delete" /\ pc' = [pc EXCEPT ![r] = "done"]
            /\ status' = [status EXCEPT ![r] = 204]
         \/ /\ job[r].op = "list" /\ pc' = [pc EXCEPT ![r] = "done"]
            /\ status' = [status EXCEPT ![r] = 200]
  BY DEF Commit, Goto, Answer
<1>4. \/ pending[r] = "none" /\ favorites' = favorites
      \/ /\ pending[r] = "insert" /\ job[r].op = "add" /\ orm[r] # Nil
         /\ favorites[Entry(r)] = Nil
         /\ favorites' = [favorites EXCEPT ![Entry(r)] = orm[r]]
      \/ /\ pending[r] = "delete" /\ job[r].op = "delete"
         /\ favorites' = [favorites EXCEPT ![Entry(r)] = Nil]
  BY <1>1 DEF FInv, Shape, Calls, Locks, Committed
<1>5. Shape'
  BY <1>1, <1>3, <1>4 DEF FInv, Shape, Labels, Presence
<1>6. ASSUME NEW q \in Requests, Changing(q)
      PROVE  held'[q] = held[q] \cup {Presence(favorites'[Entry(q)])}
  BY <1>1, <1>6 DEF FInv, Witness, Changing
<1>7. ASSUME NEW q \in Requests  PROVE held[q] \subseteq held'[q]
  BY <1>1 DEF FInv, Shape
<1>8. \A q \in Requests \ {r} : pc'[q] = pc[q] /\ status'[q] = status[q] /\ pending'[q] = pending[q]
  BY <1>1, <1>3 DEF FInv, Shape
<1>9. pending'[r] = "none"
  BY <1>1 DEF FInv, Shape
<1>10. ASSUME NEW q \in Requests  PROVE Calls(q)'
  <2>1. CASE q = r
    BY <1>1, <1>2, <1>3, <1>9, <2>1 DEF FInv, Shape, Calls
  <2>2. CASE q # r
    BY <1>1, <1>8, <2>2 DEF FInv, Calls
  <2> QED
    BY <2>1, <2>2
<1>11. ASSUME NEW q \in Requests  PROVE Locks(q)'
  <2>1. CASE pending'[q] # "none"
    <3>1. q # r /\ pending[q] = pending'[q] /\ Free(q)
      BY <1>8, <1>9, <2>1 DEF FInv, Locks
    <3>2. Free(q)'
      BY <1>1, <1>8, <1>9, <3>1 DEF Free, Entry
    <3>3. pending[r] # "none" => Entry(q) # Entry(r)
      BY <3>1 DEF Free
    <3>4. pending[q] = "insert" => favorites'[Entry(q)] = favorites[Entry(q)]
      <4>1. pending[q] = "insert" => Entry(q) \in Entries
        BY CallType DEF FInv, Calls
      <4> QED
        BY <1>4, <3>3, <4>1 DEF FInv, Shape
    <3> QED
      BY <1>1, <3>1, <3>2, <3>4 DEF FInv, Locks, Entry
  <2> QED
    BY <2>1 DEF Locks
<1>12. ASSUME NEW q \in Requests  PROVE Witness(q)'
  <2>1. CASE q = r
    <3>1. SUFFICES ASSUME job[r].op = "add"  PROVE Witness(r)'
      BY <1>1, <1>2, <1>3, <2>1, <1>5 DEF Witness, Changing, Busy, Shape, FInv, Job
    <3>2. pc'[r] = "refresh"
      BY <1>3, <3>1 DEF FInv, Shape
    <3>3. Presence(favorites'[Entry(r)]) \in held'[r]
      BY <1>2, <1>6, <3>1
    <3>4. "present" \in held'[r]
      <4>1. CASE pending[r] = "none"
        BY <1>1, <1>2, <1>7, <3>1, <4>1 DEF FInv, Witness
      <4>2. CASE pending[r] # "none"
        BY <1>2, <1>4, <3>1, <3>3, <4>2 DEF FInv, Shape, Presence
      <4> QED
        BY <4>1, <4>2
    <3> QED
      BY <1>1, <3>2, <3>3, <3>4 DEF Witness, Entry
  <2>2. CASE q # r
    <3>1. SUFFICES ASSUME Changing(q)  PROVE Witness(q)'
      BY <1>1, <1>8, <2>2 DEF Witness, Changing, Busy
    <3>2. Presence(favorites'[Entry(q)]) \in held'[q]
      BY <1>6, <3>1
    <3>3. pc[q] = "flush" /\ job[q].op = "delete" /\ favorites'[Entry(q)] # orm[q] =>
             "absent" \in held'[q]
      <4>1. SUFFICES ASSUME pc[q] = "flush", job[q].op = "delete", favorites'[Entry(q)] # orm[q]
                     PROVE  "absent" \in held'[q]
        OBVIOUS
      <4>2. CASE favorites[Entry(q)] # orm[q]
        BY <1>7, <3>1, <4>1, <4>2 DEF FInv, Witness
      <4>3. CASE favorites[Entry(q)] = orm[q]
        <5>1. orm[q] # Nil /\ Entry(q) \in Entries
          BY <3>1, <4>1, CallType DEF FInv, Witness, Changing
        <5>2. favorites'[Entry(q)] = Nil
          BY <1>2, <1>4, <4>1, <4>3, <5>1 DEF FInv, Shape
        <5> QED
          BY <3>2, <5>2 DEF Presence
      <4> QED
        BY <4>2, <4>3
    <3> QED
      BY <1>1, <1>7, <1>8, <2>2, <3>1, <3>2, <3>3 DEF FInv, Witness, Entry
  <2> QED
    BY <2>1, <2>2
<1>13. ASSUME NEW q \in Requests  PROVE Told(q)'
  <2>1. CASE q = r
    <3>1. CASE job[r].op = "delete"
      <4>1. status'[r] = 204
        BY <1>3, <3>1 DEF FInv, Shape
      <4>2. "absent" \in held'[r]
        <5>1. CASE pending[r] = "none"
          BY <1>1, <1>2, <1>7, <3>1, <5>1 DEF FInv, Witness
        <5>2. CASE pending[r] # "none"
          BY <1>2, <1>4, <1>6, <3>1, <5>2 DEF FInv, Shape, Presence
        <5> QED
          BY <5>1, <5>2
      <4> QED
        BY <2>1, <4>1, <4>2 DEF Told
    <3>2. CASE job[r].op # "delete"
      BY <1>2, <1>3, <2>1, <3>2 DEF FInv, Shape, Told
    <3> QED
      BY <3>1, <3>2
  <2>2. CASE q # r
    BY <1>1, <1>7, <1>8, <2>2 DEF FInv, Told
  <2> QED
    BY <2>1, <2>2
<1> QED
  BY <1>5, <1>10, <1>11, <1>12, <1>13 DEF FInv

LEMMA RefreshKeeps ==
    ASSUME FInv, NEW r \in Requests, Refresh(r)  PROVE FInv'
<1>1. /\ pc[r] = "refresh"
      /\ UNCHANGED <<favorites, now, began, job, held, broken>>
  BY DEF Refresh, db
<1>2. /\ pending[r] = "none" /\ status[r] = 0 /\ job[r] \in Script[r]
      /\ job[r].profile # Nil /\ job[r].op = "add" /\ "present" \in held[r]
      /\ Presence(favorites[Entry(r)]) \in held[r]
  BY <1>1 DEF FInv, Shape, Calls, Witness, Changing, Busy
<1>3. CASE favorites[Entry(r)] = Nil
  <2>1. Abort(r) /\ Busy(r)  BY <1>1, <1>3 DEF Refresh, Busy
  <2> QED  BY <1>1, <1>2, <1>3, <2>1, AbortKeeps DEF Presence
<1>4. CASE favorites[Entry(r)] # Nil
  <2>1. /\ orm' = [orm EXCEPT ![r] = favorites[Entry(r)]]
        /\ pc' = [pc EXCEPT ![r] = "done"]
        /\ status' = [status EXCEPT ![r] = 201]
        /\ UNCHANGED pending
    BY <1>4 DEF Refresh, Answer
  <2>2. Shape'
    BY <1>1, <2>1 DEF FInv, Shape, Labels
  <2>3. Calls(r)' /\ Witness(r)' /\ Told(r)'
    BY <1>1, <1>2, <2>1 DEF FInv, Shape, Calls, Witness, Told, Changing, Busy
  <2>4. Others(r) /\ pending'[r] = "none"
    BY <1>1, <1>2, <2>1 DEF FInv, Shape, Others
  <2> QED
    BY <1>1, <2>2, <2>3, <2>4, LocalStep
<1> QED
  BY <1>3, <1>4

LEMMA FailKeeps ==
    ASSUME FInv, NEW r \in Requests, Fail(r)  PROVE FInv'
BY AbortKeeps DEF Fail, db

\* The clock, and requests that are over.
LEMMA IdleKeeps ==
    ASSUME FInv, Tick \/ UNCHANGED vars  PROVE FInv'
<1>1. now' \in Times /\ UNCHANGED <<db, pc, job, session, status, held, broken>>
  BY FavoritesAssumption DEF Tick, vars, FInv, Shape, Times
<1> QED
  BY <1>1 DEF FInv, Shape, Calls, Locks, Witness, Told, Changing, Busy, Entry, Free, db, session

-----------------------------------------------------------------------------
LEMMA Invariant == Spec => []FInv
<1>1. ASSUME FInv, [Next]_vars  PROVE FInv'
  <2>1. CASE Finished \/ Tick \/ UNCHANGED vars
    BY <1>1, <2>1, IdleKeeps DEF Finished
  <2>2. ASSUME NEW r \in Requests, Begin(r) \/ Step(r) \/ Fail(r)  PROVE FInv'
    BY <1>1, <2>2, BeginKeeps, LoadKeeps, SelectKeeps, InsertKeeps, DeleteKeeps,
       ListingKeeps, CommitKeeps, RefreshKeeps, FailKeeps DEF Step
  <2> QED
    BY <1>1, <2>1, <2>2 DEF Next
<1> QED
  BY <1>1, InitInvariant, PTL DEF Spec

\* Whoever is told 201 had the favorite, whoever is told 204 did not, at some moment
\* between the request and the answer.
THEOREM EffectsWereSeen == Spec => []TookEffect
<1>1. FInv => TookEffect  BY DEF FInv, Told, TookEffect
<1> QED  BY <1>1, Invariant, PTL

\* Without a failing statement only an addition is refused, and only when its entry
\* changed under it.
THEOREM RefusalsAreRaces == Spec => []OnlyRacesFail
<1>1. FInv => OnlyRacesFail  BY DEF FInv, Told, OnlyRacesFail
<1> QED  BY <1>1, Invariant, PTL

-----------------------------------------------------------------------------
(* The audit trail. *)

Adds(e) == Audited(e, "favorite_add")
Dels(e) == Audited(e, "favorite_delete")
Present(e) == IF favorites[e] = Nil THEN {} ELSE {favorites[e].by}

Accounted(e) ==
    /\ IsFiniteSet(Adds(e)) /\ IsFiniteSet(Dels(e))
    /\ Present(e) \subseteq Adds(e)
    /\ Cardinality(Adds(e) \ Present(e)) <= Cardinality(Dels(e))

\* Only a committed request is audited; an insertion bears the mark of its request,
\* and what is deleted had been loaded, which is what names its audit row.
AInv ==
    /\ \A a \in audit : a.req \in Requests /\ pc[a.req] \in {"refresh", "done"}
    /\ \A r \in Requests : /\ pending[r] = "insert" => orm[r].by = r
                           /\ pending[r] = "delete" => orm[r] # Nil
    /\ \A e \in Entries : Accounted(e)

LEMMA InitAccounts == Init => AInv
<1> SUFFICES ASSUME Init  PROVE AInv  OBVIOUS
<1>1. ASSUME NEW e \in Entries  PROVE Accounted(e)
  <2>1. Adds(e) = {} /\ Dels(e) = {} /\ Present(e) = {}
    BY DEF Init, Adds, Dels, Audited, Present
  <2>2. IsFiniteSet({}) /\ Cardinality({}) = 0  BY FS_EmptySet
  <2>3. {} \ {} = {}  OBVIOUS
  <2> QED  BY <2>1, <2>2, <2>3 DEF Accounted
<1> QED  BY <1>1 DEF Init, AInv

\* Steps other than COMMIT.
LEMMA AccountsFrame ==
    ASSUME FInv, AInv, NEW r \in Requests, UNCHANGED <<favorites, audit>>,
           \A q \in Requests \ {r} : /\ pc'[q] = pc[q] /\ job'[q] = job[q]
                                     /\ orm'[q] = orm[q] /\ pending'[q] = pending[q],
           pc[r] # "idle" => job'[r] = job[r],
           pc[r] \in {"refresh", "done"} => pc'[r] \in {"refresh", "done"},
           pending'[r] = "insert" => orm'[r].by = r,
           pending'[r] = "delete" => orm'[r] # Nil
    PROVE  AInv'
<1>1. \A e, a : Audited(e, a)' = Audited(e, a)
  <2> SUFFICES ASSUME NEW e, NEW a, NEW q \in Requests, [req |-> q, action |-> a] \in audit
               PROVE  Entry(q)' = Entry(q)
    BY DEF Audited
  <2>1. [req |-> q, action |-> a].req = q  OBVIOUS
  <2>2. pc[q] # "idle"  BY <2>1 DEF AInv
  <2> QED  BY <2>2 DEF Entry
<1>2. \A e \in Entries : Accounted(e)'
  BY <1>1 DEF AInv, Accounted, Adds, Dels, Present
<1> QED  BY <1>2 DEF AInv

\* One entry at the COMMIT of r, whose audit row names it.
LEMMA EntryAtCommit ==
    ASSUME NEW A, NEW D, NEW P, IsFiniteSet(A), IsFiniteSet(D), P \subseteq A, NEW r, r \notin A, r \notin D,
           Cardinality(A \ P) <= Cardinality(D)
    PROVE  /\ IsFiniteSet(A \cup {r}) /\ IsFiniteSet(D \cup {r})
           /\ P = {} => Cardinality((A \cup {r}) \ {r}) <= Cardinality(D)
           /\ Cardinality(A \ P) <= Cardinality(D \cup {r})
           /\ \A x : P = {x} => Cardinality(A \ {}) <= Cardinality(D \cup {r})
<1>1. IsFiniteSet(A \ P)  BY FS_Subset
<1>2. /\ IsFiniteSet(A \cup {r}) /\ IsFiniteSet(D \cup {r})
      /\ Cardinality(D \cup {r}) = Cardinality(D) + 1
  BY FS_AddElement
<1>3. Cardinality(A) \in Nat /\ Cardinality(D) \in Nat /\ Cardinality(A \ P) \in Nat
  BY <1>1, FS_CardinalityType
<1>4. ASSUME NEW x, P = {x}  PROVE Cardinality(A) = Cardinality(A \ P) + 1
  <2>1. x \in A  BY <1>4
  <2>2. Cardinality(A \ {x}) = Cardinality(A) - 1  BY <2>1, FS_RemoveElement
  <2> QED  BY <1>3, <1>4, <2>2
<1>5. (A \cup {r}) \ {r} = A /\ A \ {} = A  OBVIOUS
<1>6. P = {} => Cardinality((A \cup {r}) \ {r}) <= Cardinality(D)
  BY <1>5
<1>7. Cardinality(A \ P) <= Cardinality(D \cup {r})  BY <1>2, <1>3
<1>8. ASSUME NEW x, P = {x}  PROVE Cardinality(A \ {}) <= Cardinality(D \cup {r})
  <2>1. Cardinality(A) = Cardinality(A \ P) + 1  BY <1>4, <1>8
  <2>2. Cardinality(A) <= Cardinality(D) + 1  BY <1>3, <2>1
  <2> QED  BY <1>2, <1>5, <2>2
<1> QED  BY <1>2, <1>6, <1>7, <1>8

LEMMA CommitAccounts ==
    ASSUME FInv, AInv, NEW r \in Requests, Commit(r)  PROVE AInv'
<1>1. /\ pc[r] = "commit" /\ audit' = audit \cup {[req |-> r, action |-> Action(r)]}
      /\ favorites' = Committed(r) /\ pending' = [pending EXCEPT ![r] = "none"]
      /\ UNCHANGED <<job, orm>>
      /\ pc' \in {[pc EXCEPT ![r] = "refresh"], [pc EXCEPT ![r] = "done"]}
  BY DEF Commit, Goto, Answer
<1>2. /\ pc'[r] \in {"refresh", "done"} /\ pending'[r] = "none"
      /\ \A q \in Requests \ {r} : pc'[q] = pc[q] /\ pending'[q] = pending[q]
  BY <1>1 DEF FInv, Shape
<1>3. \A a \in audit' : a.req \in Requests /\ pc'[a.req] \in {"refresh", "done"}
  <2>1. \A a \in audit' : a \in audit \/ a.req = r  BY <1>1
  <2> QED  BY <1>1, <1>2, <2>1 DEF AInv
<1>4. \A e, a : Audited(e, a)' = IF e = Entry(r) /\ a = Action(r) THEN Audited(e, a) \cup {r}
                                 ELSE Audited(e, a)
  <2> SUFFICES ASSUME NEW e, NEW a, NEW q \in Requests
               PROVE  [req |-> q, action |-> a] \in audit' <=>
                          [req |-> q, action |-> a] \in audit \/ (q = r /\ a = Action(r))
    BY <1>1 DEF Audited, Entry
  <2>1. [req |-> q, action |-> a] = [req |-> r, action |-> Action(r)] <=> q = r /\ a = Action(r)
    <3>1. /\ [req |-> q, action |-> a].req = q /\ [req |-> q, action |-> a].action = a
          /\ [req |-> r, action |-> Action(r)].req = r
          /\ [req |-> r, action |-> Action(r)].action = Action(r)
      OBVIOUS
    <3> QED  BY <3>1
  <2> QED  BY <1>1, <2>1
<1>5. \A e, a : r \notin Audited(e, a)
  <2> SUFFICES ASSUME NEW a, [req |-> r, action |-> a] \in audit  PROVE FALSE  BY DEF Audited
  <2>1. [req |-> r, action |-> a].req = r  OBVIOUS
  <2> QED  BY <1>1, <2>1 DEF AInv
<1>6. /\ job[r].op \in {"add", "delete", "list"}
      /\ job[r].op # "list" => Entry(r) \in Entries
  BY <1>1, CallType DEF FInv, Calls, Job
<1>7. /\ pending[r] = "insert" => /\ job[r].op = "add" /\ Action(r) = "favorite_add"
                                  /\ favorites[Entry(r)] = Nil /\ orm[r] # Nil /\ orm[r].by = r
      /\ pending[r] = "delete" => job[r].op = "delete" /\ Action(r) = "favorite_delete"
      /\ pending[r] = "none" => Action(r) # "favorite_add"
      /\ pending[r] \in {"none", "insert", "delete"}
  <2>1. pending[r] \in {"none", "insert", "delete"}  BY DEF FInv, Shape
  <2>2. CASE pending[r] = "insert"
    <3>1. job[r].op = "add"  BY <2>2 DEF FInv, Calls
    <3>2. Action(r) = "favorite_add"  BY <2>2, <3>1 DEF Action
    <3>3. favorites[Entry(r)] = Nil /\ orm[r] # Nil  BY <2>2 DEF FInv, Locks
    <3> QED  BY <2>2, <3>1, <3>2, <3>3 DEF AInv
  <2>3. CASE pending[r] = "delete"
    <3>1. job[r].op = "delete"  BY <2>3 DEF FInv, Calls
    <3>2. orm[r] # Nil  BY <2>3 DEF AInv
    <3>3. Action(r) = "favorite_delete"  BY <3>1, <3>2 DEF Action
    <3> QED  BY <2>3, <3>1, <3>3
  <2>4. CASE pending[r] = "none"
    <3>1. Action(r) # "favorite_add"  BY <1>6, <2>4 DEF Action
    <3> QED  BY <2>4, <3>1
  <2> QED  BY <2>1, <2>2, <2>3, <2>4
<1>8. ASSUME NEW e \in Entries  PROVE Accounted(e)'
  <2>1. Accounted(e) /\ r \notin Adds(e) /\ r \notin Dels(e)  BY <1>5 DEF AInv, Adds, Dels
  <2>2. IsFiniteSet(Adds(e)) /\ IsFiniteSet(Dels(e)) /\ Present(e) \subseteq Adds(e)
        /\ Cardinality(Adds(e) \ Present(e)) <= Cardinality(Dels(e))
    BY <2>1 DEF Accounted
  <2>3. /\ IsFiniteSet(Adds(e) \cup {r}) /\ IsFiniteSet(Dels(e) \cup {r})
        /\ Present(e) = {} => Cardinality((Adds(e) \cup {r}) \ {r}) <= Cardinality(Dels(e))
        /\ Cardinality(Adds(e) \ Present(e)) <= Cardinality(Dels(e) \cup {r})
        /\ \A x : Present(e) = {x} => Cardinality(Adds(e) \ {}) <= Cardinality(Dels(e) \cup {r})
    BY <2>1, <2>2, EntryAtCommit
  <2>4. CASE pending[r] = "insert" /\ e = Entry(r)
    <3>1. Adds(e)' = Adds(e) \cup {r} /\ Dels(e)' = Dels(e)
      BY <1>4, <1>7, <2>4 DEF Adds, Dels
    <3>2. favorites'[e] = orm[r]  BY <1>1, <2>4 DEF Committed, FInv, Shape
    <3>3. Present(e) = {} /\ Present(e)' = {r}  BY <1>7, <2>4, <3>2 DEF Present
    <3> QED  BY <2>2, <2>3, <3>1, <3>3 DEF Accounted
  <2>5. CASE pending[r] = "delete" /\ e = Entry(r)
    <3>1. Adds(e)' = Adds(e) /\ Dels(e)' = Dels(e) \cup {r}
      BY <1>4, <1>7, <2>5 DEF Adds, Dels
    <3>2. favorites'[e] = Nil  BY <1>1, <2>5 DEF Committed, FInv, Shape
    <3>3. Present(e)' = {}  BY <3>2 DEF Present
    <3>4. Present(e) = {} \/ \E x : Present(e) = {x}  BY DEF Present
    <3>5. Cardinality(Adds(e) \ {}) <= Cardinality(Dels(e) \cup {r})  BY <2>3, <3>4
    <3> QED  BY <2>2, <2>3, <3>1, <3>3, <3>5 DEF Accounted
  <2>6. CASE pending[r] = "none" \/ e # Entry(r)
    <3>1. favorites'[e] = favorites[e]  BY <1>1, <1>7, <2>6 DEF Committed, FInv, Shape
    <3>2. Present(e)' = Present(e)  BY <3>1 DEF Present
    <3>3. Adds(e)' = Adds(e) /\ Dels(e)' \in {Dels(e), Dels(e) \cup {r}}
      BY <1>4, <1>7, <2>6 DEF Adds, Dels
    <3> QED  BY <2>2, <2>3, <3>2, <3>3 DEF Accounted
  <2> QED  BY <1>7, <2>4, <2>5, <2>6
<1> QED  BY <1>1, <1>2, <1>3, <1>8 DEF AInv

LEMMA AccountsStep == FInv /\ AInv /\ [Next]_vars => AInv'
<1> SUFFICES ASSUME FInv, AInv, [Next]_vars  PROVE AInv'  OBVIOUS
<1>1. CASE Finished \/ Tick \/ UNCHANGED vars
  <2>1. UNCHANGED <<favorites, audit, pc, job, orm, pending>>
    BY <1>1 DEF Finished, Tick, vars, db, session
  <2> QED  BY <2>1 DEF AInv, Accounted, Adds, Dels, Present, Audited, Entry
<1> USE DEF Goto, Answer, db, session
<1>a. ASSUME NEW r \in Requests, Busy(r), Abort(r), UNCHANGED <<favorites, audit, job>>  PROVE AInv'
  <2>1. /\ pc' = [pc EXCEPT ![r] = "done"] /\ pending' = [pending EXCEPT ![r] = "none"]
        /\ UNCHANGED orm
    BY <1>a DEF Abort
  <2>2. pc'[r] = "done" /\ pending'[r] = "none"  BY <2>1 DEF FInv, Shape
  <2>3. \A q \in Requests \ {r} : pc'[q] = pc[q] /\ pending'[q] = pending[q]
    BY <2>1 DEF FInv, Shape
  <2> QED  BY <1>a, <2>1, <2>2, <2>3, AccountsFrame
<1>2. ASSUME NEW r \in Requests, Begin(r)  PROVE AInv'
  <2>1. /\ UNCHANGED <<favorites, audit, orm, pending>> /\ pc[r] = "idle" /\ pc'[r] = "load"
        /\ \A q \in Requests \ {r} : pc'[q] = pc[q] /\ job'[q] = job[q]
    BY <1>2 DEF Begin, FInv, Shape
  <2> QED  BY <2>1, AccountsFrame DEF AInv
<1>3. ASSUME NEW r \in Requests, GetProfileOrRaise(r)  PROVE AInv'
  <2>1. /\ UNCHANGED <<favorites, audit, job, orm, pending>> /\ pc[r] = "load"
        /\ \A q \in Requests \ {r} : pc'[q] = pc[q]
    BY <1>3 DEF GetProfileOrRaise, FInv, Shape
  <2> QED  BY <2>1, AccountsFrame DEF AInv
<1>4. ASSUME NEW r \in Requests, SelectFavorite(r)  PROVE AInv'
  <2>1. /\ UNCHANGED <<favorites, audit, job, pending>> /\ pc[r] = "select"
        /\ \A q \in Requests \ {r} : pc'[q] = pc[q] /\ orm'[q] = orm[q]
    BY <1>4 DEF SelectFavorite, FInv, Shape
  <2>2. pending'[r] \notin {"insert", "delete"}  BY <2>1 DEF FInv, Calls
  <2> QED  BY <2>1, <2>2, AccountsFrame
<1>5. ASSUME NEW r \in Requests, FlushInsert(r)  PROVE AInv'
  <2>0. UNCHANGED <<favorites, audit, job>> /\ pc[r] = "flush"  BY <1>5 DEF FlushInsert
  <2>1. CASE Abort(r)  BY <1>a, <2>0, <2>1 DEF Busy
  <2>2. CASE ~Abort(r)
    <3>1. /\ orm' = [orm EXCEPT ![r] = [by |-> r, at |-> began[r]]]
          /\ pending' = [pending EXCEPT ![r] = "insert"] /\ pc' = [pc EXCEPT ![r] = "commit"]
      BY <1>5, <2>2 DEF FlushInsert
    <3>2. /\ orm'[r].by = r /\ pending'[r] = "insert"
          /\ \A q \in Requests \ {r} : /\ pc'[q] = pc[q] /\ orm'[q] = orm[q]
                                       /\ pending'[q] = pending[q]
      BY <3>1 DEF FInv, Shape
    <3> QED  BY <2>0, <3>2, AccountsFrame
  <2> QED  BY <2>1, <2>2
<1>6. ASSUME NEW r \in Requests, FlushDelete(r)  PROVE AInv'
  <2>1. /\ UNCHANGED <<favorites, audit, job, orm>> /\ pc[r] = "flush" /\ job[r].op = "delete"
        /\ pending' \in {pending, [pending EXCEPT ![r] = "delete"]}
        /\ \A q \in Requests \ {r} : pc'[q] = pc[q] /\ pending'[q] = pending[q]
        /\ pending'[r] \in {pending[r], "delete"}
    BY <1>6 DEF FlushDelete, FInv, Shape
  <2>2. orm'[r] # Nil /\ pending[r] = "none"
    <3>1. job[r].profile # Nil /\ pending[r] = "none"  BY <2>1 DEF FInv, Calls, Shape
    <3> QED  BY <2>1, <3>1 DEF FInv, Witness, Changing, Busy
  <2>3. pending'[r] # "insert"  BY <2>1, <2>2
  <2> QED  BY <2>1, <2>2, <2>3, AccountsFrame
<1>7. ASSUME NEW r \in Requests, ListByProfile(r) \/ CountByProfile(r)  PROVE AInv'
  <2>1. /\ UNCHANGED <<favorites, audit, job, orm, pending>> /\ pc[r] \in {"list", "count"}
        /\ \A q \in Requests \ {r} : pc'[q] = pc[q]
    BY <1>7 DEF ListByProfile, CountByProfile, FInv, Shape
  <2> QED  BY <2>1, AccountsFrame DEF AInv
<1>8. ASSUME NEW r \in Requests, Refresh(r)  PROVE AInv'
  <2>0. UNCHANGED <<favorites, audit, job>> /\ pc[r] = "refresh"  BY <1>8 DEF Refresh
  <2>1. CASE Abort(r)  BY <1>a, <2>0, <2>1 DEF Busy
  <2>2. CASE ~Abort(r)
    <3>1. /\ pc'[r] = "done" /\ UNCHANGED pending
          /\ \A q \in Requests \ {r} : pc'[q] = pc[q] /\ orm'[q] = orm[q]
      BY <1>8, <2>2 DEF Refresh, FInv, Shape
    <3>2. pending'[r] \notin {"insert", "delete"}  BY <2>0, <3>1 DEF FInv, Calls
    <3> QED  BY <2>0, <3>1, <3>2, AccountsFrame
  <2> QED  BY <2>1, <2>2
<1>9. ASSUME NEW r \in Requests, Fail(r)  PROVE AInv'
  BY <1>9, <1>a DEF Fail
<1> QED  BY <1>1, <1>2, <1>3, <1>4, <1>5, <1>6, <1>7, <1>8, <1>9, CommitAccounts DEF Next, Step

\* AuditAccounts of Favorites.
THEOREM AuditExplainsFavorites == Spec => []AuditAccounts
<1>1. Init => FInv /\ AInv  BY InitInvariant, InitAccounts
<1>2. AInv => AuditAccounts  BY DEF AInv, Accounted, Adds, Dels, Present, AuditAccounts
<1>3. FInv /\ AInv /\ [Next]_vars => AInv'  BY AccountsStep
<1> QED  BY <1>1, <1>2, <1>3, Invariant, PTL DEF Spec

-----------------------------------------------------------------------------
(* Listings. *)

\* p holds what s holds from offset + 1 on, limit of it at most.
Pages(p, s, offset, limit) ==
    /\ \A i \in DOMAIN p : /\ i \in Nat \ {0} /\ i <= limit
                           /\ offset + i \in DOMAIN s /\ p[i] = s[offset + i]
    /\ \A i \in 1..limit : offset + i \in DOMAIN s => i \in DOMAIN p

\* A page is a part of its order.
LEMMA PageOfOrder ==
    ASSUME NEW S, IsFiniteSet(S), NEW s \in SetToSeqs(S), NEW offset \in Nat, NEW limit \in Nat,
           NEW p, p = SubSeq(s, offset + 1, MinOf(offset + limit, Len(s)))
    PROVE  /\ Cardinality(S) \in Nat /\ s \in [1..Cardinality(S) -> S] /\ IsInjective(s)
           /\ IsInjective(p) /\ ToSet(p) \subseteq S
           /\ Pages(p, s, offset, limit)
<1> DEFINE n == Cardinality(S)
<1>1. n \in Nat /\ s \in [1..n -> S] /\ \A i, j \in 1..n : i # j => s[i] # s[j]
  BY FS_CardinalityType DEF SetToSeqs
<1>2. s \in Seq(S) /\ Len(s) = n  BY <1>1
<1> HIDE DEF n
<1> DEFINE last == MinOf(offset + limit, n)
<1>3. last \in Nat /\ last <= offset + limit /\ last <= n  BY <1>1 DEF MinOf
<1>4. p = [i \in 1..(last - offset) |-> s[offset + i]]
  BY <1>1, <1>2, <1>3
<1> HIDE DEF last
<1>5. ASSUME NEW i \in DOMAIN p
      PROVE  /\ i \in Nat \ {0} /\ i <= limit /\ offset + i \in 1..n
             /\ p[i] = s[offset + i] /\ p[i] \in S
  <2>1. i \in 1..(last - offset)  BY <1>4
  <2>2. i \in Nat \ {0} /\ i <= limit /\ offset + i \in 1..n  BY <1>1, <1>3, <2>1
  <2>3. p[i] = s[offset + i]  BY <1>4, <2>1
  <2> QED  BY <1>1, <2>2, <2>3
<1>6. IsInjective(s)  BY <1>1 DEF IsInjective
<1>7. IsInjective(p)
  <2> SUFFICES ASSUME NEW i \in DOMAIN p, NEW j \in DOMAIN p, p[i] = p[j]  PROVE i = j
    BY DEF IsInjective
  <2>1. offset + i = offset + j  BY <1>1, <1>5
  <2> QED  BY <1>5, <2>1
<1>8. ToSet(p) \subseteq S  BY <1>5 DEF ToSet
<1>9. Pages(p, s, offset, limit)
  <2>1. ASSUME NEW i \in 1..limit, offset + i \in DOMAIN s  PROVE i \in DOMAIN p
    <3>1. offset + i \in 1..n  BY <1>1, <2>1
    <3>2. i <= last - offset
      <4>1. offset + limit < n => last = offset + limit  BY <1>1 DEF MinOf, last
      <4>2. ~(offset + limit < n) => last = n  BY <1>1 DEF MinOf, last
      <4> QED  BY <1>1, <1>3, <3>1, <4>1, <4>2
    <3>3. i \in 1..(last - offset)  BY <1>3, <2>1, <3>2
    <3> QED  BY <1>4, <3>3
  <2> QED  BY <1>1, <1>5, <2>1 DEF Pages
<1> QED  BY <1>1, <1>6, <1>7, <1>8, <1>9 DEF n

\* What ranks higher than f, and what ranks no lower.
Higher(S, at, f) == {g \in S : at[g] > at[f]}
NoLower(S, at, f) == {g \in S \ {f} : at[g] >= at[f]}
Ordered(s, at) == \A i, k \in DOMAIN s : i < k => at[s[i]] >= at[s[k]]

\* In every order an element comes after those that rank higher and before those that
\* rank lower; its ties may stand on either side of it.
LEMMA PlaceInOrder ==
    ASSUME NEW S, IsFiniteSet(S), NEW at \in [S -> Int], NEW s \in SetToSeqs(S),
           Ordered(s, at), NEW i \in DOMAIN s
    PROVE  /\ i \in Nat /\ s[i] \in S
           /\ Cardinality(Higher(S, at, s[i])) < i
           /\ i <= 1 + Cardinality(NoLower(S, at, s[i]))
<1> DEFINE n == Cardinality(S)
           G == Higher(S, at, s[i])
           H == NoLower(S, at, s[i])
           I == {s[j] : j \in 1..(i - 1)}
           b == [j \in 1..(i - 1) |-> s[j]]
<1>1. n \in Nat /\ s \in [1..n -> S] /\ \A j, k \in 1..n : j # k => s[j] # s[k]
  BY FS_CardinalityType DEF SetToSeqs
<1>2. s \in Surjection(1..n, S)
  <2>1. s \in Injection(1..n, S)  BY <1>1 DEF Injection, IsInjective
  <2>2. Cardinality(1..n) = n
    <3>1. n \in Nat  BY <1>1
    <3> HIDE DEF n
    <3> QED  BY <3>1, FS_Interval
  <2> QED  BY <2>1, <2>2, FS_Injection
<1>3. i \in 1..n /\ s[i] \in S  BY <1>1
<1>4. IsFiniteSet(1..(i - 1)) /\ Cardinality(1..(i - 1)) = i - 1
  <2>1. i \in Nat \ {0}  BY <1>1, <1>3
  <2>2. i - 1 \in Int /\ 1 \in Int /\ (1 > i - 1 => i - 1 = 0)  BY <2>1
  <2>3. /\ IsFiniteSet(1..(i - 1))
        /\ Cardinality(1..(i - 1)) = IF 1 > i - 1 THEN 0 ELSE (i - 1) - 1 + 1
    BY <2>2, FS_Interval
  <2> QED  BY <2>1, <2>2, <2>3
<1>5. G \subseteq I
  <2> SUFFICES ASSUME NEW g \in G  PROVE g \in I  OBVIOUS
  <2> USE DEF Higher
  <2>1. PICK j \in 1..n : s[j] = g  BY <1>2 DEF Surjection
  <2>2. ~(i < j) /\ j # i
    <3>1. at[g] \in Int /\ at[s[i]] \in Int /\ at[g] > at[s[i]]  BY <1>3
    <3> QED  BY <1>1, <1>3, <2>1, <3>1 DEF Ordered
  <2> QED  BY <1>1, <1>3, <2>1, <2>2
<1>6. Cardinality(G) <= i - 1
  <2>1. b \in Surjection(1..(i - 1), I)  BY DEF Surjection
  <2>2. IsFiniteSet(I) /\ Cardinality(I) <= i - 1
    BY <1>4, <2>1, FS_Surjection
  <2>3. IsFiniteSet(G) /\ Cardinality(G) <= Cardinality(I)
    BY <1>5, <2>2, FS_Subset
  <2>4. Cardinality(G) \in Nat /\ Cardinality(I) \in Nat  BY <2>2, <2>3, FS_CardinalityType
  <2> QED  BY <1>1, <1>3, <2>2, <2>3, <2>4
<1>7. i - 1 <= Cardinality(H) /\ Cardinality(H) \in Nat
  <2>1. IsFiniteSet(H)
    <3>1. H \in SUBSET S  BY DEF NoLower
    <3> QED  BY <3>1, FS_Subset
  <2>2. b \in [1..(i - 1) -> H]
    <3> SUFFICES ASSUME NEW j \in 1..(i - 1)  PROVE s[j] \in H  OBVIOUS
    <3>1. j \in 1..n /\ j < i  BY <1>1, <1>3
    <3>2. s[j] \in S /\ s[j] # s[i] /\ at[s[j]] >= at[s[i]]  BY <1>1, <1>3, <3>1 DEF Ordered
    <3> QED  BY <3>2 DEF NoLower
  <2>3. b \in Injection(1..(i - 1), H)
    <3>1. \A j, k \in 1..(i - 1) : b[j] = b[k] => j = k  BY <1>1, <1>3
    <3> QED  BY <2>2, <3>1 DEF Injection, IsInjective
  <2> QED  BY <1>4, <2>1, <2>3, FS_Injection, FS_CardinalityType
<1>8. Cardinality(G) \in Nat
  <2>1. G \in SUBSET S  BY DEF Higher
  <2> QED  BY <2>1, FS_Subset, FS_CardinalityType
<1> QED  BY <1>1, <1>3, <1>6, <1>7, <1>8

\* So those that rank higher bound the pages an element is on from one side, and
\* those with its ties from the other.
LEMMA PlaceOnPage ==
    ASSUME NEW S, IsFiniteSet(S), NEW at \in [S -> Int], NEW s \in SetToSeqs(S),
           Ordered(s, at), NEW offset \in Nat, NEW limit \in Nat, NEW p, Pages(p, s, offset, limit), NEW f \in S
    PROVE  LET newer == Cardinality(Higher(S, at, f))
               asNew == Cardinality(NoLower(S, at, f))
           IN  /\ newer \in Nat /\ asNew \in Nat
               /\ f \in ToSet(p) => newer < offset + limit /\ offset <= asNew
               /\ f \notin ToSet(p) => newer < offset \/ offset + limit <= asNew
<1> DEFINE newer == Cardinality(Higher(S, at, f))
           asNew == Cardinality(NoLower(S, at, f))
<1>1. newer \in Nat /\ asNew \in Nat
  <2>1. Higher(S, at, f) \in SUBSET S /\ NoLower(S, at, f) \in SUBSET S
    BY DEF Higher, NoLower
  <2> QED  BY <2>1, FS_Subset, FS_CardinalityType
<1>2. PICK i \in DOMAIN s : s[i] = f
  <2> DEFINE n == Cardinality(S)
  <2>1. n \in Nat /\ s \in Injection(1..n, S)
    BY FS_CardinalityType DEF SetToSeqs, Injection, IsInjective
  <2>2. Cardinality(1..n) = n  BY <2>1, FS_Interval
  <2>3. s \in Surjection(1..n, S)  BY <2>1, <2>2, FS_Injection
  <2> QED  BY <2>3 DEF Surjection
<1>3. i \in Nat /\ newer < i /\ i <= 1 + asNew
  <2>1. \A j \in DOMAIN s : /\ j \in Nat
                            /\ Cardinality(Higher(S, at, s[j])) < j
                            /\ j <= 1 + Cardinality(NoLower(S, at, s[j]))
    BY PlaceInOrder
  <2> QED  BY <1>2, <2>1
<1>4. i \in Nat \ {0} /\ \A j \in DOMAIN s : s[j] = f => j = i
  <2>1. Cardinality(S) \in Nat /\ s \in [1..Cardinality(S) -> S]
        /\ \A j, k \in 1..Cardinality(S) : j # k => s[j] # s[k]
    BY FS_CardinalityType DEF SetToSeqs
  <2> QED  BY <1>2, <2>1
<1> HIDE DEF newer, asNew
<1>5. CASE f \in ToSet(p)
  <2>1. PICK j \in DOMAIN p : p[j] = f  BY <1>5 DEF ToSet
  <2>2. j \in Nat \ {0} /\ j <= limit /\ offset + j = i
    BY <1>4, <2>1 DEF Pages
  <2> QED  BY <1>1, <1>3, <1>5, <2>2 DEF newer, asNew
<1>6. CASE f \notin ToSet(p)
  <2>1. ~(offset < i /\ i <= offset + limit)
    <3> SUFFICES ASSUME offset < i, i <= offset + limit  PROVE FALSE  OBVIOUS
    <3>1. i - offset \in 1..limit /\ offset + (i - offset) = i  BY <1>3
    <3>2. i - offset \in DOMAIN p  BY <1>2, <3>1 DEF Pages
    <3>3. p[i - offset] = f  BY <1>2, <3>1, <3>2 DEF Pages
    <3> QED  BY <1>6, <3>2, <3>3 DEF ToSet
  <2> QED  BY <1>1, <1>3, <1>6, <2>1 DEF newer, asNew
<1> QED  BY <1>5, <1>6

\* The orders of what a listing was cut from.
CutOrders(r) ==
    {s \in SetToSeqs(Cut(r)) :
        \A i, k \in DOMAIN s : i < k => snap[r][s[i]].at >= snap[r][s[k]].at}

HasTotal(r) == (pc[r] = "commit" /\ job[r].op = "list") \/ status[r] = 200
HasPage(r) == pc[r] = "count" \/ HasTotal(r)

\* A page is part of an order of what the listing read.
PageRight(r) ==
    HasPage(r) =>
        /\ job[r].op = "list" /\ job[r] \in Job
        /\ \E s \in CutOrders(r) :
              page[r] = SubSeq(s, job[r].offset + 1, MinOf(job[r].offset + job[r].limit, Len(s)))

\* What a count will find that the page was not cut from, or will miss of it, has moved.
Meanwhile(r) ==
    pc[r] = "count" => \A f \in Films : (f \in Listed(r)) # (f \in Cut(r)) => f \in moved[r]

Bounds(n, r) ==
    /\ n <= Cardinality(Cut(r)) + Cardinality(moved[r] \ Cut(r))
    /\ n >= Cardinality(Cut(r)) - Cardinality(moved[r] \cap Cut(r))

TotalRight(r) == Meanwhile(r) /\ (HasTotal(r) => Bounds(total[r], r))

\* What Shape does not say of the types.
Typed ==
    /\ favorites \in [Entries -> Row \cup {Nil}]
    /\ audit \subseteq [req : Requests, action : Actions]
    /\ orm \in [Requests -> Row \cup {Nil}]
    /\ snap \in [Requests -> [Films -> Row \cup {Nil}]]
    /\ page = [r \in Requests |-> page[r]]
    /\ \A r \in Requests : IsInjective(page[r]) /\ ToSet(page[r]) \subseteq Films
    /\ total \in [Requests -> 0..Cardinality(Films)]
    /\ moved \in [Requests -> SUBSET Films]
    /\ broken \subseteq Requests

LInv == Typed /\ \A r \in Requests : PageRight(r) /\ TotalRight(r)

LEMMA InitListings == Init => LInv
<1> SUFFICES ASSUME Init  PROVE LInv  OBVIOUS
<1>1. Cardinality(Films) \in Nat  BY FavoritesAssumption, FS_CardinalityType
<1>2. Typed  BY <1>1 DEF Init, Typed, IsInjective, ToSet
<1>3. \A r \in Requests : ~HasPage(r) /\ ~HasTotal(r) /\ pc[r] # "count"
  BY DEF Init, HasPage, HasTotal
<1> QED  BY <1>2, <1>3 DEF LInv, PageRight, TotalRight, Meanwhile

\* A request that keeps its page keeps what is known of it.
LEMMA PageKept ==
    ASSUME LInv, NEW r \in Requests,
           HasPage(r)' => HasPage(r),
           HasTotal(r)' => HasTotal(r) /\ total'[r] = total[r] /\ moved'[r] = moved[r],
           HasPage(r) => job'[r] = job[r] /\ snap'[r] = snap[r] /\ page'[r] = page[r],
           Meanwhile(r)'
    PROVE  PageRight(r)' /\ TotalRight(r)'
<1>1. SUFFICES ASSUME HasPage(r)  PROVE PageRight(r)' /\ TotalRight(r)'
  BY DEF PageRight, TotalRight, HasPage
<1>2. Cut(r)' = Cut(r)  BY <1>1 DEF Cut
<1>3. CutOrders(r)' = CutOrders(r)  BY <1>1, <1>2 DEF CutOrders
<1>4. PageRight(r)'  BY <1>1, <1>2, <1>3 DEF LInv, PageRight
<1>5. TotalRight(r)'  BY <1>1, <1>2 DEF LInv, TotalRight, Bounds
<1> QED  BY <1>4, <1>5

LEMMA ListingTyped ==
    ASSUME FInv, FInv', LInv, [Next]_vars  PROVE Typed'
<1> USE DEF LInv, Goto, Answer, Abort, db, session, listing
<1>1. CASE Finished \/ Tick \/ UNCHANGED vars
  BY <1>1 DEF Finished, Tick, vars, Typed
<1>2. ASSUME NEW r \in Requests, Begin(r) \/ GetProfileOrRaise(r) \/ Fail(r)  PROVE Typed'
  BY <1>2 DEF Begin, GetProfileOrRaise, Fail, Typed
<1>3. ASSUME NEW r \in Requests, SelectFavorite(r) \/ Refresh(r)  PROVE Typed'
  <2>1. Entry(r) \in Entries
    BY <1>3, CallType DEF SelectFavorite, Refresh, FInv, Calls
  <2>2. favorites[Entry(r)] \in Row \cup {Nil}  BY <2>1 DEF Typed
  <2> QED  BY <1>3, <2>2 DEF SelectFavorite, Refresh, Typed
<1>4. ASSUME NEW r \in Requests, FlushInsert(r) \/ FlushDelete(r)  PROVE Typed'
  <2>1. [by |-> r, at |-> began[r]] \in Row  BY DEF FInv, Shape, Row
  <2>2. orm' \in {orm, [orm EXCEPT ![r] = [by |-> r, at |-> began[r]]]}
        /\ UNCHANGED <<favorites, audit, snap, page, total, moved, broken>>
    BY <1>4 DEF FlushInsert, FlushDelete
  <2> QED  BY <2>1, <2>2 DEF Typed
<1>5. ASSUME NEW r \in Requests, ListByProfile(r)  PROVE Typed'
  <2>1. job[r] \in Job /\ job[r].profile \in Profiles
    BY <1>5, CallType DEF ListByProfile, FInv, Calls, Job
  <2>2. \A f \in Films : favorites[<<job[r].profile, f>>] \in Row \cup {Nil}
    BY <2>1 DEF Typed, Entries
  <2>3. snap' \in [Requests -> [Films -> Row \cup {Nil}]]
    BY <1>5, <2>2 DEF ListByProfile, Typed
  <2>4. PICK s \in Orders(r) :
           page' = [page EXCEPT ![r] =
                      SubSeq(s, job[r].offset + 1, MinOf(job[r].offset + job[r].limit, Len(s)))]
    BY <1>5 DEF ListByProfile
  <2>5. IsFiniteSet(Listed(r)) /\ Listed(r) \subseteq Films /\ s \in SetToSeqs(Listed(r))
    BY FavoritesAssumption, FS_Subset DEF Listed, Orders
  <2>6. job[r].offset \in Nat /\ job[r].limit \in Nat  BY <2>1 DEF Job
  <2>7. IsInjective(page'[r]) /\ ToSet(page'[r]) \subseteq Films
    <3> DEFINE p == SubSeq(s, job[r].offset + 1, MinOf(job[r].offset + job[r].limit, Len(s)))
    <3>1. page'[r] = p  BY <2>4 DEF Typed
    <3>2. p = SubSeq(s, job[r].offset + 1, MinOf(job[r].offset + job[r].limit, Len(s)))
      OBVIOUS
    <3> HIDE DEF p
    <3>3. \A S : IsFiniteSet(S) => \A t \in SetToSeqs(S), offset \in Nat, limit \in Nat : \A x :
            x = SubSeq(t, offset + 1, MinOf(offset + limit, Len(t)))
             => IsInjective(x) /\ ToSet(x) \subseteq S
      BY PageOfOrder
    <3>4. \A offset \in Nat, limit \in Nat : \A x :
            x = SubSeq(s, offset + 1, MinOf(offset + limit, Len(s)))
             => IsInjective(x) /\ ToSet(x) \subseteq Listed(r)
      BY <2>5, <3>3
    <3>5. IsInjective(p) /\ ToSet(p) \subseteq Listed(r)
      BY <2>6, <3>2, <3>4
    <3> QED  BY <2>5, <3>1, <3>5
  <2>8. /\ page' = [q \in Requests |-> page'[q]]
        /\ \A q \in Requests : IsInjective(page'[q]) /\ ToSet(page'[q]) \subseteq Films
    BY <2>4, <2>7 DEF Typed
  <2> QED  BY <1>5, <2>3, <2>8 DEF ListByProfile, Typed
<1>6. ASSUME NEW r \in Requests, CountByProfile(r)  PROVE Typed'
  <2>1. Cardinality(Listed(r)) \in 0..Cardinality(Films)
    <3>1. Listed(r) \in SUBSET Films  BY DEF Listed
    <3>2. IsFiniteSet(Films)  BY FavoritesAssumption
    <3> QED  BY <3>1, <3>2, FS_Subset, FS_CardinalityType
  <2> QED  BY <1>6, <2>1 DEF CountByProfile, Typed
<1>7. ASSUME NEW r \in Requests, Commit(r)  PROVE Typed'
  <2>1. /\ audit' = audit \cup {[req |-> r, action |-> Action(r)]}
        /\ favorites' = Committed(r)
        /\ UNCHANGED <<orm, snap, page, total, broken>>
    BY <1>7 DEF Commit
  <2>2. job[r].op \in {"add", "delete", "list"}
    BY <1>7, CallType DEF Commit, Job
  <2>3. Action(r) \in Actions  BY <2>2 DEF Action, Actions
  <2>4. pending[r] \in {"none", "insert", "delete"} /\ (pending[r] = "insert" => orm[r] # Nil)
    BY DEF FInv, Shape, Locks
  <2>5. favorites' \in [Entries -> Row \cup {Nil}]
    BY <2>1, <2>4 DEF Committed, Typed
  <2>6. moved' \in [Requests -> SUBSET Films]
    <3>1. \A p : Changed(p) \subseteq Films  BY DEF Changed
    <3> QED  BY <1>7, <3>1 DEF Commit, Typed
  <2> QED  BY <2>1, <2>3, <2>5, <2>6 DEF Typed
<1> QED  BY <1>1, <1>2, <1>3, <1>4, <1>5, <1>6, <1>7 DEF Next, Step

\* The page is cut from what is in the table.
LEMMA ListKeeps ==
    ASSUME FInv, LInv, NEW r \in Requests, ListByProfile(r)
    PROVE  PageRight(r)' /\ TotalRight(r)'
<1>1. /\ pc[r] = "list" /\ pc' = [pc EXCEPT ![r] = "count"]
      /\ snap' = [snap EXCEPT ![r] = [f \in Films |-> favorites[<<job[r].profile, f>>]]]
      /\ UNCHANGED <<favorites, audit, job, status>>
  BY DEF ListByProfile, Goto, db
<1>2. /\ job[r] \in Job /\ job[r].op = "list" /\ job[r].profile \in Profiles /\ status[r] = 0
  BY <1>1, CallType DEF FInv, Calls, Job
<1>3. pc'[r] = "count" /\ status'[r] = 0 /\ snap'[r] = [f \in Films |-> favorites[<<job[r].profile, f>>]]
  BY <1>1, <1>2 DEF FInv, Shape, LInv, Typed
<1>5. Cut(r)' = Listed(r)  BY <1>3 DEF Cut, Listed
<1>4. TotalRight(r)'
  <2>1. Listed(r)' = Listed(r)  BY <1>1 DEF Listed
  <2> QED  BY <1>3, <1>5, <2>1 DEF TotalRight, HasTotal, Meanwhile
<1>6. Orders(r) \subseteq CutOrders(r)'
  <2> SUFFICES ASSUME NEW s \in Orders(r)  PROVE s \in CutOrders(r)'  OBVIOUS
  <2>1. s \in SetToSeqs(Listed(r)) /\ \A i \in DOMAIN s : s[i] \in Films
    BY DEF Orders, SetToSeqs, Listed
  <2>2. \A i \in DOMAIN s : snap'[r][s[i]].at = CreatedAt(r, s[i])
    BY <1>3, <2>1 DEF CreatedAt
  <2> QED  BY <1>5, <2>1, <2>2 DEF Orders, CutOrders
<1>7. PICK s \in Orders(r) :
         page' = [page EXCEPT ![r] =
                    SubSeq(s, job[r].offset + 1, MinOf(job[r].offset + job[r].limit, Len(s)))]
  BY DEF ListByProfile
<1>8. page'[r] = SubSeq(s, job[r].offset + 1, MinOf(job[r].offset + job[r].limit, Len(s)))
  BY <1>7 DEF LInv, Typed
<1>9. PageRight(r)'  BY <1>1, <1>2, <1>6, <1>8 DEF PageRight
<1> QED  BY <1>4, <1>9

\* What the second statement finds beyond the cut, or misses of it, has moved.
LEMMA CountKeeps ==
    ASSUME FInv, LInv, NEW r \in Requests, CountByProfile(r)
    PROVE  PageRight(r)' /\ TotalRight(r)'
<1>1. /\ pc[r] = "count" /\ pc' = [pc EXCEPT ![r] = "commit"]
      /\ total' = [total EXCEPT ![r] = Cardinality(Listed(r))]
      /\ UNCHANGED <<job, snap, page, moved>>
  BY DEF CountByProfile, Goto, session
<1>2. HasPage(r)  BY <1>1 DEF HasPage
<1>3. UNCHANGED <<Cut(r), CutOrders(r)>>
  BY <1>1 DEF Cut, CutOrders
<1>4. PageRight(r)'  BY <1>1, <1>2, <1>3 DEF LInv, PageRight
<1>5. total'[r] = Cardinality(Listed(r)) /\ pc'[r] # "count"
  BY <1>1 DEF LInv, Typed, FInv, Shape
<1> DEFINE L == Listed(r)
           C == Cut(r)
           M == moved[r]
<1>6. IsFiniteSet(L) /\ IsFiniteSet(C) /\ IsFiniteSet(M)
  <2>1. L \in SUBSET Films /\ C \in SUBSET Films /\ M \in SUBSET Films
    BY DEF Listed, Cut, LInv, Typed
  <2> QED  BY <2>1, FavoritesAssumption, FS_Subset
<1>7. L \subseteq C \cup (M \ C) /\ C \subseteq L \cup (M \cap C)
  BY <1>1 DEF LInv, TotalRight, Meanwhile, Listed, Cut
<1> HIDE DEF L, C, M
<1>8. ASSUME NEW X, NEW A, NEW B, IsFiniteSet(A), IsFiniteSet(B), X \subseteq A \cup B
      PROVE  Cardinality(X) <= Cardinality(A) + Cardinality(B)
  <2>1. /\ IsFiniteSet(A \cup B)
        /\ Cardinality(A \cup B) = Cardinality(A) + Cardinality(B) - Cardinality(A \cap B)
    BY <1>8, FS_Union
  <2>2. IsFiniteSet(X) /\ Cardinality(X) <= Cardinality(A \cup B)  BY <1>8, <2>1, FS_Subset
  <2>3. IsFiniteSet(A \cap B)
    <3>1. (A \cap B) \in SUBSET A  OBVIOUS
    <3> QED  BY <1>8, <3>1, FS_Subset
  <2>4. /\ Cardinality(A) \in Nat /\ Cardinality(B) \in Nat /\ Cardinality(X) \in Nat
        /\ Cardinality(A \cap B) \in Nat
    BY <1>8, <2>2, <2>3, FS_CardinalityType
  <2> QED  BY <2>1, <2>2, <2>4
<1>9. IsFiniteSet(M \ C) /\ IsFiniteSet(M \cap C)
  <2>1. (M \ C) \in SUBSET M /\ (M \cap C) \in SUBSET M  OBVIOUS
  <2> QED  BY <1>6, <2>1, FS_Subset
<1>10. /\ Cardinality(L) <= Cardinality(C) + Cardinality(M \ C)
       /\ Cardinality(C) <= Cardinality(L) + Cardinality(M \cap C)
  BY <1>6, <1>7, <1>8, <1>9
<1>11. /\ Cardinality(L) \in Nat /\ Cardinality(C) \in Nat
       /\ Cardinality(M \ C) \in Nat /\ Cardinality(M \cap C) \in Nat
  BY <1>6, <1>9, FS_CardinalityType
<1>12. Bounds(Cardinality(L), r)  BY <1>10, <1>11 DEF Bounds, C, M
<1>13. Bounds(total[r], r)'  BY <1>1, <1>3, <1>5, <1>12 DEF Bounds, L
<1>14. TotalRight(r)'  BY <1>5, <1>13 DEF TotalRight, Meanwhile
<1> QED  BY <1>4, <1>14

\* COMMIT tells every request that has yet to count what it has changed.
LEMMA CommitMoves ==
    ASSUME FInv, LInv, NEW r \in Requests, Commit(r), NEW q \in Requests \ {r}
    PROVE  Meanwhile(q)' /\ (HasTotal(q) => moved'[q] = moved[q])
<1>1. /\ moved'[q] = IF pc[q] = "count" THEN moved[q] \cup Changed(job[q].profile) ELSE moved[q]
      /\ UNCHANGED <<job, snap>> /\ pc'[q] = pc[q]
  BY DEF Commit, Goto, Answer, FInv, Shape
<1>2. HasTotal(q) => pc[q] # "count"  BY DEF HasTotal, FInv, Calls
<1>3. Meanwhile(q)'
  <2> SUFFICES ASSUME pc[q] = "count", NEW f \in Films, (f \in Listed(q))' # (f \in Cut(q))'
               PROVE  f \in moved'[q]
    BY <1>1 DEF Meanwhile
  <2>1. Cut(q)' = Cut(q)  BY <1>1 DEF Cut
  <2>2. CASE favorites'[<<job[q].profile, f>>] = favorites[<<job[q].profile, f>>]
    <3>1. (f \in Listed(q))' = (f \in Listed(q))  BY <1>1, <2>2 DEF Listed
    <3> QED  BY <1>1, <2>1, <3>1 DEF LInv, TotalRight, Meanwhile
  <2>3. CASE favorites'[<<job[q].profile, f>>] # favorites[<<job[q].profile, f>>]
    BY <1>1, <2>3 DEF Changed
  <2> QED  BY <2>2, <2>3
<1> QED  BY <1>1, <1>2, <1>3

LEMMA ListingStep == FInv /\ FInv' /\ LInv /\ [Next]_vars => LInv'
<1> SUFFICES ASSUME FInv, FInv', LInv, [Next]_vars  PROVE LInv'  OBVIOUS
<1>1. Typed'  BY ListingTyped
<1> SUFFICES ASSUME NEW q \in Requests  PROVE PageRight(q)' /\ TotalRight(q)'
  BY <1>1 DEF LInv
<1>2. CASE Finished \/ Tick \/ UNCHANGED vars
  <2>1. UNCHANGED <<favorites, pc, job, snap, page, total, moved, status>>
    BY <1>2 DEF Finished, Tick, vars, db, session, listing
  <2>2. Meanwhile(q)'  BY <2>1 DEF LInv, TotalRight, Meanwhile, Listed, Cut
  <2> QED  BY <2>1, <2>2, PageKept DEF HasPage, HasTotal
\* Another request moves.
<1>3. ASSUME NEW r \in Requests \ {q}, Begin(r) \/ Step(r) \/ Fail(r)
      PROVE  PageRight(q)' /\ TotalRight(q)'
  <2>1. pc'[q] = pc[q] /\ status'[q] = status[q] /\ job'[q] = job[q]
    <3> USE DEF Goto, Answer, Abort, FInv, Shape
    <3>1. CASE Begin(r)  BY <3>1 DEF Begin
    <3>2. CASE GetProfileOrRaise(r) \/ SelectFavorite(r)
      BY <3>2 DEF GetProfileOrRaise, SelectFavorite
    <3>3. CASE FlushInsert(r) \/ FlushDelete(r)  BY <3>3 DEF FlushInsert, FlushDelete
    <3>4. CASE ListByProfile(r) \/ CountByProfile(r)
      BY <3>4 DEF ListByProfile, CountByProfile
    <3>5. CASE Commit(r)  BY <3>5 DEF Commit
    <3>6. CASE Refresh(r) \/ Fail(r)  BY <3>6 DEF Refresh, Fail
    <3> QED  BY <1>3, <3>1, <3>2, <3>3, <3>4, <3>5, <3>6 DEF Step
  <2>2. snap'[q] = snap[q] /\ page'[q] = page[q] /\ total'[q] = total[q]
    <3>1. CASE ListByProfile(r)  BY <3>1 DEF ListByProfile, LInv, Typed
    <3>2. CASE CountByProfile(r)  BY <3>2 DEF CountByProfile, LInv, Typed
    <3>3. CASE UNCHANGED <<snap, page, total>>  BY <3>3
    <3> QED
      BY <1>3, <3>1, <3>2, <3>3
         DEF Step, Begin, GetProfileOrRaise, SelectFavorite, FlushInsert, FlushDelete,
             Commit, Refresh, Fail, listing
  <2>3. Meanwhile(q)' /\ (HasTotal(q) => moved'[q] = moved[q])
    <3>1. CASE Commit(r)  BY <3>1, CommitMoves
    <3>2. CASE UNCHANGED <<favorites, moved>>
      BY <2>1, <2>2, <3>2 DEF LInv, TotalRight, Meanwhile, Listed, Cut
    <3> QED
      BY <1>3, <3>1, <3>2
         DEF Step, Begin, GetProfileOrRaise, SelectFavorite, FlushInsert, FlushDelete,
             ListByProfile, CountByProfile, Refresh, Fail, listing, db
  <2> QED  BY <2>1, <2>2, <2>3, PageKept DEF HasPage, HasTotal
<1>4. CASE ListByProfile(q)  BY <1>4, ListKeeps
<1>5. CASE CountByProfile(q)  BY <1>5, CountKeeps
<1>6. CASE Commit(q)
  <2>1. /\ pc[q] = "commit" /\ UNCHANGED <<job, snap, page, total>> /\ moved'[q] = moved[q]
        /\ \/ job[q].op = "add" /\ Goto(q, "refresh")
           \/ job[q].op = "delete" /\ Answer(q, 204)
           \/ job[q].op = "list" /\ Answer(q, 200)
    BY <1>6 DEF Commit, FInv, Shape
  <2>2. status[q] = 0  BY <2>1 DEF FInv, Calls
  <2>3. HasTotal(q)' => HasTotal(q) /\ pc'[q] # "count"
    BY <2>1, <2>2 DEF HasTotal, Goto, Answer, FInv, Shape
  <2>4. pc'[q] # "count"  BY <2>1 DEF Goto, Answer, FInv, Shape
  <2> QED  BY <2>1, <2>3, <2>4, PageKept DEF HasPage, Meanwhile
<1>7. CASE \/ Begin(q) \/ GetProfileOrRaise(q) \/ SelectFavorite(q) \/ FlushInsert(q)
           \/ FlushDelete(q) \/ Refresh(q) \/ Fail(q)
  <2>1. status[q] = 0 /\ pc[q] \in Labels
    BY <1>7
       DEF Begin, GetProfileOrRaise, SelectFavorite, FlushInsert, FlushDelete, Refresh, Fail,
           Busy, FInv, Calls, Shape
  <2>2. CASE Begin(q) \/ GetProfileOrRaise(q) \/ Refresh(q) \/ Fail(q)
    <3>1. pc'[q] \notin {"count", "commit"} /\ status'[q] # 200
      BY <2>1, <2>2
         DEF Begin, GetProfileOrRaise, Refresh, Fail, Goto, Answer, Abort, FInv, Shape
    <3> QED  BY <3>1 DEF PageRight, TotalRight, Meanwhile, HasPage, HasTotal
  <2>3. CASE SelectFavorite(q) \/ FlushInsert(q) \/ FlushDelete(q)
    <3>1. job'[q].op # "list"
      BY <2>3 DEF SelectFavorite, FlushInsert, FlushDelete, FInv, Calls
    <3>2. pc'[q] # "count" /\ status'[q] # 200
      BY <2>1, <2>3
         DEF SelectFavorite, FlushInsert, FlushDelete, Goto, Answer, Abort, FInv, Shape
    <3> QED  BY <3>1, <3>2 DEF PageRight, TotalRight, Meanwhile, HasPage, HasTotal
  <2> QED  BY <1>7, <2>2, <2>3
<1> QED  BY <1>2, <1>3, <1>4, <1>5, <1>6, <1>7 DEF Next, Step

LEMMA ListingInvariant == Spec => [](FInv /\ LInv)
<1>1. Init => LInv  BY InitListings
<1>2. FInv /\ FInv' /\ LInv /\ [Next]_vars => LInv'  BY ListingStep
<1> QED  BY <1>1, <1>2, Invariant, PTL DEF Spec

\* TypeOK of Favorites: a page repeats no film, a total counts films.
THEOREM TypeCorrect == Spec => []TypeOK
<1>1. FInv /\ LInv => TypeOK  BY DEF FInv, Shape, LInv, Typed, TypeOK
<1> QED  BY <1>1, ListingInvariant, PTL

\* TotalIsTimely of Favorites.
THEOREM TotalsAreTimely == Spec => []TotalIsTimely
<1>1. LInv => TotalIsTimely  BY DEF LInv, TotalRight, HasTotal, Bounds, TotalIsTimely
<1> QED  BY <1>1, ListingInvariant, PTL

\* Where a page lies bounds what ranks before the films on it and off it.
LEMMA FilmOnPage ==
    ASSUME LInv, NEW r \in Requests, status[r] = 200, NEW f \in Cut(r)
    PROVE  LET newer == Cardinality(Newer(r, f))
               asNew == Cardinality(AsNew(r, f))
           IN  /\ IsFiniteSet(Newer(r, f)) /\ IsFiniteSet(AsNew(r, f))
               /\ newer \in Nat /\ asNew \in Nat /\ job[r].offset \in Nat /\ job[r].limit \in Nat
               /\ f \in ToSet(page[r]) => newer < job[r].offset + job[r].limit /\ job[r].offset <= asNew
               /\ f \notin ToSet(page[r]) => newer < job[r].offset \/ job[r].offset + job[r].limit <= asNew
<1>1. PICK s \in CutOrders(r) : page[r] =
         SubSeq(s, job[r].offset + 1, MinOf(job[r].offset + job[r].limit, Len(s)))
  BY DEF LInv, PageRight, HasPage, HasTotal
<1>2. job[r].offset \in Nat /\ job[r].limit \in Nat
  BY DEF LInv, PageRight, HasPage, HasTotal, Job
<1> DEFINE S == Cut(r)
           at == [g \in S |-> snap[r][g].at]
<1>3. /\ IsFiniteSet(S) /\ s \in SetToSeqs(S) /\ at \in [S -> Int]
  <2>1. \A g \in S : snap[r][g] \in Row  BY DEF LInv, Typed, Cut
  <2>2. S \in SUBSET Films  BY DEF Cut
  <2> QED  BY <2>1, <2>2, FavoritesAssumption, FS_Subset DEF CutOrders, Row, Times
<1>4. s \in [1..Cardinality(S) -> S]  BY <1>3, FS_CardinalityType DEF SetToSeqs
<1>5. Ordered(s, at)  BY <1>4 DEF CutOrders, Ordered
<1>6. Newer(r, f) = Higher(S, at, f) /\ AsNew(r, f) = NoLower(S, at, f)
  BY DEF Newer, AsNew, Higher, NoLower
<1>7. IsFiniteSet(Newer(r, f)) /\ IsFiniteSet(AsNew(r, f))
  <2>1. Newer(r, f) \in SUBSET S /\ AsNew(r, f) \in SUBSET S  BY DEF Newer, AsNew
  <2> QED  BY <1>3, <2>1, FS_Subset
<1> HIDE DEF S, at
<1>8. Pages(page[r], s, job[r].offset, job[r].limit)
  <2> DEFINE offset == job[r].offset
             limit == job[r].limit
             p == page[r]
  <2>1. p = SubSeq(s, offset + 1, MinOf(offset + limit, Len(s)))  BY <1>1
  <2>2. offset \in Nat /\ limit \in Nat  BY <1>2
  <2> HIDE DEF offset, limit, p
  <2>3. IsFiniteSet(S) /\ s \in SetToSeqs(S)  BY <1>3
  <2>4. \A X : IsFiniteSet(X) => \A o \in SetToSeqs(X), l, m \in Nat : \A x :
          x = SubSeq(o, l + 1, MinOf(l + m, Len(o))) => Pages(x, o, l, m)
    BY PageOfOrder
  <2>5. \A l, m \in Nat : \A x :
          x = SubSeq(s, l + 1, MinOf(l + m, Len(s))) => Pages(x, s, l, m)
    BY <2>3, <2>4
  <2>6. Pages(p, s, offset, limit)  BY <2>1, <2>2, <2>5
  <2> QED  BY <2>6 DEF offset, limit, p
<1>9. f \in S  BY DEF S
<1> QED  BY <1>2, <1>3, <1>5, <1>6, <1>7, <1>8, <1>9, PlaceOnPage

\* PagesJoin of Favorites: a film on both pages has fewer before it in the first than
\* beside or before it in the second, and a film on neither the other way round.
THEOREM PagesAreJoined == Spec => []PagesJoin
<1>1. ASSUME NEW A, NEW B, IsFiniteSet(B), Cardinality(B) \in Nat, Cardinality(A) \in Nat, A \subseteq B
      PROVE  Cardinality(A) <= Cardinality(B)
  BY <1>1, FS_Subset
<1>2. ASSUME LInv, NEW r \in Requests, NEW q \in Requests, {status[r], status[q]} = {200},
             job[q].offset = job[r].offset + job[r].limit, NEW f \in Cut(r) \cap Cut(q)
      PROVE  /\ f \in ToSet(page[r]) \cap ToSet(page[q]) => ~(AsNew(q, f) \subseteq Newer(r, f))
             /\ /\ f \notin ToSet(page[r]) \cup ToSet(page[q])
                /\ job[r].offset <= Cardinality(Newer(r, f))
                /\ Cardinality(AsNew(q, f)) < job[q].offset + job[q].limit
                => ~(AsNew(r, f) \subseteq Newer(q, f))
  <2> DEFINE nr == Cardinality(Newer(r, f))
             ar == Cardinality(AsNew(r, f))
             nq == Cardinality(Newer(q, f))
             aq == Cardinality(AsNew(q, f))
  <2>1. status[r] = 200 /\ status[q] = 200 /\ f \in Cut(r) /\ f \in Cut(q)  BY <1>2
  <2>2. /\ IsFiniteSet(Newer(r, f)) /\ nr \in Nat /\ ar \in Nat
        /\ job[r].offset \in Nat /\ job[r].limit \in Nat
        /\ f \in ToSet(page[r]) => nr < job[q].offset
        /\ f \notin ToSet(page[r]) => nr < job[r].offset \/ job[q].offset <= ar
    BY <1>2, <2>1, FilmOnPage
  <2>3. /\ IsFiniteSet(Newer(q, f)) /\ nq \in Nat /\ aq \in Nat
        /\ job[q].offset \in Nat /\ job[q].limit \in Nat
        /\ f \in ToSet(page[q]) => job[q].offset <= aq
        /\ f \notin ToSet(page[q]) => nq < job[q].offset \/ job[q].offset + job[q].limit <= aq
    BY <1>2, <2>1, FilmOnPage
  <2>4. AsNew(q, f) \subseteq Newer(r, f) => aq <= nr  BY <1>1, <2>2, <2>3
  <2>5. AsNew(r, f) \subseteq Newer(q, f) => ar <= nq  BY <1>1, <2>2, <2>3
  <2> HIDE DEF nr, ar, nq, aq
  <2>6. f \in ToSet(page[r]) \cap ToSet(page[q]) => ~(aq <= nr)  BY <2>2, <2>3
  <2>7. /\ f \notin ToSet(page[r]) \cup ToSet(page[q])
        /\ job[r].offset <= nr /\ aq < job[q].offset + job[q].limit
        => ~(ar <= nq)
    BY <2>2, <2>3
  <2> QED  BY <2>4, <2>5, <2>6, <2>7 DEF nr, ar, nq, aq
<1>3. LInv => PagesJoin  BY <1>2 DEF PagesJoin
<1> QED  BY <1>3, ListingInvariant, PTL
=============================================================================
