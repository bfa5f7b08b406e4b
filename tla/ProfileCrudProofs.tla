--------------------------- MODULE ProfileCrudProofs ---------------------------
(***************************************************************************)
(* Theorems about ProfileCrud for every set of requests, users, numbers    *)
(* and scripts: type correctness, uniqueness of profiles, permanence of    *)
(* profiles under foreign keys, agreement of the two phone columns; and,   *)
(* from the five ways in which a step moves one request (StepMoves), that  *)
(* stored values trace to the audit log, that deletions are final and that *)
(* no update is lost.                                                      *)
(***************************************************************************)
EXTENDS ProfileCrud, TLAPS

-----------------------------------------------------------------------------
(* Type correctness. *)

\* The session of r holds a Profile when one of these statements runs.
NeedsProfile(r) ==
    \/ pc[r] \in {"audit", "commit", "refresh"}
    \/ pc[r] \in {"phone", "flush"} /\ job[r].op # "create"

JobChosen == \A r \in Requests : pc[r] # "idle" => job[r] \in Script[r]

SessionHolds == \A r \in Requests : NeedsProfile(r) => orm[r] # Nil

\* Whatever number is flushed has been normalised.
PhoneValid ==
    \A r \in Requests :
        /\ pc[r] = "phone" => job[r].phone # Nil
        /\ /\ pc[r] = "flush"
           /\ job[r].op \in {"create", "update"}
           /\ job[r].phone # Nil
           => E164[job[r].phone] # Nil

TInv == TypeOK /\ JobChosen /\ SessionHolds /\ PhoneValid

LEMMA TypeInit == Init => TInv
BY ConstantsAssumption
   DEF Init, TInv, TypeOK, JobChosen, SessionHolds, PhoneValid, NeedsProfile, Labels, Statuses

\* What the assumptions say of a call under way.
LEMMA JobFacts ==
    ASSUME TInv, NEW r \in Requests, pc[r] # "idle"
    PROVE  /\ job[r] \in Job
           /\ job[r].op \in {"create", "get", "update", "delete"}
           /\ job[r].op = "create" => job[r].name \in Names /\ job[r].phone \in RawPhones
           /\ job[r].name # Nil => job[r].name \in Names
           /\ job[r].phone # Nil => job[r].phone \in RawPhones /\ E164[job[r].phone] \in Phones \cup {Nil}
BY ConstantsAssumption DEF TInv, TypeOK, JobChosen, Job

LEMMA NewProfileType ==
    ASSUME TInv, NEW r \in Requests, pc[r] = "flush", job[r].op = "create"
    PROVE  NewProfile(r) \in Row
<1>1. /\ job[r].name \in Names
      /\ job[r].phone \in RawPhones
      /\ E164[job[r].phone] \in Phones \cup {Nil}
  BY JobFacts, ConstantsAssumption
<1>2. job[r].phone # Nil
  BY <1>1, ConstantsAssumption
<1>3. E164[job[r].phone] \in Phones
  BY <1>1, <1>2 DEF TInv, PhoneValid
<1> QED
  BY <1>1, <1>3, ConstantsAssumption DEF NewProfile, Row, Cipher, Encrypt, Digest

LEMMA HandleType ==
    ASSUME TInv, NEW r \in Requests, orm[r] # Nil
    PROVE  orm[r] \in Handle /\ orm[r].id \in Requests /\ orm[r].row \in Row
BY DEF TInv, TypeOK, Handle

LEMMA WriteType ==
    ASSUME TInv, NEW r \in Requests, pending[r] # Nil
    PROVE  /\ pending[r] \in Write
           /\ pending[r].id \in Requests
           /\ pending[r].row \in Row \cup {Nil}
BY DEF TInv, TypeOK, Write

LEMMA AssignedType ==
    ASSUME TInv, NEW r \in Requests, pc[r] = "flush", job[r].op = "update"
    PROVE  Assigned(r) \in Row
<1>1. orm[r].row \in Row
  BY HandleType DEF TInv, SessionHolds, NeedsProfile
<1>2. job[r].name # Nil => job[r].name \in Names
  BY JobFacts
<1>3. job[r].phone # Nil => E164[job[r].phone] \in Phones
  BY JobFacts DEF TInv, PhoneValid
<1> QED
  BY <1>1, <1>2, <1>3 DEF Assigned, Row, Cipher, Encrypt, Digest

LEMMA SetChangedType ==
    ASSUME NEW row \in Row, NEW old \in Row, NEW new \in Row
    PROVE  SetChanged(row, old, new) \in Row
BY DEF SetChanged, Row

LEMMA RowInTable ==
    ASSUME TInv, NEW p \in Requests
    PROVE  profiles[p] \in Row \cup {Nil} /\ (p \in Live => profiles[p] \in Row)
BY DEF TInv, TypeOK, Live

LEMMA TypeStep == TInv /\ [Next]_vars => TInv'
<1> SUFFICES ASSUME TInv, [Next]_vars PROVE TInv'
  OBVIOUS
<1> USE DEF Goto, Answer
<1>1. ASSUME NEW r \in Requests, Begin(r) PROVE TInv'
  <2>1. PICK j \in Script[r] : job' = [job EXCEPT ![r] = j]
    BY <1>1 DEF Begin
  <2>2. j \in Job
    BY ConstantsAssumption
  <2> QED
    BY <1>1, <2>1, <2>2
       DEF Begin, TInv, TypeOK, JobChosen, SessionHolds, PhoneValid, NeedsProfile, Labels
<1>2. ASSUME NEW r \in Requests, CheckUser(r) PROVE TInv'
  <2>1. job[r].phone # Nil
    BY <1>2, JobFacts, ConstantsAssumption DEF CheckUser
  <2> QED
    BY <1>2, <2>1
       DEF CheckUser, TInv, TypeOK, JobChosen, SessionHolds, PhoneValid, NeedsProfile,
           Labels, Statuses
<1>3. ASSUME NEW r \in Requests, GetProfileOrRaise(r) PROVE TInv'
  <2>1. CASE Answer(r, 404) /\ UNCHANGED orm
    BY <1>3, <2>1
       DEF GetProfileOrRaise, TInv, TypeOK, JobChosen, SessionHolds, PhoneValid, NeedsProfile,
           Labels, Statuses
  <2>2. ASSUME NEW p \in GetByUserId(Sub[r]),
               orm' = [orm EXCEPT ![r] = [id |-> p, row |-> profiles[p]]],
               AfterLoad(r)
        PROVE  TInv'
    <3>1. [id |-> p, row |-> profiles[p]] \in Handle
      BY RowInTable DEF GetByUserId, Live, Handle
    <3>2. [id |-> p, row |-> profiles[p]] # Nil
      BY <3>1, ConstantsAssumption
    <3> QED
      BY <1>3, <2>2, <3>1, <3>2
         DEF GetProfileOrRaise, AfterLoad, TInv, TypeOK, JobChosen, SessionHolds, PhoneValid,
             NeedsProfile, Labels, Statuses
  <2> QED
    BY <1>3, <2>1, <2>2 DEF GetProfileOrRaise
<1>4. ASSUME NEW r \in Requests, PreparePhone(r) PROVE TInv'
  BY <1>4
     DEF PreparePhone, TInv, TypeOK, JobChosen, SessionHolds, PhoneValid, NeedsProfile,
         Labels, Statuses
<1>5. ASSUME NEW r \in Requests, pc[r] # "idle", Abort(r),
             UNCHANGED <<profiles, audit, job>>
      PROVE  TInv'
  BY <1>5
     DEF Abort, TInv, TypeOK, JobChosen, SessionHolds, PhoneValid, NeedsProfile, Labels, Statuses
<1>6. ASSUME NEW r \in Requests, NEW w \in Write \cup {Nil},
             pc[r] = "flush", job[r].op \in {"update", "delete"},
             pending' = [pending EXCEPT ![r] = w],
             Goto(r, "audit"), UNCHANGED <<profiles, audit, job, orm>>
      PROVE  TInv'
  BY <1>6
     DEF TInv, TypeOK, JobChosen, SessionHolds, PhoneValid, NeedsProfile, Labels, Statuses
<1>7. ASSUME NEW r \in Requests, FlushInsert(r) PROVE TInv'
  <2>1. CASE Abort(r)
    BY <1>5, <1>7, <2>1 DEF FlushInsert
  <2>2. CASE ~Abort(r)
    <3>1. NewProfile(r) \in Row
      BY <1>7, NewProfileType DEF FlushInsert
    <3>2. /\ [id |-> r, row |-> NewProfile(r)] \in Handle
          /\ [id |-> r, row |-> NewProfile(r)] \in Write
      BY <3>1 DEF Handle, Write
    <3>3. [id |-> r, row |-> NewProfile(r)] # Nil
      BY <3>2, ConstantsAssumption
    <3> DEFINE h == [id |-> r, row |-> NewProfile(r)]
    <3>4. /\ orm' = [orm EXCEPT ![r] = h]
          /\ pending' = [pending EXCEPT ![r] = h]
          /\ Goto(r, "audit")
          /\ UNCHANGED <<profiles, audit, job, status>>
      BY <1>7, <2>2 DEF FlushInsert
    <3> HIDE DEF h
    <3> QED
      BY <1>7, <3>2, <3>3, <3>4
         DEF h, FlushInsert, TInv, TypeOK, JobChosen, SessionHolds, PhoneValid, NeedsProfile,
             Labels, Statuses
  <2> QED
    BY <2>1, <2>2
<1>8. ASSUME NEW r \in Requests, FlushUpdate(r) PROVE TInv'
  <2> DEFINE p == orm[r].id
             stored == SetChanged(profiles[p], orm[r].row, Assigned(r))
  <2>1. orm[r].row \in Row /\ p \in Requests /\ Assigned(r) \in Row
    BY <1>8, HandleType, AssignedType DEF FlushUpdate, TInv, SessionHolds, NeedsProfile
  <2>2. CASE Abort(r)
    BY <1>5, <1>8, <2>2 DEF FlushUpdate
  <2>3. CASE UNCHANGED pending /\ Goto(r, "audit")
    <3>1. pending' = [pending EXCEPT ![r] = pending[r]] /\ pending[r] \in Write \cup {Nil}
      BY <2>3 DEF TInv, TypeOK
    <3> QED
      BY <1>6, <1>8, <2>3, <3>1 DEF FlushUpdate
  <2>4. CASE /\ profiles[p] # Nil
             /\ pending' = [pending EXCEPT ![r] = [id |-> p, row |-> stored]]
             /\ Goto(r, "audit")
    <3>1. stored \in Row
      BY <2>1, <2>4, RowInTable, SetChangedType
    <3>2. [id |-> p, row |-> stored] \in Write \cup {Nil}
      BY <2>1, <3>1 DEF Write
    <3> QED
      BY <1>6, <1>8, <2>4, <3>2 DEF FlushUpdate
  <2> QED
    BY <1>8, <2>2, <2>3, <2>4 DEF FlushUpdate
<1>9. ASSUME NEW r \in Requests, FlushDelete(r) PROVE TInv'
  <2>1. CASE Abort(r)
    BY <1>5, <1>9, <2>1 DEF FlushDelete
  <2>2. CASE ~Abort(r)
    <3>1. [id |-> orm[r].id, row |-> Nil] \in Write \cup {Nil}
      BY <1>9, HandleType DEF FlushDelete, TInv, SessionHolds, NeedsProfile, Write
    <3> QED
      BY <1>6, <1>9, <2>2, <3>1 DEF FlushDelete
  <2> QED
    BY <2>1, <2>2
<1>10. ASSUME NEW r \in Requests, AuditLog(r) PROVE TInv'
  <2>1. CASE Abort(r)
    BY <1>5, <1>10, <2>1 DEF AuditLog
  <2>2. CASE ~Abort(r)
    BY <1>10, <2>2
       DEF AuditLog, TInv, TypeOK, JobChosen, SessionHolds, PhoneValid, NeedsProfile,
           Labels, Statuses
  <2> QED
    BY <2>1, <2>2
<1>11. ASSUME NEW r \in Requests, Commit(r) PROVE TInv'
  <2>1. orm[r] # Nil /\ orm[r].id \in Requests
    BY <1>11, HandleType DEF Commit, TInv, SessionHolds, NeedsProfile
  <2>2. audit' \subseteq AuditRow
    BY <1>11, <2>1 DEF Commit, TInv, TypeOK, AuditRow
  <2>3. profiles' \in [Requests -> Row \cup {Nil}]
    BY <1>11, WriteType DEF Commit, Committed, TInv, TypeOK
  <2>4. /\ pending' \in [Requests -> Write \cup {Nil}]
        /\ UNCHANGED <<job, orm>>
        /\ \/ pc' = [pc EXCEPT ![r] = "done"] /\ status' \in [Requests -> Statuses]
           \/ pc' = [pc EXCEPT ![r] = "refresh"] /\ UNCHANGED status
    BY <1>11 DEF Commit, AfterCommit, TInv, TypeOK, Statuses
  <2>5. TypeOK'
    BY <2>2, <2>3, <2>4 DEF TInv, TypeOK, Labels
  <2>6. JobChosen' /\ SessionHolds' /\ PhoneValid'
    BY <1>11, <2>1, <2>4
       DEF Commit, TInv, TypeOK, JobChosen, SessionHolds, PhoneValid, NeedsProfile, Labels
  <2> QED
    BY <2>5, <2>6 DEF TInv
<1>12. ASSUME NEW r \in Requests, Refresh(r) PROVE TInv'
  <2>1. CASE Abort(r)
    BY <1>5, <1>12, <2>1 DEF Refresh
  <2>2. CASE ~Abort(r)
    <3>1. orm[r] # Nil /\ orm[r].id \in Requests
      BY <1>12, HandleType DEF Refresh, TInv, SessionHolds, NeedsProfile
    <3>2. orm[r].id \in Live /\ profiles[orm[r].id] \in Row
      BY <1>12, <2>2, <3>1, RowInTable DEF Refresh
    <3>3. /\ orm' \in [Requests -> Handle \cup {Nil}]
          /\ orm' = [orm EXCEPT ![r].row = profiles[orm[r].id]]
      BY <1>12, <2>2, <3>1, <3>2, HandleType DEF Refresh, TInv, TypeOK, Handle
    <3> QED
      BY <1>12, <2>2, <3>1, <3>3
         DEF Refresh, TInv, TypeOK, JobChosen, SessionHolds, PhoneValid, NeedsProfile,
             Labels, Statuses
  <2> QED
    BY <2>1, <2>2
<1>13. ASSUME NEW r \in Requests, Fail(r) PROVE TInv'
  BY <1>5, <1>13 DEF Fail, Busy
<1>14. CASE UNCHANGED vars
  BY <1>14 DEF vars, TInv, TypeOK, JobChosen, SessionHolds, PhoneValid, NeedsProfile
<1> QED
  BY <1>1, <1>2, <1>3, <1>4, <1>7, <1>8, <1>9, <1>10, <1>11, <1>12, <1>13, <1>14
     DEF Next, Step, Finished

\* The variables keep their types, and whatever a statement needs of its session
\* is there when it runs: no handler of ProfileService uses a profile it has not
\* loaded or stores a number it has not normalised.
THEOREM TypeSafety == Spec => []TInv
BY TypeInit, TypeStep, PTL DEF Spec

THEOREM TypeCorrect == Spec => []TypeOK
BY TypeSafety, PTL DEF TInv

-----------------------------------------------------------------------------
(* Uniqueness: what the locks of pending writes protect. *)

\* Only a request between its flush and its COMMIT has a write pending, on the
\* profile its session holds.
PendingIsOwn ==
    \A r \in Requests :
        pending[r] # Nil => /\ pc[r] \in {"audit", "commit"}
                            /\ pending[r].id = orm[r].id

\* Nobody sees a profile before the request that creates it has committed.
CreatedFirst ==
    /\ \A p \in Live : pc[p] \in {"refresh", "done"}
    /\ \A r \in Requests :
          orm[r] # Nil /\ orm[r].id # r => pc[orm[r].id] \in {"refresh", "done"}

\* A pending row shares no key with a committed row that it does not replace.
PendingFits ==
    \A r \in Requests : pending[r] # Nil =>
        \A q \in Live \ {pending[r].id} : Keys(profiles[q]) \cap Keys(pending[r].row) = {}

LocksExclusive == \A q, r \in Requests : q # r => Held(q) \cap Held(r) = {}

LInv == PendingIsOwn /\ CreatedFirst /\ PendingFits /\ LocksExclusive /\ UniqueProfiles

LEMMA LocksInit == Init => LInv
BY ConstantsAssumption
   DEF Init, LInv, PendingIsOwn, CreatedFirst, PendingFits, LocksExclusive, UniqueProfiles, Held, Live

\* A step of r that writes nothing, keeps what it has pending only if it still
\* stands before its COMMIT, and does not fall back behind a commit.
LEMMA QuietStep ==
    ASSUME LInv, NEW r \in Requests, NEW label \in Labels,
           TypeOK, pc' = [pc EXCEPT ![r] = label],
           UNCHANGED <<profiles, orm, pending>>,
           pending[r] # Nil => label \in {"audit", "commit"},
           pc[r] \in {"refresh", "done"} => label \in {"refresh", "done"}
    PROVE  LInv'
<1>1. Live' = Live /\ \A q : Held(q)' = Held(q)
  BY DEF Live, Held, Keys
<1>2. PendingIsOwn' /\ CreatedFirst'
  BY <1>1 DEF LInv, PendingIsOwn, CreatedFirst, TypeOK, Live
<1>3. PendingFits' /\ LocksExclusive' /\ UniqueProfiles'
  BY <1>1 DEF LInv, PendingFits, LocksExclusive, UniqueProfiles, Keys
<1> QED
  BY <1>2, <1>3 DEF LInv

LEMMA AbortStep ==
    ASSUME LInv, TypeOK, NEW r \in Requests, Abort(r), UNCHANGED profiles
    PROVE  LInv'
<1>1. Live' = Live /\ \A q \in Requests \ {r} : Held(q)' = Held(q)
  BY DEF Live, Held, Keys, Abort, TypeOK
<1>2. Held(r)' = {}
  BY DEF Held, Abort, TypeOK
<1>3. PendingIsOwn' /\ CreatedFirst'
  BY <1>1 DEF LInv, PendingIsOwn, CreatedFirst, TypeOK, Live, Abort, Answer
<1>4. PendingFits' /\ UniqueProfiles'
  BY <1>1 DEF LInv, PendingFits, UniqueProfiles, Keys, Abort, TypeOK
<1>5. LocksExclusive'
  BY <1>1, <1>2 DEF LInv, LocksExclusive
<1> QED
  BY <1>3, <1>4, <1>5 DEF LInv

\* r flushes a write of row w to profile p and takes its locks.
LEMMA FlushStep ==
    ASSUME LInv, TInv, NEW r \in Requests, NEW p \in Requests, NEW w \in Row \cup {Nil},
           pc[r] = "flush",
           pc' = [pc EXCEPT ![r] = "audit"],
           pending' = [pending EXCEPT ![r] = [id |-> p, row |-> w]],
           UNCHANGED profiles,
           orm' \in [Requests -> Handle \cup {Nil}],
           \A q \in Requests \ {r} : orm'[q] = orm[q],
           orm'[r].id = p,
           p # r => pc[p] \in {"refresh", "done"},
           \A q \in Requests \ {r} : pending[q] # Nil => pending[q].id # p,
           Free(r, Keys(w)),
           ~UniqueViolation(p, w)
    PROVE  LInv'
<1>1. Live' = Live /\ \A q \in Requests \ {r} : pending'[q] = pending[q] /\ Held(q)' = Held(q)
  BY DEF Live, Held, Keys, TInv, TypeOK
<1>2. pending'[r] = [id |-> p, row |-> w] /\ pending'[r] # Nil
  <2>1. [id |-> p, row |-> w] \in Write
    BY DEF Write
  <2> QED
    BY <2>1, ConstantsAssumption DEF TInv, TypeOK
<1>3. Held(r)' = {<<"row", p>>} \cup Keys(profiles[p]) \cup Keys(w)
  BY <1>2 DEF Held, Keys
<1>4. PendingIsOwn'
  BY <1>1, <1>2 DEF LInv, PendingIsOwn, TInv, TypeOK
<1>5. CreatedFirst'
  BY <1>1 DEF LInv, CreatedFirst, TInv, TypeOK, Live
<1>6. PendingFits'
  BY <1>1, <1>2 DEF LInv, PendingFits, UniqueViolation, Keys
<1>7. ASSUME NEW q \in Requests \ {r} PROVE Held(q) \cap (Held(r)') = {}
  <2>1. CASE pending[q] = Nil
    BY <2>1 DEF Held
  <2>2. CASE pending[q] # Nil
    <3>1. /\ Held(q) = {<<"row", pending[q].id>>} \cup Keys(profiles[pending[q].id])
                                                  \cup Keys(pending[q].row)
          /\ pending[q].id \in Requests
          /\ pending[q].id # p
      BY <2>2, WriteType DEF Held
    <3>2. Keys(w) \cap Held(q) = {}
      BY DEF Free
    <3>3. <<"row", p>> \notin Held(q)
      BY <3>1 DEF Keys
    <3>4. Keys(profiles[p]) \cap Keys(profiles[pending[q].id]) = {}
      BY <3>1 DEF LInv, UniqueProfiles, Live, Keys
    <3>5. Keys(profiles[p]) \cap Keys(pending[q].row) = {}
      BY <2>2, <3>1 DEF LInv, PendingFits, Live, Keys
    <3>6. <<"row", pending[q].id>> \notin Keys(profiles[p])
      BY DEF Keys
    <3> QED
      BY <1>3, <3>1, <3>2, <3>3, <3>4, <3>5, <3>6
  <2> QED
    BY <2>1, <2>2
<1>8. LocksExclusive'
  BY <1>1, <1>7 DEF LInv, LocksExclusive
<1>9. UniqueProfiles'
  BY <1>1 DEF LInv, UniqueProfiles, Keys
<1> QED
  BY <1>4, <1>5, <1>6, <1>8, <1>9 DEF LInv

LEMMA CommitStep ==
    ASSUME LInv, TInv, NEW r \in Requests, Commit(r)
    PROVE  LInv'
<1>1. \E label \in {"refresh", "done"} : pc' = [pc EXCEPT ![r] = label]
  BY DEF Commit, AfterCommit, Goto, Answer
<1>2. pending' = [pending EXCEPT ![r] = Nil] /\ UNCHANGED orm
  BY DEF Commit
<1>3. CASE pending[r] = Nil
  <2>1. UNCHANGED <<profiles, pending>>
    BY <1>2, <1>3 DEF Commit, Committed, TInv, TypeOK
  <2> QED
    BY <1>1, <1>2, <1>3, <2>1, QuietStep DEF TInv, Labels
<1>4. CASE pending[r] # Nil
  <2> DEFINE p == pending[r].id
             w == pending[r].row
  <2>1. p \in Requests /\ w \in Row \cup {Nil}
    BY <1>4, WriteType
  <2>2. profiles' = [profiles EXCEPT ![p] = w]
    BY <1>4 DEF Commit, Committed
  <2> HIDE DEF p, w
  <2>3. Held(r) = {<<"row", p>>} \cup Keys(profiles[p]) \cup Keys(w)
    BY <1>4 DEF Held, p, w
  <2>4. ASSUME NEW q \in Requests \ {r}, pending[q] # Nil
        PROVE  /\ pending'[q] = pending[q]
               /\ pending[q].id \in Requests
               /\ pending[q].id # p
               /\ Keys(w) \cap Keys(pending[q].row) = {}
    <3>1. Held(q) \cap Held(r) = {}
      BY <2>4 DEF LInv, LocksExclusive
    <3>2. <<"row", pending[q].id>> \in Held(q) /\ Keys(pending[q].row) \subseteq Held(q)
      BY <2>4 DEF Held
    <3> QED
      BY <1>2, <2>3, <2>4, <3>1, <3>2, WriteType DEF TInv, TypeOK
  <2>5. Held(r)' = {} /\ pending'[r] = Nil
    BY <1>2 DEF Held, TInv, TypeOK
  <2>6. ASSUME NEW q \in Requests \ {r} PROVE Held(q)' = Held(q)
    <3>1. pending'[q] = pending[q]
      BY <1>2 DEF TInv, TypeOK
    <3>2. pending[q] # Nil => profiles'[pending[q].id] = profiles[pending[q].id]
      BY <2>1, <2>2, <2>4 DEF TInv, TypeOK
    <3> QED
      BY <3>1, <3>2 DEF Held, Keys
  <2>7. LocksExclusive'
    BY <2>5, <2>6 DEF LInv, LocksExclusive
  <2>8. Live' \ {p} = Live \ {p} /\ \A q \in Live \ {p} : profiles'[q] = profiles[q]
    BY <2>1, <2>2 DEF Live, TInv, TypeOK
  <2>9. profiles'[p] = w
    BY <2>1, <2>2 DEF TInv, TypeOK
  <2>10. \A q \in Live \ {p} : Keys(profiles[q]) \cap Keys(w) = {}
    BY <1>4 DEF LInv, PendingFits, p, w
  <2>11. PendingFits'
    <3> SUFFICES ASSUME NEW q \in Requests, pending'[q] # Nil,
                        NEW s \in Live' \ {pending'[q].id}
                 PROVE  Keys(profiles'[s]) \cap Keys(pending'[q].row) = {}
      BY DEF PendingFits, Keys
    <3>1. q # r /\ pending'[q] = pending[q]
      BY <1>2, <2>5 DEF TInv, TypeOK
    <3>2. CASE s = p
      BY <2>4, <2>9, <3>1, <3>2
    <3>3. CASE s # p
      BY <2>8, <3>1, <3>3 DEF LInv, PendingFits
    <3> QED
      BY <3>2, <3>3
  <2>12. UniqueProfiles'
    <3> SUFFICES ASSUME NEW q \in Live', NEW s \in Live', q # s
                 PROVE  Keys(profiles'[q]) \cap Keys(profiles'[s]) = {}
      BY DEF UniqueProfiles, Keys
    <3> QED
      BY <2>8, <2>9, <2>10 DEF LInv, UniqueProfiles
  <2>13. PendingIsOwn'
    BY <1>1, <1>2, <2>5 DEF LInv, PendingIsOwn, TInv, TypeOK
  <2>14. CreatedFirst'
    <3>1. p = orm[r].id
      BY <1>4 DEF LInv, PendingIsOwn, p
    <3>2. pc'[p] \in {"refresh", "done"}
      <4>1. CASE p = r
        BY <1>1, <2>1, <4>1 DEF TInv, TypeOK
      <4>2. CASE p # r
        <5>1. orm[r] # Nil
          BY DEF Commit, TInv, SessionHolds, NeedsProfile
        <5> QED
          BY <1>1, <2>1, <3>1, <4>2, <5>1 DEF LInv, CreatedFirst, TInv, TypeOK
      <4> QED
        BY <4>1, <4>2
    <3>3. \A q \in Live : pc'[q] \in {"refresh", "done"}
      BY <1>1 DEF LInv, CreatedFirst, TInv, TypeOK, Live
    <3>4. \A q \in Requests : orm'[q] # Nil /\ orm'[q].id # q => pc'[orm'[q].id] \in {"refresh", "done"}
      BY <1>1, <1>2, HandleType DEF LInv, CreatedFirst, TInv, TypeOK
    <3> QED
      BY <2>8, <3>2, <3>3, <3>4 DEF CreatedFirst
  <2> QED
    BY <2>7, <2>11, <2>12, <2>13, <2>14 DEF LInv
<1> QED
  BY <1>3, <1>4

\* Loading a profile, and reloading it after the commit.
LEMMA LoadStep ==
    ASSUME LInv, TInv, NEW r \in Requests, NEW h \in Handle, NEW label \in Labels,
           pc[r] \in {"load", "refresh"},
           pc' = [pc EXCEPT ![r] = label],
           pc[r] = "refresh" => label = "done" /\ h.id = orm[r].id /\ orm[r] # Nil,
           pc[r] = "load" => h.id \in Live,
           orm' = [orm EXCEPT ![r] = h],
           UNCHANGED <<profiles, pending>>
    PROVE  LInv'
<1>1. Live' = Live /\ \A q : Held(q)' = Held(q)
  BY DEF Live, Held, Keys
<1>2. pending[r] = Nil
  BY DEF LInv, PendingIsOwn
<1>3. PendingIsOwn'
  BY <1>2 DEF LInv, PendingIsOwn, TInv, TypeOK
<1>4. CreatedFirst'
  <2>1. \A q \in Live : pc'[q] \in {"refresh", "done"}
    BY DEF LInv, CreatedFirst, TInv, TypeOK, Live
  <2>2. ASSUME NEW q \in Requests, orm'[q] # Nil, orm'[q].id # q
        PROVE  pc'[orm'[q].id] \in {"refresh", "done"}
    <3>1. CASE q = r
      BY <2>1, <2>2, <3>1 DEF LInv, CreatedFirst, TInv, TypeOK, Handle
    <3>2. CASE q # r
      BY <2>2, <3>2, HandleType DEF LInv, CreatedFirst, TInv, TypeOK
    <3> QED
      BY <3>1, <3>2
  <2> QED
    BY <1>1, <2>1, <2>2 DEF CreatedFirst
<1>5. PendingFits' /\ LocksExclusive' /\ UniqueProfiles'
  BY <1>1 DEF LInv, PendingFits, LocksExclusive, UniqueProfiles, Keys
<1> QED
  BY <1>3, <1>4, <1>5 DEF LInv

\* Where a flush of an update or a delete may write.
LEMMA FlushTarget ==
    ASSUME LInv, TInv, NEW r \in Requests, pc[r] = "flush", job[r].op # "create"
    PROVE  /\ orm[r] \in Handle /\ orm[r].id \in Requests /\ orm[r].row \in Row
           /\ orm[r].id # r => pc[orm[r].id] \in {"refresh", "done"}
           /\ Free(r, {<<"row", orm[r].id>>}) =>
                 \A q \in Requests \ {r} : pending[q] # Nil => pending[q].id # orm[r].id
<1>1. orm[r] # Nil
  BY DEF TInv, SessionHolds, NeedsProfile
<1>2. ASSUME Free(r, {<<"row", orm[r].id>>}), NEW q \in Requests \ {r}, pending[q] # Nil
      PROVE  pending[q].id # orm[r].id
  BY <1>2 DEF Free, Held
<1> QED
  BY <1>1, <1>2, HandleType DEF LInv, CreatedFirst

LEMMA LocksStep == LInv /\ TInv /\ [Next]_vars => LInv'
<1> SUFFICES ASSUME LInv, TInv, [Next]_vars PROVE LInv'
  OBVIOUS
<1> USE DEF Goto, Answer
<1>0. TypeOK
  BY DEF TInv
<1>1. ASSUME NEW r \in Requests, Begin(r) PROVE LInv'
  BY <1>0, <1>1, QuietStep DEF Begin, LInv, PendingIsOwn, Labels
<1>2. ASSUME NEW r \in Requests, CheckUser(r) PROVE LInv'
  BY <1>0, <1>2, QuietStep DEF CheckUser, LInv, PendingIsOwn, Labels
<1>3. ASSUME NEW r \in Requests, GetProfileOrRaise(r) PROVE LInv'
  <2>1. CASE Answer(r, 404) /\ UNCHANGED orm
    BY <1>0, <1>3, <2>1, QuietStep DEF GetProfileOrRaise, LInv, PendingIsOwn, Labels
  <2>2. ASSUME NEW p \in GetByUserId(Sub[r]),
               orm' = [orm EXCEPT ![r] = [id |-> p, row |-> profiles[p]]],
               AfterLoad(r)
        PROVE  LInv'
    <3>1. [id |-> p, row |-> profiles[p]] \in Handle /\ p \in Live
      BY RowInTable DEF GetByUserId, Live, Handle
    <3>2. \E label \in Labels : pc' = [pc EXCEPT ![r] = label]
      BY <2>2 DEF AfterLoad, Labels
    <3> QED
      BY <1>3, <2>2, <3>1, <3>2, LoadStep DEF GetProfileOrRaise
  <2> QED
    BY <1>3, <2>1, <2>2 DEF GetProfileOrRaise
<1>4. ASSUME NEW r \in Requests, PreparePhone(r) PROVE LInv'
  <2>1. \E label \in Labels : pc' = [pc EXCEPT ![r] = label]
    BY <1>4 DEF PreparePhone, Labels
  <2> QED
    BY <1>0, <1>4, <2>1, QuietStep DEF PreparePhone, LInv, PendingIsOwn
<1>5. ASSUME NEW r \in Requests, FlushInsert(r) PROVE LInv'
  <2>1. CASE Abort(r)
    BY <1>0, <1>5, <2>1, AbortStep DEF FlushInsert
  <2>2. CASE ~Abort(r)
    <3> DEFINE w == NewProfile(r)
    <3>1. w \in Row
      BY <1>5, NewProfileType DEF FlushInsert
    <3>2. [id |-> r, row |-> w] \in Handle
      BY <3>1 DEF Handle
    <3>3. /\ ~UniqueViolation(r, w)
          /\ Free(r, Keys(w))
          /\ orm' = [orm EXCEPT ![r] = [id |-> r, row |-> w]]
          /\ pending' = [pending EXCEPT ![r] = [id |-> r, row |-> w]]
          /\ pc[r] = "flush"
          /\ pc' = [pc EXCEPT ![r] = "audit"]
          /\ UNCHANGED profiles
      BY <1>5, <2>2 DEF FlushInsert
    <3>4. \A q \in Requests \ {r} : pending[q] # Nil => pending[q].id # r
      BY <3>3 DEF LInv, PendingIsOwn, CreatedFirst, TInv, SessionHolds, NeedsProfile
    <3> HIDE DEF w
    <3> QED
      BY <1>0, <3>1, <3>2, <3>3, <3>4, FlushStep DEF TypeOK
  <2> QED
    BY <2>1, <2>2
<1>6. ASSUME NEW r \in Requests, FlushUpdate(r) PROVE LInv'
  <2> DEFINE p == orm[r].id
             w == SetChanged(profiles[p], orm[r].row, Assigned(r))
  <2>1. CASE Abort(r)
    BY <1>0, <1>6, <2>1, AbortStep DEF FlushUpdate
  <2>2. CASE UNCHANGED pending /\ Goto(r, "audit")
    BY <1>0, <1>6, <2>2, QuietStep DEF FlushUpdate, Labels
  <2>3. CASE ~Abort(r) /\ ~UNCHANGED pending
    <3>1. /\ pc[r] = "flush"
          /\ Free(r, {<<"row", p>>})
          /\ profiles[p] # Nil
          /\ Free(r, Keys(w))
          /\ ~UniqueViolation(p, w)
          /\ pending' = [pending EXCEPT ![r] = [id |-> p, row |-> w]]
          /\ pc' = [pc EXCEPT ![r] = "audit"]
          /\ UNCHANGED <<profiles, orm>>
      BY <1>6, <2>3 DEF FlushUpdate
    <3>2. p \in Requests /\ w \in Row
      BY <1>6, <3>1, FlushTarget, RowInTable, AssignedType, SetChangedType DEF FlushUpdate
    <3>3. /\ p # r => pc[p] \in {"refresh", "done"}
          /\ \A q \in Requests \ {r} : pending[q] # Nil => pending[q].id # p
      BY <1>6, <3>1, FlushTarget DEF FlushUpdate
    <3>4. orm'[r].id = p /\ orm' \in [Requests -> Handle \cup {Nil}]
      BY <1>0, <3>1 DEF TypeOK
    <3> HIDE DEF p, w
    <3> QED
      BY <3>1, <3>2, <3>3, <3>4, FlushStep
  <2> QED
    BY <1>6, <2>1, <2>2, <2>3 DEF FlushUpdate
<1>7. ASSUME NEW r \in Requests, FlushDelete(r) PROVE LInv'
  <2> DEFINE p == orm[r].id
  <2>1. CASE Abort(r)
    BY <1>0, <1>7, <2>1, AbortStep DEF FlushDelete
  <2>2. CASE ~Abort(r)
    <3>1. /\ pc[r] = "flush" /\ job[r].op # "create"
          /\ Free(r, {<<"row", p>>})
          /\ pending' = [pending EXCEPT ![r] = [id |-> p, row |-> Nil]]
          /\ pc' = [pc EXCEPT ![r] = "audit"]
          /\ UNCHANGED <<profiles, orm>>
      BY <1>7, <2>2 DEF FlushDelete
    <3>2. /\ p \in Requests
          /\ p # r => pc[p] \in {"refresh", "done"}
          /\ \A q \in Requests \ {r} : pending[q] # Nil => pending[q].id # p
      BY <3>1, FlushTarget
    <3>3. Free(r, Keys(Nil)) /\ ~UniqueViolation(p, Nil)
      BY DEF Free, UniqueViolation, Keys
    <3>4. orm'[r].id = p /\ orm' \in [Requests -> Handle \cup {Nil}]
      BY <1>0, <3>1 DEF TypeOK
    <3> HIDE DEF p
    <3> QED
      BY <3>1, <3>2, <3>3, <3>4, FlushStep
  <2> QED
    BY <2>1, <2>2
<1>8. ASSUME NEW r \in Requests, AuditLog(r) PROVE LInv'
  <2>1. CASE Abort(r)
    BY <1>0, <1>8, <2>1, AbortStep DEF AuditLog
  <2>2. CASE ~Abort(r)
    BY <1>0, <1>8, <2>2, QuietStep DEF AuditLog, Labels
  <2> QED
    BY <2>1, <2>2
<1>9. ASSUME NEW r \in Requests, Commit(r) PROVE LInv'
  BY <1>9, CommitStep
<1>10. ASSUME NEW r \in Requests, Refresh(r) PROVE LInv'
  <2>1. CASE Abort(r)
    BY <1>0, <1>10, <2>1, AbortStep DEF Refresh
  <2>2. CASE ~Abort(r)
    <3>1. orm[r] # Nil /\ orm[r] \in Handle /\ orm[r].id \in Live /\ profiles[orm[r].id] \in Row
      BY <1>10, <2>2, HandleType, RowInTable DEF Refresh, TInv, SessionHolds, NeedsProfile
    <3> DEFINE h == [orm[r] EXCEPT !.row = profiles[orm[r].id]]
    <3>2. h \in Handle /\ h.id = orm[r].id
      BY <3>1 DEF Handle
    <3>3. orm' = [orm EXCEPT ![r] = h]
      BY <1>10, <2>2 DEF Refresh
    <3>4. "done" \in Labels
      BY DEF Labels
    <3> HIDE DEF h
    <3> QED
      BY <1>10, <2>2, <3>1, <3>2, <3>3, <3>4, LoadStep DEF Refresh
  <2> QED
    BY <2>1, <2>2
<1>11. ASSUME NEW r \in Requests, Fail(r) PROVE LInv'
  BY <1>0, <1>11, AbortStep DEF Fail
<1>12. CASE UNCHANGED vars
  <2>1. Live' = Live /\ \A q : Held(q)' = Held(q)
    BY <1>12 DEF vars, Live, Held, Keys
  <2> QED
    BY <1>12, <2>1
       DEF vars, LInv, PendingIsOwn, CreatedFirst, PendingFits, LocksExclusive, UniqueProfiles, Keys
<1> QED
  BY <1>1, <1>2, <1>3, <1>4, <1>5, <1>6, <1>7, <1>8, <1>9, <1>10, <1>11, <1>12
     DEF Next, Step, Finished

\* Whatever the interleaving of checks, flushes and commits, no two profiles
\* share a user or a phone number, and no two transactions hold the same lock.
THEOREM LocksSafe == Spec => [](TInv /\ LInv)
<1>1. Init => TInv /\ LInv
  BY TypeInit, LocksInit
<1>2. TInv /\ LInv /\ [Next]_vars => (TInv /\ LInv)'
  BY TypeStep, LocksStep
<1> QED
  BY <1>1, <1>2, PTL DEF Spec

THEOREM ProfilesAreUnique == Spec => []UniqueProfiles
BY LocksSafe, PTL DEF LInv

\* What r waits for is in the hands of q: at its flush anything that q has locked, the
\* share of a parent's key included, and at its audit row the key that q has written.
Blocks(q, r) ==
    /\ q # r
    /\ \/ pc[r] = "flush" /\ (Held(q) # {} \/ (ForeignKeys /\ pc[q] = "commit"))
       \/ pc[r] = "audit" /\ ForeignKeys /\ pending[q] # Nil /\ pending[q].id = orm[r].id

NobodyBlocksABlocker == \A q, r, s \in Requests : ~(Blocks(q, r) /\ Blocks(s, q))

\* Every guard of ProfileCrud that waits has such a blocker when it is false.
LEMMA WaitsHaveBlockers ==
    ASSUME NEW r \in Requests
    PROVE  /\ pc[r] = "flush" => \A locks : ~Free(r, locks) => \E q \in Requests : Blocks(q, r)
           /\ pc[r] = "flush" => \A p : KeyShared(r, p) => \E q \in Requests : Blocks(q, r)
           /\ pc[r] = "audit" /\ KeyWritten(r, orm[r].id) => \E q \in Requests : Blocks(q, r)
BY DEF Blocks, Free, KeyShared, KeyWritten

LEMMA BlockersProceed == LInv => NobodyBlocksABlocker
<1> SUFFICES ASSUME LInv, NEW q \in Requests, NEW r \in Requests, NEW s \in Requests,
                    Blocks(q, r), Blocks(s, q)
             PROVE  FALSE
  BY DEF NobodyBlocksABlocker
<1>1. pc[q] = "audit" /\ pending[q] # Nil
  BY DEF Blocks, Held, LInv, PendingIsOwn
<1>2. s # q /\ pending[s] # Nil /\ pending[s].id = pending[q].id
  BY <1>1 DEF Blocks, LInv, PendingIsOwn
<1>3. <<"row", pending[q].id>> \in Held(q) \cap Held(s)
  BY <1>1, <1>2 DEF Held
<1> QED  BY <1>2, <1>3 DEF LInv, LocksExclusive

\* The waits of the flushes and of the audit rows form no cycle, with any number of
\* requests: a transaction that others wait for never waits for a lock itself.
THEOREM WaitsFormNoCycle == Spec => []NobodyBlocksABlocker
BY LocksSafe, BlockersProceed, PTL

-----------------------------------------------------------------------------
(* Permanence: with foreign keys the audit trail pins every profile. *)

Referenced == \A p \in Live : \E e \in audit : e.profile = p

\* A handler that is about to write still finds the row it loaded.
TargetLive ==
    \A r \in Requests :
        pc[r] \in {"phone", "flush"} /\ job[r].op # "create" => orm[r].id \in Live

NoPendingDelete == \A r \in Requests : pending[r] # Nil => pending[r].row # Nil

FInv == ForeignKeys => Referenced /\ TargetLive /\ NoPendingDelete

LEMMA PinnedInit == Init => FInv
BY DEF Init, FInv, Referenced, TargetLive, NoPendingDelete, Live

LEMMA LiveGrows ==
    ASSUME TInv, FInv, ForeignKeys, [Next]_vars
    PROVE  Live \subseteq Live'
<1>1. CASE UNCHANGED profiles
  BY <1>1 DEF Live
<1>2. ASSUME NEW r \in Requests, Commit(r) PROVE Live \subseteq Live'
  <2>1. CASE pending[r] = Nil
    BY <1>2, <2>1 DEF Commit, Committed, Live
  <2>2. CASE pending[r] # Nil
    BY <1>2, <2>2, WriteType DEF Commit, Committed, Live, FInv, NoPendingDelete, TInv, TypeOK
  <2> QED
    BY <2>1, <2>2
<1> QED
  BY <1>1, <1>2
     DEF Next, Step, Begin, CheckUser, GetProfileOrRaise, PreparePhone, FlushInsert, FlushUpdate,
         FlushDelete, AuditLog, Refresh, Fail, Finished, vars

LEMMA PinnedStep == TInv /\ LInv /\ FInv /\ [Next]_vars => FInv'
<1> SUFFICES ASSUME TInv, LInv, FInv, ForeignKeys, [Next]_vars
             PROVE  (Referenced /\ TargetLive /\ NoPendingDelete)'
  BY DEF FInv
<1> USE DEF Goto, Answer
<1>0. Live \subseteq Live' /\ Referenced /\ TargetLive /\ NoPendingDelete
  BY LiveGrows DEF FInv
<1>1. Referenced'
  <2>1. CASE UNCHANGED <<profiles, audit>>
    BY <1>0, <2>1 DEF Referenced, Live
  <2>2. ASSUME NEW r \in Requests, Commit(r) PROVE Referenced'
    <3> DEFINE new == [req |-> r, profile |-> orm[r].id]
    <3>1. audit \subseteq audit' /\ new \in audit' /\ new.profile = orm[r].id
      BY <2>2 DEF Commit
    <3> HIDE DEF new
    <3>2. Live' \subseteq Live \cup {orm[r].id}
      BY <2>2 DEF Commit, Committed, Live, LInv, PendingIsOwn, TInv, TypeOK
    <3> QED
      BY <1>0, <3>1, <3>2 DEF Referenced
  <2> QED
    BY <2>1, <2>2
       DEF Next, Step, Begin, CheckUser, GetProfileOrRaise, PreparePhone, FlushInsert, FlushUpdate,
           FlushDelete, AuditLog, Refresh, Fail, Finished, vars
<1>2. TargetLive'
  <2>1. ASSUME NEW r \in Requests, GetProfileOrRaise(r) PROVE TargetLive'
    BY <1>0, <2>1
       DEF GetProfileOrRaise, GetByUserId, AfterLoad, TargetLive, Live, TInv, TypeOK
  <2>2. ASSUME NEW r \in Requests, CheckUser(r) PROVE TargetLive'
    BY <1>0, <2>2 DEF CheckUser, TargetLive, Live, TInv, TypeOK
  <2>3. ASSUME NEW r \in Requests, PreparePhone(r) PROVE TargetLive'
    BY <1>0, <2>3 DEF PreparePhone, TargetLive, Live, TInv, TypeOK
  <2>4. ASSUME NEW r \in Requests, Begin(r) PROVE TargetLive'
    BY <1>0, <2>4 DEF Begin, TargetLive, Live, TInv, TypeOK
  <2>5. ASSUME NEW r \in Requests,
               FlushInsert(r) \/ FlushUpdate(r) \/ FlushDelete(r) \/ AuditLog(r) \/ Commit(r)
                 \/ Refresh(r) \/ Fail(r)
        PROVE  TargetLive'
    <3>1. pc'[r] \notin {"phone", "flush"} /\ job' = job
      BY <2>5
         DEF FlushInsert, FlushUpdate, FlushDelete, AuditLog, Commit, AfterCommit, Refresh, Fail,
             Abort, TInv, TypeOK
    <3>2. \A q \in Requests \ {r} : pc'[q] = pc[q] /\ orm'[q] = orm[q]
      BY <2>5
         DEF FlushInsert, FlushUpdate, FlushDelete, AuditLog, Commit, AfterCommit, Refresh, Fail,
             Abort, TInv, TypeOK
    <3> QED
      BY <1>0, <3>1, <3>2 DEF TargetLive
  <2>6. CASE UNCHANGED vars
    BY <1>0, <2>6 DEF vars, TargetLive
  <2> QED
    BY <2>1, <2>2, <2>3, <2>4, <2>5, <2>6 DEF Next, Step, Finished
<1>3. NoPendingDelete'
  <2>1. CASE UNCHANGED pending
    BY <1>0, <2>1 DEF NoPendingDelete
  <2>2. ASSUME NEW r \in Requests, pending' = [pending EXCEPT ![r] = Nil] PROVE NoPendingDelete'
    BY <1>0, <2>2 DEF NoPendingDelete, TInv, TypeOK
  <2>3. ASSUME NEW r \in Requests, NEW p, NEW w \in Row,
               pending' = [pending EXCEPT ![r] = [id |-> p, row |-> w]]
        PROVE  NoPendingDelete'
    BY <1>0, <2>3, ConstantsAssumption DEF NoPendingDelete, TInv, TypeOK
  <2>4. ASSUME NEW r \in Requests, FlushInsert(r) PROVE NoPendingDelete'
    BY <2>2, <2>3, <2>4, NewProfileType DEF FlushInsert, Abort
  <2>5. ASSUME NEW r \in Requests, FlushUpdate(r) PROVE NoPendingDelete'
    <3> DEFINE w == SetChanged(profiles[orm[r].id], orm[r].row, Assigned(r))
    <3>1. profiles[orm[r].id] # Nil => w \in Row
      BY <2>5, FlushTarget, RowInTable, AssignedType, SetChangedType DEF FlushUpdate
    <3> QED
      BY <2>1, <2>2, <2>3, <2>5, <3>1 DEF FlushUpdate, Abort
  <2>6. ASSUME NEW r \in Requests, FlushDelete(r) PROVE NoPendingDelete'
    <3>1. Abort(r)
      BY <1>0, <2>6 DEF FlushDelete, TargetLive, Referenced
    <3> QED
      BY <2>2, <3>1 DEF Abort
  <2> QED
    BY <2>1, <2>2, <2>4, <2>5, <2>6
       DEF Next, Step, Begin, CheckUser, GetProfileOrRaise, PreparePhone, AuditLog, Commit, Refresh,
           Fail, Abort, Finished, vars
<1> QED
  BY <1>1, <1>2, <1>3

\* Where foreign keys are enforced DELETE /api/profile can never take effect.
THEOREM ProfilesArePermanent == Spec => ProfilesNeverRemoved
<1>1. Init => TInv /\ LInv /\ FInv
  BY TypeInit, LocksInit, PinnedInit
<1>2. TInv /\ LInv /\ FInv /\ [Next]_vars => (TInv /\ LInv /\ FInv)'
  BY TypeStep, LocksStep, PinnedStep
<1>3. TInv /\ LInv /\ FInv /\ [Next]_vars => [ForeignKeys => Live \subseteq Live']_vars
  BY LiveGrows
<1> QED
  BY <1>1, <1>2, <1>3, PTL DEF Spec, ProfilesNeverRemoved
-----------------------------------------------------------------------------
(* The phone columns.  For every user who waits for each answer before sending another *)
(* request, the digest and the ciphertext of the stored number belong to the same one. *)

\* A profile, an instance of it and a write to it belong to the user who sent
\* the request.
Ownership ==
    /\ \A p \in Live : profiles[p].user = Sub[p]
    /\ \A r \in Requests : orm[r] # Nil => Sub[orm[r].id] = Sub[r]
    /\ \A r \in Requests : pending[r] # Nil /\ pending[r].row # Nil => pending[r].row.user = Sub[r]

OneAtATime ==
    \A q, r \in Requests : q # r /\ Sub[q] = Sub[r] /\ Sub[r] \in Patient => ~Busy(q) \/ ~Busy(r)

\* What the handler of a patient user loaded is still what is stored.
LoadedIsFresh ==
    \A r \in Requests :
        Sub[r] \in Patient /\ pc[r] \in {"phone", "flush"} /\ job[r].op # "create"
            => profiles[orm[r].id] = orm[r].row

Agree(row) == row.hash = Digest(Decrypt(row.enc))

PhonesAgree ==
    /\ \A p \in Live : Sub[p] \in Patient => Agree(profiles[p])
    /\ \A r \in Requests :
          Sub[r] \in Patient /\ pending[r] # Nil /\ pending[r].row # Nil => Agree(pending[r].row)

PInv == Ownership /\ OneAtATime /\ LoadedIsFresh /\ PhonesAgree

LEMMA PatientInit == Init => PInv
BY DEF Init, PInv, Ownership, OneAtATime, LoadedIsFresh, PhonesAgree, Busy, Live

LEMMA BusyStep ==
    ASSUME TInv, PInv, [Next]_vars
    PROVE  OneAtATime'
<1> USE DEF Goto, Answer, Busy
<1>1. ASSUME NEW r \in Requests, Begin(r) PROVE OneAtATime'
  BY <1>1 DEF Begin, PInv, OneAtATime, TInv, TypeOK
<1>2. ASSUME NEW r \in Requests, NEW label, Busy(r), pc' = [pc EXCEPT ![r] = label]
      PROVE  OneAtATime'
  BY <1>2 DEF PInv, OneAtATime, TInv, TypeOK
<1>3. CASE UNCHANGED vars
  BY <1>3 DEF vars, PInv, OneAtATime
<1>4. ASSUME NEW r \in Requests, Step(r) \/ Fail(r)
      PROVE  Busy(r) /\ \E label : pc' = [pc EXCEPT ![r] = label]
  <2>1. Busy(r)
    BY <1>4
       DEF Step, CheckUser, GetProfileOrRaise, PreparePhone, FlushInsert, FlushUpdate, FlushDelete,
           AuditLog, Commit, Refresh, Fail
  <2>2. \E label : pc' = [pc EXCEPT ![r] = label]
    BY <1>4
       DEF Step, CheckUser, GetProfileOrRaise, AfterLoad, PreparePhone, FlushInsert, FlushUpdate,
           FlushDelete, AuditLog, Commit, AfterCommit, Refresh, Fail, Abort
  <2> QED
    BY <2>1, <2>2
<1> QED
  BY <1>1, <1>2, <1>3, <1>4 DEF Next, Finished

\* The rows a flush makes pending.
LEMMA NewProfileAgrees ==
    ASSUME NEW r \in Requests
    PROVE  NewProfile(r).user = Sub[r] /\ Agree(NewProfile(r))
BY DEF NewProfile, Agree, Digest, Decrypt, Encrypt

LEMMA UpdateAgrees ==
    ASSUME TInv, LInv, PInv, NEW r \in Requests,
           pc[r] = "flush", job[r].op = "update", orm[r].id \in Live
    PROVE  LET stored == SetChanged(profiles[orm[r].id], orm[r].row, Assigned(r))
           IN stored.user = Sub[r] /\ (Sub[r] \in Patient => Agree(stored))
<1> DEFINE p == orm[r].id
           stored == SetChanged(profiles[p], orm[r].row, Assigned(r))
<1>1. /\ orm[r] # Nil /\ p \in Requests
      /\ orm[r].row \in Row /\ profiles[p] \in Row /\ Assigned(r) \in Row
  BY FlushTarget, RowInTable, AssignedType, ConstantsAssumption DEF TInv, SessionHolds, NeedsProfile
<1>2. stored.user = Sub[r]
  BY <1>1 DEF SetChanged, PInv, Ownership
<1>3. ASSUME Sub[r] \in Patient PROVE Agree(stored)
  <2>1. profiles[p] = orm[r].row /\ Agree(profiles[p])
    BY <1>1, <1>3 DEF PInv, LoadedIsFresh, PhonesAgree, Ownership
  <2>2. Agree(Assigned(r))
    BY <2>1 DEF Assigned, Agree, Digest, Decrypt, Encrypt
  <2>3. stored.enc = Assigned(r).enc /\ stored.hash = Assigned(r).hash
    BY <2>1 DEF SetChanged
  <2> QED
    BY <2>2, <2>3 DEF Agree
<1> QED
  BY <1>2, <1>3

\* A step of r that leaves the table alone and, if it flushes, flushes a good row.
LEMMA LocalStep ==
    ASSUME TInv, PInv, OneAtATime', NEW r \in Requests, UNCHANGED profiles,
           \A q \in Requests \ {r} :
              pc'[q] = pc[q] /\ job'[q] = job[q] /\ orm'[q] = orm[q] /\ pending'[q] = pending[q],
           orm'[r] # Nil => Sub[orm'[r].id] = Sub[r],
           pending'[r] # Nil /\ pending'[r].row # Nil =>
              /\ pending'[r].row.user = Sub[r]
              /\ Sub[r] \in Patient => Agree(pending'[r].row),
           (pc'[r] \in {"phone", "flush"} /\ job'[r].op # "create") =>
              (Sub[r] \in Patient => profiles[orm'[r].id] = orm'[r].row)
    PROVE  PInv'
BY DEF PInv, Ownership, LoadedIsFresh, PhonesAgree, Live, Agree

LEMMA CommitAgrees ==
    ASSUME TInv, LInv, PInv, OneAtATime', NEW r \in Requests, Commit(r)
    PROVE  PInv'
<1>1. /\ UNCHANGED <<job, orm>>
      /\ pending' = [pending EXCEPT ![r] = Nil]
      /\ \A q \in Requests \ {r} : pc'[q] = pc[q]
      /\ pc'[r] \notin {"phone", "flush"}
  BY DEF Commit, AfterCommit, Goto, Answer, TInv, TypeOK
<1>2. CASE pending[r] = Nil
  <2>1. UNCHANGED profiles
    BY <1>2 DEF Commit, Committed
  <2> QED
    BY <1>1, <2>1 DEF PInv, Ownership, LoadedIsFresh, PhonesAgree, Live, Agree, TInv, TypeOK
<1>3. CASE pending[r] # Nil
  <2> DEFINE p == pending[r].id
             w == pending[r].row
  <2>1. /\ p \in Requests /\ p = orm[r].id /\ Sub[p] = Sub[r]
        /\ profiles' = [profiles EXCEPT ![p] = w]
    BY <1>3, WriteType
       DEF Commit, Committed, LInv, PendingIsOwn, PInv, Ownership, TInv, SessionHolds, NeedsProfile
  <2>2. w # Nil => w.user = Sub[p] /\ (Sub[p] \in Patient => Agree(w))
    BY <1>3, <2>1 DEF PInv, Ownership, PhonesAgree
  <2> HIDE DEF p, w
  <2>3. /\ profiles'[p] = w
        /\ \A q \in Requests \ {p} : profiles'[q] = profiles[q]
    BY <2>1 DEF TInv, TypeOK
  <2>4. Ownership'
    BY <1>1, <2>2, <2>3 DEF PInv, Ownership, Live, TInv, TypeOK
  <2>5. PhonesAgree'
    BY <1>1, <2>2, <2>3 DEF PInv, PhonesAgree, Live, Agree, TInv, TypeOK
  <2>6. LoadedIsFresh'
    <3> SUFFICES ASSUME NEW q \in Requests, Sub[q] \in Patient,
                        pc'[q] \in {"phone", "flush"}, job'[q].op # "create"
                 PROVE  profiles'[orm'[q].id] = orm'[q].row
      BY DEF LoadedIsFresh
    <3>1. q # r /\ pc[q] \in {"phone", "flush"} /\ job[q].op # "create"
      BY <1>1
    <3>2. orm[q] # Nil /\ orm[q].id \in Requests /\ Sub[orm[q].id] = Sub[q]
      BY <3>1, HandleType DEF TInv, SessionHolds, NeedsProfile, PInv, Ownership
    <3>3. orm[q].id # p
      BY <2>1, <3>1, <3>2 DEF PInv, OneAtATime, Busy, Commit
    <3>4. profiles[orm[q].id] = orm[q].row
      BY <3>1 DEF PInv, LoadedIsFresh
    <3> QED
      BY <1>1, <2>3, <3>2, <3>3, <3>4
  <2> QED
    BY <2>4, <2>5, <2>6 DEF PInv
<1> QED
  BY <1>2, <1>3

LEMMA PatientStep == TInv /\ LInv /\ PInv /\ [Next]_vars => PInv'
<1> SUFFICES ASSUME TInv, LInv, PInv, [Next]_vars PROVE PInv'
  OBVIOUS
<1> USE DEF Goto, Answer
<1>0. OneAtATime' /\ TypeOK
  BY BusyStep DEF TInv
<1>a. ASSUME NEW r \in Requests, Abort(r), UNCHANGED <<profiles, audit, job>> PROVE PInv'
  BY <1>0, <1>a, LocalStep DEF Abort, TypeOK, PInv, Ownership
<1>b. ASSUME NEW r \in Requests, NEW label \in Labels \ {"phone", "flush"},
             pc' = [pc EXCEPT ![r] = label], UNCHANGED <<profiles, job, orm, pending>>
      PROVE  PInv'
  BY <1>0, <1>b, LocalStep DEF TypeOK, PInv, Ownership, PhonesAgree
<1>1. ASSUME NEW r \in Requests, Begin(r) PROVE PInv'
  BY <1>0, <1>1, LocalStep DEF Begin, TypeOK, PInv, Ownership, PhonesAgree
<1>2. ASSUME NEW r \in Requests, CheckUser(r) PROVE PInv'
  BY <1>0, <1>2, LocalStep DEF CheckUser, TypeOK, PInv, Ownership, PhonesAgree
<1>3. ASSUME NEW r \in Requests, GetProfileOrRaise(r) PROVE PInv'
  <2>1. CASE Answer(r, 404) /\ UNCHANGED orm
    BY <1>b, <1>3, <2>1 DEF GetProfileOrRaise, Labels
  <2>2. ASSUME NEW p \in GetByUserId(Sub[r]),
               orm' = [orm EXCEPT ![r] = [id |-> p, row |-> profiles[p]]],
               AfterLoad(r)
        PROVE  PInv'
    <3>1. p \in Live /\ Sub[p] = Sub[r]
      BY <2>2 DEF GetByUserId, PInv, Ownership
    <3>2. orm'[r].id = p /\ orm'[r].row = profiles[p]
      BY <1>0, <2>2 DEF TypeOK
    <3>3. \A q \in Requests \ {r} : pc'[q] = pc[q] /\ orm'[q] = orm[q]
      BY <1>0, <2>2 DEF TypeOK, AfterLoad
    <3>4. UNCHANGED <<profiles, job, pending>>
      BY <1>3 DEF GetProfileOrRaise
    <3> QED
      BY <1>0, <3>1, <3>2, <3>3, <3>4, LocalStep DEF PInv, Ownership, PhonesAgree
  <2> QED
    BY <1>3, <2>1, <2>2 DEF GetProfileOrRaise
<1>4. ASSUME NEW r \in Requests, PreparePhone(r) PROVE PInv'
  BY <1>0, <1>4, LocalStep
     DEF PreparePhone, TypeOK, PInv, Ownership, PhonesAgree, LoadedIsFresh
<1>5. ASSUME NEW r \in Requests, FlushInsert(r) PROVE PInv'
  <2>1. CASE Abort(r)
    BY <1>a, <1>5, <2>1 DEF FlushInsert
  <2>2. CASE ~Abort(r)
    <3> DEFINE w == NewProfile(r)
    <3>1. w.user = Sub[r] /\ Agree(w)
      BY NewProfileAgrees
    <3> HIDE DEF w
    <3>2. /\ orm' = [orm EXCEPT ![r] = [id |-> r, row |-> w]]
          /\ pending' = [pending EXCEPT ![r] = [id |-> r, row |-> w]]
          /\ pc' = [pc EXCEPT ![r] = "audit"]
          /\ UNCHANGED <<profiles, job>>
      BY <1>5, <2>2 DEF FlushInsert, w
    <3> QED
      BY <1>0, <3>1, <3>2, LocalStep DEF TypeOK
  <2> QED
    BY <2>1, <2>2
<1>6. ASSUME NEW r \in Requests, FlushUpdate(r) PROVE PInv'
  <2> DEFINE p == orm[r].id
             w == SetChanged(profiles[p], orm[r].row, Assigned(r))
  <2>1. CASE Abort(r)
    BY <1>a, <1>6, <2>1 DEF FlushUpdate
  <2>2. CASE UNCHANGED pending /\ Goto(r, "audit")
    BY <1>b, <1>6, <2>2 DEF FlushUpdate, Labels
  <2>3. CASE ~Abort(r) /\ ~UNCHANGED pending
    <3>1. /\ profiles[p] # Nil
          /\ pending' = [pending EXCEPT ![r] = [id |-> p, row |-> w]]
          /\ pc' = [pc EXCEPT ![r] = "audit"]
          /\ UNCHANGED <<profiles, job, orm>>
      BY <1>6, <2>3 DEF FlushUpdate
    <3>2. p \in Live
      BY <1>6, <3>1, FlushTarget DEF FlushUpdate, Live
    <3>3. w.user = Sub[r] /\ (Sub[r] \in Patient => Agree(w))
      BY <1>6, <3>2, UpdateAgrees DEF FlushUpdate
    <3> HIDE DEF p, w
    <3> QED
      BY <1>0, <3>1, <3>3, LocalStep DEF TypeOK, PInv, Ownership
  <2> QED
    BY <1>6, <2>1, <2>2, <2>3 DEF FlushUpdate
<1>7. ASSUME NEW r \in Requests, FlushDelete(r) PROVE PInv'
  <2>1. CASE Abort(r)
    BY <1>a, <1>7, <2>1 DEF FlushDelete
  <2>2. CASE ~Abort(r)
    BY <1>0, <1>7, <2>2, LocalStep DEF FlushDelete, TypeOK, PInv, Ownership
  <2> QED
    BY <2>1, <2>2
<1>8. ASSUME NEW r \in Requests, AuditLog(r) PROVE PInv'
  BY <1>a, <1>b, <1>8 DEF AuditLog, Labels
<1>9. ASSUME NEW r \in Requests, Commit(r) PROVE PInv'
  BY <1>0, <1>9, CommitAgrees
<1>10. ASSUME NEW r \in Requests, Refresh(r) PROVE PInv'
  <2>1. CASE Abort(r)
    BY <1>a, <1>10, <2>1 DEF Refresh
  <2>2. CASE ~Abort(r)
    <3>1. orm[r] \in Handle /\ orm[r] # Nil
      BY <1>10, HandleType DEF Refresh, TInv, SessionHolds, NeedsProfile
    <3>2. orm'[r].id = orm[r].id /\ \A q \in Requests \ {r} : orm'[q] = orm[q]
      BY <1>0, <1>10, <2>2, <3>1 DEF Refresh, TypeOK, Handle
    <3> QED
      BY <1>0, <1>10, <2>2, <3>1, <3>2, LocalStep DEF Refresh, TypeOK, PInv, Ownership, PhonesAgree
  <2> QED
    BY <2>1, <2>2
<1>11. ASSUME NEW r \in Requests, Fail(r) PROVE PInv'
  BY <1>a, <1>11 DEF Fail
<1>12. CASE UNCHANGED vars
  BY <1>12 DEF vars, PInv, Ownership, OneAtATime, LoadedIsFresh, PhonesAgree, Busy, Live, Agree
<1> QED
  BY <1>1, <1>2, <1>3, <1>4, <1>5, <1>6, <1>7, <1>8, <1>9, <1>10, <1>11, <1>12
     DEF Next, Step, Finished

\* update_profile writes only the columns it changed, and that is harmless for a
\* user who has one request at a time: digest and ciphertext stay together.
THEOREM PatientPhonesAgree == Spec => []PhoneColumnsAgree
<1>1. Init => TInv /\ LInv /\ PInv
  BY TypeInit, LocksInit, PatientInit
<1>2. TInv /\ LInv /\ PInv /\ [Next]_vars => (TInv /\ LInv /\ PInv)'
  BY TypeStep, LocksStep, PatientStep
<1>3. PInv => PhoneColumnsAgree
  BY DEF PInv, Ownership, PhonesAgree, PhoneColumnsAgree, HashOfPhone, Agree
<1> QED
  BY <1>1, <1>2, <1>3, PTL DEF Spec
-----------------------------------------------------------------------------
(* What a step of one request may do to the rest: the cases of the sections below. *)

\* r stays with what it has, and writes nothing.
Stays(r) ==
    /\ UNCHANGED <<profiles, audit>> /\ orm'[r] = orm[r] /\ pending'[r] = pending[r]
    /\ status'[r] # 204 \/ status'[r] = status[r]
    /\ pc'[r] \in {"audit", "commit"} =>
          \/ pc[r] = "audit"
          \/ pc[r] = "flush" /\ job[r].op = "update" /\ Assigned(r) = orm[r].row

Aborts(r) ==
    /\ UNCHANGED <<profiles, audit>> /\ orm'[r] = orm[r] /\ pending'[r] = Nil
    /\ status'[r] = 500 /\ pc'[r] = "done" /\ pc[r] # "idle"

Loads(r) ==
    /\ UNCHANGED <<profiles, audit>> /\ pending'[r] = Nil /\ pending[r] = Nil
    /\ orm'[r] # Nil /\ orm'[r].id \in Live /\ orm'[r].row = profiles[orm'[r].id]
    /\ pc[r] # "idle" /\ (status'[r] # 204 \/ status'[r] = status[r])
    /\ pc'[r] \in {"audit", "commit"} => job[r].op = "get"

Flushes(r) ==
    /\ UNCHANGED <<profiles, audit>> /\ pc[r] = "flush" /\ pc'[r] = "audit"
    /\ pending[r] = Nil /\ pending'[r] # Nil /\ orm'[r] # Nil /\ pending'[r].id = orm'[r].id
    /\ Free(r, {<<"row", orm'[r].id>>}) \/ orm'[r].id = r
    /\ status'[r] = status[r]
    /\ \/ /\ job[r].op = "create" /\ orm'[r].id = r
          /\ orm'[r].row = NewProfile(r) /\ pending'[r].row = NewProfile(r)
       \/ /\ job[r].op = "update" /\ orm'[r] = orm[r] /\ orm[r].id \in Live
          /\ pending'[r].row = SetChanged(profiles[orm[r].id], orm[r].row, Assigned(r))
       \/ job[r].op = "delete" /\ orm'[r] = orm[r] /\ pending'[r].row = Nil

Commits(r) ==
    /\ pc[r] = "commit" /\ pc'[r] \in {"refresh", "done"}
    /\ orm'[r] = orm[r] /\ pending'[r] = Nil /\ orm[r] # Nil /\ orm[r].id \in Requests
    /\ audit' = audit \cup {[req |-> r, profile |-> orm[r].id]}
    /\ profiles' = Committed(r)
    /\ status'[r] = 204 => job[r].op = "delete" \/ status[r] = 204

\* r moves, and no other request.
Moves(r) ==
    /\ \A q \in Requests \ {r} :
          /\ pc'[q] = pc[q] /\ job'[q] = job[q] /\ orm'[q] = orm[q] /\ pending'[q] = pending[q]
          /\ status'[q] = status[q]
    /\ pc[r] # "done" /\ pc'[r] # "idle"
    /\ pc[r] # "idle" => job'[r] = job[r]
    /\ status'[r] = status[r] \/ pc'[r] = "done"
    /\ pc[r] = "refresh" => pc'[r] = "done"
    /\ Stays(r) \/ Aborts(r) \/ Loads(r) \/ Flushes(r) \/ Commits(r)

LEMMA StepMoves ==
    ASSUME TInv, LInv, [Next]_vars
    PROVE  UNCHANGED vars \/ \E r \in Requests : Moves(r)
<1> USE DEF Goto, Answer, TInv, TypeOK
<1>1. ASSUME NEW r \in Requests, Begin(r)  PROVE Moves(r)
  BY <1>1 DEF Begin, Moves, Stays
<1>2. ASSUME NEW r \in Requests, CheckUser(r)  PROVE Moves(r)
  BY <1>2 DEF CheckUser, Moves, Stays
<1>a. ASSUME NEW r \in Requests, pc[r] \notin {"idle", "done"}, Abort(r),
             UNCHANGED <<profiles, audit, job>>
      PROVE  Moves(r)
  BY <1>a DEF Abort, Moves, Aborts
<1>3. ASSUME NEW r \in Requests, GetProfileOrRaise(r)  PROVE Moves(r)
  <2>1. CASE Answer(r, 404) /\ UNCHANGED orm
    BY <1>3, <2>1 DEF GetProfileOrRaise, Moves, Stays
  <2>2. ASSUME NEW p \in GetByUserId(Sub[r]),
               orm' = [orm EXCEPT ![r] = [id |-> p, row |-> profiles[p]]],
               AfterLoad(r)
        PROVE  Moves(r)
    <3>1. p \in Live /\ p \in Requests /\ pending[r] = Nil
      BY <1>3, <2>2 DEF GetByUserId, Live, LInv, PendingIsOwn, GetProfileOrRaise
    <3>2. [id |-> p, row |-> profiles[p]] \in Handle
      BY <3>1, RowInTable DEF Handle
    <3>3. orm'[r] = [id |-> p, row |-> profiles[p]] /\ orm'[r] # Nil
      BY <2>2, <3>2, ConstantsAssumption
    <3>4. orm'[r].id = p /\ orm'[r].row = profiles[p]  BY <3>3
    <3>5. UNCHANGED <<profiles, audit, job, pending>> /\ pc[r] = "load"
      BY <1>3 DEF GetProfileOrRaise
    <3>6. /\ \A q \in Requests \ {r} : pc'[q] = pc[q] /\ orm'[q] = orm[q] /\ status'[q] = status[q]
          /\ pc'[r] # "idle" /\ (status'[r] = status[r] \/ (status'[r] = 200 /\ pc'[r] = "done"))
          /\ pc'[r] \in {"audit", "commit"} => job[r].op = "get"
      BY <2>2 DEF AfterLoad
    <3> QED  BY <3>1, <3>3, <3>4, <3>5, <3>6 DEF Moves, Loads
  <2> QED  BY <1>3, <2>1, <2>2 DEF GetProfileOrRaise
<1>4. ASSUME NEW r \in Requests, PreparePhone(r)  PROVE Moves(r)
  BY <1>4 DEF PreparePhone, Moves, Stays
<1>5. ASSUME NEW r \in Requests, FlushInsert(r)  PROVE Moves(r)
  <2>1. CASE Abort(r)  BY <1>a, <1>5, <2>1 DEF FlushInsert
  <2>2. CASE ~Abort(r)
    <3> DEFINE w == NewProfile(r)
               h == [id |-> r, row |-> w]
    <3>1. h \in Handle /\ h \in Write  BY <1>5, NewProfileType DEF FlushInsert, Handle, Write
    <3>2. /\ orm' = [orm EXCEPT ![r] = h] /\ pending' = [pending EXCEPT ![r] = h]
          /\ pc[r] = "flush" /\ pc' = [pc EXCEPT ![r] = "audit"] /\ job[r].op = "create"
          /\ UNCHANGED <<profiles, audit, job, status>>
      BY <1>5, <2>2 DEF FlushInsert
    <3>3. pending[r] = Nil  BY <3>2 DEF LInv, PendingIsOwn
    <3>4. h # Nil /\ h.id = r /\ h.row = w  BY <3>1, ConstantsAssumption
    <3> HIDE DEF h, w
    <3>5. orm'[r] = h /\ pending'[r] = h /\ pc'[r] = "audit"  BY <3>2
    <3>6. Flushes(r)  BY <3>2, <3>3, <3>4, <3>5 DEF Flushes, w
    <3> QED  BY <3>2, <3>6 DEF Moves
  <2> QED  BY <2>1, <2>2
<1>6. ASSUME NEW r \in Requests, FlushUpdate(r)  PROVE Moves(r)
  <2> DEFINE p == orm[r].id
             w == SetChanged(profiles[p], orm[r].row, Assigned(r))
             h == [id |-> p, row |-> w]
  <2>1. CASE Abort(r)  BY <1>a, <1>6, <2>1 DEF FlushUpdate
  <2>2. CASE Assigned(r) = orm[r].row  BY <1>6, <2>2 DEF FlushUpdate, Moves, Stays
  <2>3. CASE ~Abort(r) /\ Assigned(r) # orm[r].row
    <3>1. /\ pc[r] = "flush" /\ pc' = [pc EXCEPT ![r] = "audit"] /\ job[r].op = "update"
          /\ profiles[p] # Nil /\ pending' = [pending EXCEPT ![r] = h]
          /\ Free(r, {<<"row", p>>})
          /\ UNCHANGED <<profiles, audit, job, orm, status>>
      BY <1>6, <2>3 DEF FlushUpdate
    <3>2. orm[r] # Nil /\ p \in Requests /\ w \in Row
      BY <3>1, FlushTarget, RowInTable, AssignedType, SetChangedType DEF SessionHolds, NeedsProfile
    <3>3. pending[r] = Nil /\ p \in Live  BY <3>1, <3>2 DEF LInv, PendingIsOwn, Live
    <3>4. h \in Write /\ h.id = p /\ h.row = w  BY <3>2 DEF Write
    <3>5. h # Nil  BY <3>4, ConstantsAssumption
    <3> HIDE DEF h, w, p
    <3>6. pending'[r] = h /\ pc'[r] = "audit"  BY <3>1
    <3>7. Flushes(r)  BY <3>1, <3>2, <3>3, <3>4, <3>5, <3>6 DEF Flushes, w, p
    <3> QED  BY <3>1, <3>7 DEF Moves
  <2> QED  BY <2>1, <2>2, <2>3
<1>7. ASSUME NEW r \in Requests, FlushDelete(r)  PROVE Moves(r)
  <2> DEFINE p == orm[r].id
             h == [id |-> p, row |-> Nil]
  <2>1. CASE Abort(r)  BY <1>a, <1>7, <2>1 DEF FlushDelete
  <2>2. CASE ~Abort(r)
    <3>1. /\ pc[r] = "flush" /\ pc' = [pc EXCEPT ![r] = "audit"] /\ job[r].op = "delete"
          /\ pending' = [pending EXCEPT ![r] = h] /\ Free(r, {<<"row", p>>})
          /\ UNCHANGED <<profiles, audit, job, orm, status>>
      BY <1>7, <2>2 DEF FlushDelete
    <3>2. orm[r] # Nil /\ p \in Requests
      BY <3>1, HandleType DEF SessionHolds, NeedsProfile
    <3>3. pending[r] = Nil  BY <3>1 DEF LInv, PendingIsOwn
    <3>4. h \in Write /\ h.id = p /\ h.row = Nil  BY <3>2 DEF Write
    <3>5. h # Nil  BY <3>4, ConstantsAssumption
    <3> HIDE DEF h, p
    <3>6. pending'[r] = h /\ pc'[r] = "audit"  BY <3>1
    <3>7. Flushes(r)  BY <3>1, <3>2, <3>3, <3>4, <3>5, <3>6 DEF Flushes, p
    <3> QED  BY <3>1, <3>7 DEF Moves
  <2> QED  BY <2>1, <2>2
<1>8. ASSUME NEW r \in Requests, AuditLog(r)  PROVE Moves(r)
  <2>1. CASE Abort(r)  BY <1>a, <1>8, <2>1 DEF AuditLog
  <2>2. CASE ~Abort(r)  BY <1>8, <2>2 DEF AuditLog, Moves, Stays
  <2> QED  BY <2>1, <2>2
<1>9. ASSUME NEW r \in Requests, Commit(r)  PROVE Moves(r)
  <2>1. orm[r] # Nil /\ orm[r].id \in Requests
    BY <1>9, HandleType DEF Commit, SessionHolds, NeedsProfile
  <2>2. /\ UNCHANGED <<job, orm>> /\ pending' = [pending EXCEPT ![r] = Nil] /\ pc[r] = "commit"
        /\ audit' = audit \cup {[req |-> r, profile |-> orm[r].id]} /\ profiles' = Committed(r)
    BY <1>9 DEF Commit
  <2>3. \/ pc' = [pc EXCEPT ![r] = "done"] /\ status' = [status EXCEPT ![r] = 200]
        \/ pc' = [pc EXCEPT ![r] = "done"] /\ status' = [status EXCEPT ![r] = 204] /\ job[r].op = "delete"
        \/ pc' = [pc EXCEPT ![r] = "refresh"] /\ UNCHANGED status
    BY <1>9 DEF Commit, AfterCommit
  <2> QED  BY <2>1, <2>2, <2>3 DEF Moves, Commits
<1>10. ASSUME NEW r \in Requests, Refresh(r)  PROVE Moves(r)
  <2>1. CASE Abort(r)  BY <1>a, <1>10, <2>1 DEF Refresh
  <2>2. CASE ~Abort(r)
    <3> DEFINE p == orm[r].id
               h == [orm[r] EXCEPT !.row = profiles[p]]
    <3>1. orm[r] # Nil /\ orm[r] \in Handle /\ p \in Live /\ profiles[p] \in Row
      BY <1>10, <2>2, HandleType, RowInTable DEF Refresh, SessionHolds, NeedsProfile
    <3>2. h \in Handle /\ h.id = p /\ h.row = profiles[p]  BY <3>1 DEF Handle
    <3>3. h # Nil  BY <3>2, ConstantsAssumption
    <3>4. /\ orm' = [orm EXCEPT ![r] = h] /\ pc[r] = "refresh" /\ pc' = [pc EXCEPT ![r] = "done"]
          /\ UNCHANGED <<profiles, audit, job, pending>>
          /\ \E code \in {200, 201} : status' = [status EXCEPT ![r] = code]
      BY <1>10, <2>2 DEF Refresh
    <3>5. pending[r] = Nil  BY <3>4 DEF LInv, PendingIsOwn
    <3> HIDE DEF h
    <3>6. orm'[r] = h  BY <3>4
    <3>7. Loads(r)  BY <3>1, <3>2, <3>3, <3>4, <3>5, <3>6 DEF Loads
    <3> QED  BY <3>4, <3>7 DEF Moves
  <2> QED  BY <2>1, <2>2
<1>11. ASSUME NEW r \in Requests, Fail(r)  PROVE Moves(r)
  BY <1>a, <1>11 DEF Fail, Busy
<1> QED
  BY <1>1, <1>2, <1>3, <1>4, <1>5, <1>6, <1>7, <1>8, <1>9, <1>10, <1>11
     DEF Next, Step, Finished

-----------------------------------------------------------------------------
(* Accountability: whatever is stored was asked for by a request that the audit trail names. *)

Trail(p) == {a.req : a \in {b \in audit : b.profile = p}}

\* The columns of a row of p, written by requests in W.
Traced(p, row, W, jobs) ==
    /\ p \in W
    /\ \E r \in W : jobs[r].name = row.name
    /\ row.enc.nonce \in W
    /\ \E r \in W : jobs[r].phone # Nil /\ Digest(E164[jobs[r].phone]) = row.hash

\* With a write that is pending its request is known, and its audit row not yet committed.
TraceInv ==
    /\ \A a \in audit : a.req \in Requests /\ pc[a.req] \in {"refresh", "done"}
    /\ \A p \in Live : Traced(p, profiles[p], Trail(p), job)
    /\ \A r \in Requests :
          pending[r] # Nil /\ pending[r].row # Nil =>
              Traced(pending[r].id, pending[r].row, Trail(pending[r].id) \cup {r}, job)

LEMMA TraceInit == Init => TraceInv
BY DEF Init, TraceInv, Live

LEMMA TracedMore ==
    ASSUME NEW p, NEW row, NEW W, NEW V, NEW jobs, NEW after,
           Traced(p, row, W, jobs), W \subseteq V, \A r \in W : after[r] = jobs[r]
    PROVE  Traced(p, row, V, after)
BY DEF Traced

LEMMA TracedInsert ==
    ASSUME TInv, NEW r \in Requests, pc[r] = "flush", job[r].op = "create", NEW W
    PROVE  Traced(r, NewProfile(r), W \cup {r}, job)
<1>1. job[r].phone # Nil  BY JobFacts, ConstantsAssumption
<1> QED  BY <1>1 DEF Traced, NewProfile, Encrypt

LEMMA TracedUpdate ==
    ASSUME NEW r \in Requests, NEW row, NEW p, NEW W, Traced(p, row, W, job)
    PROVE  Traced(p, SetChanged(row, orm[r].row, Assigned(r)), W \cup {r}, job)
<1> DEFINE w == SetChanged(row, orm[r].row, Assigned(r))
<1>1. w.name = row.name \/ w.name = job[r].name  BY DEF SetChanged, Assigned
<1>2. w.enc = row.enc \/ w.enc.nonce = r  BY DEF SetChanged, Assigned, Encrypt
<1>3. w.hash = row.hash \/ (job[r].phone # Nil /\ w.hash = Digest(E164[job[r].phone]))
  BY DEF SetChanged, Assigned
<1> HIDE DEF w
<1>4. \E q \in W \cup {r} : job[q].name = w.name  BY <1>1 DEF Traced
<1>5. \E q \in W \cup {r} : job[q].phone # Nil /\ Digest(E164[job[q].phone]) = w.hash
  BY <1>3 DEF Traced
<1> QED  BY <1>2, <1>4, <1>5 DEF Traced, w

LEMMA TraceStep == TInv /\ LInv /\ TraceInv /\ [Next]_vars => TraceInv'
<1> SUFFICES ASSUME TInv, LInv, TraceInv, NEW r \in Requests, Moves(r)  PROVE TraceInv'
  <2>1. CASE UNCHANGED vars
    <3>1. Live' = Live /\ \A p : Trail(p)' = Trail(p)  BY <2>1 DEF vars, Live, Trail
    <3> QED  BY <2>1, <3>1 DEF vars, TraceInv, Traced
  <2> QED  BY <2>1, StepMoves
<1>1. \A p : \A q \in Trail(p) : q \in Requests /\ job'[q] = job[q]
  BY DEF TraceInv, Trail, Moves
<1>2. \A a \in audit : pc'[a.req] \in {"refresh", "done"} \/ (a.req = r /\ pc[r] = "refresh")
  BY DEF TraceInv, Moves
<1>3. \A q \in Requests : pc[q] # "idle" => job'[q] = job[q]  BY DEF Moves
<1>4. ASSUME NEW q \in Requests, pending[q] # Nil, pending[q].row # Nil,
             NEW p, p = pending[q].id, Trail(p) \subseteq Trail(p)'
      PROVE  Traced(p, pending[q].row, Trail(p)' \cup {q}, job')
  <2>1. job'[q] = job[q]  BY <1>3, <1>4 DEF LInv, PendingIsOwn
  <2>2. \A x \in Trail(p) \cup {q} : job'[x] = job[x]  BY <1>1, <2>1
  <2>3. Trail(p) \cup {q} \subseteq Trail(p)' \cup {q}  BY <1>4
  <2>4. Traced(p, pending[q].row, Trail(p) \cup {q}, job)  BY <1>4 DEF TraceInv
  <2> QED  BY <2>2, <2>3, <2>4, TracedMore
<1>5. ASSUME UNCHANGED <<profiles, audit>>,
             \/ pending'[r] = Nil \/ pending'[r] = pending[r]
             \/ pending'[r].row = Nil
             \/ \E p : /\ pending'[r].id = p
                       /\ Traced(p, pending'[r].row, Trail(p) \cup {r}, job')
      PROVE  TraceInv'
  <2>1. Live' = Live /\ \A p : Trail(p)' = Trail(p)  BY <1>5 DEF Live, Trail
  <2>2. \A p \in Live : Traced(p, profiles[p], Trail(p), job')
    BY <1>1, TracedMore DEF TraceInv
  <2>3. ASSUME NEW q \in Requests, pending'[q] # Nil, pending'[q].row # Nil,
               NEW p, p = pending'[q].id
        PROVE  Traced(p, pending'[q].row, Trail(p) \cup {q}, job')
    <3>1. CASE pending'[q] = pending[q]  BY <1>4, <2>1, <2>3, <3>1
    <3>2. CASE pending'[q] # pending[q]  BY <1>5, <2>3, <3>2 DEF Moves
    <3> QED  BY <3>1, <3>2
  <2>4. \A a \in audit : a.req \in Requests /\ pc'[a.req] \in {"refresh", "done"}
    BY <1>2 DEF TraceInv, Moves
  <2> HIDE DEF Traced
  <2>5. \A p \in Live' : Traced(p, profiles'[p], Trail(p)', job')  BY <1>5, <2>1, <2>2
  <2>6. \A q \in Requests : \A p :
            pending'[q] # Nil /\ pending'[q].row # Nil /\ p = pending'[q].id
                => Traced(p, pending'[q].row, Trail(p)' \cup {q}, job')
    BY <2>1, <2>3
  <2>7. audit' = audit  BY <1>5
  <2> QED  BY <2>4, <2>5, <2>6, <2>7 DEF TraceInv, Traced, Trail
<1>6. CASE Stays(r)  BY <1>5, <1>6 DEF Stays
<1>7. CASE Aborts(r)  BY <1>5, <1>7 DEF Aborts
<1>8. CASE Loads(r)  BY <1>5, <1>8 DEF Loads
<1>9. CASE Flushes(r)
  <2>1. job'[r] = job[r] /\ pc[r] = "flush"  BY <1>9 DEF Flushes, Moves
  <2>2. CASE job[r].op = "create" /\ orm'[r].id = r /\ pending'[r].row = NewProfile(r)
    <3>1. pending'[r].id = r  BY <1>9, <2>2 DEF Flushes
    <3>2. Traced(r, NewProfile(r), Trail(r) \cup {r}, job)  BY <2>1, <2>2, TracedInsert
    <3>3. \A x \in Trail(r) \cup {r} : job'[x] = job[x]  BY <1>1, <2>1
    <3>4. Traced(r, NewProfile(r), Trail(r) \cup {r}, job')  BY <3>2, <3>3, TracedMore
    <3> QED  BY <1>5, <1>9, <2>2, <3>1, <3>4 DEF Flushes
  <2>3. ASSUME NEW p \in Live, p = orm[r].id, orm'[r] = orm[r],
               pending'[r].row = SetChanged(profiles[p], orm[r].row, Assigned(r))
        PROVE  TraceInv'
    <3>1. pending'[r].id = p  BY <1>9, <2>3 DEF Flushes
    <3> DEFINE w == SetChanged(profiles[p], orm[r].row, Assigned(r))
    <3>2. Traced(p, w, Trail(p) \cup {r}, job)  BY TracedUpdate DEF TraceInv
    <3>3. \A x \in Trail(p) \cup {r} : job'[x] = job[x]  BY <1>1, <2>1
    <3>4. Traced(p, w, Trail(p) \cup {r}, job')  BY <3>2, <3>3, TracedMore
    <3> HIDE DEF w
    <3>5. pending'[r].row = w  BY <2>3 DEF w
    <3> QED  BY <1>5, <1>9, <3>1, <3>4, <3>5 DEF Flushes
  <2>4. CASE pending'[r].row = Nil  BY <1>5, <1>9, <2>4 DEF Flushes
  <2> QED  BY <1>9, <2>2, <2>3, <2>4 DEF Flushes
<1>10. CASE Commits(r)
  <2>1. PICK p \in Requests : p = orm[r].id  BY <1>10 DEF Commits
  <2>2. /\ audit' = audit \cup {[req |-> r, profile |-> p]} /\ profiles' = Committed(r)
        /\ pc[r] = "commit" /\ pc'[r] \in {"refresh", "done"} /\ pending'[r] = Nil
    BY <1>10, <2>1 DEF Commits
  <2>3. \A x : Trail(x)' = IF x = p THEN Trail(x) \cup {r} ELSE Trail(x)
    <3> DEFINE new == [req |-> r, profile |-> p]
    <3>1. audit' = audit \cup {new} /\ new.req = r /\ new.profile = p  BY <2>2
    <3> HIDE DEF new
    <3> SUFFICES ASSUME NEW x, NEW q  PROVE q \in Trail(x)' <=> q \in Trail(x) \/ (x = p /\ q = r)
      OBVIOUS
    <3>2. q \in Trail(x) <=> \E a \in audit : a.profile = x /\ a.req = q  BY DEF Trail
    <3>3. q \in Trail(x)' <=> \E a \in audit' : a.profile = x /\ a.req = q  BY DEF Trail
    <3> QED  BY <3>1, <3>2, <3>3
  <2>4. \A a \in audit' : a.req \in Requests /\ pc'[a.req] \in {"refresh", "done"}
    BY <1>2, <2>2 DEF TraceInv, Moves
  <2>5. \A x : \A q \in Trail(x)' : job'[q] = job[q]  BY <1>1, <1>3, <2>2, <2>3
  <2>6. ASSUME NEW x \in Live'  PROVE Traced(x, profiles'[x], Trail(x)', job')
    <3>0. x \in Requests /\ profiles'[x] # Nil  BY <2>6 DEF Live
    <3>1. CASE profiles'[x] = profiles[x]
      <4>1. Traced(x, profiles[x], Trail(x), job)  BY <3>0, <3>1 DEF TraceInv, Live
      <4> QED  BY <1>1, <2>3, <3>1, <4>1, TracedMore
    <3>2. CASE profiles'[x] # profiles[x]
      <4>1. pending[r] # Nil /\ pending[r].id = x /\ profiles'[x] = pending[r].row
        BY <2>2, <3>0, <3>2, WriteType DEF Committed, TInv, TypeOK
      <4>2. x = p  BY <2>1, <4>1 DEF LInv, PendingIsOwn
      <4>3. Traced(x, pending[r].row, Trail(x) \cup {r}, job)  BY <3>0, <4>1 DEF TraceInv
      <4> QED  BY <2>3, <2>5, <4>1, <4>2, <4>3, TracedMore
    <3> QED  BY <3>1, <3>2
  <2>7. ASSUME NEW q \in Requests, pending'[q] # Nil, pending'[q].row # Nil,
               NEW x, x = pending'[q].id
        PROVE  Traced(x, pending'[q].row, Trail(x)' \cup {q}, job')
    <3>1. pending'[q] = pending[q]  BY <2>2, <2>7 DEF Moves
    <3> QED  BY <1>4, <2>3, <2>7, <3>1
  <2> HIDE DEF Traced, Trail
  <2> QED  BY <2>4, <2>6, <2>7 DEF TraceInv, Traced, Trail
<1> QED  BY <1>6, <1>7, <1>8, <1>9, <1>10 DEF Moves

\* RowsTraceToAudit of ProfileCrud: also of statements that fail half way and of updates
\* that merge column by column.
THEOREM StoredRowsAreTraced == Spec => []RowsTraceToAudit
<1>1. Init => TInv /\ LInv /\ TraceInv  BY TypeInit, LocksInit, TraceInit
<1>2. TInv /\ LInv /\ TraceInv /\ [Next]_vars => (TInv /\ LInv /\ TraceInv)'
  BY TypeStep, LocksStep, TraceStep
<1>3. TraceInv => RowsTraceToAudit  BY DEF TraceInv, Traced, Trail, RowsTraceToAudit
<1> QED  BY <1>1, <1>2, <1>3, PTL DEF Spec

-----------------------------------------------------------------------------
(* Deletion. *)

\* A deleted profile stays deleted: a writer of a row that is not there is its creator,
\* and nobody saw the row before that one had committed.
DeletedInv ==
    /\ \A r \in Requests : status[r] # 0 => pc[r] = "done"
    /\ \A r \in Requests : pending[r] # Nil /\ pending[r].row # Nil =>
          pending[r].id = r \/ pending[r].id \in Live
    /\ \A r \in Requests : pc[r] \in {"audit", "commit"} /\ job[r].op = "delete" =>
          pending[r] # Nil /\ pending[r].row = Nil
    /\ \A r \in Requests : status[r] = 204 => orm[r] # Nil /\ orm[r].id \notin Live

LEMMA DeletedInit == Init => DeletedInv
BY DEF Init, DeletedInv, Live

LEMMA DeletedStep == TInv /\ LInv /\ DeletedInv /\ [Next]_vars => DeletedInv'
<1> SUFFICES ASSUME TInv, LInv, DeletedInv, NEW r \in Requests, Moves(r)  PROVE DeletedInv'
  <2>1. CASE UNCHANGED vars  BY <2>1 DEF vars, DeletedInv, Live
  <2> QED  BY <2>1, StepMoves
<1>0. /\ status[r] = 0
      /\ \A q \in Requests : status'[q] # 0 => pc'[q] = "done"
  BY DEF Moves, DeletedInv
<1>1. ASSUME UNCHANGED profiles, status'[r] # 204,
             \/ pending'[r] = Nil \/ pending'[r] = pending[r] \/ pending'[r].row = Nil
             \/ pending'[r].id = r \/ pending'[r].id \in Live,
             pc'[r] \in {"audit", "commit"} /\ job'[r].op = "delete" =>
                 pending'[r] # Nil /\ pending'[r].row = Nil
      PROVE  DeletedInv'
  <2>1. Live' = Live  BY <1>1 DEF Live
  <2>2. \A q \in Requests \ {r} : /\ pc'[q] = pc[q] /\ job'[q] = job[q] /\ orm'[q] = orm[q]
                                  /\ pending'[q] = pending[q] /\ status'[q] = status[q]
    BY DEF Moves
  <2> QED  BY <1>0, <1>1, <2>1, <2>2 DEF DeletedInv
<1>2. CASE Stays(r)
  <2>1. pc'[r] \in {"audit", "commit"} => job'[r] = job[r] /\ (pc[r] = "audit" \/ job[r].op = "update")
    BY <1>2 DEF Stays, Moves
  <2> QED  BY <1>0, <1>1, <1>2, <2>1 DEF Stays, DeletedInv
<1>3. CASE Aborts(r)  BY <1>1, <1>3 DEF Aborts
<1>4. CASE Loads(r)  BY <1>0, <1>1, <1>4 DEF Loads, Moves
<1>5. CASE Flushes(r)  BY <1>0, <1>1, <1>5 DEF Flushes, Moves
<1>6. CASE Commits(r)
  <2>1. /\ pc[r] = "commit" /\ pc'[r] \in {"refresh", "done"} /\ pending'[r] = Nil
        /\ profiles' = Committed(r) /\ orm'[r] = orm[r] /\ orm[r] # Nil /\ job'[r] = job[r]
        /\ status'[r] = 204 => job[r].op = "delete"
    BY <1>0, <1>6 DEF Commits, Moves
  <2>2. \A x \in Requests : profiles'[x] # profiles[x] =>
            pending[r] # Nil /\ pending[r].id = x /\ profiles'[x] = pending[r].row
    BY <2>1, WriteType DEF Committed, TInv, TypeOK
  <2>3. ASSUME NEW q \in Requests \ {r}, pending[q] # Nil, pending[q].row # Nil
        PROVE  pending[q].id = q \/ pending[q].id \in Live'
    <3>1. pending[q].id \in Requests  BY <2>3, WriteType
    <3>2. ASSUME pending[r] # Nil  PROVE pending[r].id # pending[q].id
      <4>1. <<"row", pending[q].id>> \in Held(q) /\ <<"row", pending[r].id>> \in Held(r)
        BY <2>3, <3>2 DEF Held
      <4> QED  BY <4>1 DEF LInv, LocksExclusive
    <3>3. profiles'[pending[q].id] = profiles[pending[q].id]  BY <2>2, <3>1, <3>2
    <3> QED  BY <2>3, <3>1, <3>3 DEF DeletedInv, Live
  <2>4. ASSUME NEW q \in Requests, status'[q] = 204
        PROVE  orm'[q] # Nil /\ orm'[q].id \notin Live'
    <3>1. CASE q = r
      <4>1. pending[r] # Nil /\ pending[r].row = Nil /\ pending[r].id = orm[r].id
        BY <2>1, <2>4, <3>1 DEF DeletedInv, LInv, PendingIsOwn
      <4>2. profiles'[orm[r].id] = Nil
        BY <2>1, <4>1, WriteType DEF Committed, TInv, TypeOK
      <4> QED  BY <2>1, <3>1, <4>2 DEF Live
    <3>2. CASE q # r
      <4>1. status[q] = 204 /\ orm'[q] = orm[q]  BY <2>4, <3>2 DEF Moves
      <4>2. orm[q] # Nil /\ orm[q].id \notin Live /\ pc[q] = "done"  BY <4>1 DEF DeletedInv
      <4>3. orm[q].id \in Requests  BY <4>2, HandleType
      <4>4. ASSUME orm[q].id \in Live'  PROVE FALSE
        <5>1. /\ pending[r] # Nil /\ pending[r].id = orm[q].id /\ pending[r].row # Nil
          BY <2>2, <4>2, <4>3, <4>4 DEF Live
        <5>2. orm[q].id = r  BY <4>2, <5>1 DEF DeletedInv
        <5> QED  BY <2>1, <3>2, <4>2, <5>2 DEF LInv, CreatedFirst
      <4> QED  BY <4>1, <4>2, <4>4
    <3> QED  BY <3>1, <3>2
  <2> QED  BY <1>0, <2>1, <2>3, <2>4 DEF DeletedInv, Moves
<1> QED  BY <1>2, <1>3, <1>4, <1>5, <1>6 DEF Moves

\* DeletedStaysDeleted of ProfileCrud.
THEOREM DeletionsAreFinal == Spec => []DeletedStaysDeleted
<1>1. Init => TInv /\ LInv /\ DeletedInv  BY TypeInit, LocksInit, DeletedInit
<1>2. TInv /\ LInv /\ DeletedInv /\ [Next]_vars => (TInv /\ LInv /\ DeletedInv)'
  BY TypeStep, LocksStep, DeletedStep
<1>3. DeletedInv => DeletedStaysDeleted  BY DEF DeletedInv, DeletedStaysDeleted
<1> QED  BY <1>1, <1>2, <1>3, PTL DEF Spec

-----------------------------------------------------------------------------
(* Updates are not lost, column by column. *)

Columns == {"name", "number", "hash"}

Col(c, row) == IF c = "name" THEN row.name ELSE IF c = "number" THEN Decrypt(row.enc) ELSE row.hash
Field(c, j) == IF c = "name" THEN j.name ELSE j.phone
Wanted(c, j) ==
    IF c = "name" THEN j.name ELSE IF c = "number" THEN E164[j.phone] ELSE Digest(E164[j.phone])

Updates(c, r) == job[r].op = "update" /\ Field(c, job[r]) # Nil

\* Writers of ProfileCrud, by column.
Updaters(p, c) == {r \in Requests : [req |-> r, profile |-> p] \in audit /\ Updates(c, r)}

\* v is the value of p that its creation and updaters W account for.
Right(c, p, v, W, jobs) ==
    /\ W = {} => v = Wanted(c, jobs[p])
    /\ \A r : W = {r} => v = Wanted(c, jobs[r])

AuditPast ==
    \A a \in audit : /\ a.req \in Requests /\ pc[a.req] \in {"refresh", "done"}
                     /\ pc[a.profile] \in {"refresh", "done"}

TableRight ==
    \A c \in Columns : \A p \in Live : Right(c, p, Col(c, profiles[p]), Updaters(p, c), job)

\* An instance that was loaded before any update has what the creation stored.
LoadedRight ==
    \A q \in Requests : orm[q] # Nil =>
        /\ pc[q] # "idle"
        /\ \A c \in Columns : \A p : p = orm[q].id /\ Updaters(p, c) = {} =>
              Col(c, orm[q].row) = Wanted(c, job[p])

\* What a flush will have stored once it commits.
PendingRight ==
    \A q \in Requests : pending[q] # Nil /\ pending[q].row # Nil =>
        \A c \in Columns : \A p : p = pending[q].id =>
            IF Updates(c, q) THEN Updaters(p, c) = {} => Col(c, pending[q].row) = Wanted(c, job[q])
            ELSE Right(c, p, Col(c, pending[q].row), Updaters(p, c), job)

\* An update that flushed nothing had loaded what it asked for.
SameAsLoaded ==
    \A q \in Requests : pc[q] \in {"audit", "commit"} /\ pending[q] = Nil =>
        \A c \in Columns : Updates(c, q) => Col(c, orm[q].row) = Wanted(c, job[q])

UpdateInv == AuditPast /\ TableRight /\ LoadedRight /\ PendingRight /\ SameAsLoaded

LEMMA UpdateInit == Init => UpdateInv
BY DEF Init, UpdateInv, AuditPast, TableRight, LoadedRight, PendingRight, SameAsLoaded, Live

LEMMA ColumnsOfUpdate ==
    ASSUME NEW r \in Requests, NEW row, NEW c \in Columns
    PROVE  LET w == SetChanged(row, orm[r].row, Assigned(r)) IN
           /\ Field(c, job[r]) = Nil => Col(c, w) = Col(c, row)
           /\ Field(c, job[r]) # Nil =>
                 /\ Col(c, Assigned(r)) = Wanted(c, job[r])
                 /\ \/ Col(c, w) = Wanted(c, job[r])
                    \/ Col(c, w) = Col(c, row) /\ Col(c, orm[r].row) = Wanted(c, job[r])
<1>1. CASE c = "name"  BY <1>1 DEF Col, Field, Wanted, SetChanged, Assigned
<1>2. CASE c = "number"
  BY <1>2 DEF Col, Field, Wanted, SetChanged, Assigned, Decrypt, Encrypt
<1>3. CASE c = "hash"  BY <1>3 DEF Col, Field, Wanted, SetChanged, Assigned
<1> QED  BY <1>1, <1>2, <1>3 DEF Columns

LEMMA ColumnsOfInsert ==
    ASSUME NEW r \in Requests, NEW c \in Columns
    PROVE  Col(c, NewProfile(r)) = Wanted(c, job[r])
BY DEF Columns, Col, Wanted, NewProfile, Decrypt, Encrypt

\* The commit of r, on profile p.
LEMMA UpdateCommits ==
    ASSUME TInv, LInv, UpdateInv, NEW r \in Requests, Moves(r), Commits(r)
    PROVE  UpdateInv'
<1>1. PICK p \in Requests : p = orm[r].id  BY DEF Commits
<1>2. /\ audit' = audit \cup {[req |-> r, profile |-> p]} /\ profiles' = Committed(r)
      /\ pc[r] = "commit" /\ pc'[r] \in {"refresh", "done"} /\ pending'[r] = Nil
      /\ orm[r] # Nil /\ \A q \in Requests : orm'[q] = orm[q]
      /\ \A q \in Requests \ {r} : pc'[q] = pc[q] /\ pending'[q] = pending[q] /\ job'[q] = job[q]
      /\ job'[r] = job[r]
  BY <1>1 DEF Commits, Moves
<1>3. /\ \A q \in Requests : job'[q] = job[q]
      /\ \A q \in Requests : pc[q] \in {"refresh", "done"} => pc'[q] = pc[q]
      /\ p # r => pc[p] \in {"refresh", "done"}
  BY <1>1, <1>2 DEF LInv, CreatedFirst
<1>4. AuditPast'
  <2>1. \A a \in audit' : a \in audit \/ (a.req = r /\ a.profile = p)  BY <1>2
  <2>2. \A a \in audit : a.profile \in Requests  BY DEF TInv, TypeOK, AuditRow
  <2> QED  BY <1>2, <1>3, <2>1, <2>2 DEF UpdateInv, AuditPast
<1>5. \A x, c : r \notin Updaters(x, c)
  <2> SUFFICES ASSUME NEW x, [req |-> r, profile |-> x] \in audit  PROVE FALSE  BY DEF Updaters
  <2>1. [req |-> r, profile |-> x].req = r  OBVIOUS
  <2> QED  BY <1>2, <2>1 DEF UpdateInv, AuditPast
<1>6. \A x, c : Updaters(x, c)' = IF x = p /\ Updates(c, r) THEN Updaters(x, c) \cup {r} ELSE Updaters(x, c)
  <2> SUFFICES ASSUME NEW x, NEW c, NEW q \in Requests
               PROVE  q \in Updaters(x, c)' <=> q \in Updaters(x, c) \/ (x = p /\ q = r /\ Updates(c, r))
    BY DEF Updaters
  <2>1. [req |-> q, profile |-> x] = [req |-> r, profile |-> p] <=> q = r /\ x = p
    <3>1. /\ [req |-> q, profile |-> x].req = q /\ [req |-> q, profile |-> x].profile = x
          /\ [req |-> r, profile |-> p].req = r /\ [req |-> r, profile |-> p].profile = p
      OBVIOUS
    <3> QED  BY <3>1
  <2>2. Updates(c, q)' = Updates(c, q)  BY <1>3 DEF Updates
  <2> QED  BY <1>2, <2>1, <2>2 DEF Updaters
\* What the updates of r, if it is the first, and of the creation have in common.
<1>7. ASSUME NEW c \in Columns, Updates(c, r), Updaters(p, c) = {}, pending[r] = Nil
      PROVE  Wanted(c, job[p]) = Wanted(c, job[r])
  <2>1. Col(c, orm[r].row) = Wanted(c, job[p])  BY <1>1, <1>2, <1>7 DEF UpdateInv, LoadedRight
  <2>2. Col(c, orm[r].row) = Wanted(c, job[r])  BY <1>2, <1>7 DEF UpdateInv, SameAsLoaded
  <2> QED  BY <2>1, <2>2
<1> DEFINE More(x, c) == IF x = p /\ Updates(c, r) THEN Updaters(x, c) \cup {r} ELSE Updaters(x, c)
<1>8. ASSUME NEW c \in Columns, NEW x \in Requests, NEW v, Right(c, x, v, Updaters(x, c), job),
             x = p /\ Updates(c, r) => pending[r] = Nil
      PROVE  Right(c, x, v, More(x, c), job')
  <2>1. \A q : Updaters(x, c) = {q} => q \in Requests  BY DEF Updaters
  <2>2. CASE x = p /\ Updates(c, r)
    <3>1. \A q : Updaters(x, c) \cup {r} = {q} => q = r /\ Updaters(x, c) = {}  BY <1>5
    <3> QED  BY <1>3, <1>7, <1>8, <2>2, <3>1 DEF Right
  <2>3. CASE ~(x = p /\ Updates(c, r))  BY <1>3, <1>8, <2>1, <2>3 DEF Right
  <2> QED  BY <2>2, <2>3
<1>9. \A x \in Requests : profiles'[x] # profiles[x] =>
          pending[r] # Nil /\ x = p /\ pending[r].id = p /\ profiles'[x] = pending[r].row
  BY <1>1, <1>2, WriteType DEF Committed, TInv, TypeOK, LInv, PendingIsOwn
<1>10. ASSUME NEW c \in Columns, NEW x \in Live'
       PROVE  Right(c, x, Col(c, profiles'[x]), More(x, c), job')
  <2>0. x \in Requests /\ profiles'[x] # Nil  BY <1>10 DEF Live
  <2>1. CASE profiles'[x] = profiles[x] /\ ~(x = p /\ pending[r] # Nil)
    <3>1. Right(c, x, Col(c, profiles[x]), Updaters(x, c), job)
      BY <2>0, <2>1 DEF UpdateInv, TableRight, Live
    <3> QED  BY <1>8, <2>0, <2>1, <3>1
  <2>2. CASE x = p /\ pending[r] # Nil
    <3>1. pending[r].id = p /\ profiles'[x] = pending[r].row
      BY <1>1, <1>2, <2>2, WriteType DEF Committed, TInv, TypeOK, LInv, PendingIsOwn
    <3> DEFINE v == Col(c, pending[r].row)
    <3>2. IF Updates(c, r) THEN Updaters(p, c) = {} => v = Wanted(c, job[r])
          ELSE Right(c, p, v, Updaters(p, c), job)
      BY <2>0, <2>2, <3>1 DEF UpdateInv, PendingRight
    <3> HIDE DEF v
    <3>3. CASE Updates(c, r)
      <4>1. \A q : Updaters(x, c) \cup {r} = {q} => q = r /\ Updaters(x, c) = {}  BY <1>5
      <4>2. Right(c, x, v, More(x, c), job')  BY <1>3, <2>2, <3>2, <3>3, <4>1 DEF Right
      <4> QED  BY <3>1, <4>2 DEF v
    <3>4. CASE ~Updates(c, r)
      <4>1. Right(c, x, v, More(x, c), job')  BY <1>8, <2>0, <2>2, <3>2, <3>4
      <4> QED  BY <3>1, <4>1 DEF v
    <3> QED  BY <3>3, <3>4
  <2> QED  BY <1>9, <2>0, <2>1, <2>2
<1>11. ASSUME NEW q \in Requests, pending'[q] # Nil, pending'[q].row # Nil,
              NEW c \in Columns, NEW x, x = pending'[q].id
       PROVE  IF Updates(c, q) THEN More(x, c) = {} => Col(c, pending'[q].row) = Wanted(c, job[q])
              ELSE Right(c, x, Col(c, pending'[q].row), More(x, c), job')
  <2>1. q # r /\ pending'[q] = pending[q] /\ x \in Requests
    BY <1>2, <1>11, WriteType
  <2>2. IF Updates(c, q) THEN Updaters(x, c) = {} => Col(c, pending[q].row) = Wanted(c, job[q])
        ELSE Right(c, x, Col(c, pending[q].row), Updaters(x, c), job)
    BY <1>11, <2>1 DEF UpdateInv, PendingRight
  <2>3. x = p => pending[r] = Nil
    <3> SUFFICES ASSUME x = p, pending[r] # Nil  PROVE FALSE  OBVIOUS
    <3>1. pending[r].id = p  BY <1>1 DEF LInv, PendingIsOwn
    <3>2. <<"row", p>> \in Held(r) /\ <<"row", p>> \in Held(q)  BY <1>11, <2>1, <3>1 DEF Held
    <3> QED  BY <2>1, <3>2 DEF LInv, LocksExclusive
  <2> QED  BY <1>8, <2>1, <2>2, <2>3
<1>13. SameAsLoaded'
  <2> SUFFICES ASSUME NEW q \in Requests, pc'[q] \in {"audit", "commit"}, pending'[q] = Nil,
                      NEW c \in Columns, Updates(c, q)
               PROVE  Col(c, orm[q].row) = Wanted(c, job[q])
    BY <1>2, <1>3 DEF SameAsLoaded, Updates, Col, Wanted, Field
  <2> QED  BY <1>2 DEF UpdateInv, SameAsLoaded
<1> HIDE DEF More
<1>14. \A x, c : Updaters(x, c)' = More(x, c)  BY <1>6 DEF More
<1>12. LoadedRight'
  <2> HIDE DEF Right, Col, Wanted, Updaters
  <2>1. ASSUME NEW q \in Requests, orm[q] # Nil
        PROVE  pc'[q] # "idle" /\ orm[q].id \in Requests
    BY <1>2, <1>3, <2>1, HandleType DEF UpdateInv, LoadedRight
  <2>2. ASSUME NEW q \in Requests, orm[q] # Nil, NEW c \in Columns, NEW x,
               x = orm[q].id /\ Updaters(x, c)' = {}
        PROVE  Col(c, orm[q].row) = Wanted(c, job'[x])
    <3>1. Updaters(x, c) = {}  BY <1>14, <2>2 DEF More
    <3> QED  BY <1>3, <2>1, <2>2, <3>1 DEF UpdateInv, LoadedRight
  <2>3. \A q \in Requests : orm'[q] # Nil =>
            /\ pc'[q] # "idle"
            /\ \A c \in Columns : \A x : x = orm'[q].id /\ Updaters(x, c)' = {} =>
                  Col(c, orm'[q].row) = Wanted(c, job'[x])
    BY <1>2, <2>1, <2>2
  <2> QED  BY <2>3 DEF LoadedRight
<1>15. TableRight'
  <2> HIDE DEF Right, Col, Updaters
  <2>1. \A c \in Columns : \A x \in Live' : Right(c, x, Col(c, profiles'[x]), Updaters(x, c)', job')
    BY <1>10, <1>14
  <2> QED  BY <2>1 DEF TableRight, Right, Col, Updaters, Decrypt, Wanted, Digest
<1>16. PendingRight'
  <2> HIDE DEF Right, Col, Updaters
  <2>1. \A q \in Requests : \A c : Updates(c, q)' = Updates(c, q)  BY <1>3 DEF Updates
  <2>2. \A q \in Requests : \A c \in Columns : \A x :
            pending'[q] # Nil /\ pending'[q].row # Nil /\ x = pending'[q].id =>
                IF Updates(c, q)' THEN Updaters(x, c)' = {} => Col(c, pending'[q].row) = Wanted(c, job'[q])
                ELSE Right(c, x, Col(c, pending'[q].row), Updaters(x, c)', job')
    BY <1>3, <1>11, <1>14, <2>1
  <2> QED  BY <2>2 DEF PendingRight
<1> QED  BY <1>4, <1>12, <1>13, <1>15, <1>16 DEF UpdateInv

LEMMA PendingHolds ==
    ASSUME TInv, LInv, NEW r \in Requests, pending[r] # Nil
    PROVE  orm[r] # Nil /\ pc[r] \in {"audit", "commit"}
BY DEF TInv, SessionHolds, NeedsProfile, LInv, PendingIsOwn

\* A step of r that commits nothing: what remains to be shown is about r alone.
LEMMA UpdateFrame ==
    ASSUME TInv, LInv, UpdateInv, NEW r \in Requests, Moves(r),
           UNCHANGED <<profiles, audit>>,
           orm'[r] # Nil =>
               /\ orm'[r].id \in Requests /\ pc[orm'[r].id] # "idle"
               /\ \A c \in Columns : \A p : p = orm'[r].id /\ Updaters(p, c) = {} =>
                     Col(c, orm'[r].row) = Wanted(c, job[p]),
           pending'[r] # Nil /\ pending'[r].row # Nil =>
               \A c \in Columns : \A p : p = pending'[r].id =>
                   IF Updates(c, r) THEN Updaters(p, c) = {} => Col(c, pending'[r].row) = Wanted(c, job[r])
                   ELSE Right(c, p, Col(c, pending'[r].row), Updaters(p, c), job),
           pending'[r] # Nil => pc[r] # "idle" /\ pending'[r].id = orm'[r].id /\ orm'[r] # Nil,
           pc'[r] \in {"audit", "commit"} /\ pending'[r] = Nil =>
               /\ pc[r] # "idle"
               /\ \A c \in Columns : Updates(c, r) => Col(c, orm'[r].row) = Wanted(c, job[r])
    PROVE  UpdateInv'
<1> HIDE DEF Col, Wanted
<1>1. \A q \in Requests : pc[q] # "idle" => job'[q] = job[q] /\ pc'[q] # "idle"
  BY DEF Moves
<1>2. \A q \in Requests : pc[q] \in {"refresh", "done"} => pc'[q] \in {"refresh", "done"}
  BY DEF Moves
<1>3. AuditPast'
  <2>1. \A a \in audit : a.profile \in Requests  BY DEF TInv, TypeOK, AuditRow
  <2> QED  BY <1>2, <2>1 DEF UpdateInv, AuditPast
<1>4. \A q \in Requests : \A c : pc[q] # "idle" => Updates(c, q)' = Updates(c, q)
  BY <1>1 DEF Updates
<1>5. \A x, c : Updaters(x, c)' = Updaters(x, c)
  <2> SUFFICES ASSUME NEW x, NEW c, NEW q \in Requests, [req |-> q, profile |-> x] \in audit
               PROVE  Updates(c, q)' = Updates(c, q)
    BY DEF Updaters
  <2>1. [req |-> q, profile |-> x].req = q  OBVIOUS
  <2> QED  BY <1>4, <2>1 DEF UpdateInv, AuditPast
<1>6. \A x, c : \A q \in Updaters(x, c) : q \in Requests /\ pc[q] # "idle"
  <2> SUFFICES ASSUME NEW x, NEW c, NEW q \in Updaters(x, c)  PROVE q \in Requests /\ pc[q] # "idle"
    OBVIOUS
  <2>1. [req |-> q, profile |-> x].req = q /\ [req |-> q, profile |-> x] \in audit  BY DEF Updaters
  <2> QED  BY <2>1 DEF UpdateInv, AuditPast
<1> HIDE DEF Updaters
<1>7. ASSUME NEW c, NEW x \in Requests, pc[x] # "idle", NEW v, Right(c, x, v, Updaters(x, c), job)
      PROVE  Right(c, x, v, Updaters(x, c), job')
  BY <1>1, <1>6, <1>7 DEF Right
<1>8. \A x \in Live : x \in Requests /\ pc[x] # "idle"  BY DEF LInv, CreatedFirst, Live
<1>9. TableRight'
  <2> HIDE DEF Right
  <2>1. Live' = Live  BY DEF Live
  <2>2. \A c \in Columns : \A x \in Live : Right(c, x, Col(c, profiles[x]), Updaters(x, c)', job')
    BY <1>5, <1>7, <1>8 DEF UpdateInv, TableRight
  <2> QED  BY <2>1, <2>2 DEF TableRight
<1>10. ASSUME NEW q \in Requests, orm[q] # Nil
       PROVE  orm[q].id \in Requests /\ pc[q] # "idle" /\ pc[orm[q].id] # "idle"
  BY <1>10, HandleType DEF UpdateInv, LoadedRight, LInv, CreatedFirst
<1>11. LoadedRight'
  <2>1. ASSUME NEW q \in Requests, orm'[q] # Nil
        PROVE  /\ pc'[q] # "idle"
               /\ \A c \in Columns : \A x : x = orm'[q].id /\ Updaters(x, c)' = {} =>
                     Col(c, orm'[q].row) = Wanted(c, job'[x])
    <3>1. CASE q = r  BY <1>1, <1>5, <2>1, <3>1 DEF Moves
    <3>2. CASE q # r
      <4>1. orm'[q] = orm[q] /\ pc'[q] = pc[q]  BY <3>2 DEF Moves
      <4> QED  BY <1>1, <1>5, <1>10, <2>1, <4>1 DEF UpdateInv, LoadedRight
    <3> QED  BY <3>1, <3>2
  <2> QED  BY <2>1 DEF LoadedRight
<1>12. PendingRight'
  <2> HIDE DEF Right
  <2>1. ASSUME NEW q \in Requests, pending'[q] # Nil, pending'[q].row # Nil,
               NEW c \in Columns, NEW x, x = pending'[q].id
        PROVE  IF Updates(c, q)' THEN Updaters(x, c)' = {} => Col(c, pending'[q].row) = Wanted(c, job'[q])
               ELSE Right(c, x, Col(c, pending'[q].row), Updaters(x, c)', job')
    <3>1. CASE q = r
      <4>1. pc[r] # "idle" /\ x = orm'[r].id /\ orm'[r] # Nil  BY <2>1, <3>1
      <4>2. x \in Requests /\ pc[x] # "idle"  BY <4>1
      <4> QED  BY <1>1, <1>4, <1>5, <1>7, <2>1, <3>1, <4>1, <4>2
    <3>2. CASE q # r
      <4>1. pending'[q] = pending[q]  BY <3>2 DEF Moves
      <4>2. pc[q] # "idle" /\ orm[q] # Nil /\ x = orm[q].id
        BY <2>1, <4>1, PendingHolds DEF LInv, PendingIsOwn
      <4>3. IF Updates(c, q) THEN Updaters(x, c) = {} => Col(c, pending[q].row) = Wanted(c, job[q])
            ELSE Right(c, x, Col(c, pending[q].row), Updaters(x, c), job)
        BY <2>1, <4>1 DEF UpdateInv, PendingRight
      <4> QED  BY <1>1, <1>4, <1>5, <1>7, <1>10, <4>1, <4>2, <4>3
    <3> QED  BY <3>1, <3>2
  <2> QED  BY <2>1 DEF PendingRight
<1>13. SameAsLoaded'
  <2>1. ASSUME NEW q \in Requests, pc'[q] \in {"audit", "commit"}, pending'[q] = Nil,
               NEW c \in Columns, Updates(c, q)'
        PROVE  Col(c, orm'[q].row) = Wanted(c, job'[q])
    <3>1. CASE q = r  BY <1>1, <1>4, <2>1, <3>1
    <3>2. CASE q # r
      <4>1. pending'[q] = pending[q] /\ pc'[q] = pc[q] /\ orm'[q] = orm[q]  BY <3>2 DEF Moves
      <4>2. Updates(c, q) /\ job'[q] = job[q]  BY <1>1, <1>4, <2>1, <4>1
      <4> QED  BY <2>1, <4>1, <4>2 DEF UpdateInv, SameAsLoaded
    <3> QED  BY <3>1, <3>2
  <2> QED  BY <2>1 DEF SameAsLoaded
<1> QED  BY <1>3, <1>9, <1>11, <1>12, <1>13 DEF UpdateInv

LEMMA UpdateStep == TInv /\ LInv /\ UpdateInv /\ [Next]_vars => UpdateInv'
<1> SUFFICES ASSUME TInv, LInv, UpdateInv, NEW r \in Requests, Moves(r)  PROVE UpdateInv'
  <2>1. CASE UNCHANGED vars
    BY <2>1 DEF vars, UpdateInv, AuditPast, TableRight, LoadedRight, PendingRight, SameAsLoaded,
                Live, Right, Updaters, Updates, Col, Field, Wanted
  <2> QED  BY <2>1, StepMoves
<1> USE DEF TInv
<1> HIDE DEF Col, Wanted, Right, Updaters, Updates
\* What an instance that is in the session already has loaded.
<1>1. ASSUME orm[r] # Nil
      PROVE  /\ orm[r].id \in Requests /\ pc[orm[r].id] # "idle"
             /\ \A c \in Columns : \A p : p = orm[r].id /\ Updaters(p, c) = {} =>
                   Col(c, orm[r].row) = Wanted(c, job[p])
  <2>1. orm[r].id \in Requests  BY <1>1, HandleType
  <2>2. pc[orm[r].id] # "idle"  BY <1>1 DEF UpdateInv, LoadedRight, LInv, CreatedFirst
  <2> QED  BY <1>1, <2>1, <2>2 DEF UpdateInv, LoadedRight
<1>2. \A c, p : (p \in Live /\ c \in Columns) => Right(c, p, Col(c, profiles[p]), Updaters(p, c), job)
  BY DEF UpdateInv, TableRight
<1>3. \A p \in Live : p \in Requests /\ pc[p] # "idle"  BY DEF LInv, CreatedFirst, Live
<1>4. CASE Stays(r)
  <2>1. UNCHANGED <<profiles, audit>> /\ orm'[r] = orm[r] /\ pending'[r] = pending[r]
    BY <1>4 DEF Stays
  <2>2. pending[r] # Nil => orm[r] # Nil /\ pc[r] # "idle" /\ pending[r].id = orm[r].id
    BY PendingHolds DEF LInv, PendingIsOwn
  <2>3. ASSUME pc'[r] \in {"audit", "commit"}, pending[r] = Nil
        PROVE  /\ pc[r] # "idle"
               /\ \A c \in Columns : Updates(c, r) => Col(c, orm[r].row) = Wanted(c, job[r])
    <3>1. CASE pc[r] = "audit"  BY <2>3, <3>1 DEF UpdateInv, SameAsLoaded
    <3>2. CASE pc[r] = "flush" /\ job[r].op = "update" /\ Assigned(r) = orm[r].row
      BY <3>2, ColumnsOfUpdate DEF Updates
    <3> QED  BY <1>4, <2>3, <3>1, <3>2 DEF Stays
  <2>4. pending[r] # Nil /\ pending[r].row # Nil =>
            \A c \in Columns : \A p : p = pending[r].id =>
                IF Updates(c, r) THEN Updaters(p, c) = {} => Col(c, pending[r].row) = Wanted(c, job[r])
                ELSE Right(c, p, Col(c, pending[r].row), Updaters(p, c), job)
    BY DEF UpdateInv, PendingRight
  <2> HIDE DEF TInv
  <2> QED  BY <1>1, <2>1, <2>2, <2>3, <2>4, UpdateFrame
<1>5. CASE Aborts(r)
  <2>1. UNCHANGED <<profiles, audit>> /\ orm'[r] = orm[r] /\ pending'[r] = Nil /\ pc'[r] = "done"
    BY <1>5 DEF Aborts
  <2> HIDE DEF TInv
  <2> QED  BY <1>1, <2>1, UpdateFrame
<1>6. CASE Loads(r)
  <2>1. /\ UNCHANGED <<profiles, audit>> /\ pending'[r] = Nil /\ pc[r] # "idle"
        /\ orm'[r] # Nil /\ orm'[r].id \in Live /\ orm'[r].row = profiles[orm'[r].id]
        /\ pc'[r] \in {"audit", "commit"} => job[r].op = "get"
    BY <1>6 DEF Loads
  <2>2. \A c : ~(job[r].op = "get" /\ Updates(c, r))  BY DEF Updates
  <2>3. \A c \in Columns : \A p : p = orm'[r].id /\ Updaters(p, c) = {} =>
            Col(c, orm'[r].row) = Wanted(c, job[p])
    BY <1>2, <2>1 DEF Right
  <2> HIDE DEF TInv
  <2> QED  BY <1>3, <2>1, <2>2, <2>3, UpdateFrame
<1>7. CASE Flushes(r)
  <2>1. /\ UNCHANGED <<profiles, audit>> /\ pc[r] = "flush" /\ pc'[r] = "audit"
        /\ pending'[r] # Nil /\ orm'[r] # Nil /\ pending'[r].id = orm'[r].id
    BY <1>7 DEF Flushes
  <2>2. CASE /\ job[r].op = "create" /\ orm'[r].id = r
             /\ orm'[r].row = NewProfile(r) /\ pending'[r].row = NewProfile(r)
    <3>1. \A c : Updaters(r, c) = {}
      <4> SUFFICES ASSUME NEW q \in Requests, [req |-> q, profile |-> r] \in audit  PROVE FALSE
        BY DEF Updaters
      <4>1. [req |-> q, profile |-> r].profile = r  OBVIOUS
      <4> QED  BY <2>1, <4>1 DEF UpdateInv, AuditPast
    <3>2. \A c : ~Updates(c, r)  BY <2>2 DEF Updates
    <3>3. \A c \in Columns : Col(c, NewProfile(r)) = Wanted(c, job[r])  BY ColumnsOfInsert
    <3>4. \A c \in Columns : Right(c, r, Col(c, pending'[r].row), Updaters(r, c), job)
      BY <2>2, <3>1, <3>3 DEF Right
    <3> HIDE DEF TInv
    <3> QED  BY <2>1, <2>2, <3>2, <3>3, <3>4, UpdateFrame
  <2>3. CASE /\ job[r].op = "update" /\ orm'[r] = orm[r] /\ orm[r].id \in Live
             /\ pending'[r].row = SetChanged(profiles[orm[r].id], orm[r].row, Assigned(r))
    <3>1. PICK p : p = orm[r].id  OBVIOUS
    <3> DEFINE w == SetChanged(profiles[p], orm[r].row, Assigned(r))
    <3>2. ASSUME NEW c \in Columns, Updates(c, r), Updaters(p, c) = {}
          PROVE  Col(c, w) = Wanted(c, job[r])
      <4>1. Col(c, profiles[p]) = Wanted(c, job[p])  BY <1>2, <2>3, <3>1, <3>2 DEF Right
      <4>2. Col(c, orm[r].row) = Wanted(c, job[p])  BY <1>1, <2>1, <2>3, <3>1, <3>2
      <4>3. \/ Col(c, w) = Wanted(c, job[r])
            \/ Col(c, w) = Col(c, profiles[p]) /\ Col(c, orm[r].row) = Wanted(c, job[r])
        BY <3>2, ColumnsOfUpdate DEF Updates
      <4> QED  BY <4>1, <4>2, <4>3
    <3>3. ASSUME NEW c \in Columns, ~Updates(c, r)
          PROVE  Right(c, p, Col(c, w), Updaters(p, c), job)
      <4>1. Col(c, w) = Col(c, profiles[p])  BY <2>3, <3>3, ColumnsOfUpdate DEF Updates
      <4> QED  BY <1>2, <2>3, <3>1, <3>3, <4>1
    <3>4. pending'[r].row = w /\ pending'[r].id = p  BY <2>1, <2>3, <3>1
    <3> HIDE DEF w, TInv
    <3> QED  BY <1>1, <2>1, <2>3, <3>2, <3>3, <3>4, UpdateFrame
  <2>4. CASE job[r].op = "delete" /\ orm'[r] = orm[r] /\ pending'[r].row = Nil
    <3> HIDE DEF TInv
    <3> QED  BY <1>1, <2>1, <2>4, UpdateFrame
  <2> QED  BY <1>7, <2>2, <2>3, <2>4 DEF Flushes
<1>8. CASE Commits(r)
  <2> HIDE DEF TInv
  <2> QED  BY <1>8, UpdateCommits
<1> QED  BY <1>4, <1>5, <1>6, <1>7, <1>8 DEF Moves

\* NoLostUpdate of ProfileCrud.
THEOREM UpdatesAreKept == Spec => []NoLostUpdate
<1>1. Init => TInv /\ LInv /\ UpdateInv  BY TypeInit, LocksInit, UpdateInit
<1>2. TInv /\ LInv /\ UpdateInv /\ [Next]_vars => (TInv /\ LInv /\ UpdateInv)'
  BY TypeStep, LocksStep, UpdateStep
<1>3. UpdateInv => NoLostUpdate
  <2>1. \A p : Writers(p, "name") = Updaters(p, "name")
    BY DEF Writers, Updaters, Updates, Field
  <2>2. \A p : /\ Writers(p, "phone") = Updaters(p, "number")
               /\ Writers(p, "phone") = Updaters(p, "hash")
    BY DEF Writers, Updaters, Updates, Field
  <2> SUFFICES ASSUME UpdateInv, NEW r \in Requests, NEW p \in Live
               PROVE  /\ Updaters(p, "name") = {r} => profiles[p].name = job[r].name
                      /\ Updaters(p, "number") = {r} => Decrypt(profiles[p].enc) = E164[job[r].phone]
                      /\ Updaters(p, "hash") = {r} => profiles[p].hash = Digest(E164[job[r].phone])
    BY <2>1, <2>2 DEF NoLostUpdate
  <2> HIDE DEF Updaters
  <2>3. \A c \in Columns : Updaters(p, c) = {r} => Col(c, profiles[p]) = Wanted(c, job[r])
    BY DEF UpdateInv, TableRight, Right
  <2> QED  BY <2>3 DEF Columns, Col, Wanted
<1> QED  BY <1>1, <1>2, <1>3, PTL DEF Spec
=============================================================================
