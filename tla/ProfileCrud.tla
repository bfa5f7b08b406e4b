------------------------------ MODULE ProfileCrud ------------------------------
(***************************************************************************)
(* Profiles of services/profile_service: create_profile, get_profile,      *)
(* update_profile and delete_profile of ProfileService, each running in    *)
(* its own AsyncSession against the tables profiles and audit_logs.        *)
(*                                                                         *)
(* A request is a coroutine of the event loop (or of another worker        *)
(* process); it can lose control at every await, so each SQL statement,    *)
(* flush and commit is a step.  A SELECT reads what is committed; a flush   *)
(* makes its write pending and holds the row and the unique keys it        *)
(* touches until COMMIT or ROLLBACK, as PostgreSQL does at READ COMMITTED. *)
(* Every request is sent once; a retry is another request.                 *)
(***************************************************************************)
CONSTANTS
    Requests,     \* identities of requests; also the uuid4 of the profile one creates
    Users,        \* values of the JWT claim "sub"
    Names,        \* full_name, standing for every column that is not the phone
    Phones,       \* numbers in E.164 form
    RawPhones,    \* the spellings a client may send
    Sub,          \* Sub[r]: the user who sends request r
    E164,         \* E164[raw]: the normal form, Nil when the number is invalid
    Script,       \* Script[r]: the calls request r may turn out to be
    ForeignKeys,  \* the database enforces FOREIGN KEY (PostgreSQL; SQLite does not)
    Patient,      \* the users who wait for an answer before sending another request
    Faults,       \* statements may fail: connection lost, deadlock victim, restart
    Nil

Job == [op : {"create", "get", "update", "delete"},
        name : Names \cup {Nil}, phone : RawPhones \cup {Nil}]

\* AES-GCM under a fresh nonce: two encryptions never give the same ciphertext.
Cipher == [phone : Phones, nonce : Requests]
Encrypt(e, r) == [phone |-> e, nonce |-> r]
Decrypt(c) == c.phone

\* SHA-256 of pepper and number, collision free.
Digest(e) == [sha256 |-> e]

Row == [user : Users, name : Names, enc : Cipher, hash : [sha256 : Phones]]
Handle == [id : Requests, row : Row]                 \* an instance in the session
Write == [id : Requests, row : Row \cup {Nil}]       \* Nil: the row is deleted
AuditRow == [req : Requests, profile : Requests]

ASSUME ConstantsAssumption ==
    /\ Sub \in [Requests -> Users]
    /\ E164 \in [RawPhones -> Phones \cup {Nil}]
    /\ Script \in [Requests -> (SUBSET Job) \ {{}}]
    /\ \A r \in Requests : \A j \in Script[r] :
          j.op = "create" => j.name # Nil /\ j.phone # Nil
    /\ Patient \subseteq Users
    /\ {ForeignKeys, Faults} \subseteq BOOLEAN
    /\ Nil \notin Requests \cup Names \cup Phones \cup RawPhones \cup Job
    /\ Nil \notin Row \cup Handle \cup Write

VARIABLES
    profiles,  \* the committed table, by primary key
    audit,     \* the committed rows of audit_logs
    pc,        \* the await at which each request stands
    job,       \* the call of each request
    orm,       \* the Profile instance its session has loaded
    pending,   \* the flushed write its transaction has not committed
    status     \* the HTTP status answered, 0 while there is none

vars == <<profiles, audit, pc, job, orm, pending, status>>

Labels == {"idle", "load", "phone", "flush", "audit", "commit", "refresh", "done"}
Statuses == {0, 200, 201, 204, 404, 409, 422, 500}

TypeOK ==
    /\ profiles \in [Requests -> Row \cup {Nil}]
    /\ audit \subseteq AuditRow
    /\ pc \in [Requests -> Labels]
    /\ job \in [Requests -> Job \cup {Nil}]
    /\ orm \in [Requests -> Handle \cup {Nil}]
    /\ pending \in [Requests -> Write \cup {Nil}]
    /\ status \in [Requests -> Statuses]

Init ==
    /\ profiles = [p \in Requests |-> Nil]
    /\ audit = {}
    /\ pc = [r \in Requests |-> "idle"]
    /\ job = [r \in Requests |-> Nil]
    /\ orm = [r \in Requests |-> Nil]
    /\ pending = [r \in Requests |-> Nil]
    /\ status = [r \in Requests |-> 0]

-----------------------------------------------------------------------------
(* What the database promises. *)

Live == {p \in Requests : profiles[p] # Nil}

\* The entries of a row in the unique indexes on user_id and phone_hash.
Keys(row) == IF row = Nil THEN {} ELSE {<<"user", row.user>>, <<"hash", row.hash>>}

\* What request q's transaction holds: the row it wrote and the index entries
\* of that row, those before the write and those after it.
Held(q) ==
    IF pending[q] = Nil THEN {}
    ELSE {<<"row", pending[q].id>>} \cup Keys(profiles[pending[q].id])
                                    \cup Keys(pending[q].row)

Free(r, locks) == \A q \in Requests \ {r} : Held(q) \cap locks = {}

\* Mutant: phone_hash without its unique index.
UserIndexOnly(p, row) == \E q \in Live \ {p} : profiles[q].user = row.user

UniqueViolation(p, row) ==
    \E q \in Live \ {p} : Keys(profiles[q]) \cap Keys(row) # {}

\* Inserting a child row shares the key of its parent until the commit.
KeyShared(r, p) ==
    /\ ForeignKeys
    /\ \E q \in Requests \ {r} : pc[q] = "commit" /\ orm[q].id = p

\* A write that changes or removes a key of its row excludes such a share.
KeyWritten(r, p) ==
    /\ ForeignKeys
    /\ \E q \in Requests \ {r} :
          /\ pending[q] # Nil
          /\ pending[q].id = p
          /\ Keys(pending[q].row) # Keys(profiles[p])

-----------------------------------------------------------------------------
Goto(r, label) == pc' = [pc EXCEPT ![r] = label] /\ UNCHANGED status

Answer(r, code) ==
    /\ pc' = [pc EXCEPT ![r] = "done"]
    /\ status' = [status EXCEPT ![r] = code]

\* An exception that is no DomainError: the session rolls back, the client sees 500.
Abort(r) ==
    /\ Answer(r, 500)
    /\ pending' = [pending EXCEPT ![r] = Nil]
    /\ UNCHANGED orm

Busy(q) == pc[q] \notin {"idle", "done"}

\* The router: a call arrives with a valid token and a well-formed body.
Begin(r) ==
    /\ pc[r] = "idle"
    /\ Sub[r] \in Patient => \A q \in Requests : Sub[q] = Sub[r] => ~Busy(q)
    /\ \E j \in Script[r] : job' = [job EXCEPT ![r] = j]
    /\ Goto(r, "load")
    /\ UNCHANGED <<profiles, audit, orm, pending>>

GetByUserId(u) == {p \in Live : profiles[p].user = u}

\* create_profile: a user who has a profile is refused.
CheckUser(r) ==
    /\ pc[r] = "load" /\ job[r].op = "create"
    /\ IF GetByUserId(Sub[r]) # {} THEN Answer(r, 409) ELSE Goto(r, "phone")
    /\ UNCHANGED <<profiles, audit, job, orm, pending>>

\* Where the handlers other than create_profile go once the profile is loaded.
AfterLoad(r) ==
    LET j == job[r] IN
    \/ j.op = "get" /\ Goto(r, "audit")
    \/ j.op = "delete" /\ Goto(r, "flush")
    \/ j.op = "update" /\ j.phone # Nil /\ Goto(r, "phone")
    \/ j.op = "update" /\ j.phone = Nil /\ j.name # Nil /\ Goto(r, "flush")
    \/ j.op = "update" /\ j.phone = Nil /\ j.name = Nil /\ Answer(r, 200)

GetProfileOrRaise(r) ==
    /\ pc[r] = "load" /\ job[r].op # "create"
    /\ \/ /\ GetByUserId(Sub[r]) = {}
          /\ Answer(r, 404)
          /\ UNCHANGED orm
       \/ \E p \in GetByUserId(Sub[r]) :
             /\ orm' = [orm EXCEPT ![r] = [id |-> p, row |-> profiles[p]]]
             /\ AfterLoad(r)
    /\ UNCHANGED <<profiles, audit, job, pending>>

PhoneInUse(r, digest) ==
    \E p \in Live : profiles[p].hash = digest /\ (orm[r] # Nil => p # orm[r].id)

\* Mutant: the number is not validated.
PrepareUnchecked(r) ==
    /\ pc[r] = "phone"
    /\ IF PhoneInUse(r, Digest(E164[job[r].phone])) THEN Answer(r, 409) ELSE Goto(r, "flush")
    /\ UNCHANGED <<profiles, audit, job, orm, pending>>

\* _prepare_phone
PreparePhone(r) ==
    /\ pc[r] = "phone"
    /\ LET e == E164[job[r].phone] IN
          IF e = Nil THEN Answer(r, 422)
          ELSE IF PhoneInUse(r, Digest(e)) THEN Answer(r, 409)
          ELSE Goto(r, "flush")
    /\ UNCHANGED <<profiles, audit, job, orm, pending>>

-----------------------------------------------------------------------------
(* Flushes.  An IntegrityError or StaleDataError is not caught anywhere. *)

NewProfile(r) ==
    LET e == E164[job[r].phone] IN
    [user |-> Sub[r], name |-> job[r].name, enc |-> Encrypt(e, r), hash |-> Digest(e)]

FlushInsert(r) ==
    /\ pc[r] = "flush" /\ job[r].op = "create"
    /\ Free(r, Keys(NewProfile(r)))
    /\ IF UniqueViolation(r, NewProfile(r)) THEN Abort(r)
       ELSE /\ orm' = [orm EXCEPT ![r] = [id |-> r, row |-> NewProfile(r)]]
            /\ pending' = [pending EXCEPT ![r] = [id |-> r, row |-> NewProfile(r)]]
            /\ Goto(r, "audit")
    /\ UNCHANGED <<profiles, audit, job>>

\* The instance after setattr of the fields the payload carries.
Assigned(r) ==
    LET row == orm[r].row
        e == E164[job[r].phone]
        phone == job[r].phone # Nil
    IN [user |-> row.user,
        name |-> IF job[r].name # Nil THEN job[r].name ELSE row.name,
        enc |-> IF phone THEN Encrypt(e, r) ELSE row.enc,
        hash |-> IF phone THEN Digest(e) ELSE row.hash]

\* The unit of work emits SET for the columns whose value differs from the one
\* loaded; the others keep what the row holds when the UPDATE runs.
SetAll(row, old, new) == new   \* Mutant: every column is written back.

SetChanged(row, old, new) ==
    [user |-> row.user,
     name |-> IF new.name # old.name THEN new.name ELSE row.name,
     enc |-> IF new.enc # old.enc THEN new.enc ELSE row.enc,
     hash |-> IF new.hash # old.hash THEN new.hash ELSE row.hash]

\* Mutant: the instance is merged, which inserts the row again when it is gone.
MergeUpdate(r) ==
    /\ pc[r] = "flush" /\ job[r].op = "update"
    /\ Free(r, {<<"row", orm[r].id>>} \cup Keys(Assigned(r)))
    /\ pending' = [pending EXCEPT ![r] = [id |-> orm[r].id, row |-> Assigned(r)]]
    /\ Goto(r, "audit")
    /\ UNCHANGED <<profiles, audit, job, orm>>

FlushUpdate(r) ==
    /\ pc[r] = "flush" /\ job[r].op = "update"
    /\ LET p == orm[r].id
           old == orm[r].row
           new == Assigned(r)
           stored == SetChanged(profiles[p], old, new)
       IN IF new = old THEN Goto(r, "audit") /\ UNCHANGED pending
          ELSE /\ Free(r, {<<"row", p>>})
               /\ IF profiles[p] = Nil THEN Abort(r)
                  ELSE /\ Free(r, Keys(stored))
                       /\ Keys(stored) # Keys(profiles[p]) => ~KeyShared(r, p)
                       /\ IF UniqueViolation(p, stored) THEN Abort(r)
                          ELSE /\ pending' = [pending EXCEPT ![r] = [id |-> p, row |-> stored]]
                               /\ Goto(r, "audit")
    /\ UNCHANGED <<profiles, audit, job, orm>>

\* Mutant: the audit rows, that of the deletion included, go with the profile.
CascadeDelete(r) ==
    /\ pc[r] = "flush" /\ job[r].op = "delete"
    /\ Free(r, {<<"row", orm[r].id>>})
    /\ pending' = [pending EXCEPT ![r] = [id |-> orm[r].id, row |-> Nil]]
    /\ Goto(r, "commit")
    /\ UNCHANGED <<profiles, audit, job, orm>>

\* A DELETE that finds no row only warns.
FlushDelete(r) ==
    /\ pc[r] = "flush" /\ job[r].op = "delete"
    /\ LET p == orm[r].id IN
          /\ Free(r, {<<"row", p>>})
          /\ ~KeyShared(r, p)
          /\ IF ForeignKeys /\ p \in Live /\ \E a \in audit : a.profile = p THEN Abort(r)
             ELSE /\ pending' = [pending EXCEPT ![r] = [id |-> p, row |-> Nil]]
                  /\ Goto(r, "audit")
    /\ UNCHANGED <<profiles, audit, job, orm>>

\* AuditLogRepository.log: the INSERT references the profile of the session.
AuditLog(r) ==
    /\ pc[r] = "audit"
    /\ LET p == orm[r].id
           seen == IF pending[r] = Nil THEN profiles[p] ELSE pending[r].row
       IN /\ ~KeyWritten(r, p)
          /\ IF ForeignKeys /\ seen = Nil THEN Abort(r)
             ELSE Goto(r, "commit") /\ UNCHANGED <<orm, pending>>
    /\ UNCHANGED <<profiles, audit, job>>

AfterCommit(r) ==
    \/ job[r].op = "get" /\ Answer(r, 200)
    \/ job[r].op = "delete" /\ Answer(r, 204)
    \/ job[r].op \in {"create", "update"} /\ Goto(r, "refresh")

Committed(r) ==
    IF pending[r] = Nil THEN profiles
    ELSE [profiles EXCEPT ![pending[r].id] = pending[r].row]

\* Mutants: create_profile writes no audit row; COMMIT leaves the locks behind.
CommitUnaudited(r) ==
    /\ pc[r] = "commit"
    /\ audit' = IF job[r].op = "create" THEN audit
                ELSE audit \cup {[req |-> r, profile |-> orm[r].id]}
    /\ profiles' = Committed(r)
    /\ pending' = [pending EXCEPT ![r] = Nil]
    /\ AfterCommit(r)
    /\ UNCHANGED <<job, orm>>
CommitKeepsLocks(r) ==
    /\ pc[r] = "commit"
    /\ audit' = audit \cup {[req |-> r, profile |-> orm[r].id]}
    /\ profiles' = Committed(r)
    /\ AfterCommit(r)
    /\ UNCHANGED <<job, orm, pending>>

Commit(r) ==
    /\ pc[r] = "commit"
    /\ audit' = audit \cup {[req |-> r, profile |-> orm[r].id]}
    /\ profiles' = Committed(r)
    /\ pending' = [pending EXCEPT ![r] = Nil]
    /\ AfterCommit(r)
    /\ UNCHANGED <<job, orm>>

\* session.refresh raises when the row has gone.
Refresh(r) ==
    /\ pc[r] = "refresh"
    /\ LET p == orm[r].id IN
          IF p \notin Live THEN Abort(r)
          ELSE /\ orm' = [orm EXCEPT ![r].row = profiles[p]]
               /\ Answer(r, IF job[r].op = "create" THEN 201 ELSE 200)
               /\ UNCHANGED pending
    /\ UNCHANGED <<profiles, audit, job>>

\* The statement under way, or the COMMIT, raises.
Fail(r) ==
    /\ Faults
    /\ Busy(r)
    /\ Abort(r)
    /\ UNCHANGED <<profiles, audit, job>>

Step(r) ==
    \/ CheckUser(r) \/ GetProfileOrRaise(r) \/ PreparePhone(r)
    \/ FlushInsert(r) \/ FlushUpdate(r) \/ FlushDelete(r)
    \/ AuditLog(r) \/ Commit(r) \/ Refresh(r)

\* Every request has been answered and no other will be sent.
Finished == (\A r \in Requests : pc[r] = "done") /\ UNCHANGED vars

Next == Finished \/ \E r \in Requests : Begin(r) \/ Step(r) \/ Fail(r)

Spec == Init /\ [][Next]_vars

\* The loop resumes every coroutine whose statement has returned.
FairSpec == Spec /\ \A r \in Requests : WF_vars(Step(r))

-----------------------------------------------------------------------------
(* Properties. *)

\* No two profiles have the user or the phone number in common, whatever the
\* order in which the checks of create_profile and update_profile and their
\* flushes interleave: the check is a plain SELECT, the unique index decides.
UniqueProfiles ==
    \A p, q \in Live : p # q => Keys(profiles[p]) \cap Keys(profiles[q]) = {}

\* Every value of a stored profile was written by a request whose audit row was
\* committed with it: nothing is stored that audit_logs does not account for,
\* also when statements fail half way and when updates merge column by column.
RowsTraceToAudit ==
    \A p \in Live :
        LET writers == {a.req : a \in {b \in audit : b.profile = p}} IN
        /\ p \in writers
        /\ \E r \in writers : job[r].name = profiles[p].name
        /\ profiles[p].enc.nonce \in writers
        /\ \E r \in writers : job[r].phone # Nil /\ Digest(E164[job[r].phone]) = profiles[p].hash

\* The committed update requests on profile p that carry field f.
Writers(p, f) ==
    {r \in Requests : /\ [req |-> r, profile |-> p] \in audit
                      /\ job[r].op = "update"
                      /\ job[r][f] # Nil}

\* update_profile loads the row, waits, and writes it back: a request that was
\* the only one to update a field of the profile finds its value there, even
\* when requests that loaded the row earlier update other fields later.
NoLostUpdate ==
    \A r \in Requests : \A p \in Live :
        /\ Writers(p, "name") = {r} => profiles[p].name = job[r].name
        /\ Writers(p, "phone") = {r} =>
              /\ Decrypt(profiles[p].enc) = E164[job[r].phone]
              /\ profiles[p].hash = Digest(E164[job[r].phone])

\* On a database that enforces foreign keys no profile ever goes: its creation
\* left an audit row that references it, and nothing removes audit rows.
ProfilesNeverRemoved == [][ForeignKeys => Live \subseteq Live']_vars

\* The hash is the digest of the number the ciphertext holds.
HashOfPhone(p) == profiles[p].hash = Digest(Decrypt(profiles[p].enc))

\* The two columns of the phone agree for every user who never has two requests
\* under way: the update writes only the columns whose value it changes.
PhoneColumnsAgree == \A p \in Live : profiles[p].user \in Patient => HashOfPhone(p)

\* The claim of PROFILE_SERVICE_SPEC.md about the column phone_hash, for every user.
PhoneHashIsDigest == \A p \in Live : HashOfPhone(p)

\* An update that loaded the profile before it was deleted does not bring it
\* back: whoever is told 204 has no profile under that id any more.
DeletedStaysDeleted ==
    \A r \in Requests : status[r] = 204 => orm[r].id \notin Live

\* What tests/test_profile_crud.py expects of DELETE /api/profile.
DeleteAnswers204 ==
    \A r \in Requests :
        pc[r] = "done" /\ job[r].op = "delete" => status[r] \in {204, 404}

\* Every request is answered: the waits for row and index locks form no cycle
\* and every exit of a handler releases what the transaction holds.
EveryRequestAnswered == \A r \in Requests : pc[r] # "idle" ~> pc[r] = "done"
=============================================================================
