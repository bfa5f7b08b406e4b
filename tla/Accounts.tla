-------------------------------- MODULE Accounts --------------------------------
(***************************************************************************)
(* services/auth_service: registration, login and GET /me, statement by    *)
(* statement.                                                              *)
(*                                                                         *)
(* A request loses control at every await of AuthService and of its        *)
(* session; bcrypt and jose run between two awaits.  A row that a          *)
(* transaction has flushed keeps its e-mail address locked in the unique   *)
(* index until the transaction ends.  The id of a user is the request that *)
(* registers it.  No code of the service removes a user or writes          *)
(* is_active: Deactivate is the operator of the database.                  *)
(***************************************************************************)
EXTENDS Integers

CONSTANTS
    Requests,
    Emails,
    Passwords,
    Digests,
    Digest,      \* Digest[p]: what bcrypt keeps of a password; not injective, and Nil of
                 \* one that it refuses with an exception (a NUL in it)
    Script,      \* Script[r]: the calls request r may turn out to be
    AccessTtl,   \* access_token_expires_min, in ticks of the clock
    RefreshTtl,  \* refresh_token_expires_min
    MaxTime,     \* bound: the clock stops here
    Faults,      \* the requests whose statements may fail
    Nil

Times == 0..MaxTime
User == [email : Emails, password_hash : Digests, is_active : BOOLEAN]
TokenPair == [sub : Requests, access : Nat, refresh : Nat]   \* the expiry of each

Credentials == [email : Emails, password : Passwords]

\* A reader of /me presents a token of the pair that login request "of" was given.
Job == [op : {"register", "login"}, with : Credentials]
       \cup [op : {"me"}, of : Requests \cup {Nil}, kind : {"access", "refresh"}]

ASSUME AccountsAssumption ==
    /\ MaxTime \in Nat /\ AccessTtl \in Nat /\ RefreshTtl \in Nat
    /\ Digest \in [Passwords -> Digests \cup {Nil}]
    /\ Script \in [Requests -> (SUBSET Job) \ {{}}]
    /\ Faults \subseteq Requests
    /\ Nil \notin Requests \cup Digests \cup User \cup TokenPair \cup Job
                \cup (Requests \X {"access", "refresh"})

VARIABLES
    users,    \* the committed table
    now,      \* the clock
    pc, job,
    flushed,  \* the User a registration has flushed and not committed
    tokens,   \* what a login has been answered
    decoded,  \* the user id of the token a reader of /me presented
    status,   \* the HTTP status answered, 0 while there is none
    seen,     \* auxiliary: what table and clock told of the request while it ran
    broken    \* auxiliary: requests one of whose statements failed

vars == <<users, now, pc, job, flushed, tokens, decoded, status, seen, broken>>

Labels == {"idle", "find", "insert", "commit", "refresh", "find_by_id", "done"}

TypeOK ==
    /\ users \in [Requests -> User \cup {Nil}]
    /\ now \in Times
    /\ pc \in [Requests -> Labels]
    /\ job \in [Requests -> Job \cup {Nil}]
    /\ flushed \in [Requests -> User \cup {Nil}]
    /\ tokens \in [Requests -> TokenPair \cup {Nil}]
    /\ decoded \in [Requests -> Requests \cup {Nil}]
    /\ status \in [Requests -> {0, 200, 201, 401, 404, 409, 500}]
    /\ seen \in [Requests -> SUBSET {"taken", "free", "valid", "invalid"}]
    /\ broken \subseteq Requests

Init ==
    /\ users = [r \in Requests |-> Nil]
    /\ now = 0
    /\ pc = [r \in Requests |-> "idle"]
    /\ job = [r \in Requests |-> Nil]
    /\ flushed = [r \in Requests |-> Nil]
    /\ tokens = [r \in Requests |-> Nil]
    /\ decoded = [r \in Requests |-> Nil]
    /\ status = [r \in Requests |-> 0]
    /\ seen = [r \in Requests |-> {}]
    /\ broken = {}

-----------------------------------------------------------------------------
Goto(r, label) == pc' = [pc EXCEPT ![r] = label] /\ UNCHANGED status

Answer(r, code) ==
    /\ pc' = [pc EXCEPT ![r] = "done"]
    /\ status' = [status EXCEPT ![r] = code]

\* Mutant: what the database refuses is answered as unavailable.
AbortUnavailable(r) == Answer(r, 503) /\ flushed' = [flushed EXCEPT ![r] = Nil]

Abort(r) == Answer(r, 500) /\ flushed' = [flushed EXCEPT ![r] = Nil]

Busy(r) == pc[r] \notin {"idle", "done"}

\* find_by_email: the committed users with the address.
FindByEmail(e) == {u \in Requests : users[u] # Nil /\ users[u].email = e}

\* Mutant: is_active is not asked.
MatchesInactive(u, c) == users[u].password_hash = Digest[c.password]

Matches(u, c) ==
    users[u].is_active /\ users[u].password_hash = Digest[c.password]

\* find_by_id, and that the user is active.
Active(u) == users[u] # Nil /\ users[u].is_active

\* The tokens a reader of /me has; Nil stands for none and for one not of this service.
Token(j) == IF j.of = Nil THEN Nil ELSE tokens[j.of]

Registered(c) ==
    \E u \in FindByEmail(c.email) :
        users[u].is_active /\ users[u].password_hash = Digest[c.password]

\* TokenService.decode: a token is good to the last tick of its life.
Decodes(j) == Token(j) # Nil /\ now <= Token(j)[j.kind]

\* What the table and the clock say of the call that j is.
Says(j) ==
    CASE j.op = "register" -> IF FindByEmail(j.with.email) = {} THEN "free" ELSE "taken"
      [] j.op = "login" -> IF Registered(j.with) THEN "valid" ELSE "invalid"
      [] OTHER -> IF Decodes(j) /\ Active(Token(j).sub) THEN "valid" ELSE "invalid"

\* Auxiliary: those who wait see every change of the table.
Observe ==
    seen' = [q \in Requests |-> IF Busy(q) THEN seen[q] \cup {Says(job[q])'} ELSE seen[q]]

\* The body or the token of a request has been read; its first await is ahead.
Begin(r) ==
    /\ pc[r] = "idle"
    /\ \E j \in Script[r] :
          /\ j.op = "me" /\ j.of # Nil => pc[j.of] = "done"
          /\ job' = [job EXCEPT ![r] = j]
          /\ seen' = [seen EXCEPT ![r] = {Says(j)}]
          /\ IF j.op # "me" THEN Goto(r, "find") /\ UNCHANGED decoded
             ELSE IF Decodes(j)
                  THEN Goto(r, "find_by_id") /\ decoded' = [decoded EXCEPT ![r] = Token(j).sub]
                  ELSE Answer(r, 401) /\ UNCHANGED decoded
    /\ UNCHANGED <<users, now, flushed, tokens, broken>>

\* PasswordHasher.hash and verify raise on a password that bcrypt refuses.
Digestible(r) == Digest[job[r].with.password] # Nil

\* Mutant: register_user relies on the unique index alone.
RegisterBlindly(r) ==
    /\ pc[r] = "find" /\ job[r].op = "register"
    /\ \/ Digestible(r) /\ Goto(r, "insert") /\ UNCHANGED flushed
       \/ ~Digestible(r) /\ Abort(r)
    /\ UNCHANGED <<users, now, job, tokens, decoded, seen, broken>>

FindForRegister(r) ==
    LET free == FindByEmail(job[r].with.email) = {} IN
    /\ pc[r] = "find" /\ job[r].op = "register"
    /\ \/ ~free /\ Answer(r, 409) /\ UNCHANGED flushed
       \/ free /\ Digestible(r) /\ Goto(r, "insert") /\ UNCHANGED flushed
       \/ free /\ ~Digestible(r) /\ Abort(r)
    /\ UNCHANGED <<users, now, job, tokens, decoded, seen, broken>>

\* Mutant: the address has no unique index.
InsertUnchecked(r) ==
    /\ pc[r] = "insert"
    /\ flushed' = [flushed EXCEPT ![r] =
           [email |-> job[r].with.email, password_hash |-> Digest[job[r].with.password],
            is_active |-> TRUE]]
    /\ Goto(r, "commit")
    /\ UNCHANGED <<users, now, job, tokens, decoded, seen, broken>>

\* The row is written in the transaction; the address waits for, then collides with,
\* another one.  The IntegrityError leaves register_user before its try block.
Insert(r) ==
    LET e == job[r].with.email IN
    /\ pc[r] = "insert"
    /\ \A q \in Requests : flushed[q] # Nil => flushed[q].email # e
    /\ IF FindByEmail(e) # {} THEN Abort(r)
       ELSE /\ flushed' = [flushed EXCEPT ![r] =
                  [email |-> e, password_hash |-> Digest[job[r].with.password], is_active |-> TRUE]]
            /\ Goto(r, "commit")
    /\ UNCHANGED <<users, now, job, tokens, decoded, seen, broken>>

\* Mutant: the transaction of a registration is left open.
CommitKeepsLock(r) ==
    /\ pc[r] = "commit"
    /\ users' = [users EXCEPT ![r] = flushed[r]]
    /\ Goto(r, "refresh")
    /\ UNCHANGED <<now, job, flushed, tokens, decoded, broken>>
    /\ Observe

\* The unique index has been asked at the flush: COMMIT meets no conflict, and the
\* except clause of register_user is not reached.
Commit(r) ==
    /\ pc[r] = "commit"
    /\ users' = [users EXCEPT ![r] = flushed[r]]
    /\ flushed' = [flushed EXCEPT ![r] = Nil]
    /\ Goto(r, "refresh")
    /\ UNCHANGED <<now, job, tokens, decoded, broken>>
    /\ Observe

Refresh(r) ==
    /\ pc[r] = "refresh"
    /\ IF users[r] = Nil THEN Abort(r) ELSE Answer(r, 201) /\ UNCHANGED flushed
    /\ UNCHANGED <<users, now, job, tokens, decoded, seen, broken>>

\* Both tokens are made from one reading of the user.
Pair(u) == [sub |-> u, access |-> now + AccessTtl, refresh |-> now + RefreshTtl]

\* An account that is there and active is what the password is verified against.
Login(r) ==
    LET c == job[r].with
        raises == ~Digestible(r) /\ \E u \in FindByEmail(c.email) : Active(u)
    IN
    /\ pc[r] = "find" /\ job[r].op = "login"
    /\ \/ raises /\ Abort(r) /\ UNCHANGED tokens
       \/ /\ ~raises /\ \A u \in FindByEmail(c.email) : ~Matches(u, c)
          /\ Answer(r, 401)
          /\ UNCHANGED <<flushed, tokens>>
       \/ \E u \in FindByEmail(c.email) :
             /\ Matches(u, c)
             /\ Answer(r, 200)
             /\ tokens' = [tokens EXCEPT ![r] = Pair(u)]
             /\ UNCHANGED flushed
    /\ UNCHANGED <<users, now, job, decoded, seen, broken>>

ReadCurrentUser(r) ==
    LET u == decoded[r] IN
    /\ pc[r] = "find_by_id"
    /\ Answer(r, CASE users[u] = Nil -> 404
                   [] users[u] # Nil /\ ~users[u].is_active -> 401
                   [] OTHER -> 200)
    /\ UNCHANGED <<users, now, job, flushed, tokens, decoded, seen, broken>>

Fail(r) ==
    /\ r \in Faults
    /\ Busy(r)
    /\ Abort(r)
    /\ broken' = broken \cup {r}
    /\ UNCHANGED <<users, now, job, tokens, decoded, seen>>

Deactivate(u) ==
    /\ Active(u)
    /\ users' = [users EXCEPT ![u].is_active = FALSE]
    /\ UNCHANGED <<now, pc, job, flushed, tokens, decoded, status, broken>>
    /\ Observe

Tick ==
    /\ now < MaxTime
    /\ now' = now + 1
    /\ UNCHANGED <<users, pc, job, flushed, tokens, decoded, status, seen, broken>>

Step(r) == FindForRegister(r) \/ Insert(r) \/ Commit(r) \/ Refresh(r) \/ Login(r) \/ ReadCurrentUser(r)

\* Every request has been answered and no other will be sent.
Finished == (\A r \in Requests : pc[r] = "done") /\ UNCHANGED vars

Next ==
    \/ Finished \/ Tick
    \/ \E r \in Requests : Begin(r) \/ Step(r) \/ Fail(r) \/ Deactivate(r)

Spec == Init /\ [][Next]_vars

\* The event loop runs what is ready, and the database serves what it can.
FairSpec == Spec /\ \A r \in Requests : WF_vars(Step(r))

-----------------------------------------------------------------------------
(* Properties. *)

\* One account per address, under concurrent registrations (find_by_email sees no
\* uncommitted row), and a registration told 201 keeps its account: the address and
\* the password it was made with.
OneAccount ==
    /\ \A e \in Emails : \A u, v \in FindByEmail(e) : u = v
    /\ \A r \in Requests : status[r] = 201 =>
          /\ users[r] # Nil
          /\ users[r].email = job[r].with.email
          /\ users[r].password_hash = Digest[job[r].with.password]

\* What an answer says was the case at some moment of its request, whatever was
\* registered or deactivated meanwhile: the address was taken (409), the credentials or
\* the token were good (200) or not (401); and a token never outlives its account (404).
AnswersWereTrue ==
    \A r \in Requests :
        /\ status[r] = 409 => "taken" \in seen[r]
        /\ status[r] = 200 => "valid" \in seen[r]
        /\ status[r] = 401 => "invalid" \in seen[r]
        /\ status[r] # 404

\* Without a failing statement a 500 is either the race of registrations, whose address
\* was free and taken while they ran, or a password bcrypt refuses: of a registration
\* whose address was free, or of a login to an address that has an account.
OnlyRacesFail ==
    \A r \in Requests :
        status[r] = 500 /\ r \notin broken =>
           \/ job[r].op = "register" /\ Digestible(r) /\ {"free", "taken"} \subseteq seen[r]
           \/ job[r].op = "register" /\ ~Digestible(r) /\ "free" \in seen[r]
           \/ job[r].op = "login" /\ ~Digestible(r) /\ FindByEmail(job[r].with.email) # {}

\* Registrations that wait for one another's address are answered.
EveryRequestAnswered == \A r \in Requests : Busy(r) ~> pc[r] = "done"

\* A registration whose address is taken while it runs is told so if it fails:
\* UserAlreadyExistsError, 409 (services/auth.py:54-59 catches the IntegrityError of
\* the race for that).
DuplicateIsConflict ==
    \A r \in Requests :
        /\ job[r] # Nil /\ job[r].op = "register" /\ "taken" \in seen[r]
        /\ pc[r] = "done" /\ r \notin broken
        => status[r] \in {201, 409}
=============================================================================
