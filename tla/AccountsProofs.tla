---------------------------- MODULE AccountsProofs ----------------------------
(***************************************************************************)
(* Theorems about Accounts for every set of requests, addresses and        *)
(* passwords: one account per address, answers that were true while their  *)
(* client waited, and the two reasons for a request to fail.               *)
(***************************************************************************)
EXTENDS Accounts, TLAPS

-----------------------------------------------------------------------------
(* The inductive invariant. *)

\* Where a request stands bounds what it may be.
Calls(r) ==
    /\ pc[r] # "idle" => job[r] \in Script[r]
    /\ pc[r] \in {"insert", "commit", "refresh"} => job[r].op = "register"
    /\ pc[r] \in {"insert", "commit"} => Digestible(r)
    /\ pc[r] = "find" => job[r].op \in {"register", "login"}
    /\ pc[r] = "find_by_id" =>
          /\ job[r].op = "me" /\ job[r].of # Nil
          /\ pc[job[r].of] = "done" /\ tokens[job[r].of] # Nil
          /\ decoded[r] = tokens[job[r].of].sub
    /\ pc[r] # "done" => status[r] = 0

\* The row a registration asks for.
Asked(r) == [email |-> job[r].with.email,
             password_hash |-> Digest[job[r].with.password], is_active |-> TRUE]

\* The rows of a registration, and those that tokens name.
Rows(r) ==
    /\ flushed[r] # Nil <=> pc[r] = "commit"
    /\ flushed[r] # Nil => flushed[r] = Asked(r)
    /\ users[r] # Nil =>
          /\ pc[r] \in {"refresh", "done"} /\ job[r].op = "register"
          /\ users[r].email = job[r].with.email
          /\ users[r].password_hash = Digest[job[r].with.password]
    /\ pc[r] = "refresh" \/ status[r] = 201 => users[r] # Nil
    /\ tokens[r] # Nil => users[tokens[r].sub] # Nil

\* An address has one row, flushed rows included.
Unique ==
    \A u, v \in Requests :
        /\ users[u] # Nil /\ users[v] # Nil /\ users[u].email = users[v].email => u = v
        /\ flushed[u] # Nil /\ flushed[v] # Nil /\ flushed[u].email = flushed[v].email => u = v
        /\ users[u] # Nil /\ flushed[v] # Nil => users[u].email # flushed[v].email

\* What a request that waits has seen includes what the table tells now.
Witness(r) ==
    Busy(r) =>
        /\ job[r].op # "me" => Says(job[r]) \in seen[r]
        /\ job[r].op = "me" => (IF Active(decoded[r]) THEN "valid" ELSE "invalid") \in seen[r]
        /\ pc[r] = "insert" => "free" \in seen[r]

\* The two reasons for a 500 without a failing statement.
Excused(r) ==
    \/ job[r].op = "register" /\ Digestible(r) /\ {"free", "taken"} \subseteq seen[r]
    \/ job[r].op = "register" /\ ~Digestible(r) /\ "free" \in seen[r]
    \/ job[r].op = "login" /\ ~Digestible(r) /\ FindByEmail(job[r].with.email) # {}

Told(r) ==
    /\ status[r] = 409 => "taken" \in seen[r]
    /\ status[r] = 200 => "valid" \in seen[r]
    /\ status[r] = 401 => "invalid" \in seen[r]
    /\ status[r] # 404
    /\ status[r] = 500 /\ r \notin broken => Excused(r)

AInv ==
    /\ TypeOK
    /\ Unique
    /\ \A r \in Requests : Calls(r) /\ Rows(r) /\ Witness(r) /\ Told(r)

LEMMA InitInvariant == Init => AInv
BY AccountsAssumption
DEF Init, AInv, TypeOK, Unique, Calls, Rows, Witness, Told, Busy, Labels, Times

\* The call of a request.
LEMMA CallType ==
    ASSUME AInv, NEW r \in Requests, pc[r] # "idle"
    PROVE  /\ job[r] \in Script[r] /\ job[r] \in Job /\ job[r] # Nil
           /\ job[r].op \in {"register", "login", "me"}
           /\ job[r].op # "me" => job[r].with \in Credentials
           /\ job[r].op = "register" /\ Digestible(r) => Asked(r) \in User /\ Asked(r) # Nil
<1>1. job[r] \in Script[r]
  BY DEF AInv, Calls
<1>2. job[r] \in Job /\ job[r] # Nil
  BY <1>1, AccountsAssumption
<1>3. /\ job[r].op \in {"register", "login", "me"}
      /\ job[r].op # "me" => job[r].with \in Credentials
  BY <1>2 DEF Job
<1>4. ASSUME job[r].op = "register", Digestible(r)  PROVE Asked(r) \in User /\ Asked(r) # Nil
  <2>1. job[r].with.email \in Emails /\ job[r].with.password \in Passwords
    BY <1>3, <1>4 DEF Credentials
  <2>2. Digest[job[r].with.password] \in Digests
    BY <1>4, <2>1, AccountsAssumption DEF Digestible
  <2>3. Asked(r) \in User
    BY <2>1, <2>2 DEF Asked, User
  <2> QED
    BY <2>3, AccountsAssumption
<1> QED
  BY <1>1, <1>2, <1>3, <1>4

\* What the table says of a registration or a login is read from users alone.
LEMMA SaysOfTable ==
    ASSUME UNCHANGED users, NEW j, j.op # "me", j.op \in {"register", "login", "me"}
    PROVE  Says(j)' = Says(j)
BY DEF Says, FindByEmail, Registered

\* The other requests stay where they are.
Others(r) ==
    \A q \in Requests \ {r} :
        /\ pc'[q] = pc[q] /\ job'[q] = job[q] /\ flushed'[q] = flushed[q]
        /\ tokens'[q] = tokens[q] /\ decoded'[q] = decoded[q]
        /\ status'[q] = status[q] /\ seen'[q] = seen[q]
        /\ q \notin broken' <=> q \notin broken

\* A step of r that leaves the table alone keeps the facts about the others.
LEMMA LocalStep ==
    ASSUME AInv, NEW r \in Requests, pc[r] # "done", UNCHANGED users, TypeOK', Others(r),
           Calls(r)', Rows(r)', Witness(r)', Told(r)',
           flushed'[r] # Nil /\ flushed[r] = Nil =>
              \A q \in Requests :
                 /\ users[q] # Nil => users[q].email # flushed'[r].email
                 /\ flushed[q] # Nil => flushed[q].email # flushed'[r].email,
           flushed[r] # Nil => flushed'[r] \in {Nil, flushed[r]}
    PROVE  AInv'
<1>1. ASSUME NEW q \in Requests \ {r}  PROVE Calls(q)' /\ Rows(q)' /\ Told(q)'
  <2>1. /\ pc'[q] = pc[q] /\ job'[q] = job[q] /\ flushed'[q] = flushed[q]
        /\ tokens'[q] = tokens[q] /\ decoded'[q] = decoded[q]
        /\ status'[q] = status[q] /\ seen'[q] = seen[q] /\ users'[q] = users[q]
        /\ q \notin broken' <=> q \notin broken
    BY <1>1 DEF Others
  <2>2. Calls(q) /\ Rows(q) /\ Told(q)
    BY DEF AInv
  <2>3. ASSUME pc[q] = "find_by_id"  PROVE job[q].of \in Requests \ {r}
    <3>1. job[q] \in Job /\ job[q].op = "me" /\ job[q].of # Nil /\ pc[job[q].of] = "done"
      BY <2>2, <2>3, CallType DEF Calls
    <3> QED
      BY <3>1 DEF Job
  <2>4. Calls(q)'
    BY <2>1, <2>2, <2>3 DEF Calls, Others, Digestible
  <2>5. Rows(q)'
    BY <2>1, <2>2 DEF Rows, Asked
  <2>6. Excused(q)' <=> Excused(q)
    BY <2>1 DEF Excused, Digestible, FindByEmail
  <2>7. Told(q)'
    BY <2>1, <2>2, <2>6 DEF Told
  <2> QED
    BY <2>4, <2>5, <2>7
<1>2. ASSUME NEW q \in Requests \ {r}  PROVE Witness(q)'
  <2> SUFFICES ASSUME Busy(q)'  PROVE Witness(q)'
    BY DEF Witness
  <2>1. Busy(q) /\ pc[q] # "idle" /\ job'[q] = job[q] /\ decoded'[q] = decoded[q] /\ seen'[q] = seen[q]
        /\ pc'[q] = pc[q]
    BY <1>2 DEF Busy, Others
  <2>2. job[q].op # "me" => Says(job[q])' = Says(job[q])
    BY <2>1, CallType, SaysOfTable
  <2>3. Active(decoded[q])' <=> Active(decoded[q])
    BY <2>1 DEF Active
  <2> QED
    BY <2>1, <2>2, <2>3 DEF AInv, Witness
<1>3. Unique'
  BY DEF AInv, Unique, Others
<1> QED
  BY <1>1, <1>2, <1>3 DEF AInv

-----------------------------------------------------------------------------
(* The actions. *)

\* An exception ends the request and its transaction.
LEMMA AbortKeeps ==
    ASSUME AInv, NEW r \in Requests, Busy(r), Abort(r),
           UNCHANGED <<users, now, job, tokens, decoded, seen>>, broken' \subseteq Requests,
           \A q \in Requests \ {r} : q \notin broken' <=> q \notin broken,
           r \in broken' \/ Excused(r),
           users[r] # Nil => pc[r] = "refresh"
    PROVE  AInv'
<1>1. /\ pc' = [pc EXCEPT ![r] = "done"]
      /\ status' = [status EXCEPT ![r] = 500]
      /\ flushed' = [flushed EXCEPT ![r] = Nil]
  BY DEF Abort, Answer
<1>2. /\ Calls(r) /\ Rows(r) /\ Told(r) /\ TypeOK /\ pc[r] # "done" /\ pc[r] # "idle"
  BY DEF AInv, Busy
<1>3. Others(r) /\ TypeOK'
  BY <1>1, <1>2 DEF Others, TypeOK, Labels
<1>4. Excused(r)' <=> Excused(r)
  BY DEF Excused, Digestible, FindByEmail
<1>5. Calls(r)' /\ Rows(r)' /\ Witness(r)' /\ Told(r)'
  BY <1>1, <1>2, <1>4 DEF Calls, Rows, Witness, Told, Busy, TypeOK
<1> QED
  BY <1>1, <1>2, <1>3, <1>5, LocalStep DEF TypeOK

LEMMA FindKeeps ==
    ASSUME AInv, NEW r \in Requests, FindForRegister(r)  PROVE AInv'
<1>1. /\ pc[r] = "find" /\ job[r].op = "register"
      /\ UNCHANGED <<users, now, job, tokens, decoded, seen, broken>>
  BY DEF FindForRegister
<1>2. /\ Calls(r) /\ Rows(r) /\ Witness(r) /\ Told(r) /\ Says(job[r]) \in seen[r] /\ TypeOK
      /\ job[r] \in Job /\ users[r] = Nil /\ Busy(r)
  BY <1>1, CallType DEF AInv, Witness, Busy, Rows
<1> DEFINE free == FindByEmail(job[r].with.email) = {}
<1>3. Says(job[r]) = IF free THEN "free" ELSE "taken"
  BY <1>1 DEF Says
<1>4. CASE free /\ Digestible(r) /\ Goto(r, "insert") /\ UNCHANGED flushed
  <2>1. pc' = [pc EXCEPT ![r] = "insert"] /\ UNCHANGED status
    BY <1>4 DEF Goto
  <2>2. Says(job[r])' = Says(job[r])
    BY <1>1, SaysOfTable
  <2>3. Calls(r)' /\ Rows(r)' /\ Witness(r)' /\ Told(r)'
    BY <1>1, <1>2, <1>3, <1>4, <2>1, <2>2
       DEF Calls, Rows, Witness, Told, Busy, Asked, TypeOK, Digestible
  <2>4. Others(r) /\ TypeOK'
    BY <1>1, <1>2, <1>4, <2>1 DEF Others, TypeOK, Labels
  <2> QED
    BY <1>1, <1>2, <1>4, <2>3, <2>4, LocalStep
<1>5. CASE ~free /\ Answer(r, 409) /\ UNCHANGED flushed
  <2>1. pc' = [pc EXCEPT ![r] = "done"] /\ status' = [status EXCEPT ![r] = 409]
    BY <1>5 DEF Answer
  <2>2. Calls(r)' /\ Rows(r)' /\ Witness(r)' /\ Told(r)'
    BY <1>1, <1>2, <1>3, <1>5, <2>1 DEF Calls, Rows, Witness, Told, Busy, Asked, TypeOK
  <2>3. Others(r) /\ TypeOK'
    BY <1>1, <1>2, <1>5, <2>1 DEF Others, TypeOK, Labels
  <2> QED
    BY <1>1, <1>2, <1>5, <2>2, <2>3, LocalStep
<1>6. CASE free /\ ~Digestible(r) /\ Abort(r)
  <2>1. Excused(r)
    BY <1>1, <1>2, <1>3, <1>6 DEF Excused
  <2> QED
    BY <1>1, <1>2, <1>6, <2>1, AbortKeeps DEF TypeOK
<1> QED
  BY <1>4, <1>5, <1>6 DEF FindForRegister

LEMMA InsertKeeps ==
    ASSUME AInv, NEW r \in Requests, Insert(r)  PROVE AInv'
<1>1. /\ pc[r] = "insert"
      /\ \A q \in Requests : flushed[q] # Nil => flushed[q].email # job[r].with.email
      /\ UNCHANGED <<users, now, job, tokens, decoded, seen, broken>>
  BY DEF Insert
<1>2. /\ Calls(r) /\ Rows(r) /\ Witness(r) /\ Told(r) /\ TypeOK
      /\ job[r].op = "register" /\ "free" \in seen[r] /\ Says(job[r]) \in seen[r]
      /\ Digestible(r) /\ Asked(r) \in User /\ Asked(r) # Nil
  BY <1>1, CallType DEF AInv, Calls, Witness, Busy
<1>3. CASE FindByEmail(job[r].with.email) # {}
  <2>1. Says(job[r]) = "taken"
    BY <1>2, <1>3 DEF Says
  <2>2. Busy(r) /\ Abort(r) /\ users[r] = Nil
    BY <1>1, <1>2, <1>3 DEF Insert, Busy, Rows
  <2>3. Excused(r)
    BY <1>2, <2>1 DEF Excused
  <2> QED
    BY <1>1, <1>2, <2>2, <2>3, AbortKeeps DEF TypeOK
<1>4. CASE FindByEmail(job[r].with.email) = {}
  <2>1. /\ flushed' = [flushed EXCEPT ![r] = Asked(r)]
        /\ pc' = [pc EXCEPT ![r] = "commit"] /\ UNCHANGED status
    BY <1>4 DEF Insert, Goto, Asked
  <2>2. Others(r) /\ TypeOK'
    BY <1>1, <1>2, <2>1 DEF Others, TypeOK, Labels
  <2>3. Says(job[r])' = Says(job[r])
    BY <1>1, <1>2, SaysOfTable
  <2>4. Calls(r)' /\ Rows(r)' /\ Witness(r)' /\ Told(r)'
    BY <1>1, <1>2, <2>1, <2>3 DEF Calls, Rows, Witness, Told, Busy, Asked, TypeOK, Digestible
  <2>5. /\ flushed[r] = Nil /\ flushed'[r] = Asked(r)
        /\ Asked(r).email = job[r].with.email
    BY <1>1, <1>2, <2>1 DEF Rows, TypeOK, Asked
  <2>6. \A q \in Requests : users[q] # Nil => users[q].email # job[r].with.email
    BY <1>4 DEF FindByEmail
  <2> QED
    BY <1>1, <1>2, <2>2, <2>4, <2>5, <2>6, LocalStep
<1> QED
  BY <1>3, <1>4

\* A request is answered; its transaction, if any, has ended.
LEMMA AnswerKeeps ==
    ASSUME AInv, NEW r \in Requests, NEW code \in {200, 201, 401, 409}, Answer(r, code),
           Busy(r), flushed[r] = Nil, TypeOK',
           UNCHANGED <<users, now, job, flushed, decoded, seen, broken>>,
           \A q \in Requests \ {r} : tokens'[q] = tokens[q],
           tokens'[r] # Nil => users[tokens'[r].sub] # Nil,
           users[r] # Nil => pc[r] = "refresh", code = 201 => users[r] # Nil,
           code = 409 => "taken" \in seen[r],
           code = 200 => "valid" \in seen[r],
           code = 401 => "invalid" \in seen[r]
    PROVE  AInv'
<1>1. pc' = [pc EXCEPT ![r] = "done"] /\ status' = [status EXCEPT ![r] = code]
  BY DEF Answer
<1>2. Calls(r) /\ Rows(r) /\ Told(r) /\ TypeOK /\ pc[r] # "done" /\ pc[r] # "idle"
  BY DEF AInv, Busy
<1>3. Others(r)
  BY <1>1, <1>2 DEF Others, TypeOK
<1>4. pc'[r] = "done" /\ status'[r] = code
  BY <1>1, <1>2 DEF TypeOK
<1>5. Calls(r)' /\ Rows(r)' /\ Witness(r)' /\ Told(r)'
  BY <1>2, <1>4 DEF Calls, Rows, Witness, Told, Busy
<1> QED
  BY <1>2, <1>3, <1>5, LocalStep

LEMMA RefreshKeeps ==
    ASSUME AInv, NEW r \in Requests, Refresh(r)  PROVE AInv'
<1>1. Calls(r) /\ Rows(r) /\ TypeOK /\ pc[r] = "refresh" /\ Busy(r)
  BY DEF AInv, Refresh, Busy
<1>2. users[r] # Nil /\ flushed[r] = Nil
  BY <1>1 DEF Rows
<1>3. /\ Answer(r, 201)
      /\ UNCHANGED <<users, now, job, flushed, tokens, decoded, seen, broken>>
  BY <1>2 DEF Refresh
<1>4. TypeOK'
  BY <1>1, <1>3 DEF TypeOK, Answer, Labels
<1> QED
  BY <1>1, <1>2, <1>3, <1>4, AnswerKeeps DEF Rows

LEMMA LoginKeeps ==
    ASSUME AInv, NEW r \in Requests, Login(r)  PROVE AInv'
<1> DEFINE c == job[r].with
<1>1. /\ Calls(r) /\ Rows(r) /\ Witness(r) /\ TypeOK /\ pc[r] = "find" /\ Busy(r)
      /\ job[r].op = "login" /\ c \in Credentials
      /\ UNCHANGED <<users, now, job, decoded, seen, broken>>
  BY CallType DEF AInv, Login, Busy
<1>2. users[r] = Nil /\ flushed[r] = Nil /\ Says(job[r]) \in seen[r]
  BY <1>1 DEF Rows, Witness
<1>3. Says(job[r]) = IF Registered(c) THEN "valid" ELSE "invalid"
  BY <1>1 DEF Says
<1>4. ASSUME NEW u \in FindByEmail(c.email), Matches(u, c), Answer(r, 200),
             tokens' = [tokens EXCEPT ![r] = Pair(u)], UNCHANGED flushed
      PROVE  AInv'
  <2>1. u \in Requests /\ users[u] \in User /\ users[u] # Nil /\ users[u].email = c.email
    BY <1>1 DEF FindByEmail, TypeOK
  <2>3. Registered(c)
    BY <1>4, <2>1 DEF Matches, Registered
  <2>4. Pair(u) \in TokenPair /\ Pair(u).sub = u
    BY <1>1, <2>1, AccountsAssumption DEF Pair, TokenPair, TypeOK, Times
  <2>5. TypeOK'
    BY <1>1, <1>4, <2>4 DEF TypeOK, Answer, Labels
  <2>6. /\ tokens'[r] = Pair(u)
        /\ \A q \in Requests \ {r} : tokens'[q] = tokens[q]
    BY <1>1, <1>4 DEF TypeOK
  <2> HIDE DEF c
  <2> QED
    BY <1>1, <1>2, <1>3, <1>4, <2>1, <2>3, <2>4, <2>5, <2>6, AnswerKeeps
<1>5. ASSUME \A u \in FindByEmail(c.email) : ~Matches(u, c), Answer(r, 401),
             UNCHANGED <<flushed, tokens>>
      PROVE  AInv'
  <2>1. ~Registered(c)
    BY <1>5 DEF Registered, Matches
  <2>2. TypeOK'
    BY <1>1, <1>5 DEF TypeOK, Answer, Labels
  <2> HIDE DEF c
  <2> QED
    BY <1>1, <1>2, <1>3, <1>5, <2>1, <2>2, AnswerKeeps DEF Rows
<1>6. ASSUME ~Digestible(r), NEW u \in FindByEmail(c.email), Abort(r), UNCHANGED tokens
      PROVE  AInv'
  <2>1. Excused(r)
    BY <1>1, <1>6 DEF Excused
  <2> QED
    BY <1>1, <1>2, <1>6, <2>1, AbortKeeps DEF TypeOK
<1> QED
  BY <1>4, <1>5, <1>6 DEF Login

LEMMA MeKeeps ==
    ASSUME AInv, NEW r \in Requests, ReadCurrentUser(r)  PROVE AInv'
<1> DEFINE u == decoded[r]
<1>1. /\ Calls(r) /\ Rows(r) /\ Witness(r) /\ TypeOK /\ pc[r] = "find_by_id" /\ Busy(r)
      /\ job[r] \in Job
      /\ UNCHANGED <<users, now, job, flushed, tokens, decoded, seen, broken>>
  BY CallType DEF AInv, ReadCurrentUser, Busy
<1>2. /\ users[r] = Nil /\ flushed[r] = Nil /\ job[r].op = "me"
      /\ job[r].of \in Requests /\ tokens[job[r].of] # Nil /\ u = tokens[job[r].of].sub
  BY <1>1 DEF Rows, Calls, Job
<1>3. users[u] # Nil
  BY <1>2 DEF AInv, Rows
<1>4. (IF users[u].is_active THEN "valid" ELSE "invalid") \in seen[r]
  BY <1>1, <1>2, <1>3 DEF Witness, Active
<1>5. users[u].is_active \in BOOLEAN
  BY <1>1, <1>2, <1>3 DEF TypeOK, User, TokenPair
<1>6. Answer(r, IF users[u].is_active THEN 200 ELSE 401)
  BY <1>3, <1>5 DEF ReadCurrentUser
<1>7. TypeOK'
  BY <1>1, <1>6 DEF TypeOK, Answer, Labels
<1> HIDE DEF u
<1>8. CASE users[u].is_active
  BY <1>1, <1>2, <1>4, <1>6, <1>7, <1>8, AnswerKeeps DEF Rows
<1>9. CASE ~users[u].is_active
  BY <1>1, <1>2, <1>4, <1>6, <1>7, <1>9, AnswerKeeps DEF Rows
<1> QED
  BY <1>8, <1>9

LEMMA FailKeeps ==
    ASSUME AInv, NEW r \in Requests, Fail(r)  PROVE AInv'
<1>1. CASE users[r] # Nil => pc[r] = "refresh"
  BY <1>1, AbortKeeps DEF Fail, AInv, TypeOK
<1>2. users[r] # Nil => pc[r] = "refresh"
  BY DEF AInv, Rows, Fail, Busy
<1> QED
  BY <1>1, <1>2

LEMMA BeginKeeps ==
    ASSUME AInv, NEW r \in Requests, Begin(r)  PROVE AInv'
<1>1. PICK j \in Script[r] :
         /\ j.op = "me" /\ j.of # Nil => pc[j.of] = "done"
         /\ job' = [job EXCEPT ![r] = j]
         /\ seen' = [seen EXCEPT ![r] = {Says(j)}]
         /\ IF j.op # "me" THEN Goto(r, "find") /\ UNCHANGED decoded
            ELSE IF Decodes(j)
                 THEN Goto(r, "find_by_id") /\ decoded' = [decoded EXCEPT ![r] = Token(j).sub]
                 ELSE Answer(r, 401) /\ UNCHANGED decoded
  BY DEF Begin
<1>2. j \in Job /\ j # Nil /\ j.op \in {"register", "login", "me"}
  BY <1>1, AccountsAssumption DEF Job
<1>3. /\ Rows(r) /\ Told(r) /\ TypeOK /\ pc[r] = "idle" /\ status[r] = 0
      /\ users[r] = Nil /\ flushed[r] = Nil
      /\ UNCHANGED <<users, now, flushed, tokens, broken>>
  BY DEF AInv, Begin, Calls, Rows
<1>4. Says(j) \in {"taken", "free", "valid", "invalid"}
  BY DEF Says
<1>5. job'[r] = j /\ seen'[r] = {Says(j)}
  BY <1>1, <1>3 DEF TypeOK
<1>6. CASE j.op # "me"
  <2>1. pc' = [pc EXCEPT ![r] = "find"] /\ UNCHANGED <<decoded, status>>
    BY <1>1, <1>6 DEF Goto
  <2>2. TypeOK' /\ Others(r)
    BY <1>1, <1>2, <1>3, <1>4, <2>1 DEF TypeOK, Labels, Others
  <2>3. Says(j)' = Says(j)
    BY <1>2, <1>3, <1>6, SaysOfTable
  <2>4. Calls(r)' /\ Rows(r)' /\ Witness(r)' /\ Told(r)'
    BY <1>2, <1>3, <1>5, <1>6, <2>1, <2>3 DEF Calls, Rows, Witness, Told, Busy, TypeOK
  <2> QED
    BY <1>3, <2>2, <2>4, LocalStep
<1>7. CASE j.op = "me" /\ Decodes(j)
  <2>1. /\ pc' = [pc EXCEPT ![r] = "find_by_id"] /\ UNCHANGED status
        /\ decoded' = [decoded EXCEPT ![r] = Token(j).sub]
    BY <1>1, <1>7 DEF Goto
  <2>2. /\ j.of # Nil /\ tokens[j.of] # Nil /\ Token(j) = tokens[j.of]
        /\ j.of \in Requests /\ pc[j.of] = "done" /\ j.of # r
    BY <1>1, <1>2, <1>3, <1>7 DEF Decodes, Token, Job
  <2>3. Token(j).sub \in Requests /\ users[Token(j).sub] \in User \cup {Nil}
    BY <1>3, <2>2 DEF TypeOK, TokenPair
  <2>4. TypeOK' /\ Others(r)
    BY <1>1, <1>2, <1>3, <1>4, <2>1, <2>3 DEF TypeOK, Labels, Others
  <2>5. Says(j) = IF Active(Token(j).sub) THEN "valid" ELSE "invalid"
    BY <1>7 DEF Says
  <2>6. decoded'[r] = Token(j).sub /\ (Active(Token(j).sub)' <=> Active(Token(j).sub))
    BY <1>3, <2>1, <2>2 DEF TypeOK, Active, Token
  <2>7. Witness(r)'
    BY <1>3, <1>5, <1>7, <2>1, <2>5, <2>6 DEF Witness, Busy, TypeOK, Active
  <2>8. Calls(r)' /\ Rows(r)' /\ Told(r)'
    BY <1>1, <1>3, <1>5, <1>7, <2>1, <2>2, <2>6 DEF Calls, Rows, Told, TypeOK
  <2> QED
    BY <1>3, <2>4, <2>7, <2>8, LocalStep
<1>8. CASE j.op = "me" /\ ~Decodes(j)
  <2>1. /\ pc' = [pc EXCEPT ![r] = "done"] /\ status' = [status EXCEPT ![r] = 401]
        /\ UNCHANGED decoded
    BY <1>1, <1>8 DEF Answer
  <2>2. Says(j) = "invalid"
    BY <1>8 DEF Says
  <2>3. TypeOK' /\ Others(r)
    BY <1>1, <1>2, <1>3, <1>4, <2>1 DEF TypeOK, Labels, Others
  <2>4. Calls(r)' /\ Rows(r)' /\ Witness(r)' /\ Told(r)'
    BY <1>1, <1>3, <1>5, <1>8, <2>1, <2>2 DEF Calls, Rows, Witness, Told, Busy, TypeOK
  <2> QED
    BY <1>3, <2>3, <2>4, LocalStep
<1> QED
  BY <1>6, <1>7, <1>8

\* The table changes: whoever waits sees it, and nobody else moves.
LEMMA TableStep ==
    ASSUME AInv, TypeOK', Unique', NEW u \in Requests, Observe,
           UNCHANGED <<job, tokens, decoded, status, broken>>,
           \A q \in Requests \ {u} :
              users'[q] = users[q] /\ pc'[q] = pc[q] /\ flushed'[q] = flushed[q],
           Calls(u)', Rows(u)', pc'[u] # "insert",
           pc[u] # "done" => pc'[u] # "done" /\ job[u].op # "me",
           pc[u] = "done" => pc'[u] = "done",
           users[u] # Nil => users'[u] # Nil /\ users'[u].email = users[u].email,
           Active(u)' => Active(u) \/ users[u] = Nil,
           pc[u] # "idle"
    PROVE  AInv'
<1>1. TypeOK /\ \A q \in Requests : Calls(q) /\ Rows(q) /\ Witness(q) /\ Told(q)
  BY DEF AInv
<1>2. ASSUME NEW q \in Requests
      PROVE  seen'[q] = IF Busy(q) THEN seen[q] \cup {Says(job[q])'} ELSE seen[q]
  BY <1>2 DEF Observe
<1>3. ASSUME NEW q \in Requests, users[q] # Nil  PROVE users'[q] # Nil
  BY <1>3
<1>4. ASSUME NEW q \in Requests, Busy(q)'  PROVE Busy(q)
  BY <1>4 DEF Busy
<1>5. ASSUME NEW q \in Requests  PROVE Told(q)'
  <2>1. Told(q) /\ seen[q] \subseteq seen'[q]
    BY <1>1, <1>2
  <2>2. status'[q] = status[q] /\ job'[q] = job[q] /\ (q \in broken' <=> q \in broken)
    OBVIOUS
  <2>3. FindByEmail(job[q].with.email) \subseteq FindByEmail(job[q].with.email)'
    BY DEF FindByEmail
  <2>4. Excused(q) => Excused(q)'
    BY <2>1, <2>2, <2>3 DEF Excused, Digestible
  <2> QED
    BY <2>1, <2>2, <2>4 DEF Told
<1>6. ASSUME NEW q \in Requests \ {u}  PROVE Calls(q)'
  <2>1. ASSUME pc[q] = "find_by_id"  PROVE pc'[job[q].of] = "done"
    <3>1. job[q] \in Job /\ job[q].op = "me" /\ job[q].of # Nil /\ pc[job[q].of] = "done"
      BY <1>1, <2>1, CallType DEF Calls
    <3> QED
      BY <3>1 DEF Job
  <2> QED
    BY <1>1, <2>1 DEF Calls, Digestible
<1>7. ASSUME NEW q \in Requests \ {u}  PROVE Rows(q)'
  <2>1. ASSUME tokens[q] # Nil  PROVE users'[tokens[q].sub] # Nil
    <3>1. tokens[q].sub \in Requests
      BY <1>1, <2>1 DEF TypeOK, TokenPair
    <3> QED
      BY <1>1, <1>3, <2>1, <3>1 DEF Rows
  <2>2. Rows(q) /\ users'[q] = users[q] /\ pc'[q] = pc[q] /\ flushed'[q] = flushed[q]
    BY <1>1
  <2> QED
    BY <2>1, <2>2 DEF Rows, Asked
<1>8. ASSUME NEW q \in Requests, Busy(q)'  PROVE Witness(q)'
  <2>1. Busy(q) /\ Witness(q) /\ Calls(q) /\ Says(job[q])' \in seen'[q] /\ seen[q] \subseteq seen'[q]
    BY <1>1, <1>2, <1>4, <1>8
  <2>2. job[q].op # "me" => Says(job[q])' \in seen'[q]
    BY <2>1
  <2>3. ASSUME job[q].op = "me"
        PROVE  (IF Active(decoded[q])' THEN "valid" ELSE "invalid") \in seen'[q]
    <3>1. q # u /\ pc[q] = "find_by_id"
      BY <1>8, <2>1, <2>3 DEF Busy, Calls, AInv, TypeOK, Labels
    <3>2. /\ job[q].of \in Requests /\ tokens[job[q].of] # Nil
          /\ decoded[q] = tokens[job[q].of].sub
      BY <2>1, <3>1, CallType DEF Calls, Job
    <3>3. decoded[q] \in Requests /\ users[decoded[q]] # Nil
      BY <1>1, <3>2 DEF TypeOK, TokenPair, Rows
    <3>4. CASE Active(decoded[q])'
      <4>1. Active(decoded[q])
        <5>1. CASE decoded[q] = u  BY <3>3, <3>4, <5>1 DEF Active
        <5>2. CASE decoded[q] # u  BY <3>3, <3>4, <5>2 DEF Active
        <5> QED  BY <5>1, <5>2
      <4> QED
        BY <2>1, <2>3, <3>4, <4>1 DEF Witness
    <3>5. CASE ~Active(decoded[q])'
      <4>1. Token(job[q])' = tokens[job[q].of]
        BY <2>1, <3>1, <3>2 DEF Token, Calls
      <4>2. ~Active(Token(job[q]).sub)'
        BY <3>2, <3>5, <4>1 DEF Active
      <4>3. Says(job[q])' = "invalid"
        BY <2>3, <4>2 DEF Says
      <4> QED
        BY <2>1, <3>5, <4>3
    <3> QED
      BY <3>4, <3>5
  <2>4. pc'[q] = "insert" => "free" \in seen'[q]
    BY <2>1 DEF Witness
  <2> QED
    BY <2>2, <2>3, <2>4 DEF Witness
<1> QED
  BY <1>5, <1>6, <1>7, <1>8 DEF AInv, Witness

LEMMA CommitKeeps ==
    ASSUME AInv, NEW r \in Requests, Commit(r)  PROVE AInv'
<1>1. /\ Calls(r) /\ Rows(r) /\ TypeOK /\ Unique /\ pc[r] = "commit" /\ job[r].op = "register"
      /\ users[r] = Nil /\ flushed[r] = Asked(r) /\ flushed[r] # Nil
      /\ (tokens[r] # Nil => users[tokens[r].sub] # Nil)
      /\ Asked(r) \in User
  BY CallType DEF AInv, Commit, Calls, Rows
<1>2. /\ users' = [users EXCEPT ![r] = flushed[r]]
      /\ flushed' = [flushed EXCEPT ![r] = Nil]
      /\ pc' = [pc EXCEPT ![r] = "refresh"]
      /\ UNCHANGED <<now, job, tokens, decoded, status, broken>>
      /\ Observe
  BY DEF Commit, Goto
<1>3. ASSUME NEW q \in Requests, Busy(q)
      PROVE  Says(job[q])' \in {"taken", "free", "valid", "invalid"}
  BY DEF Says
<1>4. TypeOK'
  BY <1>1, <1>2, <1>3 DEF TypeOK, Labels, Observe
<1>5. Unique'
  BY <1>1, <1>2 DEF Unique, TypeOK
<1>6. users'[r] = Asked(r) /\ pc'[r] = "refresh" /\ flushed'[r] = Nil
  BY <1>1, <1>2 DEF TypeOK
<1>7. ASSUME NEW q \in Requests \ {r}
      PROVE  users'[q] = users[q] /\ pc'[q] = pc[q] /\ flushed'[q] = flushed[q]
  <2>1. DOMAIN users = Requests /\ DOMAIN pc = Requests /\ DOMAIN flushed = Requests
    BY <1>1 DEF TypeOK
  <2> QED
    BY <1>2, <2>1
<1>8. Calls(r)'
  BY <1>1, <1>2, <1>6 DEF Calls, Digestible
<1>9. Rows(r)'
  <2>1. ASSUME tokens[r] # Nil  PROVE users'[tokens[r].sub] # Nil
    <3>1. tokens[r].sub \in Requests
      BY <1>1, <2>1 DEF TypeOK, TokenPair
    <3> QED
      <4>1. CASE tokens[r].sub = r  BY <1>1, <1>6, <4>1
      <4>2. CASE tokens[r].sub # r  BY <1>1, <1>7, <2>1, <3>1, <4>2
      <4> QED  BY <4>1, <4>2
  <2> QED
    BY <1>1, <1>2, <1>6, <2>1 DEF Rows, Asked
<1> QED
  BY <1>1, <1>2, <1>4, <1>5, <1>6, <1>7, <1>8, <1>9, TableStep

LEMMA InactiveUser ==
    ASSUME NEW user \in User, NEW gone, gone = [user EXCEPT !.is_active = FALSE]
    PROVE  /\ gone \in User /\ gone.email = user.email
           /\ gone.password_hash = user.password_hash /\ gone.is_active = FALSE
BY DEF User

LEMMA DeactivateKeeps ==
    ASSUME AInv, NEW u \in Requests, Deactivate(u)  PROVE AInv'
<1>1. /\ Calls(u) /\ Rows(u) /\ TypeOK /\ Unique /\ users[u] # Nil
      /\ users[u] \in User /\ pc[u] \in {"refresh", "done"}
  BY DEF AInv, Deactivate, Active, Rows, TypeOK
<1>2. /\ users' = [users EXCEPT ![u].is_active = FALSE]
      /\ UNCHANGED <<now, pc, job, flushed, tokens, decoded, status, broken>>
      /\ Observe
  BY DEF Deactivate
<1>3. /\ users'[u] \in User /\ users'[u].email = users[u].email /\ users'[u] # Nil
      /\ users'[u].password_hash = users[u].password_hash /\ ~users'[u].is_active
  <2>1. users'[u] = [users[u] EXCEPT !.is_active = FALSE]
    BY <1>1, <1>2 DEF TypeOK
  <2>2. /\ users'[u] \in User /\ users'[u].email = users[u].email
        /\ users'[u].password_hash = users[u].password_hash /\ users'[u].is_active = FALSE
    BY <1>1, <2>1, InactiveUser
  <2> QED
    BY <2>2, AccountsAssumption
<1>4. ASSUME NEW q \in Requests \ {u}
      PROVE  users'[q] = users[q] /\ pc'[q] = pc[q] /\ flushed'[q] = flushed[q]
  BY <1>1, <1>2 DEF TypeOK
<1>10. /\ ~Active(u)' /\ pc'[u] = pc[u]
       /\ pc[u] # "done" => job[u].op # "me"
  BY <1>1, <1>2, <1>3 DEF Active, Calls, Rows
<1>5. ASSUME NEW q \in Requests, Busy(q)
      PROVE  Says(job[q])' \in {"taken", "free", "valid", "invalid"}
  BY DEF Says
<1>6. TypeOK'
  BY <1>1, <1>2, <1>3, <1>5 DEF TypeOK, Observe
<1>7. Unique'
  BY <1>1, <1>2, <1>3, <1>4 DEF Unique
<1>8. Calls(u)'
  BY <1>1, <1>2 DEF Calls, Digestible
<1>9. Rows(u)'
  <2>1. ASSUME tokens[u] # Nil  PROVE users'[tokens[u].sub] # Nil
    <3>1. tokens[u].sub \in Requests /\ users[tokens[u].sub] # Nil
      BY <1>1, <2>1 DEF TypeOK, TokenPair, Rows
    <3> QED
      BY <1>3, <1>4, <3>1
  <2> QED
    BY <1>1, <1>2, <1>3, <2>1 DEF Rows, Asked
<1> QED
  BY <1>1, <1>2, <1>3, <1>4, <1>6, <1>7, <1>8, <1>9, <1>10, TableStep

\* The clock, and requests that are over.  A token that expires in the meantime has
\* been decoded already.
LEMMA IdleKeeps ==
    ASSUME AInv, Tick \/ UNCHANGED vars  PROVE AInv'
<1>1. /\ now' \in Times
      /\ UNCHANGED <<users, pc, job, flushed, tokens, decoded, status, seen, broken>>
  BY AccountsAssumption DEF Tick, vars, AInv, TypeOK, Times
<1>2. TypeOK' /\ Unique'
  BY <1>1 DEF AInv, TypeOK, Unique
<1>3. ASSUME NEW r \in Requests  PROVE Calls(r)' /\ Rows(r)' /\ Told(r)'
  <2>1. Excused(r)' <=> Excused(r)
    BY <1>1 DEF Excused, Digestible, FindByEmail
  <2> QED
    BY <1>1, <2>1 DEF AInv, Calls, Rows, Told, Asked, Digestible
<1>4. ASSUME NEW r \in Requests, Busy(r)  PROVE Witness(r)'
  <2>1. job[r].op # "me" => Says(job[r])' = Says(job[r])
    BY <1>1, <1>4, CallType, SaysOfTable DEF Busy
  <2> QED
    BY <1>1, <1>4, <2>1 DEF AInv, Witness, Active, Busy
<1>5. ASSUME NEW r \in Requests, ~Busy(r)  PROVE Witness(r)'
  BY <1>1, <1>5 DEF Witness, Busy
<1> QED
  BY <1>2, <1>3, <1>4, <1>5 DEF AInv

-----------------------------------------------------------------------------
LEMMA Invariant == Spec => []AInv
<1>1. ASSUME AInv, [Next]_vars  PROVE AInv'
  <2>1. CASE Finished \/ Tick \/ UNCHANGED vars
    BY <1>1, <2>1, IdleKeeps DEF Finished
  <2>2. ASSUME NEW r \in Requests, Begin(r) \/ Step(r) \/ Fail(r) \/ Deactivate(r)  PROVE AInv'
    BY <1>1, <2>2, BeginKeeps, FindKeeps, InsertKeeps, CommitKeeps, RefreshKeeps,
       LoginKeeps, MeKeeps, FailKeeps, DeactivateKeeps DEF Step
  <2> QED
    BY <1>1, <2>1, <2>2 DEF Next
<1> QED
  BY <1>1, InitInvariant, PTL DEF Spec

\* The variables keep their types.
THEOREM TypeCorrect == Spec => []TypeOK
<1>1. AInv => TypeOK  BY DEF AInv
<1> QED  BY <1>1, Invariant, PTL

\* However many registrations race for an address, one account comes of it, and who
\* was told 201 keeps the account asked for.
THEOREM AddressesAreUnique == Spec => []OneAccount
<1>1. AInv => OneAccount  BY DEF AInv, Unique, Rows, OneAccount, FindByEmail
<1> QED  BY <1>1, Invariant, PTL

\* What a client is told was true at some moment while it waited.
THEOREM AnswersAreTrue == Spec => []AnswersWereTrue
<1>1. ASSUME AInv, NEW r \in Requests  PROVE Told(r)
  BY <1>1 DEF AInv
<1>2. AInv => AnswersWereTrue
  <2> SUFFICES ASSUME AInv, NEW r \in Requests
               PROVE  /\ status[r] = 409 => "taken" \in seen[r]
                      /\ status[r] = 200 => "valid" \in seen[r]
                      /\ status[r] = 401 => "invalid" \in seen[r]
                      /\ status[r] # 404
    BY DEF AnswersWereTrue
  <2> QED
    BY <1>1 DEF Told
<1> QED
  BY <1>2, Invariant, PTL

\* Without a failing statement a 500 is a registration's whose address was taken while it
\* ran, or answers a password that bcrypt refuses.
THEOREM RefusalsAreExplained == Spec => []OnlyRacesFail
<1>1. AInv => OnlyRacesFail  BY DEF AInv, Told, Excused, OnlyRacesFail
<1> QED  BY <1>1, Invariant, PTL
=============================================================================
