------------------------------ MODULE RatingCache ------------------------------
(***************************************************************************)
(* Ratings of services/profile_service and the Redis entry rating_agg:<id> *)
(* in front of their aggregate: put_rating, get_rating and                 *)
(* get_rating_aggregate of ProfileService.                                 *)
(*                                                                         *)
(* As in ProfileCrud a request loses control at every await.  The INSERT   *)
(* into audit_logs meets nothing another rating request does and is taken  *)
(* together with COMMIT.  Profiles stay (ProfileCrud!ProfilesNeverRemoved).*)
(***************************************************************************)
EXTENDS Integers, FiniteSets, Functions

CONSTANTS
    Requests,   \* identities of requests; also the uuid4 of the rating one creates
    Profiles,   \* ids of the profiles
    Films,
    Points,     \* ratings in half points, as RatingPut accepts them
    Script,     \* Script[r]: the calls request r may turn out to be
    Faults,     \* a statement or a Redis command may fail
    Nil

\* profile = Nil: the caller has no profile; get_rating_aggregate needs none.
Job == [op : {"put", "get", "aggregate"}, profile : Profiles \cup {Nil},
        film : Films, points : Points \cup {Nil}]
Row == [profile : Profiles, film : Films, points : Points]
Handle == [id : Requests, row : Row]
RegCalls == [key : Profiles \X Films, put : Points \cup {Nil}]   \* see Register

ASSUME RatingAssumption ==
    /\ Points \subseteq 0..20
    /\ IsFiniteSet(Requests)
    /\ Script \in [Requests -> (SUBSET Job) \ {{}}]
    /\ \A r \in Requests : \A j \in Script[r] : j.op = "put" => j.points # Nil
    /\ Faults \in BOOLEAN
    /\ Nil \notin Requests \cup Profiles \cup Points \cup Job \cup Row \cup Handle \cup RegCalls

VARIABLES
    ratings,    \* the committed table, by primary key
    audited,    \* requests with a committed row in audit_logs
    cache,      \* the Redis entry of each film, Nil when there is none
    pc, job,
    orm,        \* the Rating instance of the session
    pending,    \* the flushed write its transaction has not committed
    seen,       \* the aggregate a reader has computed or served
    status,     \* the HTTP status answered, 0 while there is none
    overtaken,  \* auxiliary: readers whose aggregate a later commit has changed
    tainted     \* auxiliary: films whose entry a race or a failure left behind

db == <<ratings, audited>>
redis == <<cache, tainted>>
session == <<orm, pending>>
vars == <<db, redis, session, pc, job, seen, status, overtaken>>

\* Mutant: SUM in the place of AVG.
SumTenths(points, count) == 5 * points

\* The binary double nearest to k/20 has the mantissa k * 2^j / 20 rounded, where j is 52
\* less the exponent of k/20.  Powers of two recur modulo 20: TwoTo(k) is 2^j % 20.
TwoTo(k) ==
    CASE k \in 5..9 \cup 80..159 -> 4
      [] k \in 3..4 \cup 40..79 -> 8
      [] k \in 20..39 -> 16
      [] OTHER -> 12   \* 1..2, 10..19 and 160 up to 200, which is 10.0

\* For odd k the remainder is never 10.  A small one was dropped: the double lies below
\* k/20; a large one was rounded up; without one it is k/20, and the even tenth is served.
RoundsUp(k) ==
    LET rest == (k * TwoTo(k)) % 20 IN rest > 10 \/ (rest = 0 /\ k % 4 = 3)

\* round(x, 1) of model_post_init, in tenths, for the double x nearest to points / (2 * count).
Tenths(points, count) ==
    LET q == (5 * points) \div count
        rest == 2 * ((5 * points) % count)
    IN IF rest > count \/ (rest = count /\ RoundsUp(2 * q + 1)) THEN q + 1 ELSE q

\* AVG and COUNT of a set of ratings, given as a function from their ids.
AggregateOf(points) ==
    LET n == Cardinality(DOMAIN points) IN
    [avg |-> IF n = 0 THEN 0 ELSE Tenths(SumFunction(points), n), count |-> n]

\* aggregate_for_film: both in one statement.
Rated(f) == {i \in Requests : ratings[i] # Nil /\ ratings[i].film = f}
Aggregate(f) == AggregateOf([i \in Rated(f) |-> ratings[i].points])
Aggregates == [avg : 0..100, count : 0..Cardinality(Requests)]

Labels == {"idle", "load", "select", "flush", "commit", "refresh", "invalidate",
           "lookup", "aggregate", "fill", "done"}

TypeOK ==
    /\ ratings \in [Requests -> Row \cup {Nil}]
    /\ audited \subseteq Requests
    /\ cache \in [Films -> Aggregates \cup {Nil}]
    /\ pc \in [Requests -> Labels]
    /\ job \in [Requests -> Job \cup {Nil}]
    /\ orm \in [Requests -> Handle \cup {Nil}]
    /\ pending \in [Requests -> Handle \cup {Nil}]
    /\ seen \in [Requests -> Aggregates \cup {Nil}]
    /\ status \in [Requests -> {0, 200, 404, 500}]
    /\ overtaken \subseteq Requests
    /\ tainted \subseteq Films

Init ==
    /\ ratings = [i \in Requests |-> Nil]
    /\ audited = {}
    /\ cache = [f \in Films |-> Nil]
    /\ pc = [r \in Requests |-> "idle"]
    /\ job = [r \in Requests |-> Nil]
    /\ orm = [r \in Requests |-> Nil]
    /\ pending = [r \in Requests |-> Nil]
    /\ seen = [r \in Requests |-> Nil]
    /\ status = [r \in Requests |-> 0]
    /\ overtaken = {}
    /\ tainted = {}

-----------------------------------------------------------------------------
Goto(r, label) == pc' = [pc EXCEPT ![r] = label] /\ UNCHANGED status

Answer(r, code) ==
    /\ pc' = [pc EXCEPT ![r] = "done"]
    /\ status' = [status EXCEPT ![r] = code]

Abort(r) ==
    /\ Answer(r, 500)
    /\ pending' = [pending EXCEPT ![r] = Nil]

\* The index entry uix_profile_film that the pending write of q holds; an UPDATE
\* of the row and an INSERT of the same pair both wait for it.
Entry(row) == <<row.profile, row.film>>
Free(r, row) == \A q \in Requests \ {r} : pending[q] # Nil => Entry(pending[q].row) # Entry(row)

Begin(r) ==
    /\ pc[r] = "idle"
    /\ \E j \in Script[r] :
          /\ job' = [job EXCEPT ![r] = j]
          /\ Goto(r, IF j.op = "aggregate" THEN "lookup" ELSE "load")
    /\ UNCHANGED <<db, redis, session, seen, overtaken>>

GetProfileOrRaise(r) ==
    /\ pc[r] = "load"
    /\ IF job[r].profile = Nil THEN Answer(r, 404) ELSE Goto(r, "select")
    /\ UNCHANGED <<db, redis, session, job, seen, overtaken>>

\* RatingRepository.get
Found(r) == {i \in Requests : ratings[i] # Nil /\ Entry(ratings[i]) = Entry(job[r])}

SelectRating(r) ==
    /\ pc[r] = "select"
    /\ \/ /\ Found(r) = {}
          /\ IF job[r].op = "get" THEN Answer(r, 404) ELSE Goto(r, "flush")
          /\ UNCHANGED orm
       \/ \E i \in Found(r) :
             /\ orm' = [orm EXCEPT ![r] = [id |-> i, row |-> ratings[i]]]
             /\ Goto(r, IF job[r].op = "get" THEN "commit" ELSE "flush")
    /\ UNCHANGED <<db, redis, job, pending, seen, overtaken>>

NewRating(r) == [profile |-> job[r].profile, film |-> job[r].film, points |-> job[r].points]

\* Mutant: no unique constraint.
InsertUnchecked(r) ==
    /\ pc[r] = "flush" /\ orm[r] = Nil
    /\ LET new == [id |-> r, row |-> NewRating(r)] IN
          /\ orm' = [orm EXCEPT ![r] = new]
          /\ pending' = [pending EXCEPT ![r] = new]
    /\ Goto(r, "commit")
    /\ UNCHANGED <<db, redis, job, seen, overtaken>>

\* INSERT: a duplicate raises IntegrityError, which nothing catches.
FlushInsert(r) ==
    /\ pc[r] = "flush" /\ orm[r] = Nil
    /\ Free(r, NewRating(r))
    /\ IF Found(r) # {} THEN Abort(r) /\ UNCHANGED orm
       ELSE LET new == [id |-> r, row |-> NewRating(r)] IN
            /\ orm' = [orm EXCEPT ![r] = new]
            /\ pending' = [pending EXCEPT ![r] = new]
            /\ Goto(r, "commit")
    /\ UNCHANGED <<db, redis, job, seen, overtaken>>

\* UPDATE, unless the instance already has the value.
FlushUpdate(r) ==
    /\ pc[r] = "flush" /\ orm[r] # Nil
    /\ LET new == [orm[r] EXCEPT !.row.points = job[r].points] IN
          IF new = orm[r] THEN UNCHANGED session
          ELSE /\ Free(r, new.row)
               /\ orm' = [orm EXCEPT ![r] = new]
               /\ pending' = [pending EXCEPT ![r] = new]
    /\ Goto(r, "commit")
    /\ UNCHANGED <<db, redis, job, seen, overtaken>>

\* Mutant: the audit row of a change is written after the COMMIT.
CommitUnaudited(r) ==
    /\ pc[r] = "commit"
    /\ audited' = IF pending[r] # Nil /\ pending[r].id # r THEN audited ELSE audited \cup {r}
    /\ ratings' = IF pending[r] = Nil THEN ratings
                  ELSE [ratings EXCEPT ![pending[r].id] = pending[r].row]
    /\ pending' = [pending EXCEPT ![r] = Nil]
    /\ IF job[r].op = "get" THEN Answer(r, 200) ELSE Goto(r, "refresh")
    /\ UNCHANGED <<redis, orm, job, seen, overtaken>>

Commit(r) ==
    /\ pc[r] = "commit"
    /\ audited' = audited \cup {r}
    /\ IF pending[r] = Nil THEN UNCHANGED <<ratings, overtaken>>
       ELSE /\ ratings' = [ratings EXCEPT ![pending[r].id] = pending[r].row]
            /\ overtaken' = overtaken \cup
                 {q \in Requests : pc[q] = "fill" /\ job[q].film = job[r].film}
    /\ pending' = [pending EXCEPT ![r] = Nil]
    /\ IF job[r].op = "get" THEN Answer(r, 200) ELSE Goto(r, "refresh")
    /\ UNCHANGED <<redis, orm, job, seen>>

\* session.refresh(rating); ratings are never deleted, the row is there.
Refresh(r) ==
    /\ pc[r] = "refresh"
    /\ orm' = [orm EXCEPT ![r].row = ratings[orm[r].id]]
    /\ Goto(r, "invalidate")
    /\ UNCHANGED <<db, redis, pending, job, seen, overtaken>>

\* Mutant: only a new rating deletes the entry.
InvalidateOnInsert(r) ==
    /\ pc[r] = "invalidate"
    /\ cache' = IF orm[r].id = r THEN [cache EXCEPT ![job[r].film] = Nil] ELSE cache
    /\ Answer(r, 200)
    /\ UNCHANGED <<db, session, job, seen, overtaken, tainted>>

\* _invalidate_rating_cache
Invalidate(r) ==
    /\ pc[r] = "invalidate"
    /\ cache' = [cache EXCEPT ![job[r].film] = Nil]
    /\ tainted' = tainted \ {job[r].film}
    /\ Answer(r, 200)
    /\ UNCHANGED <<db, session, job, seen, overtaken>>

-----------------------------------------------------------------------------
(* get_rating_aggregate *)

LookUp(r) ==
    /\ pc[r] = "lookup"
    /\ LET entry == cache[job[r].film] IN
          IF entry = Nil THEN Goto(r, "aggregate") /\ UNCHANGED seen
          ELSE Answer(r, 200) /\ seen' = [seen EXCEPT ![r] = entry]
    /\ UNCHANGED <<db, redis, session, job, overtaken>>

SelectAggregate(r) ==
    /\ pc[r] = "aggregate"
    /\ seen' = [seen EXCEPT ![r] = Aggregate(job[r].film)]
    /\ Goto(r, "fill")
    /\ UNCHANGED <<db, redis, session, job, overtaken>>

Fill(r) ==
    /\ pc[r] = "fill"
    /\ LET f == job[r].film IN
          /\ cache' = [cache EXCEPT ![f] = seen[r]]
          /\ tainted' = IF r \in overtaken THEN tainted \cup {f} ELSE tainted \ {f}
    /\ Answer(r, 200)
    /\ UNCHANGED <<db, session, job, seen, overtaken>>

-----------------------------------------------------------------------------
\* A failure after the COMMIT leaves the entry as it was.
Fail(r) ==
    /\ Faults
    /\ pc[r] \notin {"idle", "done"}
    /\ Abort(r)
    /\ tainted' = IF pc[r] \in {"refresh", "invalidate"} THEN tainted \cup {job[r].film}
                  ELSE tainted
    /\ UNCHANGED <<db, cache, orm, job, seen, overtaken>>

\* Mutant: SET without ex.
NoExpiry(f) == cache[f] = Nil /\ UNCHANGED vars

\* Redis drops the entry rating_cache_ttl seconds after it was set.
Expire(f) ==
    /\ cache[f] # Nil
    /\ cache' = [cache EXCEPT ![f] = Nil]
    /\ tainted' = tainted \ {f}
    /\ UNCHANGED <<db, session, pc, job, seen, status, overtaken>>

Step(r) ==
    \/ GetProfileOrRaise(r) \/ SelectRating(r) \/ FlushInsert(r) \/ FlushUpdate(r)
    \/ Commit(r) \/ Refresh(r) \/ Invalidate(r)
    \/ LookUp(r) \/ SelectAggregate(r) \/ Fill(r)

Finished == (\A r \in Requests : pc[r] = "done") /\ UNCHANGED vars

Next ==
    \/ \E r \in Requests : Begin(r) \/ Step(r) \/ Fail(r)
    \/ \E f \in Films : Expire(f)
    \/ Finished

Spec == Init /\ [][Next]_vars

\* Coroutines are resumed; Redis counts down the ttl of every entry.
FairSpec ==
    /\ Spec
    /\ \A r \in Requests : WF_vars(Step(r))
    /\ \A f \in Films : WF_vars(Expire(f))

-----------------------------------------------------------------------------
(* Properties. *)

\* A profile rates a film once, however its put_rating requests interleave: both
\* may find no row, the unique constraint refuses the second INSERT.
OneRating ==
    \A i, k \in Requests :
        i # k /\ ratings[i] # Nil /\ ratings[k] # Nil => Entry(ratings[i]) # Entry(ratings[k])

\* A put_rating of film f has committed and has not yet deleted the entry.
Invalidating(f) == \E r \in Requests : pc[r] \in {"refresh", "invalidate"} /\ job[r].film = f

Fresh(f) == cache[f] \in {Nil, Aggregate(f)}

\* The entry can be wrong in three cases only: a rating has just been committed
\* and its request has yet to delete the entry; a reader stored an aggregate it
\* had computed before a commit; the request that committed failed before the
\* deletion.  Any later deletion, expiry or undisturbed fill repairs it.
CoherentUnlessRaced ==
    \A f \in Films : ~Invalidating(f) /\ f \notin tainted => Fresh(f)

\* The committed put_rating requests of an entry.
Puts(e) == {r \in audited : job[r].op = "put" /\ Entry(job[r]) = e}

\* What is stored was asked for by a put_rating whose audit row was committed,
\* and every entry that has such a request is rated: concurrent requests may
\* overwrite one another, none is half applied.
RatedAsAsked ==
    \A e \in Profiles \X Films :
        LET stored == {i \in Requests : ratings[i] # Nil /\ Entry(ratings[i]) = e} IN
        /\ {ratings[i].points : i \in stored} \subseteq {job[r].points : r \in Puts(e)}
        /\ Puts(e) # {} => stored # {}

\* However the fills and deletions fall out, staleness is bounded by the ttl.
EventuallyFresh == <>[](\A f \in Films : Fresh(f))

\* What a request is to AtomicRatings: a call if it is about the rating of a profile.
Rates(r) == job[r] # Nil /\ job[r].op # "aggregate" /\ job[r].profile # Nil

StoredUnder(e) == {i \in Requests : ratings[i] # Nil /\ Entry(ratings[i]) = e}

RegValue ==
    [e \in Profiles \X Films |->
       IF StoredUnder(e) = {} THEN Nil ELSE ratings[CHOOSE i \in StoredUnder(e) : TRUE].points]

RegCall ==
    [r \in Requests |->
       IF Rates(r) THEN [key |-> Entry(job[r]),
                         put |-> IF job[r].op = "put" THEN job[r].points ELSE Nil]
       ELSE Nil]

\* A session holds what it loaded, and what it has committed; not what it has flushed.
RegFound ==
    [r \in Requests |->
       IF orm[r] # Nil /\ pending[r] = Nil /\ status[r] # 500 THEN orm[r].row.points ELSE Nil]

RegReply ==
    [r \in Requests |-> IF Rates(r) /\ status[r] # 500 THEN status[r] ELSE 0]

Register == INSTANCE AtomicRatings WITH
    Callers <- Requests, Keys <- Profiles \X Films, Values <- Points,
    value <- RegValue, call <- RegCall, found <- RegFound, done <- audited, reply <- RegReply

\* Ratings are atomic: a put_rating that is answered 200 wrote its value at one
\* moment, or met it already there at one; what a request is told, a 404 of
\* get_rating included, was the rating at a moment of that request; and a row
\* changes by nothing but one audited put_rating of its profile and film.  Each
\* request selects, flushes, commits and refreshes with others in between.
ImplementsRegister == Register!Spec
=============================================================================
