--------------------------- MODULE RatingCacheProofs ---------------------------
(***************************************************************************)
(* Theorems about RatingCache for every set of requests, profiles, films   *)
(* and scripts: one rating per profile and film, coherence of the Redis    *)
(* entries up to the two races the module names, and stored ratings that   *)
(* are what some audited put_rating asked for.                             *)
(***************************************************************************)
EXTENDS RatingCache, FiniteSetTheorems, WellFoundedInduction, TLAPS

-----------------------------------------------------------------------------
(* What the requests have loaded. *)

Shape ==
    /\ ratings \in [Requests -> Row \cup {Nil}]
    /\ cache = [f \in Films |-> cache[f]]
    /\ pc \in [Requests -> Labels]
    /\ job \in [Requests -> Job \cup {Nil}]
    /\ orm \in [Requests -> Handle \cup {Nil}]
    /\ pending \in [Requests -> Handle \cup {Nil}]
    /\ seen = [r \in Requests |-> seen[r]]

Calls ==
    \A r \in Requests :
        /\ pc[r] # "idle" => job[r] \in Script[r]
        /\ pc[r] \in {"load", "select"} => job[r].op \in {"put", "get"}
        /\ pc[r] \in {"select", "flush"} => job[r].profile # Nil
        /\ pc[r] = "flush" => job[r].op = "put"

\* The instance of a session is about the entry of the call, and so is the
\* request that created the row.
Sessions ==
    \A r \in Requests :
        /\ orm[r] # Nil => /\ pc[r] # "idle" /\ pc[orm[r].id] # "idle"
                           /\ Entry(orm[r].row) = Entry(job[r])
                           /\ Entry(job[orm[r].id]) = Entry(job[r])
        /\ pc[r] \in {"commit", "refresh", "invalidate"} => orm[r] # Nil
        /\ pending[r] # Nil => pc[r] = "commit" /\ pending[r] = orm[r]
        /\ orm[r] # Nil /\ pending[r] = Nil /\ pc[r] # "done" => ratings[orm[r].id] # Nil

Rows ==
    \A i \in Requests : ratings[i] # Nil => pc[i] # "idle" /\ Entry(ratings[i]) = Entry(job[i])

RInv == Shape /\ Calls /\ Sessions /\ Rows

LEMMA RatingInit == Init => RInv
BY DEF Init, RInv, Shape, Calls, Sessions, Rows, Labels

LEMMA HandleFacts ==
    ASSUME Shape, NEW r \in Requests
    PROVE  /\ orm[r] # Nil => orm[r] \in Handle /\ orm[r].id \in Requests /\ orm[r].row \in Row
           /\ pending[r] # Nil =>
                 pending[r] \in Handle /\ pending[r].id \in Requests /\ pending[r].row \in Row
           /\ ratings[r] # Nil => ratings[r] \in Row
BY DEF Shape, Handle

LEMMA NewRatingType ==
    ASSUME RInv, NEW r \in Requests, pc[r] = "flush"
    PROVE  NewRating(r) \in Row /\ job[r].points \in Points /\ Entry(NewRating(r)) = Entry(job[r])
<1>1. job[r] \in Job /\ job[r].points # Nil /\ job[r].profile # Nil
  BY RatingAssumption DEF RInv, Calls
<1> QED
  BY <1>1 DEF Job, NewRating, Row, Entry

\* A step of r that moves on without touching tables or session.
LEMMA MoveStep ==
    ASSUME RInv, NEW r \in Requests, NEW label \in Labels,
           pc[r] \notin {"idle", "done"},
           pc' = [pc EXCEPT ![r] = label],
           UNCHANGED <<ratings, orm, job>>,
           cache' = [f \in Films |-> cache'[f]],
           seen' = [q \in Requests |-> seen'[q]],
           pending' = [pending EXCEPT ![r] = Nil],
           label \notin {"idle", "load"},
           label = "select" => job[r].op \in {"put", "get"},
           label # "done" => pending[r] = Nil,
           label \in {"select", "flush"} => job[r].profile # Nil,
           label = "flush" => job[r].op = "put",
           label \in {"commit", "refresh", "invalidate"} => orm[r] # Nil
    PROVE  RInv'
<1>1. Shape'
  BY DEF RInv, Shape
<1>2. Calls'
  BY DEF RInv, Shape, Calls
<1>3. Rows'
  BY DEF RInv, Shape, Rows, Entry
<1>4. Sessions'
  <2> SUFFICES ASSUME NEW q \in Requests
               PROVE  /\ orm[q] # Nil => /\ pc'[q] # "idle" /\ pc'[orm[q].id] # "idle"
                                         /\ Entry(orm[q].row) = Entry(job[q])
                                         /\ Entry(job[orm[q].id]) = Entry(job[q])
                      /\ pc'[q] \in {"commit", "refresh", "invalidate"} => orm[q] # Nil
                      /\ pending'[q] # Nil => pc'[q] = "commit" /\ pending'[q] = orm[q]
                      /\ orm[q] # Nil /\ pending'[q] = Nil /\ pc'[q] # "done"
                            => ratings[orm[q].id] # Nil
    BY DEF Sessions, Entry
  <2>1. /\ pc[r] \notin {"idle", "done"} /\ pc'[r] = label /\ pending'[r] = Nil
        /\ \A s \in Requests \ {r} : pc'[s] = pc[s] /\ pending'[s] = pending[s]
    BY DEF RInv, Shape
  <2>2. orm[q] # Nil => orm[q].id \in Requests
    BY HandleFacts DEF RInv
  <2>3. CASE q = r
    BY <2>1, <2>2, <2>3 DEF RInv, Sessions
  <2>4. CASE q # r
    BY <2>1, <2>2, <2>4 DEF RInv, Sessions
  <2> QED
    BY <2>3, <2>4
<1> QED
  BY <1>1, <1>2, <1>3, <1>4 DEF RInv

\* r loads or flushes a rating.
LEMMA SessionStep ==
    ASSUME RInv, NEW r \in Requests, NEW label \in {"flush", "commit", "invalidate"},
           NEW h \in Handle, NEW w \in Handle \cup {Nil},
           pc[r] \in {"select", "flush", "refresh"}, pending[r] = Nil,
           pc' = [pc EXCEPT ![r] = label],
           UNCHANGED <<ratings, cache, seen, job>>,
           orm' = [orm EXCEPT ![r] = h],
           pending' = [pending EXCEPT ![r] = w],
           label = "flush" => job[r].op = "put" /\ job[r].profile # Nil,
           w # Nil => label = "commit" /\ w = h,
           w = Nil => ratings[h.id] # Nil,
           pc[h.id] # "idle",
           Entry(h.row) = Entry(job[r]),
           Entry(job[h.id]) = Entry(job[r])
    PROVE  RInv'
<1>0. h # Nil
  BY RatingAssumption
<1>1. Shape'
  BY DEF RInv, Shape, Labels
<1>2. Calls'
  BY DEF RInv, Shape, Calls
<1>3. Rows'
  BY DEF RInv, Shape, Rows, Entry
<1>4. Sessions'
  <2> SUFFICES ASSUME NEW q \in Requests
               PROVE  /\ orm'[q] # Nil => /\ pc'[q] # "idle" /\ pc'[orm'[q].id] # "idle"
                                          /\ Entry(orm'[q].row) = Entry(job[q])
                                          /\ Entry(job[orm'[q].id]) = Entry(job[q])
                      /\ pc'[q] \in {"commit", "refresh", "invalidate"} => orm'[q] # Nil
                      /\ pending'[q] # Nil => pc'[q] = "commit" /\ pending'[q] = orm'[q]
                      /\ orm'[q] # Nil /\ pending'[q] = Nil /\ pc'[q] # "done"
                            => ratings[orm'[q].id] # Nil
    BY DEF Sessions, Entry
  <2>1. CASE q = r
    BY <1>0, <2>1 DEF RInv, Shape, Handle
  <2>2. CASE q # r
    BY <2>2, HandleFacts DEF RInv, Shape, Sessions
  <2> QED
    BY <2>1, <2>2
<1> QED
  BY <1>1, <1>2, <1>3, <1>4 DEF RInv

LEMMA RatingStep == RInv /\ [Next]_vars => RInv'
<1> SUFFICES ASSUME RInv, [Next]_vars PROVE RInv'
  OBVIOUS
<1> USE DEF Goto, Answer, db, redis, session
<1>0. /\ Shape
      /\ cache = [f \in Films |-> cache[f]]
      /\ seen = [r \in Requests |-> seen[r]]
      /\ \A r \in Requests : pending[r] = Nil => pending = [pending EXCEPT ![r] = Nil]
  BY DEF RInv, Shape
<1>1. ASSUME NEW r \in Requests, Begin(r) PROVE RInv'
  <2>1. PICK j \in Script[r] :
           /\ job' = [job EXCEPT ![r] = j]
           /\ pc' = [pc EXCEPT ![r] = IF j.op = "aggregate" THEN "lookup" ELSE "load"]
    BY <1>1 DEF Begin
  <2>2. j \in Job
    BY RatingAssumption
  <2>3. pc[r] = "idle" /\ UNCHANGED <<ratings, cache, seen, orm, pending>>
    BY <1>1 DEF Begin
  <2>4. Shape' /\ Calls'
    BY <2>1, <2>2, <2>3 DEF RInv, Shape, Calls, Labels, Job
  <2>5. Rows'
    BY <2>1, <2>3 DEF RInv, Shape, Rows, Entry
  <2>6. \A q \in Requests : orm[q] # Nil => q # r /\ orm[q].id # r /\ orm[q].id \in Requests
    BY <2>3, HandleFacts DEF RInv, Sessions
  <2>7. Sessions'
    BY <2>1, <2>3, <2>6 DEF RInv, Shape, Sessions, Entry
  <2> QED
    BY <2>4, <2>5, <2>7 DEF RInv
<1>2. ASSUME NEW r \in Requests, GetProfileOrRaise(r) PROVE RInv'
  BY <1>0, <1>2, MoveStep DEF GetProfileOrRaise, RInv, Sessions, Calls, Labels
<1>3. ASSUME NEW r \in Requests, SelectRating(r) PROVE RInv'
  <2>0. /\ pc[r] = "select" /\ pending[r] = Nil /\ job[r].profile # Nil
        /\ job[r].op # "get" => job[r].op = "put"
        /\ UNCHANGED <<ratings, cache, seen, job, pending>>
    BY <1>3 DEF SelectRating, RInv, Sessions, Calls
  <2>1. CASE UNCHANGED orm /\ IF job[r].op = "get" THEN Answer(r, 404) ELSE Goto(r, "flush")
    BY <1>0, <1>3, <2>0, <2>1, MoveStep DEF SelectRating, Labels
  <2>2. ASSUME NEW i \in Found(r),
               orm' = [orm EXCEPT ![r] = [id |-> i, row |-> ratings[i]]],
               Goto(r, IF job[r].op = "get" THEN "commit" ELSE "flush")
        PROVE  RInv'
    <3>1. i \in Requests /\ ratings[i] # Nil /\ Entry(ratings[i]) = Entry(job[r])
      BY DEF Found
    <3>2. ratings[i] \in Row /\ [id |-> i, row |-> ratings[i]] \in Handle
      BY <1>0, <3>1, HandleFacts DEF Handle
    <3>3. pc[i] # "idle" /\ Entry(job[i]) = Entry(job[r])
      BY <3>1 DEF RInv, Rows
    <3> QED
      BY <1>0, <2>0, <2>2, <3>1, <3>2, <3>3, SessionStep
  <2> QED
    BY <1>3, <2>1, <2>2 DEF SelectRating
<1>4. ASSUME NEW r \in Requests, FlushInsert(r) PROVE RInv'
  <2>0. pc[r] = "flush" /\ pending[r] = Nil /\ UNCHANGED <<ratings, cache, seen, job>>
    BY <1>4 DEF FlushInsert, RInv, Sessions
  <2>1. CASE Abort(r) /\ UNCHANGED orm
    BY <1>0, <2>0, <2>1, MoveStep DEF Abort, Labels
  <2>2. CASE ~(Abort(r) /\ UNCHANGED orm)
    <3> DEFINE new == [id |-> r, row |-> NewRating(r)]
    <3>1. new \in Handle /\ Entry(new.row) = Entry(job[r]) /\ new.id = r
      BY <2>0, NewRatingType DEF Handle
    <3>2. /\ orm' = [orm EXCEPT ![r] = new]
          /\ pending' = [pending EXCEPT ![r] = new]
          /\ pc' = [pc EXCEPT ![r] = "commit"]
      BY <1>4, <2>2 DEF FlushInsert
    <3>3. new # Nil
      BY <3>1, RatingAssumption
    <3> HIDE DEF new
    <3> QED
      BY <2>0, <3>1, <3>2, <3>3, SessionStep
  <2> QED
    BY <2>1, <2>2
<1>5. ASSUME NEW r \in Requests, FlushUpdate(r) PROVE RInv'
  <2> DEFINE new == [orm[r] EXCEPT !.row.points = job[r].points]
  <2>0. /\ pc[r] = "flush" /\ pending[r] = Nil /\ orm[r] # Nil
        /\ pc' = [pc EXCEPT ![r] = "commit"]
        /\ UNCHANGED <<ratings, cache, seen, job>>
    BY <1>5 DEF FlushUpdate, RInv, Sessions
  <2>1. CASE UNCHANGED session
    <3>1. UNCHANGED orm /\ pending' = [pending EXCEPT ![r] = Nil]
      BY <1>0, <2>0, <2>1
    <3>2. cache' = [f \in Films |-> cache'[f]] /\ seen' = [q \in Requests |-> seen'[q]]
      BY <1>0, <2>0
    <3> QED
      BY <2>0, <3>1, <3>2, MoveStep DEF Labels
  <2>2. CASE ~UNCHANGED session
    <3>1. orm[r] \in Handle /\ orm[r].row \in Row /\ job[r].points \in Points
      BY <1>0, <2>0, HandleFacts, NewRatingType
    <3>2. new \in Handle /\ new.id = orm[r].id /\ Entry(new.row) = Entry(orm[r].row)
      BY <3>1 DEF Handle, Row, Entry
    <3>3. orm' = [orm EXCEPT ![r] = new] /\ pending' = [pending EXCEPT ![r] = new]
      BY <1>5, <2>2 DEF FlushUpdate
    <3>4. new # Nil
      BY <3>2, RatingAssumption
    <3>5. /\ pc[orm[r].id] # "idle"
          /\ Entry(orm[r].row) = Entry(job[r])
          /\ Entry(job[orm[r].id]) = Entry(job[r])
      BY <2>0 DEF RInv, Sessions
    <3> HIDE DEF new
    <3> QED
      BY <2>0, <3>2, <3>3, <3>4, <3>5, SessionStep
  <2> QED
    BY <2>1, <2>2
<1>6. ASSUME NEW r \in Requests, Commit(r) PROVE RInv'
  <2> DEFINE label == IF job[r].op = "get" THEN "done" ELSE "refresh"
             h == orm[r]
  <2>1. /\ pc[r] = "commit"
        /\ pc' = [pc EXCEPT ![r] = label]
        /\ pending' = [pending EXCEPT ![r] = Nil]
        /\ UNCHANGED <<cache, seen, job, orm>>
        /\ ratings' = IF pending[r] = Nil THEN ratings
                      ELSE [ratings EXCEPT ![pending[r].id] = pending[r].row]
    BY <1>6 DEF Commit
  <2>2. h # Nil /\ h \in Handle /\ h.id \in Requests /\ h.row \in Row
    BY <1>0, <2>1, HandleFacts DEF RInv, Sessions
  <2>3. /\ pc[h.id] # "idle"
        /\ Entry(h.row) = Entry(job[r])
        /\ Entry(job[h.id]) = Entry(job[r])
        /\ pending[r] # Nil => pending[r] = h
        /\ pending[r] = Nil => ratings[h.id] # Nil
    BY <2>1, <2>2 DEF RInv, Sessions
  <2>4. h.row # Nil
    BY <2>2, RatingAssumption
  <2>5. /\ ratings' \in [Requests -> Row \cup {Nil}]
        /\ ratings'[h.id] # Nil
        /\ \A i \in Requests : ratings[i] # Nil => ratings'[i] # Nil
        /\ \A i \in Requests \ {h.id} : ratings'[i] = ratings[i]
        /\ ratings'[h.id] \in {ratings[h.id], h.row}
    BY <1>0, <2>1, <2>2, <2>3, <2>4 DEF Shape
  <2>6. /\ label \in {"done", "refresh"} /\ pc'[r] = label /\ pending'[r] = Nil
        /\ \A q \in Requests \ {r} : pc'[q] = pc[q] /\ pending'[q] = pending[q]
    BY <1>0, <2>1 DEF Shape
  <2>7. Shape' /\ Calls'
    BY <1>0, <2>1, <2>5, <2>6 DEF RInv, Shape, Calls, Labels
  <2>8. Rows'
    <3> SUFFICES ASSUME NEW i \in Requests, ratings'[i] # Nil
                 PROVE  pc'[i] # "idle" /\ Entry(ratings'[i]) = Entry(job[i])
      BY <2>1 DEF Rows, Entry
    <3>1. CASE i = h.id
      BY <2>3, <2>5, <2>6, <3>1 DEF RInv, Rows
    <3>2. CASE i # h.id
      BY <2>5, <2>6, <3>2 DEF RInv, Rows
    <3> QED
      BY <3>1, <3>2
  <2>9. Sessions'
    <3> SUFFICES ASSUME NEW q \in Requests
                 PROVE  /\ orm[q] # Nil => /\ pc'[q] # "idle" /\ pc'[orm[q].id] # "idle"
                                           /\ Entry(orm[q].row) = Entry(job[q])
                                           /\ Entry(job[orm[q].id]) = Entry(job[q])
                        /\ pc'[q] \in {"commit", "refresh", "invalidate"} => orm[q] # Nil
                        /\ pending'[q] # Nil => pc'[q] = "commit" /\ pending'[q] = orm[q]
                        /\ orm[q] # Nil /\ pending'[q] = Nil /\ pc'[q] # "done"
                              => ratings'[orm[q].id] # Nil
      BY <2>1 DEF Sessions, Entry
    <3>1. orm[q] # Nil => orm[q].id \in Requests
      BY <1>0, HandleFacts
    <3>2. CASE q = r
      BY <2>2, <2>3, <2>5, <2>6, <3>2
    <3>3. CASE q # r
      BY <2>5, <2>6, <3>1, <3>3 DEF RInv, Sessions
    <3> QED
      BY <3>2, <3>3
  <2> QED
    BY <2>7, <2>8, <2>9 DEF RInv
<1>7. ASSUME NEW r \in Requests, Refresh(r) PROVE RInv'
  <2> DEFINE new == [orm[r] EXCEPT !.row = ratings[orm[r].id]]
  <2>1. /\ pc[r] = "refresh" /\ pending[r] = Nil /\ orm[r] # Nil
        /\ pc' = [pc EXCEPT ![r] = "invalidate"]
        /\ orm' = [orm EXCEPT ![r] = new]
        /\ UNCHANGED <<ratings, cache, seen, job, pending>>
    BY <1>7 DEF Refresh, RInv, Sessions
  <2>2. orm[r] \in Handle /\ orm[r].id \in Requests /\ ratings[orm[r].id] # Nil
    BY <1>0, <2>1, HandleFacts DEF RInv, Sessions
  <2>3. ratings[orm[r].id] \in Row
    BY <1>0, <2>2, HandleFacts
  <2>4. new \in Handle /\ new.id = orm[r].id /\ new.row = ratings[orm[r].id]
    BY <2>2, <2>3 DEF Handle
  <2>5. /\ pc[orm[r].id] # "idle"
        /\ Entry(job[orm[r].id]) = Entry(job[r])
        /\ Entry(ratings[orm[r].id]) = Entry(job[r])
    BY <2>1, <2>2 DEF RInv, Sessions, Rows
  <2> HIDE DEF new
  <2> QED
    BY <1>0, <2>1, <2>2, <2>4, <2>5, SessionStep
<1>8. ASSUME NEW r \in Requests, Invalidate(r) PROVE RInv'
  BY <1>0, <1>8, MoveStep DEF Invalidate, RInv, Sessions, Labels
<1>9. ASSUME NEW r \in Requests, LookUp(r) PROVE RInv'
  BY <1>0, <1>9, MoveStep DEF LookUp, RInv, Sessions, Labels
<1>10. ASSUME NEW r \in Requests, SelectAggregate(r) PROVE RInv'
  BY <1>0, <1>10, MoveStep DEF SelectAggregate, RInv, Sessions, Labels
<1>11. ASSUME NEW r \in Requests, Fill(r) PROVE RInv'
  BY <1>0, <1>11, MoveStep DEF Fill, RInv, Sessions, Labels
<1>12. ASSUME NEW r \in Requests, Fail(r) PROVE RInv'
  BY <1>0, <1>12, MoveStep DEF Fail, Abort, Labels
<1>13. ASSUME NEW f \in Films, Expire(f) PROVE RInv'
  BY <1>13 DEF Expire, RInv, Shape, Calls, Sessions, Rows, Entry
<1>14. CASE UNCHANGED vars
  BY <1>14 DEF vars, RInv, Shape, Calls, Sessions, Rows, Entry
<1> QED
  BY <1>1, <1>2, <1>3, <1>4, <1>5, <1>6, <1>7, <1>8, <1>9, <1>10, <1>11, <1>12, <1>13, <1>14
     DEF Next, Step, Finished

-----------------------------------------------------------------------------
(* Coherence of the cache. *)

Writers == \A r \in Requests : pending[r] # Nil => job[r].op = "put"

\* A reader that no commit has overtaken still holds the aggregate of the table.
Fills ==
    \A r \in Requests :
        pc[r] = "fill" /\ r \notin overtaken => seen[r] = Aggregate(job[r].film)

CInv == Writers /\ Fills /\ CoherentUnlessRaced

LEMMA CoherentInit == Init => CInv
BY DEF Init, CInv, Writers, Fills, CoherentUnlessRaced, Fresh

LEMMA AggregateKept ==
    ASSUME UNCHANGED ratings, NEW f
    PROVE  Aggregate(f)' = Aggregate(f)
BY DEF Aggregate, Rated

\* A commit changes the aggregate of the film it rates and of no other.
LEMMA CommitIsLocal ==
    ASSUME RInv, NEW r \in Requests, Commit(r), NEW f \in Films, f # job[r].film
    PROVE  Aggregate(f)' = Aggregate(f)
<1>1. CASE pending[r] = Nil
  BY <1>1, AggregateKept DEF Commit
<1>2. CASE pending[r] # Nil
  <2> DEFINE i == pending[r].id
             w == pending[r].row
  <2>1. /\ pending[r] = orm[r] /\ orm[r] # Nil
        /\ i \in Requests /\ w \in Row /\ w # Nil
        /\ ratings' = [ratings EXCEPT ![i] = w]
    BY <1>2, HandleFacts, RatingAssumption DEF Commit, RInv, Sessions
  <2>2. w.film = job[r].film /\ (ratings[i] # Nil => ratings[i].film = job[r].film)
    BY <2>1 DEF RInv, Sessions, Rows, Entry
  <2> HIDE DEF i, w
  <2>3. ratings'[i] = w /\ \A k \in Requests \ {i} : ratings'[k] = ratings[k]
    BY <2>1 DEF RInv, Shape
  <2>4. \A k \in Requests : k \in Rated(f)' <=> k \in Rated(f)
    BY <2>1, <2>2, <2>3 DEF Rated
  <2>5. Rated(f)' = Rated(f)
    BY <2>4 DEF Rated
  <2>6. \A k \in Rated(f) : ratings'[k].points = ratings[k].points
    BY <2>2, <2>3 DEF Rated
  <2>7. [k \in Rated(f)' |-> ratings'[k].points] = [k \in Rated(f) |-> ratings[k].points]
    BY <2>5, <2>6
  <2> QED
    BY <2>7 DEF Aggregate
<1> QED
  BY <1>1, <1>2

\* A step of r that leaves the table alone.
LEMMA ReaderStep ==
    ASSUME RInv, RInv', CInv, NEW r \in Requests, UNCHANGED ratings,
           \A q \in Requests \ {r} :
              pc'[q] = pc[q] /\ job'[q] = job[q] /\ seen'[q] = seen[q] /\ pending'[q] = pending[q],
           overtaken' = overtaken,
           pending'[r] # Nil => job'[r].op = "put",
           pc'[r] = "fill" /\ r \notin overtaken => seen'[r] = Aggregate(job'[r].film),
           \A f \in Films :
              \/ /\ cache'[f] = cache[f]
                 /\ f \in tainted => f \in tainted'
                 /\ pc[r] \in {"refresh", "invalidate"} /\ job[r].film = f =>
                       f \in tainted' \/ (pc'[r] \in {"refresh", "invalidate"} /\ job'[r].film = f)
              \/ cache'[f] \in {Nil, Aggregate(f)}
              \/ f \in tainted'
    PROVE  CInv'
<1>1. \A f : Aggregate(f)' = Aggregate(f)
  BY AggregateKept
<1>2. Writers'
  BY DEF CInv, Writers
<1>3. Fills'
  <2> SUFFICES ASSUME NEW q \in Requests, pc'[q] = "fill", q \notin overtaken
               PROVE  seen'[q] = Aggregate(job'[q].film)
    BY <1>1 DEF Fills
  <2> QED
    BY DEF CInv, Fills
<1>4. CoherentUnlessRaced'
  <2> SUFFICES ASSUME NEW f \in Films, ~Invalidating(f)', f \notin tainted'
               PROVE  cache'[f] \in {Nil, Aggregate(f)}
    BY <1>1 DEF CoherentUnlessRaced, Fresh
  <2>1. CASE cache'[f] \in {Nil, Aggregate(f)}
    BY <2>1
  <2>2. CASE cache'[f] \notin {Nil, Aggregate(f)}
    <3>1. /\ cache'[f] = cache[f]
          /\ f \notin tainted
          /\ pc[r] \in {"refresh", "invalidate"} /\ job[r].film = f =>
                pc'[r] \in {"refresh", "invalidate"} /\ job'[r].film = f
      BY <2>2
    <3>2. ~Invalidating(f)
      BY <3>1 DEF Invalidating
    <3> QED
      BY <3>1, <3>2 DEF CInv, CoherentUnlessRaced, Fresh
  <2> QED
    BY <2>1, <2>2
<1> QED
  BY <1>2, <1>3, <1>4 DEF CInv

LEMMA CommitCoherent ==
    ASSUME RInv, RInv', CInv, NEW r \in Requests, Commit(r)
    PROVE  CInv'
<1>0. /\ pc[r] = "commit" /\ UNCHANGED <<cache, tainted, seen, job>>
      /\ pending' = [pending EXCEPT ![r] = Nil]
      /\ pc' = [pc EXCEPT ![r] = IF job[r].op = "get" THEN "done" ELSE "refresh"]
  BY DEF Commit, Goto, Answer, redis
<1>1. /\ pc'[r] \in {"done", "refresh"} /\ pending'[r] = Nil
      /\ \A q \in Requests \ {r} : pc'[q] = pc[q] /\ pending'[q] = pending[q]
  BY <1>0 DEF RInv, Shape
<1>2. CASE pending[r] = Nil
  <2>1. UNCHANGED <<ratings, overtaken>>
    BY <1>2 DEF Commit
  <2> QED
    BY <1>0, <1>1, <2>1, ReaderStep
<1>3. CASE pending[r] # Nil
  <2>1. overtaken' = overtaken \cup {q \in Requests : pc[q] = "fill" /\ job[q].film = job[r].film}
    BY <1>3 DEF Commit
  <2>2. job[r].op = "put" /\ pc'[r] = "refresh" /\ job[r] \in Job
    BY <1>0, <1>3, RatingAssumption DEF CInv, Writers, RInv, Shape, Calls
  <2>3. Writers'
    BY <1>0, <1>1 DEF CInv, Writers
  <2>4. Fills'
    <3> SUFFICES ASSUME NEW q \in Requests, pc'[q] = "fill", q \notin overtaken'
                 PROVE  seen[q] = Aggregate(job[q].film)'
      BY <1>0 DEF Fills
    <3>1. q # r /\ pc[q] = "fill" /\ q \notin overtaken /\ job[q].film # job[r].film
      BY <1>1, <2>1
    <3>2. job[q].film \in Films
      BY <3>1, RatingAssumption DEF RInv, Calls, Job
    <3> QED
      BY <1>0, <3>1, <3>2, CommitIsLocal DEF CInv, Fills
  <2>5. CoherentUnlessRaced'
    <3> SUFFICES ASSUME NEW f \in Films, ~Invalidating(f)', f \notin tainted
                 PROVE  cache[f] \in {Nil, Aggregate(f)'}
      BY <1>0 DEF CoherentUnlessRaced, Fresh
    <3>1. f # job[r].film
      BY <1>0, <2>2 DEF Invalidating
    <3>2. ~Invalidating(f)
      BY <1>0, <1>1 DEF Invalidating
    <3> QED
      BY <3>1, <3>2, CommitIsLocal DEF CInv, CoherentUnlessRaced, Fresh
  <2> QED
    BY <2>3, <2>4, <2>5 DEF CInv
<1> QED
  BY <1>2, <1>3

LEMMA CoherentStep == RInv /\ RInv' /\ CInv /\ [Next]_vars => CInv'
<1> SUFFICES ASSUME RInv, RInv', CInv, [Next]_vars PROVE CInv'
  OBVIOUS
<1> USE DEF Goto, Answer, db, redis, session
<1>0. Shape /\ \A r \in Requests : pending[r] # Nil => job[r].op = "put"
  BY DEF RInv, CInv, Writers
<1>1. ASSUME NEW r \in Requests, Begin(r) PROVE CInv'
  <2>1. pc[r] = "idle" /\ pending[r] = Nil
    BY <1>1 DEF Begin, RInv, Sessions
  <2>2. pc'[r] \in {"load", "lookup"}
    BY <1>0, <1>1 DEF Begin, Shape
  <2> QED
    BY <1>0, <1>1, <2>1, <2>2, ReaderStep DEF Begin, Shape
<1>2. ASSUME NEW r \in Requests, GetProfileOrRaise(r) PROVE CInv'
  BY <1>0, <1>2, ReaderStep DEF GetProfileOrRaise, Shape
<1>3. ASSUME NEW r \in Requests, SelectRating(r) PROVE CInv'
  BY <1>0, <1>3, ReaderStep DEF SelectRating, Shape
<1>4. ASSUME NEW r \in Requests, FlushInsert(r) PROVE CInv'
  BY <1>0, <1>4, ReaderStep DEF FlushInsert, Abort, Shape, RInv, Calls
<1>5. ASSUME NEW r \in Requests, FlushUpdate(r) PROVE CInv'
  BY <1>0, <1>5, ReaderStep DEF FlushUpdate, Shape, RInv, Calls
<1>6. ASSUME NEW r \in Requests, Commit(r) PROVE CInv'
  BY <1>6, CommitCoherent
<1>7. ASSUME NEW r \in Requests, Refresh(r) PROVE CInv'
  BY <1>0, <1>7, ReaderStep DEF Refresh, Shape
<1>8. ASSUME NEW r \in Requests, Invalidate(r) PROVE CInv'
  BY <1>0, <1>8, ReaderStep DEF Invalidate, Shape
<1>9. ASSUME NEW r \in Requests, LookUp(r) PROVE CInv'
  BY <1>0, <1>9, ReaderStep DEF LookUp, Shape
<1>10. ASSUME NEW r \in Requests, SelectAggregate(r) PROVE CInv'
  BY <1>0, <1>10, ReaderStep DEF SelectAggregate, Shape
<1>11. ASSUME NEW r \in Requests, Fill(r) PROVE CInv'
  <2>1. pc[r] = "fill" /\ (r \notin overtaken => seen[r] = Aggregate(job[r].film))
    BY <1>11 DEF Fill, CInv, Fills
  <2> QED
    BY <1>0, <1>11, <2>1, ReaderStep DEF Fill, Shape
<1>12. ASSUME NEW r \in Requests, Fail(r) PROVE CInv'
  BY <1>0, <1>12, ReaderStep DEF Fail, Abort, Shape
<1>13. ASSUME NEW f \in Films, Expire(f) PROVE CInv'
  BY <1>0, <1>13, AggregateKept
     DEF Expire, CInv, Writers, Fills, CoherentUnlessRaced, Fresh, Invalidating, Shape
<1>14. CASE UNCHANGED vars
  BY <1>14, AggregateKept
     DEF vars, CInv, Writers, Fills, CoherentUnlessRaced, Fresh, Invalidating
<1> QED
  BY <1>1, <1>2, <1>3, <1>4, <1>5, <1>6, <1>7, <1>8, <1>9, <1>10, <1>11, <1>12, <1>13, <1>14
     DEF Next, Step, Finished

\* Apart from a reader overtaken between its SELECT and its SET and a writer that
\* failed between COMMIT and DEL, the entry of a film holds its aggregate.
THEOREM CacheCoherent == Spec => []CoherentUnlessRaced
<1>1. Init => RInv /\ CInv
  BY RatingInit, CoherentInit
<1>2. RInv /\ CInv /\ [Next]_vars => (RInv /\ CInv)'
  BY RatingStep, CoherentStep
<1> QED
  BY <1>1, <1>2, PTL DEF Spec, CInv

-----------------------------------------------------------------------------
(* Uniqueness of ratings. *)

\* A pending row duplicates no committed row but the one it replaces.
PendingNew ==
    \A r, i \in Requests :
        pending[r] # Nil /\ ratings[i] # Nil /\ i # pending[r].id
            => Entry(ratings[i]) # Entry(pending[r].row)

EntriesExclusive ==
    \A q, r \in Requests :
        q # r /\ pending[q] # Nil /\ pending[r] # Nil
            => Entry(pending[q].row) # Entry(pending[r].row)

UInv == PendingNew /\ EntriesExclusive /\ OneRating

LEMMA UniqueInit == Init => UInv
BY DEF Init, UInv, PendingNew, EntriesExclusive, OneRating

\* Releasing what r holds, or changing nothing the constraint is about.
LEMMA ReleaseStep ==
    ASSUME UInv, UNCHANGED ratings, NEW r \in Requests,
           \A q \in Requests \ {r} : pending'[q] = pending[q],
           pending'[r] \in {Nil, pending[r]}
    PROVE  UInv'
<1>1. \A q \in Requests : pending'[q] # Nil => pending'[q] = pending[q]
  OBVIOUS
<1> QED
  BY <1>1 DEF UInv, PendingNew, EntriesExclusive, OneRating, Entry

LEMMA AcquireStep ==
    ASSUME Shape, UInv, UNCHANGED ratings, NEW r \in Requests, NEW w \in Handle,
           pending' = [pending EXCEPT ![r] = w],
           Free(r, w.row),
           \A i \in Requests : ratings[i] # Nil /\ i # w.id => Entry(ratings[i]) # Entry(w.row)
    PROVE  UInv'
<1>1. pending'[r] = w /\ \A q \in Requests \ {r} : pending'[q] = pending[q]
  BY DEF Shape
<1>2. PendingNew'
  BY <1>1 DEF UInv, PendingNew, Entry
<1>3. EntriesExclusive'
  BY <1>1 DEF UInv, EntriesExclusive, Free, Entry
<1>4. OneRating'
  BY DEF UInv, OneRating, Entry
<1> QED
  BY <1>2, <1>3, <1>4 DEF UInv

LEMMA PublishStep ==
    ASSUME RInv, UInv, NEW r \in Requests, Commit(r)
    PROVE  UInv'
<1>0. pending'[r] = Nil /\ \A q \in Requests \ {r} : pending'[q] = pending[q]
  BY DEF Commit, RInv, Shape
<1>1. CASE pending[r] = Nil
  BY <1>0, <1>1, ReleaseStep DEF Commit
<1>2. CASE pending[r] # Nil
  <2> DEFINE i == pending[r].id
             w == pending[r].row
  <2>1. i \in Requests /\ w \in Row /\ ratings' = [ratings EXCEPT ![i] = w]
    BY <1>2, HandleFacts DEF Commit, RInv
  <2>2. \A k \in Requests \ {i} : ratings[k] # Nil => Entry(ratings[k]) # Entry(w)
    BY <1>2 DEF UInv, PendingNew
  <2>3. \A q \in Requests \ {r} : pending[q] # Nil => Entry(pending[q].row) # Entry(w)
    BY <1>2 DEF UInv, EntriesExclusive
  <2> HIDE DEF i, w
  <2>4. ratings'[i] = w /\ \A k \in Requests \ {i} : ratings'[k] = ratings[k]
    BY <2>1 DEF RInv, Shape
  <2>5. PendingNew'
    <3> SUFFICES ASSUME NEW q \in Requests, NEW k \in Requests,
                        pending'[q] # Nil, ratings'[k] # Nil, k # pending'[q].id
                 PROVE  Entry(ratings'[k]) # Entry(pending'[q].row)
      BY DEF PendingNew, Entry
    <3>1. q # r /\ pending'[q] = pending[q]
      BY <1>0
    <3>2. CASE k = i
      BY <2>3, <2>4, <3>1, <3>2
    <3>3. CASE k # i
      BY <2>4, <3>1, <3>3 DEF UInv, PendingNew
    <3> QED
      BY <3>2, <3>3
  <2>6. EntriesExclusive'
    BY <1>0 DEF UInv, EntriesExclusive, Entry
  <2>7. OneRating'
    <3> SUFFICES ASSUME NEW j \in Requests, NEW k \in Requests, j # k,
                        ratings'[j] # Nil, ratings'[k] # Nil
                 PROVE  Entry(ratings'[j]) # Entry(ratings'[k])
      BY DEF OneRating, Entry
    <3> QED
      BY <2>2, <2>4 DEF UInv, OneRating
  <2> QED
    BY <2>5, <2>6, <2>7 DEF UInv
<1> QED
  BY <1>1, <1>2

LEMMA UniqueStep == RInv /\ UInv /\ [Next]_vars => UInv'
<1> SUFFICES ASSUME RInv, UInv, [Next]_vars PROVE UInv'
  OBVIOUS
<1> USE DEF db, redis, session
<1>0. Shape
  BY DEF RInv
<1>1. ASSUME NEW r \in Requests, FlushInsert(r) PROVE UInv'
  <2>1. CASE Abort(r)
    BY <1>0, <1>1, <2>1, ReleaseStep DEF FlushInsert, Abort, Shape
  <2>2. CASE ~Abort(r)
    <3> DEFINE w == [id |-> r, row |-> NewRating(r)]
    <3>1. /\ pc[r] = "flush" /\ Found(r) = {} /\ Free(r, NewRating(r))
          /\ pending' = [pending EXCEPT ![r] = w]
          /\ UNCHANGED ratings
      BY <1>1, <2>2 DEF FlushInsert
    <3>2. w \in Handle /\ w.id = r /\ w.row = NewRating(r) /\ Entry(w.row) = Entry(job[r])
      BY <3>1, NewRatingType DEF Handle
    <3>3. \A i \in Requests : ratings[i] # Nil => Entry(ratings[i]) # Entry(w.row)
      BY <3>1, <3>2 DEF Found
    <3> HIDE DEF w
    <3> QED
      BY <1>0, <3>1, <3>2, <3>3, AcquireStep
  <2> QED
    BY <2>1, <2>2
<1>2. ASSUME NEW r \in Requests, FlushUpdate(r) PROVE UInv'
  <2> DEFINE w == [orm[r] EXCEPT !.row.points = job[r].points]
  <2>1. CASE UNCHANGED session
    BY <1>2, <2>1, ReleaseStep DEF FlushUpdate
  <2>2. CASE ~UNCHANGED session
    <3>1. /\ pc[r] = "flush" /\ orm[r] # Nil /\ pending[r] = Nil
          /\ Free(r, w.row)
          /\ pending' = [pending EXCEPT ![r] = w]
          /\ UNCHANGED ratings
      BY <1>2, <2>2 DEF FlushUpdate, RInv, Sessions
    <3>2. orm[r] \in Handle /\ orm[r].row \in Row /\ orm[r].id \in Requests
          /\ job[r].points \in Points
      BY <1>0, <3>1, HandleFacts, NewRatingType
    <3>3. w \in Handle /\ w.id = orm[r].id /\ Entry(w.row) = Entry(orm[r].row)
      BY <3>2 DEF Handle, Row, Entry
    <3>4. ratings[w.id] # Nil /\ Entry(ratings[w.id]) = Entry(w.row)
      BY <3>1, <3>2, <3>3 DEF RInv, Sessions, Rows
    <3>5. \A i \in Requests : ratings[i] # Nil /\ i # w.id => Entry(ratings[i]) # Entry(w.row)
      BY <3>2, <3>3, <3>4 DEF UInv, OneRating
    <3> HIDE DEF w
    <3> QED
      BY <1>0, <3>1, <3>3, <3>5, AcquireStep
  <2> QED
    BY <2>1, <2>2
<1>3. ASSUME NEW r \in Requests, Commit(r) PROVE UInv'
  BY <1>3, PublishStep
<1>4. ASSUME NEW r \in Requests, Fail(r) PROVE UInv'
  BY <1>0, <1>4, ReleaseStep DEF Fail, Abort, Shape
<1>5. CASE UNCHANGED <<ratings, pending>>
  BY <1>5 DEF UInv, PendingNew, EntriesExclusive, OneRating, Entry
<1> QED
  BY <1>1, <1>2, <1>3, <1>4, <1>5
     DEF Next, Step, Begin, GetProfileOrRaise, SelectRating, Refresh, Invalidate, LookUp,
         SelectAggregate, Fill, Expire, Finished, vars

\* Of two put_rating requests that both find no row one inserts, the other fails:
\* a profile never has two ratings of a film.
THEOREM RatingsAreUnique == Spec => []OneRating
<1>1. Init => RInv /\ UInv
  BY RatingInit, UniqueInit
<1>2. RInv /\ UInv /\ [Next]_vars => (RInv /\ UInv)'
  BY RatingStep, UniqueStep
<1> QED
  BY <1>1, <1>2, PTL DEF Spec, UInv

-----------------------------------------------------------------------------
(* What is stored was asked for. *)

Asked(i) == \E q \in audited : /\ job[q].op = "put" /\ Entry(job[q]) = Entry(ratings[i])
                               /\ job[q].points = ratings[i].points

Served(e) == \E i \in Requests : ratings[i] # Nil /\ Entry(ratings[i]) = e

\* Only a committed request is audited, and what a session has flushed is what its
\* put_rating was sent.
AInv ==
    /\ audited \subseteq {r \in Requests : pc[r] \in {"refresh", "invalidate", "done"}}
    /\ \A r \in Requests : pending[r] # Nil =>
          job[r].op = "put" /\ pending[r].row.points = job[r].points
    /\ \A i \in Requests : ratings[i] # Nil => Asked(i)
    /\ \A q \in audited : job[q].op = "put" => Served(Entry(job[q]))

LEMMA AskedInit == Init => AInv
BY DEF Init, AInv

\* Steps other than COMMIT.
LEMMA AskedFrame ==
    ASSUME Shape, AInv, NEW r \in Requests, UNCHANGED <<ratings, audited>>,
           \A q \in Requests \ {r} : pc'[q] = pc[q] /\ job'[q] = job[q] /\ pending'[q] = pending[q],
           pc[r] # "idle" => job'[r] = job[r],
           pc[r] \in {"refresh", "invalidate", "done"} =>
               pc'[r] \in {"refresh", "invalidate", "done"},
           pending'[r] # Nil => job'[r].op = "put" /\ pending'[r].row.points = job'[r].points
    PROVE  AInv'
<1>1. \A q \in audited : q \in Requests /\ job'[q] = job[q]  BY DEF AInv
<1>2. ASSUME NEW i \in Requests, ratings[i] # Nil  PROVE Asked(i)'
  BY <1>1, <1>2 DEF AInv, Asked, Entry
<1>3. \A q \in audited' : job'[q].op = "put" =>
          \E i \in Requests : ratings'[i] # Nil /\ Entry(ratings'[i]) = Entry(job'[q])
  BY <1>1 DEF AInv, Served
<1>4. \A q \in Requests : pending'[q] # Nil =>
          job'[q].op = "put" /\ pending'[q].row.points = job'[q].points
  BY DEF AInv
<1>6. \A q \in audited' : q \in Requests /\ pc'[q] \in {"refresh", "invalidate", "done"}
  BY DEF AInv
<1>7. \A i \in Requests : ratings'[i] # Nil => Asked(i)'  BY <1>2
<1>8. \A q \in audited' : job'[q].op = "put" => Served(Entry(job[q]))'
  BY <1>3 DEF Served, Entry
<1> QED  BY <1>4, <1>6, <1>7, <1>8 DEF AInv

LEMMA CommitAsked ==
    ASSUME RInv, AInv, NEW r \in Requests, Commit(r)  PROVE AInv'
<1>1. /\ pc[r] = "commit" /\ audited' = audited \cup {r} /\ UNCHANGED job
      /\ pending' = [pending EXCEPT ![r] = Nil]
      /\ ratings' = IF pending[r] = Nil THEN ratings
                    ELSE [ratings EXCEPT ![pending[r].id] = pending[r].row]
      /\ pc' \in {[pc EXCEPT ![r] = "refresh"], [pc EXCEPT ![r] = "done"]}
  BY DEF Commit, Goto, Answer
<1>2. /\ pc'[r] \in {"refresh", "done"} /\ pending'[r] = Nil
      /\ \A q \in Requests \ {r} : pc'[q] = pc[q] /\ pending'[q] = pending[q]
  BY <1>1 DEF RInv, Shape
<1>3. orm[r] # Nil /\ orm[r].id \in Requests /\ orm[r].row \in Row
  BY <1>1, HandleFacts DEF RInv, Sessions
\* The row written, when there is one.
<1>4. ASSUME pending[r] # Nil
      PROVE  /\ pending[r].id = orm[r].id /\ ratings'[orm[r].id] = orm[r].row /\ orm[r].row # Nil
             /\ \A i \in Requests \ {orm[r].id} : ratings'[i] = ratings[i]
             /\ Entry(orm[r].row) = Entry(job[r])
             /\ job[r].op = "put" /\ orm[r].row.points = job[r].points
             /\ ratings[orm[r].id] # Nil => Entry(ratings[orm[r].id]) = Entry(job[r])
  <2>1. pending[r] = orm[r] /\ Entry(orm[r].row) = Entry(job[r])
        /\ Entry(job[orm[r].id]) = Entry(job[r])
    BY <1>3, <1>4 DEF RInv, Sessions
  <2>2. ratings' = [ratings EXCEPT ![orm[r].id] = orm[r].row]  BY <1>1, <1>4, <2>1
  <2>3. ratings'[orm[r].id] = orm[r].row
        /\ \A i \in Requests \ {orm[r].id} : ratings'[i] = ratings[i]
    BY <1>3, <2>2 DEF RInv, Shape
  <2>4. ratings[orm[r].id] # Nil => Entry(ratings[orm[r].id]) = Entry(job[r])
    BY <1>3, <2>1 DEF RInv, Rows
  <2> QED  BY <1>3, <1>4, <2>1, <2>3, <2>4, RatingAssumption DEF AInv
<1>5. ASSUME NEW i \in Requests, ratings'[i] # Nil  PROVE Asked(i)'
  <2>1. CASE pending[r] # Nil /\ i = orm[r].id
    <3>1. /\ r \in audited' /\ job'[r].op = "put" /\ Entry(job'[r]) = Entry(ratings'[i])
          /\ job'[r].points = ratings'[i].points
      BY <1>1, <1>4, <2>1
    <3> QED  BY <3>1 DEF Asked, Entry
  <2>2. CASE ~(pending[r] # Nil /\ i = orm[r].id)
    <3>1. ratings'[i] = ratings[i]  BY <1>1, <1>4, <2>2
    <3>2. Asked(i)  BY <1>5, <3>1 DEF AInv
    <3> QED  BY <1>1, <3>1, <3>2 DEF Asked, Entry
  <2> QED  BY <2>1, <2>2
<1>6. ASSUME NEW e, Served(e)  PROVE \E i \in Requests : ratings'[i] # Nil /\ Entry(ratings'[i]) = e
  <2>1. PICK i \in Requests : ratings[i] # Nil /\ Entry(ratings[i]) = e  BY <1>6 DEF Served
  <2>2. CASE pending[r] # Nil /\ i = orm[r].id  BY <1>3, <1>4, <2>1, <2>2
  <2>3. CASE ~(pending[r] # Nil /\ i = orm[r].id)  BY <1>1, <1>4, <2>1, <2>3
  <2> QED  BY <2>2, <2>3
<1>7. ASSUME job[r].op = "put"
      PROVE  \E i \in Requests : ratings'[i] # Nil /\ Entry(ratings'[i]) = Entry(job[r])
  <2>1. CASE pending[r] # Nil  BY <1>3, <1>4, <2>1
  <2>2. CASE pending[r] = Nil
    <3>1. ratings[orm[r].id] # Nil /\ Entry(job[orm[r].id]) = Entry(job[r])
      BY <1>1, <1>3, <2>2 DEF RInv, Sessions
    <3>2. Entry(ratings[orm[r].id]) = Entry(job[r])  BY <1>3, <3>1 DEF RInv, Rows
    <3> QED  BY <1>1, <1>3, <2>2, <3>1, <3>2
  <2> QED  BY <2>1, <2>2
<1>8. \A q \in audited' : job'[q].op = "put" =>
          \E i \in Requests : ratings'[i] # Nil /\ Entry(ratings'[i]) = Entry(job'[q])
  BY <1>1, <1>6, <1>7 DEF AInv
<1>9. \A q \in audited' : job'[q].op = "put" => Served(Entry(job[q]))'
  BY <1>8 DEF Served, Entry
<1>10. \A q \in audited' : q \in Requests /\ pc'[q] \in {"refresh", "invalidate", "done"}
  BY <1>1, <1>2 DEF AInv
<1>11. \A q \in Requests : pending'[q] # Nil =>
           job'[q].op = "put" /\ pending'[q].row.points = job'[q].points
  BY <1>1, <1>2 DEF AInv
<1> QED  BY <1>5, <1>9, <1>10, <1>11 DEF AInv

LEMMA AskedStep == RInv /\ AInv /\ [Next]_vars => AInv'
<1> SUFFICES ASSUME RInv, AInv, [Next]_vars  PROVE AInv'  OBVIOUS
<1> USE DEF Goto, Answer, db, redis, session
<1>0. Shape  BY DEF RInv
<1>1. CASE UNCHANGED <<ratings, audited, pc, job, pending>>
  BY <1>1 DEF AInv, Asked, Served, Entry
<1>2. ASSUME NEW r \in Requests, Begin(r)  PROVE AInv'
  <2>1. /\ UNCHANGED <<ratings, audited, pending>> /\ pc[r] = "idle"
        /\ \A q \in Requests \ {r} : pc'[q] = pc[q] /\ job'[q] = job[q]
    BY <1>0, <1>2 DEF Begin, Shape
  <2>2. pending[r] = Nil  BY <2>1 DEF RInv, Sessions
  <2> QED  BY <1>0, <2>1, <2>2, AskedFrame
<1>3. ASSUME NEW r \in Requests, NEW label \in Labels, pc' = [pc EXCEPT ![r] = label],
             pc[r] \notin {"idle", "done"},
             pc[r] \in {"refresh", "invalidate"} => label \in {"invalidate", "done"},
             UNCHANGED <<ratings, audited, job>>,
             pending' \in {pending, [pending EXCEPT ![r] = Nil]}
      PROVE  AInv'
  <2>1. /\ pc'[r] = label /\ pending'[r] \in {pending[r], Nil}
        /\ \A q \in Requests \ {r} : pc'[q] = pc[q] /\ pending'[q] = pending[q]
    BY <1>0, <1>3 DEF Shape
  <2> QED  BY <1>0, <1>3, <2>1, AskedFrame DEF AInv
<1>4. ASSUME NEW r \in Requests,
             \/ GetProfileOrRaise(r) \/ SelectRating(r) \/ Refresh(r) \/ Invalidate(r)
             \/ LookUp(r) \/ SelectAggregate(r) \/ Fill(r) \/ Fail(r)
      PROVE  AInv'
  <2>1. CASE GetProfileOrRaise(r)  BY <1>3, <2>1 DEF GetProfileOrRaise, Labels
  <2>2. CASE SelectRating(r)  BY <1>3, <2>2 DEF SelectRating, Labels
  <2>3. CASE Refresh(r)  BY <1>3, <2>3 DEF Refresh, Labels
  <2>4. CASE Invalidate(r)  BY <1>3, <2>4 DEF Invalidate, Labels
  <2>5. CASE LookUp(r)  BY <1>3, <2>5 DEF LookUp, Labels
  <2>6. CASE SelectAggregate(r)  BY <1>3, <2>6 DEF SelectAggregate, Labels
  <2>7. CASE Fill(r)  BY <1>3, <2>7 DEF Fill, Labels
  <2>8. CASE Fail(r)  BY <1>3, <2>8 DEF Fail, Abort, Labels
  <2> QED  BY <1>4, <2>1, <2>2, <2>3, <2>4, <2>5, <2>6, <2>7, <2>8
<1>5. ASSUME NEW r \in Requests, FlushInsert(r)  PROVE AInv'
  <2>1. CASE Abort(r)  BY <1>3, <1>5, <2>1 DEF FlushInsert, Abort, Labels
  <2>2. CASE ~Abort(r)
    <3> DEFINE w == [id |-> r, row |-> NewRating(r)]
    <3>1. /\ pc[r] = "flush" /\ pending' = [pending EXCEPT ![r] = w]
          /\ pc' = [pc EXCEPT ![r] = "commit"] /\ UNCHANGED <<ratings, audited, job>>
      BY <1>5, <2>2 DEF FlushInsert
    <3>2. w.row.points = job[r].points  BY DEF NewRating
    <3> HIDE DEF w
    <3>3. /\ pending'[r] = w
          /\ \A q \in Requests \ {r} : pc'[q] = pc[q] /\ pending'[q] = pending[q]
      BY <1>0, <3>1 DEF Shape
    <3>4. job[r].op = "put"  BY <3>1 DEF RInv, Calls
    <3> QED  BY <1>0, <3>1, <3>2, <3>3, <3>4, AskedFrame
  <2> QED  BY <2>1, <2>2
<1>6. ASSUME NEW r \in Requests, FlushUpdate(r)  PROVE AInv'
  <2> DEFINE w == [orm[r] EXCEPT !.row.points = job[r].points]
  <2>0. /\ pc[r] = "flush" /\ orm[r] # Nil /\ pc' = [pc EXCEPT ![r] = "commit"]
        /\ UNCHANGED <<ratings, audited, job>>
    BY <1>6 DEF FlushUpdate
  <2>1. CASE UNCHANGED session  BY <1>3, <2>0, <2>1 DEF Labels
  <2>2. CASE ~UNCHANGED session
    <3>1. pending' = [pending EXCEPT ![r] = w]  BY <1>6, <2>2 DEF FlushUpdate
    <3>2. orm[r] \in Handle /\ orm[r].row \in Row  BY <1>0, <2>0, HandleFacts
    <3>3. w.row.points = job[r].points  BY <3>2 DEF Handle, Row
    <3> HIDE DEF w
    <3>4. /\ pending'[r] = w
          /\ \A q \in Requests \ {r} : pc'[q] = pc[q] /\ pending'[q] = pending[q]
      BY <1>0, <2>0, <3>1 DEF Shape
    <3>5. job[r].op = "put"  BY <2>0 DEF RInv, Calls
    <3> QED  BY <1>0, <2>0, <3>3, <3>4, <3>5, AskedFrame
  <2> QED  BY <2>1, <2>2
<1>7. ASSUME NEW r \in Requests, Commit(r)  PROVE AInv'  BY <1>7, CommitAsked
<1> QED
  BY <1>1, <1>2, <1>4, <1>5, <1>6, <1>7 DEF Next, Step, Expire, Finished, vars

\* RatedAsAsked of RatingCache: concurrent put_rating requests may overwrite one
\* another, none is half applied, and whatever is stored has its audit row.
THEOREM RatingsAreAsked == Spec => []RatedAsAsked
<1>1. Init => RInv /\ AInv  BY RatingInit, AskedInit
<1>2. RInv /\ AInv /\ [Next]_vars => (RInv /\ AInv)'  BY RatingStep, AskedStep
<1>3. AInv => RatedAsAsked
  <2> SUFFICES ASSUME AInv, NEW e \in Profiles \X Films
               PROVE  /\ \A i \in Requests : ratings[i] # Nil /\ Entry(ratings[i]) = e =>
                            \E q \in Puts(e) : job[q].points = ratings[i].points
                      /\ Puts(e) # {} => \E i \in Requests : ratings[i] # Nil /\ Entry(ratings[i]) = e
    BY DEF RatedAsAsked
  <2> QED  BY DEF AInv, Asked, Served, Puts
<1> QED  BY <1>1, <1>2, <1>3, PTL DEF Spec
-----------------------------------------------------------------------------
(* Aggregates. *)

Chosen(s) == CHOOSE x \in s : TRUE

\* One step of the fold behind SumFunction, from a candidate g for its values.
Folded(f, g, s) == IF s = {} THEN 0 ELSE f[Chosen(s)] + g[s \ {Chosen(s)}]

\* The fold behind SumFunction: the sum of f over each subset of its domain.
Sums(f) == CHOOSE g : g = [s \in SUBSET (DOMAIN f) |-> Folded(f, g, s)]

LEMMA SumFunctionIsFold == \A f : SumFunction(f) = Sums(f)[DOMAIN f]
BY DEF SumFunction, SumFunctionOnSet, FoldFunctionOnSet, MapThenFoldSet, Sums, Folded, Chosen

\* A set of numbers that is not empty has a least element.
LEMMA Least ==
    ASSUME NEW T \in SUBSET Nat, T # {}
    PROVE  \E n \in T : \A m \in T : n <= m
<1>1. PICK n \in T : \A m \in T : ~(<<m, n>> \in OpToRel(<, Nat))
  BY NatLessThanWellFounded, WFMin
<1>2. \A m \in T : <<m, n>> \in Nat \X Nat /\ (m < n => <<m, n>> \in OpToRel(<, Nat))
  BY DEF OpToRel
<1>3. \A m \in T : m \in Nat /\ n \in Nat /\ ~(m < n)
  BY <1>1, <1>2
<1> QED  BY <1>3

\* The fold is defined: for a finite domain there is such a function.
LEMMA SumsExist ==
    ASSUME NEW f, IsFiniteSet(DOMAIN f)
    PROVE  Sums(f) = [s \in SUBSET (DOMAIN f) |-> Folded(f, Sums(f), s)]
<1> DEFINE D == DOMAIN f
           Upto(n) == {s \in SUBSET D : Cardinality(s) <= n}
           Good(n) == \E g : g = [s \in Upto(n) |-> Folded(f, g, s)]
           Bad == {n \in Nat : ~Good(n)}
<1>0. \A s \in SUBSET D :
         /\ IsFiniteSet(s) /\ Cardinality(s) \in Nat /\ Cardinality(s) <= Cardinality(D)
         /\ s = {} <=> Cardinality(s) = 0
         /\ s # {} => /\ Chosen(s) \in s /\ s \ {Chosen(s)} \in SUBSET D
                      /\ Cardinality(s \ {Chosen(s)}) = Cardinality(s) - 1
  <2> SUFFICES ASSUME NEW s \in SUBSET D
               PROVE /\ IsFiniteSet(s) /\ Cardinality(s) \in Nat /\ Cardinality(s) <= Cardinality(D)
                     /\ s = {} <=> Cardinality(s) = 0
                     /\ s # {} => /\ Chosen(s) \in s /\ s \ {Chosen(s)} \in SUBSET D
                                  /\ Cardinality(s \ {Chosen(s)}) = Cardinality(s) - 1
    OBVIOUS
  <2>1. IsFiniteSet(s) /\ Cardinality(s) <= Cardinality(D)  BY FS_Subset
  <2>2. Cardinality(s) \in Nat  BY <2>1, FS_CardinalityType
  <2>3. s = {} <=> Cardinality(s) = 0  BY <2>1, FS_EmptySet
  <2>4. s # {} => Chosen(s) \in s  BY DEF Chosen
  <2>5. s # {} => Cardinality(s \ {Chosen(s)}) = Cardinality(s) - 1
    BY <2>1, <2>4, FS_RemoveElement
  <2> QED  BY <2>1, <2>2, <2>3, <2>4, <2>5
<1>a. \A s \in SUBSET D : Cardinality(s) <= 0 => s = {}
  <2> SUFFICES ASSUME NEW s \in SUBSET D, Cardinality(s) <= 0  PROVE s = {}  OBVIOUS
  <2>1. Cardinality(s) \in Nat /\ (Cardinality(s) = 0 => s = {})  BY <1>0
  <2> QED  BY <2>1
<1>b. \A s \in SUBSET D, n \in Nat : Cardinality(s) <= n - 1 => Cardinality(s) <= n
  <2> SUFFICES ASSUME NEW s \in SUBSET D, NEW n \in Nat, Cardinality(s) <= n - 1
               PROVE  Cardinality(s) <= n
    OBVIOUS
  <2>1. Cardinality(s) \in Nat  BY <1>0
  <2> QED  BY <2>1
<1>1. ASSUME Bad # {}  PROVE FALSE
  <2>1. PICK n \in Bad : \A m \in Bad : n <= m
    <3>1. Bad \in SUBSET Nat  OBVIOUS
    <3> HIDE DEF Bad
    <3> QED  BY <1>1, <3>1, Least
  <2>2. n # 0
    <3>1. SUFFICES ASSUME n = 0  PROVE FALSE  OBVIOUS
    <3> DEFINE g == [s \in Upto(0) |-> 0]
    <3>2. \A s \in Upto(0) : s = {}  BY <1>a
    <3>3. g = [s \in Upto(0) |-> Folded(f, g, s)]  BY <3>2 DEF Folded
    <3>4. Good(0)  BY <3>3
    <3> QED  BY <3>1, <3>4
  <2>3. n \in Nat /\ n - 1 \in Nat /\ n - 1 \notin Bad
    <3>1. n \in Nat  OBVIOUS
    <3> HIDE DEF Bad
    <3> QED  BY <2>1, <2>2, <3>1
  <2>4. PICK g : g = [s \in Upto(n - 1) |-> Folded(f, g, s)]
    BY <2>3
  <2> DEFINE h == [s \in Upto(n) |-> Folded(f, g, s)]
  <2>5. \A s \in Upto(n - 1) : s \in Upto(n) /\ h[s] = g[s]
    <3>1. \A s \in Upto(n - 1) : g[s] = Folded(f, g, s)  BY <2>4
    <3>2. \A s \in Upto(n - 1) : s \in Upto(n)  BY <1>b, <2>3
    <3> QED  BY <3>1, <3>2
  <2>6. \A s \in Upto(n) : s # {} => s \ {Chosen(s)} \in Upto(n - 1)
    BY <1>0, <2>3
  <2>7. \A s \in Upto(n) : Folded(f, g, s) = Folded(f, h, s)
    BY <2>5, <2>6 DEF Folded
  <2>8. h = [s \in Upto(n) |-> Folded(f, h, s)]  BY <2>7
  <2> HIDE DEF h
  <2>9. Good(n)  BY <2>8
  <2> QED  BY <2>1, <2>9
<1>2. Good(Cardinality(D))
  <2>1. Cardinality(D) \in Nat  BY FS_CardinalityType
  <2> QED  BY <1>1, <2>1
<1>3. Upto(Cardinality(D)) = SUBSET D  BY <1>0
<1> QED  BY <1>2, <1>3 DEF Sums

\* A sum of points is at most twenty for each.
LEMMA SumBound ==
    ASSUME NEW f, IsFiniteSet(DOMAIN f), \A x \in DOMAIN f : f[x] \in 0..20
    PROVE  SumFunction(f) \in 0..(20 * Cardinality(DOMAIN f))
<1> DEFINE D == DOMAIN f
           In(s) == Sums(f)[s] \in 0..(20 * Cardinality(s))
           Bad == {n \in Nat : \E s \in SUBSET D : Cardinality(s) = n /\ ~In(s)}
<1>1. \A s \in SUBSET D : Sums(f)[s] = Folded(f, Sums(f), s)  BY SumsExist
<1>2. ASSUME Bad # {}  PROVE FALSE
  <2>1. PICK n \in Bad : \A m \in Bad : n <= m
    <3>1. Bad \in SUBSET Nat  OBVIOUS
    <3> HIDE DEF Bad
    <3> QED  BY <1>2, <3>1, Least
  <2>2. PICK s \in SUBSET D : Cardinality(s) = n /\ ~In(s)  BY <2>1
  <2>3. IsFiniteSet(s)  BY FS_Subset
  <2>4. s # {}
    <3>1. s = {} => Sums(f)[s] = 0 /\ Cardinality(s) = 0
      BY <1>1, FS_EmptySet DEF Folded
    <3> QED  BY <2>2, <3>1
  <2> DEFINE x == Chosen(s)
             t == s \ {x}
  <2>5. x \in s  BY <2>4 DEF Chosen
  <2>6. t \in SUBSET D /\ Cardinality(t) = n - 1 /\ n \in Nat
    BY <2>1, <2>2, <2>3, <2>5, FS_RemoveElement
  <2>7. n - 1 \in Nat
    <3>1. IsFiniteSet(t)  BY <2>3, FS_Subset
    <3> QED  BY <2>6, <3>1, FS_CardinalityType
  <2>8. In(t)  BY <2>1, <2>6, <2>7
  <2>9. Sums(f)[s] = f[x] + Sums(f)[t]  BY <1>1, <2>4 DEF Folded
  <2>10. f[x] \in 0..20  BY <2>5
  <2> HIDE DEF t, x
  <2>11. Sums(f)[s] \in 0..(20 * n)  BY <2>6, <2>7, <2>8, <2>9, <2>10
  <2> QED  BY <2>2, <2>11
<1>3. In(D)
  <2>1. Cardinality(D) \in Nat  BY FS_CardinalityType
  <2> QED  BY <1>2, <2>1
<1> QED  BY <1>3, SumFunctionIsFold

\* The mean of n ratings, in tenths, is at most 10.0.
LEMMA TenthsBound ==
    ASSUME NEW n \in Nat, n # 0, NEW p \in 0..(20 * n)
    PROVE  Tenths(p, n) \in 0..100
<1> DEFINE q == (5 * p) \div n
           m == (5 * p) % n
<1>1. /\ q \in Int /\ m \in 0..(n - 1) /\ 5 * p = n * q + m
  OBVIOUS
<1>2. q >= 0
  <2>1. SUFFICES ASSUME q <= -1  PROVE FALSE  BY <1>1
  <2>2. n * q <= n * (-1)  BY <1>1, <2>1
  <2> QED  BY <1>1, <2>2
<1>3. q <= 100
  <2>1. SUFFICES ASSUME q >= 101  PROVE FALSE  BY <1>1
  <2>2. n * q >= n * 101  BY <1>1, <2>1
  <2> QED  BY <1>1, <2>2
<1>4. q = 100 => m = 0  BY <1>1
<1> HIDE DEF q, m
<1>5. CASE 2 * m > n \/ (2 * m = n /\ RoundsUp(2 * q + 1))
  <2>1. q # 100  BY <1>4, <1>5
  <2>2. q + 1 \in 0..100  BY <1>1, <1>2, <1>3, <2>1
  <2> QED  BY <1>5, <2>2 DEF Tenths, q, m
<1>6. CASE ~(2 * m > n \/ (2 * m = n /\ RoundsUp(2 * q + 1)))
  <2>1. q \in 0..100  BY <1>1, <1>2, <1>3
  <2> QED  BY <1>6, <2>1 DEF Tenths, q, m
<1> QED  BY <1>5, <1>6

\* A double that lies exactly between two tenths is a quarter, and goes to the even one.
LEMMA QuartersRoundToEven ==
    ASSUME NEW q \in Nat, NEW i \in Int, 2 * q + 1 = 5 * i
    PROVE  RoundsUp(2 * q + 1) <=> q % 2 = 1
<1> DEFINE k == 2 * q + 1
<1>1. TwoTo(k) \in {4, 8, 12, 16}  BY DEF TwoTo
<1>2. k \in Nat /\ k = 5 * i /\ (k % 4 = 3 <=> q % 2 = 1)  OBVIOUS
<1> HIDE DEF k
<1>3. (k * TwoTo(k)) % 20 = 0
  <2>1. CASE TwoTo(k) = 4
    <3>1. k * TwoTo(k) = 20 * i  BY <1>2, <2>1
    <3> QED  BY <3>1
  <2>2. CASE TwoTo(k) = 8
    <3>1. k * TwoTo(k) = 20 * (2 * i)  BY <1>2, <2>2
    <3> QED  BY <3>1
  <2>3. CASE TwoTo(k) = 12
    <3>1. k * TwoTo(k) = 20 * (3 * i)  BY <1>2, <2>3
    <3> QED  BY <3>1
  <2>4. CASE TwoTo(k) = 16
    <3>1. k * TwoTo(k) = 20 * (4 * i)  BY <1>2, <2>4
    <3> QED  BY <3>1
  <2> QED  BY <1>1, <2>1, <2>2, <2>3, <2>4
<1>4. RoundsUp(k) <=> k % 4 = 3  BY <1>3 DEF RoundsUp
<1> QED  BY <1>2, <1>4 DEF k

\* What model_post_init makes of the mean is a tenth nearest to it, although it rounds a
\* double: an inexact tie goes to either neighbour, and to nothing else.  A mean of whole
\* quarters, the tie that a double holds exactly, goes to the even tenth.
THEOREM AverageIsNearest ==
    ASSUME NEW n \in Nat, n # 0, NEW p \in Nat, NEW t, t = Tenths(p, n)
    PROVE  /\ t \in Nat
           /\ 2 * (n * t - 5 * p) <= n /\ 2 * (5 * p - n * t) <= n
           /\ \A i \in Nat :
                 2 * p = n * i /\ n \in {2 * (n * t - 5 * p), 2 * (5 * p - n * t)} => t % 2 = 0
<1> DEFINE q == (5 * p) \div n
           m == (5 * p) % n
<1>1. q \in Int /\ m \in 0..(n - 1) /\ 5 * p = n * q + m  OBVIOUS
<1>2. q >= 0
  <2>1. SUFFICES ASSUME q <= -1  PROVE FALSE  BY <1>1
  <2>2. n * q <= n * (-1)  BY <1>1, <2>1
  <2> QED  BY <1>1, <2>2
<1>3. t = IF 2 * m > n \/ (2 * m = n /\ RoundsUp(2 * q + 1)) THEN q + 1 ELSE q
  BY DEF Tenths
<1> HIDE DEF q, m
<1>4. ASSUME 2 * m = n, NEW i \in Nat, 2 * p = n * i
      PROVE  RoundsUp(2 * q + 1) <=> q % 2 = 1
  <2>1. n * (2 * q + 1) = 10 * p  BY <1>1, <1>4
  <2>2. n * (5 * i) = 10 * p
    <3>1. n * (5 * i) = 5 * (n * i)  OBVIOUS
    <3> QED  BY <1>4, <3>1
  <2>3. n * (2 * q + 1 - 5 * i) = 0
    <3>1. n * (2 * q + 1 - 5 * i) = n * (2 * q + 1) - n * (5 * i)  BY <1>1
    <3> QED  BY <2>1, <2>2, <3>1
  <2>4. 2 * q + 1 = 5 * i
    <3> DEFINE d == 2 * q + 1 - 5 * i
    <3>1. d \in Int  BY <1>1
    <3>2. n * d = 0 => d = 0  BY <3>1
    <3> QED  BY <1>1, <2>3, <3>2
  <2> QED  BY <1>1, <1>2, <2>4, QuartersRoundToEven
<1>5. CASE 2 * m > n \/ (2 * m = n /\ RoundsUp(2 * q + 1))
  <2>1. t = q + 1  BY <1>3, <1>5
  <2>2. n * t = n * q + n  BY <1>1, <2>1
  <2>3. n * t - 5 * p = n - m  BY <1>1, <2>2
  <2>4. ASSUME NEW i \in Nat, 2 * p = n * i, 2 * m = n  PROVE t % 2 = 0
    <3>1. q % 2 = 1  BY <1>1, <1>4, <1>5, <2>4
    <3> QED  BY <1>1, <2>1, <3>1
  <2> QED  BY <1>1, <1>2, <1>5, <2>1, <2>3, <2>4
<1>6. CASE ~(2 * m > n \/ (2 * m = n /\ RoundsUp(2 * q + 1)))
  <2>1. t = q  BY <1>3, <1>6
  <2>2. 5 * p - n * t = m  BY <1>1, <2>1
  <2>3. ASSUME NEW i \in Nat, 2 * p = n * i, 2 * m = n  PROVE t % 2 = 0
    <3>1. q % 2 # 1  BY <1>4, <1>6, <2>3
    <3> QED  BY <1>1, <2>1, <3>1
  <2> QED  BY <1>1, <1>2, <1>6, <2>1, <2>2, <2>3
<1> QED  BY <1>5, <1>6

LEMMA AggregateType ==
    ASSUME RInv, NEW f \in Films
    PROVE  Aggregate(f) \in Aggregates
<1> DEFINE p == [i \in Rated(f) |-> ratings[i].points]
           n == Cardinality(Rated(f))
<1>1. Rated(f) \in SUBSET Requests  BY DEF Rated
<1>2. IsFiniteSet(Rated(f)) /\ n \in 0..Cardinality(Requests)
  BY <1>1, RatingAssumption, FS_Subset, FS_CardinalityType
<1>3. DOMAIN p = Rated(f) /\ \A i \in DOMAIN p : p[i] \in 0..20
  BY HandleFacts, RatingAssumption DEF RInv, Rated, Row
<1> HIDE DEF p
<1>4. SumFunction(p) \in 0..(20 * n)  BY <1>2, <1>3, SumBound
<1>5. n \in Nat /\ (n # 0 => Tenths(SumFunction(p), n) \in 0..100)
  <2>1. n \in Nat  BY <1>2
  <2> QED  BY <1>4, <2>1, TenthsBound
<1>6. Aggregate(f) = [avg |-> IF n = 0 THEN 0 ELSE Tenths(SumFunction(p), n), count |-> n]
  BY <1>3 DEF Aggregate, AggregateOf, p
<1> QED  BY <1>2, <1>5, <1>6 DEF Aggregates

-----------------------------------------------------------------------------
(* Types. *)

\* What Shape does not say of the types.
Typed ==
    /\ cache \in [Films -> Aggregates \cup {Nil}]
    /\ seen \in [Requests -> Aggregates \cup {Nil}]
    /\ status \in [Requests -> {0, 200, 404, 500}]
    /\ audited \subseteq Requests /\ overtaken \subseteq Requests
    /\ tainted \subseteq Films

LEMMA TypedStep == RInv /\ Typed /\ [Next]_vars => Typed'
<1> SUFFICES ASSUME RInv, Typed, [Next]_vars  PROVE Typed'  OBVIOUS
<1> USE DEF Goto, Answer, Abort, db, redis, session
<1>0. \A r \in Requests : pc[r] # "idle" => job[r].film \in Films
  BY RatingAssumption DEF RInv, Calls, Job
<1>1. ASSUME NEW r \in Requests,
             Begin(r) \/ GetProfileOrRaise(r) \/ SelectRating(r) \/ Refresh(r)
      PROVE  Typed'
  BY <1>1 DEF Begin, GetProfileOrRaise, SelectRating, Refresh, Typed
<1>2. ASSUME NEW r \in Requests, FlushInsert(r) \/ FlushUpdate(r)  PROVE Typed'
  BY <1>2 DEF FlushInsert, FlushUpdate, Typed
<1>3. ASSUME NEW r \in Requests, Commit(r)  PROVE Typed'
  BY <1>3 DEF Commit, Typed
<1>4. ASSUME NEW r \in Requests, Invalidate(r)  PROVE Typed'
  BY <1>4 DEF Invalidate, Typed
<1>5. ASSUME NEW r \in Requests, LookUp(r)  PROVE Typed'
  <2>1. cache[job[r].film] \in Aggregates \cup {Nil}
    BY <1>0, <1>5 DEF LookUp, Typed
  <2> QED  BY <1>5, <2>1 DEF LookUp, Typed
<1>6. ASSUME NEW r \in Requests, SelectAggregate(r)  PROVE Typed'
  <2>1. Aggregate(job[r].film) \in Aggregates
    BY <1>0, <1>6, AggregateType DEF SelectAggregate
  <2> QED  BY <1>6, <2>1 DEF SelectAggregate, Typed
<1>7. ASSUME NEW r \in Requests, Fill(r)  PROVE Typed'
  BY <1>0, <1>7 DEF Fill, Typed
<1>8. ASSUME NEW r \in Requests, Fail(r)  PROVE Typed'
  BY <1>0, <1>8 DEF Fail, Typed
<1>9. ASSUME NEW f \in Films, Expire(f)  PROVE Typed'
  BY <1>9 DEF Expire, Typed
<1>10. CASE UNCHANGED vars  BY <1>10 DEF vars, Typed
<1> QED
  BY <1>1, <1>2, <1>3, <1>4, <1>5, <1>6, <1>7, <1>8, <1>9, <1>10 DEF Next, Step, Finished

\* TypeOK of RatingCache: what is served or stored is an average between 0.0 and 10.0
\* of no more ratings than there are requests.
THEOREM TypeCorrect == Spec => []TypeOK
<1>1. Init => RInv /\ Typed  BY RatingInit DEF Init, Typed
<1>2. RInv /\ Typed /\ [Next]_vars => RInv' /\ Typed'  BY RatingStep, TypedStep
<1>3. RInv /\ Typed => TypeOK  BY DEF RInv, Shape, Typed, TypeOK
<1> QED  BY <1>1, <1>2, <1>3, PTL DEF Spec

-----------------------------------------------------------------------------
(* Ratings are atomic. *)

\* Two functions on S that agree on it are equal.
LEMMA SameFunction ==
    ASSUME NEW S, NEW f, NEW g, f = [x \in S |-> f[x]], g = [x \in S |-> g[x]],
           \A x \in S : g[x] = f[x]
    PROVE  g = f
<1>1. [x \in S |-> g[x]] = [x \in S |-> f[x]]  OBVIOUS
<1> QED  BY <1>1

\* A function that differs from f at k alone is f with another value at k.
LEMMA OneChange ==
    ASSUME NEW S, NEW f, NEW g, NEW k \in S, f = [x \in S |-> f[x]], g = [x \in S |-> g[x]],
           \A x \in S \ {k} : g[x] = f[x]
    PROVE  g = [f EXCEPT ![k] = g[k]]
<1>1. [x \in S |-> g[x]] = [f EXCEPT ![k] = g[k]]  OBVIOUS
<1> QED  BY <1>1

\* What a request must have loaded to be where it is; a put_rating that has nothing to
\* write has read the value it was sent.
WInv ==
    \A r \in Requests :
        /\ pc[r] = "idle" => job[r] = Nil
        /\ pc[r] # "done" => status[r] = 0
        /\ pc[r] \in {"lookup", "aggregate", "fill"} => job[r].op = "aggregate"
        /\ orm[r] # Nil => job[r].op \in {"put", "get"}
        /\ pc[r] \in {"refresh", "invalidate"} => r \in audited /\ job[r].op = "put"
        /\ pc[r] = "commit" /\ pending[r] = Nil /\ job[r].op = "put" =>
              orm[r].row.points = job[r].points

LEMMA RegisterInit == Init => WInv /\ Register!Init
<1> SUFFICES ASSUME Init  PROVE WInv /\ Register!Init  OBVIOUS
<1>1. WInv  BY DEF Init, WInv
<1>2. \A e : StoredUnder(e) = {}  BY DEF Init, StoredUnder
<1>3. RegValue = [e \in Profiles \X Films |-> Nil]  BY <1>2 DEF RegValue
<1>4. RegCall = [r \in Requests |-> Nil]  BY DEF Init, RegCall, Rates
<1>5. RegFound = [r \in Requests |-> Nil]  BY DEF Init, RegFound
<1>6. RegReply = [r \in Requests |-> 0]  BY DEF Init, RegReply, Rates
<1> QED  BY <1>1, <1>3, <1>4, <1>5, <1>6 DEF Init, Register!Init

\* Steps that leave everybody else alone.
LEMMA LoadedFrame ==
    ASSUME WInv, NEW r \in Requests,
           \A q \in Requests \ {r} :
              /\ pc'[q] = pc[q] /\ job'[q] = job[q] /\ status'[q] = status[q]
              /\ orm'[q] = orm[q] /\ pending'[q] = pending[q],
           audited \subseteq audited',
           pc'[r] = "idle" => job'[r] = Nil,
           pc'[r] # "done" => status'[r] = 0,
           pc'[r] \in {"lookup", "aggregate", "fill"} => job'[r].op = "aggregate",
           orm'[r] # Nil => job'[r].op \in {"put", "get"},
           pc'[r] \in {"refresh", "invalidate"} => r \in audited' /\ job'[r].op = "put",
           pc'[r] = "commit" /\ pending'[r] = Nil /\ job'[r].op = "put" =>
              orm'[r].row.points = job'[r].points
    PROVE  WInv'
<1> SUFFICES ASSUME NEW q \in Requests
             PROVE  /\ pc'[q] = "idle" => job'[q] = Nil
                    /\ pc'[q] # "done" => status'[q] = 0
                    /\ pc'[q] \in {"lookup", "aggregate", "fill"} => job'[q].op = "aggregate"
                    /\ orm'[q] # Nil => job'[q].op \in {"put", "get"}
                    /\ pc'[q] \in {"refresh", "invalidate"} => q \in audited' /\ job'[q].op = "put"
                    /\ pc'[q] = "commit" /\ pending'[q] = Nil /\ job'[q].op = "put" =>
                          orm'[q].row.points = job'[q].points
  BY DEF WInv
<1>1. CASE q = r  BY <1>1
<1>2. CASE q # r  BY <1>2 DEF WInv
<1> QED  BY <1>1, <1>2

\* A step of r changes nothing of the others.
LEMMA OneMoves ==
    ASSUME Shape, Typed, NEW r \in Requests, Begin(r) \/ Step(r) \/ Fail(r)
    PROVE  \A q \in Requests \ {r} :
              /\ pc'[q] = pc[q] /\ job'[q] = job[q] /\ status'[q] = status[q]
              /\ orm'[q] = orm[q] /\ pending'[q] = pending[q]
<1> USE DEF Goto, Answer, Abort, db, redis, session, Shape, Typed
<1>1. CASE Begin(r)  BY <1>1 DEF Begin
<1>2. CASE GetProfileOrRaise(r) \/ SelectRating(r)
  BY <1>2 DEF GetProfileOrRaise, SelectRating
<1>3. CASE FlushInsert(r)  BY <1>3 DEF FlushInsert
<1>4. CASE FlushUpdate(r)  BY <1>4 DEF FlushUpdate
<1>5. CASE Commit(r) \/ Refresh(r) \/ Invalidate(r)  BY <1>5 DEF Commit, Refresh, Invalidate
<1>6. CASE LookUp(r) \/ SelectAggregate(r) \/ Fill(r)  BY <1>6 DEF LookUp, SelectAggregate, Fill
<1>7. CASE Fail(r)  BY <1>7 DEF Fail
<1> QED  BY <1>1, <1>2, <1>3, <1>4, <1>5, <1>6, <1>7 DEF Step

LEMMA LoadedStep == RInv /\ AInv /\ Typed /\ WInv /\ [Next]_vars => WInv'
<1> SUFFICES ASSUME RInv, AInv, Typed, WInv, [Next]_vars  PROVE WInv'  OBVIOUS
<1>1. CASE UNCHANGED <<pc, job, status, orm, pending, audited>>  BY <1>1 DEF WInv
<1>2. ASSUME NEW r \in Requests, Begin(r) \/ Step(r) \/ Fail(r)  PROVE WInv'
  <2> DEFINE Good ==
        /\ audited \subseteq audited'
        /\ pc'[r] = "idle" => job'[r] = Nil
        /\ pc'[r] # "done" => status'[r] = 0
        /\ pc'[r] \in {"lookup", "aggregate", "fill"} => job'[r].op = "aggregate"
        /\ orm'[r] # Nil => job'[r].op \in {"put", "get"}
        /\ pc'[r] \in {"refresh", "invalidate"} => r \in audited' /\ job'[r].op = "put"
        /\ pc'[r] = "commit" /\ pending'[r] = Nil /\ job'[r].op = "put" =>
              orm'[r].row.points = job'[r].points
  <2>0. Shape /\ Calls /\ Sessions  BY DEF RInv
  <2> USE DEF Goto, Answer, Abort, db, redis, session, Shape, Typed, WInv
  <2> SUFFICES Good  BY <1>2, <2>0, OneMoves, LoadedFrame
  <2>1. CASE Begin(r)  BY <2>0, <2>1 DEF Begin, Sessions
  <2>2. CASE GetProfileOrRaise(r)  BY <2>0, <2>2 DEF GetProfileOrRaise, Calls
  <2>3. CASE SelectRating(r)  BY <2>0, <2>3 DEF SelectRating, Calls
  <2>4. CASE FlushInsert(r)
    <3> DEFINE new == [id |-> r, row |-> NewRating(r)]
    <3>1. new.row.points = job[r].points /\ new \in Handle /\ new # Nil
      <4>1. NewRating(r) \in Row  BY <2>4, NewRatingType DEF FlushInsert
      <4>2. new \in Handle  BY <4>1 DEF Handle
      <4> QED  BY <4>2, RatingAssumption DEF NewRating
    <3> HIDE DEF new
    <3>2. \/ Abort(r) /\ UNCHANGED <<orm, job, audited>>
          \/ /\ orm' = [orm EXCEPT ![r] = new] /\ pending' = [pending EXCEPT ![r] = new]
             /\ Goto(r, "commit") /\ UNCHANGED <<job, audited>>
      BY <2>4 DEF FlushInsert, new
    <3> QED  BY <2>0, <2>4, <3>1, <3>2 DEF FlushInsert, Calls
  <2>5. CASE FlushUpdate(r)
    <3> DEFINE new == [orm[r] EXCEPT !.row.points = job[r].points]
    <3>1. new.row.points = job[r].points /\ new \in Handle /\ new # Nil
      BY <2>0, <2>5, HandleFacts, NewRatingType, RatingAssumption DEF FlushUpdate, Handle, Row
    <3> HIDE DEF new
    <3>2. /\ pc[r] = "flush" /\ Goto(r, "commit") /\ UNCHANGED <<job, audited>>
          /\ \/ new = orm[r] /\ UNCHANGED session
             \/ /\ orm' = [orm EXCEPT ![r] = new] /\ pending' = [pending EXCEPT ![r] = new]
      BY <2>5 DEF FlushUpdate, new
    <3> QED  BY <2>0, <3>1, <3>2 DEF Calls
  <2>6. CASE Commit(r)  BY <2>0, <2>6 DEF Commit, Sessions
  <2>7. CASE Refresh(r) \/ Invalidate(r)  BY <2>0, <2>7 DEF Refresh, Invalidate, Sessions
  <2>8. CASE LookUp(r) \/ SelectAggregate(r) \/ Fill(r)
    BY <2>0, <2>8 DEF LookUp, SelectAggregate, Fill
  <2>9. CASE Fail(r)  BY <2>0, <2>9 DEF Fail
  <2> QED  BY <1>2, <2>1, <2>2, <2>3, <2>4, <2>5, <2>6, <2>7, <2>8, <2>9 DEF Step
<1> QED  BY <1>1, <1>2 DEF Next, Expire, Finished, vars, db, session

\* The register of an entry is the one row there is for it.
LEMMA RegisterOfRow ==
    ASSUME RInv, OneRating, NEW i \in Requests, ratings[i] # Nil
    PROVE  /\ Entry(ratings[i]) \in Profiles \X Films
           /\ RegValue[Entry(ratings[i])] = ratings[i].points /\ ratings[i].points # Nil
<1>1. ratings[i] \in Row  BY HandleFacts DEF RInv
<1>2. Entry(ratings[i]) \in Profiles \X Films /\ ratings[i].points # Nil
  BY <1>1, RatingAssumption DEF Row, Entry
<1>3. StoredUnder(Entry(ratings[i])) = {i}  BY DEF StoredUnder, OneRating
<1> QED  BY <1>2, <1>3 DEF RegValue

\* Which registers and calls of the others a step of r leaves alone: all but its own.
LEMMA RegisterFrame ==
    ASSUME NEW r \in Requests,
           \A q \in Requests \ {r} :
              /\ job'[q] = job[q] /\ status'[q] = status[q]
              /\ orm'[q] = orm[q] /\ pending'[q] = pending[q]
    PROVE  /\ RegCall' = [RegCall EXCEPT ![r] = RegCall'[r]]
           /\ RegFound' = [RegFound EXCEPT ![r] = RegFound'[r]]
           /\ RegReply' = [RegReply EXCEPT ![r] = RegReply'[r]]
           /\ RegCall'[r] = RegCall[r] => RegCall' = RegCall
           /\ RegFound'[r] = RegFound[r] => RegFound' = RegFound
           /\ RegReply'[r] = RegReply[r] => RegReply' = RegReply
<1>1. \A q \in Requests \ {r} :
         RegCall'[q] = RegCall[q] /\ RegFound'[q] = RegFound[q] /\ RegReply'[q] = RegReply[q]
  BY DEF RegCall, RegFound, RegReply, Rates, Entry
<1>2. /\ RegCall = [q \in Requests |-> RegCall[q]] /\ RegCall' = [q \in Requests |-> RegCall'[q]]
      /\ RegFound = [q \in Requests |-> RegFound[q]] /\ RegFound' = [q \in Requests |-> RegFound'[q]]
      /\ RegReply = [q \in Requests |-> RegReply[q]] /\ RegReply' = [q \in Requests |-> RegReply'[q]]
  BY DEF RegCall, RegFound, RegReply
<1>3. \A f, g : /\ f = [q \in Requests |-> f[q]] /\ g = [q \in Requests |-> g[q]]
                /\ \A q \in Requests \ {r} : g[q] = f[q]
                => /\ g = [f EXCEPT ![r] = g[r]]
                   /\ g[r] = f[r] => g = f
  <2> SUFFICES ASSUME NEW f, NEW g,
                      f = [q \in Requests |-> f[q]], g = [q \in Requests |-> g[q]],
                      \A q \in Requests \ {r} : g[q] = f[q]
               PROVE  g = [f EXCEPT ![r] = g[r]] /\ (g[r] = f[r] => g = f)
    OBVIOUS
  <2>1. g = [f EXCEPT ![r] = g[r]]  BY OneChange
  <2>2. ASSUME g[r] = f[r]  PROVE g = f
    <3>1. \A q \in Requests : g[q] = f[q]  BY <2>2
    <3> QED  BY <3>1, SameFunction
  <2> QED  BY <2>1, <2>2
<1> QED  BY <1>1, <1>2, <1>3

LEMMA ValueKept == UNCHANGED ratings => RegValue' = RegValue
BY DEF RegValue, StoredUnder

LEMMA CallFacts ==
    ASSUME RInv, AInv, Typed, WInv, NEW r \in Requests
    PROVE  /\ Rates(r) /\ pc[r] # "idle" => RegCall[r] \in RegCalls /\ RegCall[r] # Nil
           /\ ~Rates(r) => RegCall[r] = Nil
           /\ orm[r] # Nil => Rates(r) /\ orm[r].row.points # Nil
           /\ pc[r] # "done" => RegReply[r] = 0
<1>1. ASSUME Rates(r), pc[r] # "idle"  PROVE RegCall[r] \in RegCalls /\ RegCall[r] # Nil
  <2>1. job[r] \in Job /\ (job[r].op = "put" => job[r].points # Nil)
    BY <1>1, RatingAssumption DEF RInv, Calls
  <2>2. Entry(job[r]) \in Profiles \X Films  BY <1>1, <2>1 DEF Rates, Job, Entry
  <2>3. RegCall[r] = [key |-> Entry(job[r]),
                      put |-> IF job[r].op = "put" THEN job[r].points ELSE Nil]
    BY <1>1 DEF RegCall
  <2>4. RegCall[r] \in RegCalls  BY <2>1, <2>2, <2>3 DEF RegCalls, Job
  <2> QED  BY <2>4, RatingAssumption
<1>2. ASSUME orm[r] # Nil  PROVE Rates(r) /\ orm[r].row.points # Nil
  <2>1. orm[r].row \in Row  BY <1>2, HandleFacts DEF RInv
  <2>2. pc[r] # "idle" /\ Entry(orm[r].row) = Entry(job[r])  BY <1>2 DEF RInv, Sessions
  <2>3. job[r] \in Job  BY <2>2, RatingAssumption DEF RInv, Calls
  <2> QED  BY <1>2, <2>1, <2>2, <2>3, RatingAssumption DEF Row, Entry, Rates, WInv
<1> QED  BY <1>1, <1>2 DEF RegCall, RegReply, WInv

\* The strengthening the refinement needs.
RegInv == RInv /\ AInv /\ UInv /\ Typed /\ WInv

\* A step of r that is nothing to the register but, perhaps, that r forgets.
LEMMA ForgetStep ==
    ASSUME RegInv, NEW r \in Requests, Begin(r) \/ Step(r) \/ Fail(r),
           pc[r] # "idle", UNCHANGED <<ratings, audited, job>>,
           status[r] = 0,
           RegReply'[r] = 0, RegFound'[r] \in {RegFound[r], Nil}
    PROVE  Register!Forget(r) \/ UNCHANGED Register!vars
<1>0. RegReply[r] = 0  BY DEF RegReply
<1>1. RegValue' = RegValue  BY ValueKept
<1>2. RegCall' = RegCall  BY DEF RegCall, Rates, Entry
<1>3. /\ RegFound' = [RegFound EXCEPT ![r] = RegFound'[r]]
      /\ RegFound'[r] = RegFound[r] => RegFound' = RegFound
      /\ RegReply' = RegReply
  BY <1>0, OneMoves, RegisterFrame DEF RegInv, RInv
<1>4. CASE RegFound'[r] = RegFound[r]
  BY <1>1, <1>2, <1>3, <1>4 DEF Register!vars
<1>5. CASE RegFound'[r] = Nil /\ RegFound[r] # Nil
  <2>1. orm[r] # Nil  BY <1>5 DEF RegFound
  <2>2. RegCall[r] # Nil  BY <2>1, CallFacts DEF RegInv
  <2> QED  BY <1>0, <1>1, <1>2, <1>3, <1>5, <2>2 DEF Register!Forget, Register!Waits
<1> QED  BY <1>4, <1>5

\* A step of r that finds the rating of its entry.
LEMMA ReadStep ==
    ASSUME RegInv, NEW r \in Requests, Step(r), UNCHANGED <<ratings, audited, job, status>>,
           pc[r] \notin {"idle", "done"}, Rates(r),
           NEW i \in Requests, ratings[i] # Nil, Entry(ratings[i]) = Entry(job[r]),
           RegFound'[r] = ratings[i].points
    PROVE  Register!Read(r)
<1>1. RegValue' = RegValue  BY ValueKept
<1>2. RegCall' = RegCall /\ RegReply' = RegReply
  BY DEF RegCall, RegReply, Rates, Entry
<1>3. RegFound' = [RegFound EXCEPT ![r] = RegFound'[r]]
  BY OneMoves, RegisterFrame DEF RegInv, RInv
<1>4. RegCall[r] # Nil /\ RegReply[r] = 0  BY CallFacts DEF RegInv
<1>5. RegCall[r].key = Entry(job[r])  BY DEF RegCall
<1>6. RegValue[Entry(job[r])] = ratings[i].points /\ ratings[i].points # Nil
  BY RegisterOfRow DEF RegInv, UInv
<1> QED  BY <1>1, <1>2, <1>3, <1>4, <1>5, <1>6 DEF Register!Read, Register!Waits

LEMMA AskStep ==
    ASSUME RegInv, RegInv', NEW r \in Requests, Begin(r)
    PROVE  Register!Ask(r) \/ UNCHANGED Register!vars
<1>1. /\ pc[r] = "idle" /\ pc'[r] # "idle" /\ job[r] = Nil /\ status[r] = 0
      /\ UNCHANGED <<ratings, audited, orm, pending, status>>
  BY DEF Begin, Goto, db, session, RegInv, RInv, Shape, WInv
<1>2. RegValue' = RegValue /\ RegFound' = RegFound  BY <1>1, ValueKept DEF RegFound
<1>3. RegReply[r] = 0 /\ RegReply'[r] = 0  BY <1>1 DEF RegReply
<1>4. /\ RegCall' = [RegCall EXCEPT ![r] = RegCall'[r]]
      /\ RegCall'[r] = RegCall[r] => RegCall' = RegCall
      /\ RegReply' = RegReply
  BY <1>3, OneMoves, RegisterFrame DEF RegInv, RInv
<1>5. RegCall[r] = Nil  BY <1>1 DEF RegCall, Rates
<1>6. RegCall'[r] = Nil \/ RegCall'[r] \in RegCalls
  <2>1. CASE Rates(r)'
    <3>1. job'[r] \in Job /\ (job'[r].op = "put" => job'[r].points # Nil)
      BY <1>1, RatingAssumption DEF RegInv, RInv, Calls
    <3>2. Entry(job'[r]) \in Profiles \X Films  BY <2>1, <3>1 DEF Rates, Job, Entry
    <3>3. RegCall'[r] = [key |-> Entry(job'[r]),
                         put |-> IF job'[r].op = "put" THEN job'[r].points ELSE Nil]
      BY <2>1 DEF RegCall, Entry
    <3> QED  BY <3>1, <3>2, <3>3 DEF RegCalls, Job
  <2>2. CASE ~Rates(r)'  BY <2>2 DEF RegCall
  <2> QED  BY <2>1, <2>2
<1> QED
  BY <1>1, <1>2, <1>4, <1>5, <1>6 DEF Register!Ask, Register!Call, Register!vars, RegCalls

LEMMA SelectStep ==
    ASSUME RegInv, NEW r \in Requests, SelectRating(r)
    PROVE  Register!Read(r) \/ Register!Miss(r) \/ UNCHANGED Register!vars
<1> USE DEF Goto, Answer, db, redis
<1>1. /\ pc[r] = "select" /\ status[r] = 0 /\ pending[r] = Nil /\ Rates(r)
      /\ r \notin audited
      /\ UNCHANGED <<ratings, audited, job, pending>> /\ Step(r)
  <2>1. pc[r] = "select" /\ UNCHANGED <<ratings, audited, job, pending>> /\ Step(r)
    BY DEF SelectRating, Step
  <2>2. job[r] \in Job /\ job[r].profile # Nil /\ job[r].op \in {"put", "get"}
    BY <2>1, RatingAssumption DEF RegInv, RInv, Calls
  <2> QED
    BY <2>1, <2>2, RatingAssumption DEF RegInv, RInv, Sessions, AInv, WInv, Rates
<1>2. ASSUME NEW i \in Found(r),
             orm' = [orm EXCEPT ![r] = [id |-> i, row |-> ratings[i]]], UNCHANGED status
      PROVE  Register!Read(r)
  <2>1. i \in Requests /\ ratings[i] # Nil /\ Entry(ratings[i]) = Entry(job[r])
    BY DEF Found
  <2>2. [id |-> i, row |-> ratings[i]] # Nil
    <3>1. [id |-> i, row |-> ratings[i]] \in Handle
      BY <2>1, HandleFacts DEF RegInv, RInv, Handle
    <3> QED  BY <3>1, RatingAssumption
  <2>3. orm'[r] = [id |-> i, row |-> ratings[i]]  BY <1>2 DEF RegInv, RInv, Shape
  <2>4. RegFound'[r] = ratings[i].points  BY <1>1, <1>2, <2>2, <2>3 DEF RegFound
  <2> QED  BY <1>1, <1>2, <2>1, <2>4, ReadStep
<1>3. ASSUME Found(r) = {}, UNCHANGED orm, job[r].op = "get", Answer(r, 404)
      PROVE  Register!Miss(r)
  <2>1. RegValue' = RegValue /\ RegCall' = RegCall
    BY <1>1, ValueKept DEF RegCall, Rates, Entry
  <2>2. status'[r] = 404 /\ \A q \in Requests \ {r} : status'[q] = status[q]
    BY <1>3 DEF RegInv, Typed
  <2>3. RegFound' = RegFound
    <3>1. \A q \in Requests : (status'[q] # 500) = (status[q] # 500)  BY <1>1, <2>2
    <3> QED  BY <1>1, <1>3, <3>1 DEF RegFound
  <2>4. RegReply' = [RegReply EXCEPT ![r] = 404]
    <3>1. RegReply'[r] = 404  BY <1>1, <2>2 DEF RegReply, Rates
    <3>2. RegReply' = [RegReply EXCEPT ![r] = RegReply'[r]]
      BY <1>1, OneMoves, RegisterFrame DEF RegInv, RInv
    <3> QED  BY <3>1, <3>2
  <2>5. RegCall[r] # Nil /\ RegReply[r] = 0  BY <1>1, CallFacts DEF RegInv
  <2>6. RegCall[r].key = Entry(job[r]) /\ RegCall[r].put = Nil  BY <1>1, <1>3 DEF RegCall
  <2>7. Entry(job[r]) \in Profiles \X Films
    <3>1. RegCall[r] \in RegCalls  BY <1>1, CallFacts DEF RegInv
    <3> QED  BY <2>6, <3>1 DEF RegCalls
  <2>8. RegValue[Entry(job[r])] = Nil
    <3>1. StoredUnder(Entry(job[r])) = {}  BY <1>3 DEF Found, StoredUnder
    <3> QED  BY <2>7, <3>1 DEF RegValue
  <2> QED
    BY <1>1, <2>1, <2>3, <2>4, <2>5, <2>6, <2>8 DEF Register!Miss, Register!Waits
<1>4. ASSUME UNCHANGED <<orm, status>>  PROVE UNCHANGED Register!vars
  BY <1>1, <1>4, ValueKept DEF Register!vars, RegCall, RegFound, RegReply, Rates, Entry
<1> QED  BY <1>2, <1>3, <1>4 DEF SelectRating

LEMMA CommitStep ==
    ASSUME RegInv, RegInv', NEW r \in Requests, Commit(r)
    PROVE  Register!Write(r) \/ Register!Keep(r)
<1>1. /\ pc[r] = "commit" /\ status[r] = 0 /\ r \notin audited /\ orm[r] # Nil /\ Rates(r)
      /\ job[r].op \in {"put", "get"} /\ orm[r].row.points # Nil
      /\ RegCall[r] # Nil /\ RegReply[r] = 0
      /\ audited' = audited \cup {r} /\ UNCHANGED <<job, orm>>
      /\ pending'[r] = Nil
      /\ Step(r)
  <2>1. /\ pc[r] = "commit" /\ UNCHANGED <<job, orm>> /\ audited' = audited \cup {r} /\ Step(r)
        /\ pending'[r] = Nil
    BY DEF Commit, Step, RegInv, RInv, Shape
  <2>2. orm[r] # Nil  BY <2>1 DEF RegInv, RInv, Sessions
  <2> QED  BY <2>1, <2>2, CallFacts DEF RegInv, AInv, WInv
<1>2. RegCall' = RegCall  BY <1>1 DEF RegCall, Rates, Entry
<1>3. /\ RegFound' = [RegFound EXCEPT ![r] = RegFound'[r]]
      /\ RegFound'[r] = RegFound[r] => RegFound' = RegFound
      /\ RegReply' = [RegReply EXCEPT ![r] = RegReply'[r]]
      /\ RegReply'[r] = RegReply[r] => RegReply' = RegReply
  BY <1>1, OneMoves, RegisterFrame DEF RegInv, RInv
<1>4. status'[r] = IF job[r].op = "get" THEN 200 ELSE 0
  BY <1>1 DEF Commit, Goto, Answer, RegInv, Typed
<1>5. RegFound'[r] = orm[r].row.points  BY <1>1, <1>4 DEF RegFound
<1>6. RegReply'[r] = IF job[r].op = "get" THEN 200 ELSE 0
  BY <1>1, <1>4 DEF RegReply, Rates
<1>7. /\ RegCall[r].key = Entry(job[r])
      /\ RegCall[r].put = IF job[r].op = "put" THEN job[r].points ELSE Nil
  BY <1>1 DEF RegCall
<1>8. CASE pending[r] = Nil
  <2>1. RegValue' = RegValue  BY <1>8, ValueKept DEF Commit
  <2>2. RegFound[r] = orm[r].row.points  BY <1>1, <1>8 DEF RegFound
  <2>3. RegCall[r].put \in {Nil, RegFound[r]}
    BY <1>1, <1>7, <1>8, <2>2 DEF RegInv, WInv
  <2> QED
    BY <1>1, <1>2, <1>3, <1>5, <1>6, <1>7, <2>1, <2>2, <2>3 DEF Register!Keep, Register!Waits
<1>9. CASE pending[r] # Nil
  <2> DEFINE e == Entry(job[r])
             i == orm[r].id
             v == job[r].points
  <2>1. /\ pending[r] = orm[r] /\ i \in Requests /\ orm[r].row \in Row
        /\ Entry(orm[r].row) = e /\ orm[r].row.points = v /\ job[r].op = "put"
        /\ ratings[i] # Nil => Entry(ratings[i]) = e
    BY <1>1, <1>9, HandleFacts DEF RegInv, RInv, Sessions, Rows, AInv
  <2>2. ratings' = [ratings EXCEPT ![i] = orm[r].row]  BY <1>9, <2>1 DEF Commit
  <2>3. ratings'[i] = orm[r].row /\ \A k \in Requests \ {i} : ratings'[k] = ratings[k]
    BY <2>1, <2>2 DEF RegInv, RInv, Shape
  <2>4. e \in Profiles \X Films /\ v # Nil  BY <1>1, <2>1 DEF Row, Entry
  <2> HIDE DEF e, i, v
  <2>5. ratings'[i] # Nil  BY <2>1, <2>3, RatingAssumption
  <2>6. ASSUME NEW d, d = e  PROVE StoredUnder(d)' = {i}
    <3>1. \A k \in Requests \ {i} : ratings'[k] # Nil => Entry(ratings'[k]) # e
      <4>1. OneRating'  BY DEF RegInv, UInv
      <4>2. Entry(ratings'[i]) = e  BY <2>1, <2>3
      <4> QED  BY <2>1, <2>5, <4>1, <4>2 DEF OneRating, Entry
    <3> QED  BY <2>1, <2>3, <2>5, <2>6, <3>1 DEF StoredUnder, Entry
  <2>7. RegValue'[e] = v
    <3>1. ASSUME NEW d, d = e  PROVE RegValue'[d] = v
      BY <2>1, <2>3, <2>4, <2>6, <3>1 DEF RegValue
    <3> QED  BY <3>1
  <2>8. ASSUME NEW d \in (Profiles \X Films) \ {e}  PROVE RegValue'[d] = RegValue[d]
    <3>1. \A k \in Requests : k \in StoredUnder(d)' <=> k \in StoredUnder(d)
      BY <2>1, <2>3 DEF StoredUnder, Entry
    <3>2. StoredUnder(d)' = StoredUnder(d)  BY <3>1 DEF StoredUnder
    <3>3. \A k \in StoredUnder(d) : ratings'[k] = ratings[k]
      BY <2>1, <2>3 DEF StoredUnder
    <3>4. StoredUnder(d) # {} => (CHOOSE k \in StoredUnder(d) : TRUE) \in StoredUnder(d)
      OBVIOUS
    <3> QED  BY <3>2, <3>3, <3>4 DEF RegValue
  <2>9. RegValue' = [RegValue EXCEPT ![e] = v]
    <3>1. /\ RegValue = [d \in Profiles \X Films |-> RegValue[d]]
          /\ RegValue' = [d \in Profiles \X Films |-> RegValue'[d]]
      BY DEF RegValue
    <3>2. RegValue' = [RegValue EXCEPT ![e] = RegValue'[e]]
      BY <2>4, <2>8, <3>1, OneChange
    <3> QED  BY <2>7, <3>2
  <2>10. RegCall[r].put = v /\ RegCall[r].key = e  BY <1>7, <2>1 DEF e, v
  <2> QED
    BY <1>1, <1>2, <1>3, <1>5, <1>6, <2>1, <2>4, <2>9, <2>10
       DEF Register!Write, Register!Waits
<1> QED  BY <1>8, <1>9

LEMMA TellStep ==
    ASSUME RegInv, NEW r \in Requests, Invalidate(r)
    PROVE  Register!Tell(r)
<1>1. /\ pc[r] = "invalidate" /\ r \in audited /\ orm[r] # Nil /\ pending[r] = Nil
      /\ status[r] = 0 /\ status'[r] = 200 /\ Step(r)
      /\ UNCHANGED <<ratings, audited, job, orm, pending>>
  BY DEF Invalidate, Answer, Step, db, session, RegInv, RInv, Sessions, WInv, Typed
<1>2. Rates(r) /\ orm[r].row.points # Nil /\ RegCall[r] # Nil /\ RegReply[r] = 0
  BY <1>1, CallFacts DEF RegInv
<1>3. RegValue' = RegValue /\ RegCall' = RegCall
  BY <1>1, ValueKept DEF RegCall, Rates, Entry
<1>4. RegFound[r] = orm[r].row.points /\ RegFound'[r] = orm[r].row.points
  BY <1>1 DEF RegFound
<1>5. RegReply'[r] = 200  BY <1>1, <1>2 DEF RegReply, Rates
<1>6. RegFound' = RegFound /\ RegReply' = [RegReply EXCEPT ![r] = 200]
  BY <1>1, <1>4, <1>5, OneMoves, RegisterFrame DEF RegInv, RInv
<1> QED  BY <1>1, <1>2, <1>3, <1>4, <1>6 DEF Register!Tell, Register!Waits

LEMMA RegisterStep == RegInv /\ RegInv' /\ [Next]_vars => [Register!Next]_Register!vars
<1> SUFFICES ASSUME RegInv, RegInv', [Next]_vars
             PROVE  (\E r \in Requests :
                        \/ Register!Ask(r) \/ Register!Read(r) \/ Register!Forget(r)
                        \/ Register!Write(r) \/ Register!Keep(r) \/ Register!Tell(r)
                        \/ Register!Miss(r))
                    \/ UNCHANGED Register!vars
  BY DEF Register!Next
<1>0. Shape /\ Typed  BY DEF RegInv, RInv
<1> USE DEF Goto, Answer, Abort, db, redis, session
<1>1. CASE UNCHANGED <<ratings, audited, job, orm, pending, status>>
  BY <1>1, ValueKept DEF Register!vars, RegCall, RegFound, RegReply, Rates, Entry
<1>2. ASSUME NEW r \in Requests, Begin(r)  PROVE Register!Ask(r) \/ UNCHANGED Register!vars
  BY <1>2, AskStep
<1>3. ASSUME NEW r \in Requests,
             \/ GetProfileOrRaise(r) \/ FlushInsert(r) \/ FlushUpdate(r)
             \/ LookUp(r) \/ SelectAggregate(r) \/ Fill(r) \/ Fail(r)
      PROVE  Register!Forget(r) \/ UNCHANGED Register!vars
  <2>1. pc[r] \notin {"idle", "done"} /\ UNCHANGED <<ratings, audited, job>>
    BY <1>3
       DEF GetProfileOrRaise, FlushInsert, FlushUpdate, LookUp, SelectAggregate, Fill, Fail
  <2>2. status[r] = 0  BY <2>1 DEF RegInv, WInv
  <2>3. RegReply'[r] = 0
    <3>1. CASE status'[r] \in {0, 500}  BY <3>1 DEF RegReply
    <3>2. CASE status'[r] \notin {0, 500}
      <4>1. job[r].profile = Nil \/ job[r].op = "aggregate"
        <5>1. CASE GetProfileOrRaise(r)  BY <1>0, <2>2, <3>2, <5>1 DEF GetProfileOrRaise, Typed
        <5>2. CASE FlushInsert(r) \/ FlushUpdate(r) \/ Fail(r)
          BY <1>0, <2>2, <3>2, <5>2 DEF FlushInsert, FlushUpdate, Fail, Typed
        <5>3. CASE LookUp(r) \/ SelectAggregate(r) \/ Fill(r)
          BY <5>3 DEF LookUp, SelectAggregate, Fill, RegInv, WInv
        <5> QED  BY <1>3, <5>1, <5>2, <5>3
      <4> QED  BY <2>1, <4>1 DEF RegReply, Rates
    <3> QED  BY <3>1, <3>2
  <2>4. RegFound'[r] \in {RegFound[r], Nil}
    <3>1. CASE status'[r] = 500 \/ pending'[r] # Nil  BY <3>1 DEF RegFound
    <3>2. CASE status'[r] # 500 /\ pending'[r] = Nil
      <4>1. orm'[r] = orm[r] /\ pending[r] = Nil
        <5>1. CASE GetProfileOrRaise(r) \/ LookUp(r) \/ SelectAggregate(r) \/ Fill(r)
          BY <3>2, <5>1 DEF GetProfileOrRaise, LookUp, SelectAggregate, Fill
        <5>2. CASE FlushInsert(r)
          <6>1. [id |-> r, row |-> NewRating(r)] # Nil
            <7>1. NewRating(r) \in Row  BY <5>2, NewRatingType DEF FlushInsert, RegInv
            <7>2. [id |-> r, row |-> NewRating(r)] \in Handle  BY <7>1 DEF Handle
            <7> QED  BY <7>2, RatingAssumption
          <6> QED
            BY <1>0, <3>2, <5>2, <6>1 DEF FlushInsert, Shape, Typed, RegInv, RInv, Sessions
        <5>3. CASE FlushUpdate(r)
          <6> DEFINE new == [orm[r] EXCEPT !.row.points = job[r].points]
          <6>1. new # Nil
            <7>1. orm[r] \in Handle /\ orm[r].row \in Row /\ job[r].points \in Points
              BY <1>0, <5>3, HandleFacts, NewRatingType DEF FlushUpdate, RegInv
            <7>2. new \in Handle  BY <7>1 DEF Handle, Row
            <7> QED  BY <7>2, RatingAssumption
          <6>2. UNCHANGED session \/ pending' = [pending EXCEPT ![r] = new]
            BY <5>3 DEF FlushUpdate
          <6> HIDE DEF new
          <6> QED  BY <1>0, <3>2, <6>1, <6>2 DEF Shape
        <5>4. CASE Fail(r)  BY <1>0, <3>2, <5>4 DEF Fail, Typed
        <5> QED  BY <1>3, <5>1, <5>2, <5>3, <5>4
      <4> QED  BY <2>2, <3>2, <4>1 DEF RegFound
    <3> QED  BY <3>1, <3>2
  <2> QED  BY <1>3, <2>1, <2>2, <2>3, <2>4, ForgetStep DEF Step
<1>4. ASSUME NEW r \in Requests, SelectRating(r)
      PROVE  Register!Read(r) \/ Register!Miss(r) \/ UNCHANGED Register!vars
  BY <1>4, SelectStep
<1>5. ASSUME NEW r \in Requests, Commit(r)  PROVE Register!Write(r) \/ Register!Keep(r)
  BY <1>5, CommitStep
<1>6. ASSUME NEW r \in Requests, Refresh(r)  PROVE Register!Read(r)
  <2> DEFINE i == orm[r].id
  <2>1. /\ pc[r] = "refresh" /\ orm[r] # Nil /\ pending[r] = Nil /\ status[r] = 0
        /\ UNCHANGED <<ratings, audited, job, status, pending>> /\ Step(r)
    BY <1>6 DEF Refresh, Step, RegInv, RInv, Sessions, WInv
  <2>2. orm[r] \in Handle /\ i \in Requests /\ ratings[i] # Nil /\ Entry(ratings[i]) = Entry(job[r])
    BY <1>0, <2>1, HandleFacts DEF RegInv, RInv, Sessions, Rows
  <2>3. orm' = [orm EXCEPT ![r].row = ratings[i]]  BY <1>6 DEF Refresh
  <2> HIDE DEF i
  <2>4. orm'[r] = [orm[r] EXCEPT !.row = ratings[i]]  BY <1>0, <2>3 DEF Shape
  <2>5. orm'[r].row = ratings[i] /\ orm'[r] \in Handle
    <3>1. ratings[i] \in Row  BY <1>0, <2>2, HandleFacts
    <3> QED  BY <2>2, <2>4, <3>1 DEF Handle
  <2>6. orm'[r] # Nil  BY <2>5, RatingAssumption
  <2>7. RegFound'[r] = ratings[i].points  BY <2>1, <2>5, <2>6 DEF RegFound
  <2>8. Rates(r)  BY <2>1, CallFacts DEF RegInv
  <2> QED  BY <2>1, <2>2, <2>7, <2>8, ReadStep
<1>7. ASSUME NEW r \in Requests, Invalidate(r)  PROVE Register!Tell(r)
  BY <1>7, TellStep
<1>8. CASE (\E f \in Films : Expire(f)) \/ Finished \/ UNCHANGED vars
  BY <1>1, <1>8 DEF Expire, Finished, vars
<1> QED  BY <1>2, <1>3, <1>4, <1>5, <1>6, <1>7, <1>8 DEF Next, Step

\* ImplementsRegister of RatingCache: between the SELECT, the flush, the COMMIT and the
\* refresh of a put_rating others come in, and still its answer is that of a register.
THEOREM RatingsAreAtomic == Spec => ImplementsRegister
<1>1. Init => RegInv /\ Register!Init
  BY RatingInit, AskedInit, UniqueInit, RegisterInit DEF RegInv, Init, Typed
<1>2. RegInv /\ [Next]_vars => RegInv'
  BY RatingStep, AskedStep, UniqueStep, TypedStep, LoadedStep DEF RegInv
<1>3. RegInv /\ RegInv' /\ [Next]_vars => [Register!Next]_Register!vars
  BY RegisterStep
<1> QED  BY <1>1, <1>2, <1>3, PTL DEF Spec, ImplementsRegister, Register!Spec
=============================================================================
