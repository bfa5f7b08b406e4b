------------------------------- MODULE Favorites -------------------------------
(***************************************************************************)
(* Favorites of services/profile_service: add_favorite, delete_favorite    *)
(* and list_favorites of ProfileService.                                   *)
(*                                                                         *)
(* As in ProfileCrud a request loses control at every await, and the row   *)
(* a transaction has flushed stays locked until its end.  The INSERT into  *)
(* audit_logs meets nothing another of these requests does and is taken    *)
(* together with COMMIT.  Profiles stay (ProfileCrud!ProfilesNeverRemoved).*)
(***************************************************************************)
EXTENDS Integers, FiniteSets, SequencesExt

CONSTANTS
    Requests,
    Profiles,   \* ids of the profiles
    Films,
    Script,     \* Script[r]: the calls request r may turn out to be
    MaxTime,    \* bound: the clock stops here
    Faults,     \* the requests whose statements may fail
    Nil

Times == 0..MaxTime
Entries == Profiles \X Films   \* the primary key of favorites

\* profile = Nil: the caller has no profile.
Job == [op : {"add", "delete", "list"}, profile : Profiles \cup {Nil},
        film : Films \cup {Nil}, limit : Nat, offset : Nat]
Row == [by : Requests, at : Times]   \* by: auxiliary, who inserted it; at: created_at

ASSUME FavoritesAssumption ==
    /\ MaxTime \in Nat
    /\ Script \in [Requests -> (SUBSET Job) \ {{}}]
    /\ \A r \in Requests : \A j \in Script[r] : (j.op = "list") = (j.film = Nil)
    /\ Faults \subseteq Requests /\ IsFiniteSet(Films)
    /\ Nil \notin Requests \cup Profiles \cup Films \cup Row \cup Job

VARIABLES
    favorites,  \* the committed table
    audit,      \* the committed rows of audit_logs
    now,        \* the clock of the database
    pc, job,
    began,      \* when the transaction of a request began
    orm,        \* the Favorite instance of the session
    pending,    \* what its transaction has flushed and not committed
    snap,       \* the favorites a listing read its page from, by film
    page,       \* the films of that page
    total,      \* what it counted next
    moved,      \* auxiliary: what commits changed of its profile between page and total
    status,     \* the HTTP status answered, 0 while there is none
    held,       \* auxiliary: what the entry was while the request ran: present, absent
    broken      \* auxiliary: requests one of whose statements failed

db == <<favorites, audit>>
session == <<began, orm, pending>>
listing == <<snap, page, total, moved>>
vars == <<db, now, pc, job, session, listing, status, held, broken>>

Labels == {"idle", "load", "select", "flush", "list", "count", "commit", "refresh", "done"}
Actions == {"favorite_add", "favorite_add_idempotent",
            "favorite_delete", "favorite_delete_idempotent", "favorite_list"}

TypeOK ==
    /\ favorites \in [Entries -> Row \cup {Nil}]
    /\ audit \subseteq [req : Requests, action : Actions]
    /\ now \in Times
    /\ pc \in [Requests -> Labels]
    /\ job \in [Requests -> Job \cup {Nil}]
    /\ began \in [Requests -> Times]
    /\ orm \in [Requests -> Row \cup {Nil}]
    /\ pending \in [Requests -> {"none", "insert", "delete"}]
    /\ snap \in [Requests -> [Films -> Row \cup {Nil}]]
    /\ \A r \in Requests : IsInjective(page[r]) /\ ToSet(page[r]) \subseteq Films
    /\ total \in [Requests -> 0..Cardinality(Films)]
    /\ moved \in [Requests -> SUBSET Films]
    /\ status \in [Requests -> {0, 200, 201, 204, 404, 500}]
    /\ held \in [Requests -> SUBSET {"present", "absent"}]
    /\ broken \subseteq Requests

Init ==
    /\ favorites = [e \in Entries |-> Nil]
    /\ audit = {}
    /\ now = 0
    /\ pc = [r \in Requests |-> "idle"]
    /\ job = [r \in Requests |-> Nil]
    /\ began = [r \in Requests |-> 0]
    /\ orm = [r \in Requests |-> Nil]
    /\ pending = [r \in Requests |-> "none"]
    /\ snap = [r \in Requests |-> [f \in Films |-> Nil]]
    /\ page = [r \in Requests |-> <<>>]
    /\ total = [r \in Requests |-> 0]
    /\ moved = [r \in Requests |-> {}]
    /\ status = [r \in Requests |-> 0]
    /\ held = [r \in Requests |-> {}]
    /\ broken = {}

-----------------------------------------------------------------------------
Goto(r, label) == pc' = [pc EXCEPT ![r] = label] /\ UNCHANGED status

Answer(r, code) ==
    /\ pc' = [pc EXCEPT ![r] = "done"]
    /\ status' = [status EXCEPT ![r] = code]

MinOf(m, n) == IF m < n THEN m ELSE n

\* Mutant: a failed statement is taken for a conflict.
AbortConflict(r) ==
    /\ Answer(r, 409)
    /\ pending' = [pending EXCEPT ![r] = "none"]
    /\ UNCHANGED orm

Abort(r) ==
    /\ Answer(r, 500)
    /\ pending' = [pending EXCEPT ![r] = "none"]
    /\ UNCHANGED orm

Entry(r) == <<job[r].profile, job[r].film>>
Presence(row) == IF row = Nil THEN "absent" ELSE "present"

\* A transaction that has flushed a write of the entry holds it until its end.
Free(r) == \A q \in Requests \ {r} : pending[q] # "none" => Entry(q) # Entry(r)

Busy(r) == pc[r] \notin {"idle", "done"}

Begin(r) ==
    /\ pc[r] = "idle"
    /\ \E j \in Script[r] :
          /\ job' = [job EXCEPT ![r] = j]
          /\ held' = [held EXCEPT ![r] =
                        IF j.op = "list" \/ j.profile = Nil THEN {}
                        ELSE {Presence(favorites[<<j.profile, j.film>>])}]
    /\ Goto(r, "load")
    /\ UNCHANGED <<db, now, session, listing, broken>>

\* The first statement begins the transaction, whose start is the now() of created_at.
GetProfileOrRaise(r) ==
    /\ pc[r] = "load"
    /\ IF job[r].profile = Nil THEN Answer(r, 404)
       ELSE Goto(r, IF job[r].op = "list" THEN "list" ELSE "select")
    /\ began' = [began EXCEPT ![r] = now]
    /\ UNCHANGED <<db, now, job, orm, pending, listing, held, broken>>

\* Mutant: add_favorite does not look.
SelectNothing(r) ==
    /\ pc[r] = "select"
    /\ LET found == favorites[Entry(r)] # Nil IN
          /\ orm' = [orm EXCEPT ![r] = favorites[Entry(r)]]
          /\ Goto(r, IF found \/ job[r].op = "add" THEN "flush" ELSE "commit")
    /\ UNCHANGED <<db, now, job, began, pending, listing, held, broken>>

\* FavoriteRepository.get, and what the handlers do next.
SelectFavorite(r) ==
    /\ pc[r] = "select"
    /\ LET found == favorites[Entry(r)] # Nil IN
          /\ orm' = [orm EXCEPT ![r] = favorites[Entry(r)]]
          /\ Goto(r, IF found = (job[r].op = "delete") THEN "flush" ELSE "commit")
    /\ UNCHANGED <<db, now, job, began, pending, listing, held, broken>>

FlushInsert(r) ==
    /\ pc[r] = "flush" /\ job[r].op = "add"
    /\ Free(r)
    /\ IF favorites[Entry(r)] # Nil THEN Abort(r)
       ELSE /\ orm' = [orm EXCEPT ![r] = [by |-> r, at |-> began[r]]]
            /\ pending' = [pending EXCEPT ![r] = "insert"]
            /\ Goto(r, "commit")
    /\ UNCHANGED <<db, now, job, began, listing, held, broken>>

\* Mutant: the instance is expunged from the session, not deleted.
ExpungeFavorite(r) ==
    /\ pc[r] = "flush" /\ job[r].op = "delete"
    /\ Free(r)
    /\ Goto(r, "commit")
    /\ UNCHANGED <<db, now, job, session, listing, held, broken>>

\* DELETE by primary key.  When the row has gone it only warns; when it has been
\* replaced, the statement finds the new row if it began after that was committed.
FlushDelete(r) ==
    /\ pc[r] = "flush" /\ job[r].op = "delete"
    /\ Free(r)
    /\ LET row == favorites[Entry(r)] IN
          \/ row # Nil /\ pending' = [pending EXCEPT ![r] = "delete"]
          \/ row # orm[r] /\ UNCHANGED pending
    /\ Goto(r, "commit")
    /\ UNCHANGED <<db, now, job, began, orm, listing, held, broken>>

\* list_by_profile: newest first; what was created at the same moment comes in
\* any order.
Listed(r) == {f \in Films : favorites[<<job[r].profile, f>>] # Nil}
CreatedAt(r, f) == favorites[<<job[r].profile, f>>].at

\* Mutant: the query has no ORDER BY.
AnyOrder(r) == SetToSeqs(Listed(r))

Orders(r) ==
    {s \in SetToSeqs(Listed(r)) :
        \A i, k \in DOMAIN s : i < k => CreatedAt(r, s[i]) >= CreatedAt(r, s[k])}

ListByProfile(r) ==
    /\ pc[r] = "list"
    /\ snap' = [snap EXCEPT ![r] = [f \in Films |-> favorites[<<job[r].profile, f>>]]]
    /\ \E s \in Orders(r) :
          LET last == MinOf(job[r].offset + job[r].limit, Len(s)) IN
          page' = [page EXCEPT ![r] = SubSeq(s, job[r].offset + 1, last)]
    /\ Goto(r, "count")
    /\ UNCHANGED <<db, now, job, session, total, moved, held, broken>>

\* Mutant: the total is the number of films on the page.
CountPage(r) ==
    /\ pc[r] = "count"
    /\ total' = [total EXCEPT ![r] = Len(page[r])]
    /\ Goto(r, "commit")
    /\ UNCHANGED <<db, now, job, session, snap, page, moved, held, broken>>

\* count_by_profile: another statement, another snapshot.
CountByProfile(r) ==
    /\ pc[r] = "count"
    /\ total' = [total EXCEPT ![r] = Cardinality(Listed(r))]
    /\ Goto(r, "commit")
    /\ UNCHANGED <<db, now, job, session, snap, page, moved, held, broken>>

\* Mutant: the names of the actions are swapped.
ActionSwapped(r) ==
    CASE job[r].op = "list" -> "favorite_list"
      [] job[r].op = "add" ->
            IF pending[r] = "none" THEN "favorite_add" ELSE "favorite_add_idempotent"
      [] job[r].op = "delete" ->
            IF orm[r] = Nil THEN "favorite_delete" ELSE "favorite_delete_idempotent"

Action(r) ==
    CASE job[r].op = "list" -> "favorite_list"
      [] job[r].op = "add" ->
            IF pending[r] = "insert" THEN "favorite_add" ELSE "favorite_add_idempotent"
      [] job[r].op = "delete" ->
            IF orm[r] # Nil THEN "favorite_delete" ELSE "favorite_delete_idempotent"

Committed(r) ==
    CASE pending[r] = "none" -> favorites
      [] pending[r] = "insert" -> [favorites EXCEPT ![Entry(r)] = orm[r]]
      [] pending[r] = "delete" -> [favorites EXCEPT ![Entry(r)] = Nil]

\* The films of a profile whose entry the step at hand changes.
Changed(p) == {f \in Films : favorites'[<<p, f>>] # favorites[<<p, f>>]}

\* The audit row, COMMIT, and the answer of the handlers that need no more.
Commit(r) ==
    /\ pc[r] = "commit"
    /\ audit' = audit \cup {[req |-> r, action |-> Action(r)]}
    /\ favorites' = Committed(r)
    /\ pending' = [pending EXCEPT ![r] = "none"]
    /\ \/ job[r].op = "add" /\ Goto(r, "refresh")
       \/ job[r].op = "delete" /\ Answer(r, 204)
       \/ job[r].op = "list" /\ Answer(r, 200)
    /\ held' = [q \in Requests |->
                  IF held[q] # {} /\ Busy(q) THEN held[q] \cup {Presence(favorites'[Entry(q)])}
                  ELSE held[q]]
    /\ moved' = [q \in Requests |->
                   IF pc[q] = "count" THEN moved[q] \cup Changed(job[q].profile) ELSE moved[q]]
    /\ UNCHANGED <<now, job, began, orm, snap, page, total, broken>>

\* session.refresh raises when the row has gone.
Refresh(r) ==
    /\ pc[r] = "refresh"
    /\ LET row == favorites[Entry(r)] IN
          IF row = Nil THEN Abort(r)
          ELSE /\ orm' = [orm EXCEPT ![r] = row]
               /\ Answer(r, 201)
               /\ UNCHANGED pending
    /\ UNCHANGED <<db, now, job, began, listing, held, broken>>

Fail(r) ==
    /\ r \in Faults
    /\ Busy(r)
    /\ Abort(r)
    /\ broken' = broken \cup {r}
    /\ UNCHANGED <<db, now, job, began, listing, held>>

Tick ==
    /\ now < MaxTime
    /\ now' = now + 1
    /\ UNCHANGED <<db, pc, job, session, listing, status, held, broken>>

Step(r) ==
    \/ GetProfileOrRaise(r) \/ SelectFavorite(r)
    \/ FlushInsert(r) \/ FlushDelete(r)
    \/ ListByProfile(r) \/ CountByProfile(r)
    \/ Commit(r) \/ Refresh(r)

\* Every request has been answered and no other will be sent.
Finished == (\A r \in Requests : pc[r] = "done") /\ UNCHANGED vars

Next == Finished \/ Tick \/ \E r \in Requests : Begin(r) \/ Step(r) \/ Fail(r)

Spec == Init /\ [][Next]_vars

-----------------------------------------------------------------------------
(* Properties. *)

\* A client who is told 201 had the favorite, and one who is told 204 did not, at
\* some moment between the request and the answer, whatever the requests that
\* found, inserted and deleted the same entry meanwhile.
TookEffect ==
    \A r \in Requests :
        /\ status[r] = 201 => "present" \in held[r]
        /\ status[r] = 204 => "absent" \in held[r]

\* The committed requests whose audit row on entry e names action a.
Audited(e, a) == {r \in Requests : [req |-> r, action |-> a] \in audit /\ Entry(r) = e}

\* The audit trail explains the list: a favorite is there because of an audited
\* addition, and of the audited additions all but that one have an audited deletion.
\* (Two deletions that race for a row are both audited, so equality fails.)
AuditAccounts ==
    \A e \in Entries :
        LET present == IF favorites[e] = Nil THEN {} ELSE {favorites[e].by} IN
        /\ present \subseteq Audited(e, "favorite_add")
        /\ Cardinality(Audited(e, "favorite_add") \ present)
              <= Cardinality(Audited(e, "favorite_delete"))

\* add_favorite and delete_favorite are idempotent except under a race: without a
\* failing statement a request is refused only if it adds an entry that somebody
\* else added or removed before it was answered.
OnlyRacesFail ==
    \A r \in Requests :
        status[r] = 500 /\ r \notin broken => job[r].op = "add" /\ {"present", "absent"} \subseteq held[r]

\* What a listing read, and of that what was created after f, and not before it.
Cut(r) == {f \in Films : snap[r][f] # Nil}
Newer(r, f) == {g \in Cut(r) : snap[r][g].at > snap[r][f].at}
AsNew(r, f) == {g \in Cut(r) \ {f} : snap[r][g].at >= snap[r][f].at}

\* Turning the page, each page read when it was asked for: a film that stands on two
\* consecutive pages has been met by a new one or has a tie, and one that should
\* stand on either and stands on neither has lost one before it or has a tie.
PagesJoin ==
    \A r, q \in Requests :
        /\ {status[r], status[q]} = {200}
        /\ job[r].profile = job[q].profile
        /\ job[q].offset = job[r].offset + job[r].limit
        => \A f \in Cut(r) \cap Cut(q) :
             /\ f \in ToSet(page[r]) \cap ToSet(page[q]) => ~(AsNew(q, f) \subseteq Newer(r, f))
             /\ /\ f \notin ToSet(page[r]) \cup ToSet(page[q])
                /\ job[r].offset <= Cardinality(Newer(r, f))
                /\ Cardinality(AsNew(q, f)) < job[q].offset + job[q].limit
                => ~(AsNew(r, f) \subseteq Newer(q, f))

\* The total that comes with a page exceeds what the page was cut from by what was
\* added between the two statements at most, and falls short of it by what was
\* deleted between them at most.
TotalIsTimely ==
    \A r \in Requests :
        status[r] = 200 =>
            /\ total[r] <= Cardinality(Cut(r)) + Cardinality(moved[r] \ Cut(r))
            /\ total[r] >= Cardinality(Cut(r)) - Cardinality(moved[r] \cap Cut(r))
=============================================================================
