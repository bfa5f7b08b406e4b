# TLA+ models of the profiles-service repository

This directory holds TLA+ specifications of the Python services under `src/`, the
TLC configurations that check them on small instances, and proofs, checked by
TLAPS, of what matters most for instances of any size. Every definition is
translated from the source; `PROJECT.json` maps each to the lines it stands for.

* [1 Inventory](#1-inventory): the parts of the system
* [2 The modules](#2-the-modules): which module models what, and how
* [3 The runs](#3-the-runs): what TLC checks, with which bounds
* [4 Fairness](#4-fairness)
* [5 The proofs](#5-the-proofs)
* [6 Where the code and its documents disagree](#6-where-the-code-and-its-documents-disagree)
* [7 What is not modelled](#7-what-is-not-modelled)
* [8 Plan](#8-plan)

To repeat the checks, in this directory:

    tlc -workers 2 -config rating_cache.cfg MCRatingCache
    tlapm RatingCacheProofs.tla

## 1 Inventory

Four FastAPI services and one Django application share a package of common code.
A request handler is a coroutine: it runs alone between two `await`s, and every
`await` on a database, Redis, Elasticsearch or ClickHouse is a point where the
other requests of this process, or of other processes on the same servers, come
in between. No service calls another. They meet in the secret of the tokens that
auth_service signs and profile_service verifies, and in an nginx gateway that
routes by path.

| component | state | operations | modelled in |
|---|---|---|---|
| profile_service: profiles | tables `profiles`, `audit_logs`; a session per request | create, get, update, delete | ProfileCrud |
| profile_service: ratings | table `ratings`; Redis `rating_agg:<film>` with a ttl | put_rating, get_rating, get_rating_aggregate | RatingCache, AtomicRatings |
| profile_service: favorites | table `favorites`, `audit_logs` | add, delete, list | Favorites |
| common/security: rate limiter | a deque of times per client, in the process | allow, dispatch | RateLimiter, SlidingWindow |
| auth_service | table `users`; signed tokens in the hands of clients | register, login, me | Accounts |
| ugc_service | table `user_events` in ClickHouse, or a bounded deque in the process | start, ingest, list | UgcEvents |
| content_api | Elasticsearch indices (written by somebody else), Redis entries with a ttl | get, list | ContentCache |
| the applications of the four services | the life of the process, open clients, requests in flight, the id of each | start, stop, die, restart; middleware; exception handlers | Application |
| common/db: aiosqlite stub | connections, their locks and open transactions, one thread per call | connect, cursor, execute, commit, rollback, close | AiosqliteStub |
| metrics, tracing, settings, migrations, admin_panel, gateway | values of one request, or read once at start | | no |

**How they interact.** In profile_service the three families of operations share
the database and the session class. Ratings and favorites reference a profile; a
handler first resolves the token to a user and then the user to a profile
(`_get_profile_or_raise`). Every change writes a row of `audit_logs` in the same
transaction. The limiter sits in front of each of the
four services, one per process, and sees only the address of the caller. profile_service
and auth_service install the stub of aiosqlite when they are imported, so on SQLite
their sessions run on it. content_api uses Redis as a cache in front of
Elasticsearch and must survive the loss of it, while profile_service lets a Redis
error become a 500. ugc_service decides once, at start, whether it talks to
ClickHouse.

**What is hard, and what correctness means, per component.**

* *Profiles.* `create_profile` asks whether the user and the number are free, and
  inserts later; `update_profile` loads the row, awaits two further statements,
  and writes back *only the columns that differ from what it loaded*; unique
  indices make a writer wait for another's commit; `delete_profile` meets a foreign
  key that PostgreSQL enforces and the SQLite of the tests does not; any statement
  may fail, also after the commit. Correct: users and numbers identify profiles;
  nothing is stored without an audit row; no update is lost; the two columns of
  the phone agree; a deleted profile stays deleted; lock waits form no cycle.
* *Ratings.* The database is the truth, and the Redis entry is filled and deleted
  outside the transaction. A reader can store what it computed before a commit
  after the committing request has deleted the entry; a failure between the two
  leaves the entry behind. Correct: one rating per profile and film, the value is
  one that was asked for, the entry is wrong only in named situations and not for
  ever.
* *Favorites.* Adding and removing are meant to be idempotent. Two additions may
  both find nothing, two deletions may both find the row; the page and the total
  are two statements. Correct: what an answer says was so at some moment of its
  request; a failure has a cause; the audit trail explains the list; consecutive pages
  repeat and skip what the list has moved between them, and nothing else; a total is
  off by what has moved since its page.
* *Rate limiter.* A sliding window over a deque: the boundary of the window, the
  refused requests, the bound of the deque, the shared identity of requests
  without an address, a restart. Correct: it decides as a window over the
  requests that passed would.
* *Accounts.* Select, insert, commit with an `except` around the last only; a token
  lives on while its user is deactivated; bcrypt compares digests, not passwords.
  Correct: one account per address; who is told 201 has the account asked for;
  answers were true.
* *UGC events.* The backend depends on two calls at start that fail separately; an
  INSERT that timed out may still be stored; the deque forgets; the two stores
  order a listing differently. Correct: an acknowledged event is kept as far as
  its store keeps anything, and listings show it.
* *Content cache.* Read, fetch, set without any lock while documents change; SETs
  that arrive late or twice; invalid entries that have to be discarded and may
  not be discardable. Correct: an answer has a bounded age; a Redis failure is
  invisible; an Elasticsearch failure is invisible for what stays cached.

* *Applications.* Requests are tasks of one loop and overtake one another inside the
  middleware; the id of a request lives in a ContextVar between two of its steps.
  A lifespan opens clients, may fail half way, and closes them under requests that
  still run. Correct: routes only see open clients, an orderly end leaves none open,
  each request keeps its id, the limiter does in place what it does alone.
* *aiosqlite stub.* Cursors go round the lock of their connection, a cancelled task
  gives up the lock while its thread goes on, and threads are few. Correct: what a
  session is told of its transaction is true, and no session waits for ever.

`PROJECT.json` lists the hazards one by one under "hazards", each at its line with
the properties that would catch it.

## 2 The modules

The modules of the operations have the same plan. `Requests` is a fixed set of
requests, each of which runs once; `Script[r]` holds what request `r` may ask for
and `job[r]` is what it asked for. `pc[r]` is the `await` it is suspended at
and `status[r]` the HTTP status it was answered (0 before). An action is what a
handler does from one `await` to the next, including what the server does for it.
`Fail(r)` lets the statement a request is suspended at fail: before it took effect
or, where the code can notice no difference, after. A row is identified by the
request that created it: the ids are random UUIDs, no two are equal.
`Finished` is the stuttering step of a system with nothing left to do, so deadlock
is checked in every run.

Definitions whose name reads like a variation of another and whose comment begins
"Mutant" (`PrepareUnchecked`, `CommitKeepsLocks`, ...) are no part of a
specification: they are the plausible bugs against which the properties are
tested (each property of a passing run is violated under at least one of them).

### ProfileCrud: `profile_service/app/services/profile.py:49-114`

| model | code |
|---|---|
| `profiles`, `audit` | committed rows of `profiles`, `audit_logs` |
| `orm[r]` | the instance in the session: the row as it was loaded |
| `pending[r]` | the flushed, uncommitted write, with its locks (`Held`) |
| `CheckUser`, `GetProfileOrRaise`, `PreparePhone` | the SELECTs, and the checks on what they return |
| `FlushInsert`, `FlushUpdate`, `FlushDelete` | `session.flush()`: constraint checks and waiting for other writers |
| `AuditLog`, `Commit`, `Refresh` | `AuditRepository.log`, `session.commit()`, `session.refresh()` |
| `Fail`, `Abort` | an exception, the rollback, the 500 |

Two constants select the database. `ForeignKeys = TRUE` is PostgreSQL, where the
foreign key of `audit_logs` (models.py:93, without ON DELETE) refuses to delete a profile
that an audit row references; FALSE is SQLite as the tests open it. A phone number is a model
value; several spellings (`RawPhones`) map to one number or to none (`E164`);
a ciphertext is the number with the nonce of the request that made it, so two
encryptions of one number differ; the digest is injective. `SetChanged` is what
SQLAlchemy's unit of work writes: the attributes whose new value differs from the
loaded one. The name stands for every column that is not the phone.

Row and unique-index locks of an UPDATE are taken in one step. PostgreSQL takes
them one after the other, and where two transactions then wait for each other it
aborts one, whose request answers 500: with `Faults` that outcome is among those
of `Fail`. SQLite locks the whole database, so its interleavings are a subset of
those modelled. A COMMIT that takes effect but whose reply is lost looks like a
failure right after it.

### RatingCache: `profile.py:117-170`, `repositories/ratings.py`

`ratings` and `audited` are the committed rows; `cache[f]` is the entry of film `f` in
Redis; `seen` is what a reader has selected and not yet stored. Two variables are history
for the properties: `tainted` holds the films whose entry a reader filled from an
old aggregate or a failed request left behind. `Invalidate` is the DELETE after a
commit; `LookUp`, `SelectAggregate`, `Fill` are the reader; `Expire` is the ttl.
The average is the code's `round(float(avg), 1)` in tenths (`Tenths`), with
ratings in half points (schemas.py:39 accepts 0 to 10). Python rounds the double, not
the mean: where the mean lies half-way between two tenths and no double is equal to it,
the double lies on one side, and `RoundsUp` says on which. The INSERT of the audit
row is folded into `Commit`, and profiles are fixed, which `ProfilesNeverRemoved`
justifies for PostgreSQL. An entry of the cache was always written by this
service, so the branch for an entry that does not parse never applies.

`AtomicRatings` is the promise to a client of `put_rating` and `get_rating`: a register
per profile and film, which a call reads or writes at one moment of its request. It has no sessions,
rows or constraints. `RatingCache` implements it (`Register`, `ImplementsRegister`):
the value of a register is the one committed row of the pair (`RegValue`), a call takes
effect with its audit row (`done <- audited`), and what a caller may be told is what its
session has loaded or committed, but not what it has only flushed (`RegFound`): a
flushed rating may still be rolled back. A 500 is no reply: the register
promises nothing to a caller whose request failed, which may or may not have written.

### Favorites: `profile.py:172-228`, `repositories/favorites.py`

`favorites[<<p, f>>]` is the committed row under the primary key, with its creation
time, which is the *start* of the inserting transaction. `held[r]` collects
whether the entry was present or absent while `r` ran, the history `TookEffect` is
about. `moved[r]` collects the films that were added to or deleted from the list between
the page of `r` and its total, the history `TotalIsTimely` is about. A DELETE names the primary key: if the row was replaced since it was
selected, it may remove the new one or none, as the database's isolation has it. Rows
with the same creation time come in any order, since the query sorts by nothing
else. The page and the total are two actions (`ListByProfile`, `CountByProfile`).

### RateLimiter and SlidingWindow: `common/security/rate_limit.py`

`Dispatch(q)` is the middleware with `allow` inside. Nothing in `allow` awaits, so
its `asyncio.Lock` is never contended and a call is one step. `buckets[k]` is the deque;
`admitted[k]`, auxiliary, all times the client passed in this life of the process.
Time is in integer ticks up to `Horizon`. `Restart` forgets everything, since the state is the
process's. `SlidingWindow` is the promise: a request is refused exactly if `Limit`
passed within the last `Interval`; it has no deques. `RateLimiter` implements it,
with `passed <- admitted` and `answer <- verdict` (`Window`, `ImplementsWindow`).
It has no run of its own: it is checked where it stands, inside `Application`.

### Application: `*/main.py`, `common/observability/middleware.py`

Application extends RateLimiter by the process around it: `stage` of the process,
`open`, the clients a lifespan has opened, `uses`, those that `app.state` gives to
the routes, and for each of `Slots` requests in flight how far it is (`at`), what it asked
(`query`) and what `_REQUEST_ID` is in its task (`context`). `service` chooses among the
four applications, which differ in their lifespans, stacks and handlers.

| model | code |
|---|---|
| `AuthStack`, ... | the calls of `add_middleware`; the last one added comes first |
| `Accept` | the limiter, which decides before it awaits (`Dispatch` of RateLimiter) |
| `Enter` | CORS and trusted hosts, which may answer, and `RequestContextMiddleware` up to `call_next` |
| `Route` | the route, and the handler of what it raises, if there is one (`Handled`) |
| `Complete`, `Fail` | the release of the id; the 500 of what nobody handled, outside the request context |
| `AuthStartup`, ... `UgcShutdown` | the lifespans up to and from their `yield`, with the exceptions no `try` takes (`Abandon`) |
| `Terminate`, `Crash`, `StartAgain` | SIGTERM, the death of the process, the restart of compose (`Restart` of RateLimiter) |

uvicorn, Starlette and compose are external: uvicorn serves between start and SIGTERM
and waits for the requests it has; Starlette gives the handler of `Exception` to a
layer outside all others. The routes themselves are the other modules.

### AiosqliteStub: `common/db/aiosqlite_stub.py`

A session connects, takes a cursor, executes a statement that writes its own row, and commits
or gives up; each of these is a `call` that asks for a thread (`Submit`, which for the
methods of a connection takes the `lock` first), runs there (`Start`, `Finish`), and
returns (`Return`). `jobs` are the calls handed to the executor, whose `Workers` threads
may all be taken. `Cancel` ends the task at its await: the lock is free, the thread
goes on as an orphan. That may happen at any await, that of connecting, of rolling
back and of closing included; what SQLAlchemy does next is to close the connection, or
nothing where it was not open yet or about to be closed. `pool` is SQLAlchemy's choice: a connection per session for
a file, one for all in memory. `writes[c]` is the open transaction of a connection,
`stored` what was committed, `told` what the session learnt. SQLite, SQLAlchemy's pool and
the executor are external. A shared connection lets one session end the transaction
of another: `mixed` records it, `TransactionsKept` excepts the rows it happens to, and
says that on a file it does not happen.

### Accounts: `auth_service/app/services/auth.py`

`users` is the table, `flushed[r]` an uncommitted INSERT that holds its address,
`tokens[r]` the pair that `r` was given. `Digest` may map two passwords to one
digest: bcrypt is a function that only tells apart what it tells apart. It may also
have none for a password (`Digestible`): passlib raises for one that contains NUL, at
the hash of a registration and at the check of a login to an active account, and
nothing between there and the middleware catches it.
`Deactivate` is external: no code writes `is_active`, an operator may. A token is
good while `now` is at most its expiry, and `/me` accepts an access token and a
refresh token alike. `seen[r]` collects what was the case while `r` ran. The
normalisation of addresses by `EmailStr` is left out.

### UgcEvents: `ugc_service/app`

`phase` follows the lifespan (main.py:86-110): CREATE TABLE if `ensure`, ping, up
on ClickHouse, or on memory after a failure of either. `memory` is the deque, `table`
the rows ClickHouse has stored, `wire` the INSERTs on their way, any of which may be
stored at any later time or never, whether or not its sender has failed or its
process has ended (`Store`). `Crash` ends a life of the process, with requests that
were under way unanswered; a graceful shutdown is a special case of it.
`insert_event` writes seconds, so the order in ClickHouse is that of `Second(r)`,
ties in any order; the order in memory is that of arrival. A repeated POST is
another event: the API has no key by which it could be recognised.

### ContentCache: `content_api/src/services`

`source[d]` is what Elasticsearch has of document `d`: an edition, `Invalid` (does
not fit the schema), `Sourceless` (a hit without `_source`), or `Absent`. `cache[d]` has a
content and an expiry. `pc[r]` walks through `get`: `Get`, then `Hit`, or `Miss`, or
`Discard` (an entry that does not parse) and `Invalidate`, then the fetch (`Found`, `NotFound`,
`BadDocument`, `SourceFails`), then `Respond`. `Set(r)` is the SET of `r`
reaching Redis: it may take effect several times (client retries) up to
`Latency` after the read, or never. `Evict` stands for eviction, a restart of Redis, and
a late DELETE. `Publish` is whoever writes the index. Listings go past the cache in one exchange.
`gone` records when a document last had a content, `warm` the requests whose document
has been cached since they began. The three kinds of documents differ
in their schema only, and their keys do not collide, so one is modelled.
Elasticsearch's refresh interval is left out: a document counts as held from the
moment a search can find it.

## 3 The runs

Every run ends in at most a few minutes with two workers. Symmetry is used in
`application` only, whose slots are interchangeable and which checks safety; elsewhere
the requests have different roles, or liveness is checked.

| run | about | properties |
|---|---|---|
| `crud_postgres` | four requests of two users, foreign keys, any statement may fail | TypeOK, UniqueProfiles, RowsTraceToAudit, NoLostUpdate, ProfilesNeverRemoved |
| `crud_sqlite` | five requests, no foreign keys: a profile is deleted under an update, while another user waits for each answer | DeletedStaysDeleted, EveryRequestAnswered |
| `crud_phone_hash` | *violated*: two overlapping updates of one profile | PhoneHashIsDigest |
| `crud_delete` | *violated*: DELETE with foreign keys | DeleteAnswers204 |
| `rating_cache` | four requests, two films, two profiles, failing statements and commands | TypeOK, OneRating, CoherentUnlessRaced, ImplementsRegister, EventuallyFresh |
| `application` | each of the four services in turn, two requests in flight, windows of two passes per two ticks, three ticks, deaths and restarts | AppTypeOK, WindowRespected, ClientsOutliveRequests, RequestIdsKept, ImplementsWindow |
| `aiosqlite_stub` | three sessions, two threads, either pool, one session may be cancelled | TypeOK, TransactionsKept, SessionsEnd |
| `favorites` | four requests, one profile, two films, one request may fail | TypeOK, TookEffect, AuditAccounts, OnlyRacesFail, PagesJoin, TotalIsTimely |
| `accounts` | two or three registrations, logins, readers of /me, an operator, a clock | TypeOK, OneAccount, AnswersWereTrue, OnlyRacesFail, EveryRequestAnswered |
| `accounts_race` | *violated*: two registrations of one address | DuplicateIsConflict |
| `ugc_events` | three posts, two listings, two lives, both backends | TypeOK, AcknowledgedKept, AcknowledgedIsListed, ListedInOrder, OnlyFaultsFail |
| `content_cache` | two requests, two documents, a clock, late SETs, failures | TypeOK, BoundedStaleness, AnswersAreTheSource, WarmAnswers |

What they show, and why the bounds suffice for the cases in question:

* **Profiles.** Two users create profiles, perhaps with the same number, and two
  (or three) more requests update, read and delete. A conflict over an index needs two
  writers, a lost update needs a creation and two updates, a stale cipher beside a
  newer hash the same. Four requests have these, and a cycle of lock waits, should
  there be one, needs two writers. `RowsTraceToAudit` survives every placement of
  failures. `NoLostUpdate` holds since the unit of work writes the changed columns
  only, and its mutant, which writes all, loses an update.
  The price of writing changed columns only is finding 1 of section 6, and
  the theorem PatientPhonesAgree says who does not pay it: a user without two
  requests at a time (`Patient`).
* **Ratings.** Two ratings of one film by one profile race for the unique
  constraint, one of another profile moves the average, and readers fill the
  cache anywhere in between; three values suffice for a mean that has to be
  rounded. Two requests may put the same value, so that one finds its own in the row
and has nothing to write. `CoherentUnlessRaced` is the exact list of the causes of a wrong
  entry; `EventuallyFresh` says that the ttl ends all of them.
* **Applications.** A client whose host is known shares the limiter with those that show
  none; two passes fill a deque, and three ticks are one more than the window, so that a
  time lies on its boundary, then beyond it. Two slots let one request overtake another
  everywhere between its binding and its release, and let a shutdown begin while
  one is in flight. An id that a client chose and may choose twice, preflights and
  requests for a foreign host take the ways round the request context. With all settings
  on, every layer is in the stack; 1.4 million states. The mutant of `RequestIdsKept`
  keeps the id in a variable of the module, that of `ClientsOutliveRequests` forgets to
  replace one reference in ugc_service's fallback.
* **aiosqlite stub.** Two writers hold both threads and wait for a third session that
  has written and not committed: with three sessions and two threads the wait for
  a thread and the wait for SQLite's lock meet. One of the sessions may be cancelled, at every
  await, so an orphan can be overtaken by the close that follows it, and can hold the
  thread or the file that the others need; two cancelled sessions are the theorem's.
* **Favorites.** Additions and deletions of one film by up to four requests, which has
  the cases in which an entry is added, removed and added again under a waiting request;
  a second film makes pages. Two moments are enough for ties and for an order of
  creation that differs from the order of commit. With two films a page can skip one through a
  tie only; the skip through a deletion needs three, and is the theorem's. The mutant of
  `PagesJoin` drops the ORDER BY, that of `TotalIsTimely` counts the page.
* **Accounts.** Two addresses, four passwords, two of which have one digest and one of
  which has none.
  Ttls of one and two ticks let an access token expire while the refresh token
  lives. Only r2 fails: one failing transaction between others is the case of interest.
* **UGC events.** The stamps contradict the order of arrival, and two of them fall
  into one second. Three events overflow a deque of two; one listing gives no limit (the
  default exceeds the maximum), one asks for a single event. Two lives have
  a memory that is lost, a backend that changes, and INSERTs that arrive in the second
  life.
* **Content cache.** One edition, which expires while two requests read, suffices for a
  late SET to overwrite a fresh one, and for a second fill from an older read. The second
  document exists for listings.

A late SET restarts the ttl, so the age of an answer is bounded by `Ttl +
Latency`, and not by `Ttl`; the mutants of `BoundedStaleness` and of `WarmAnswers`
show that neither is vacuous.

## 4 Fairness

Four runs assume fairness. `crud_sqlite`, `accounts` and `rating_cache` assume weak fairness of
the steps of each request that is under way. It stands for the event loop, which
resumes every coroutine whose await is done, and for a server that answers or
fails in the end: PostgreSQL serves statements and grants a lock that has become
free. profile_service sets no timeout on its Redis client, so
`EventuallyFresh` assumes that Redis answers or closes the connection. No request is forced
to *begin*, and no fault is forced to happen. `EventuallyFresh`
also assumes weak fairness of `Expire`, because Redis counts a ttl down
whatever the clients do. `aiosqlite_stub` assumes weak fairness of `Progress`: as long as some session
can submit or take up a call, or some thread can begin or end one, one of them does. Nothing is said
of which, so `SessionsEnd` needs no fair lock and no fair queue of threads; a thread
that waits for SQLite's lock ends, since SQLite gives up after the timeout of its
connection. No session is forced to begin or to be cancelled. Safety properties are checked and proved without any.

## 5 The proofs

Eight modules hold proofs. Each theorem is of the form `Spec => []P` or
`Spec => [][A]_vars` or an implementation, for every value of the constants that the
module's named assumption admits: any number of requests, scripts, users, films.
The assumptions only say what kind of thing a constant is, except
`Nil` (no element of the sets it is added to), the positive `Limit`, `Ttl`, ..., and
sets that are counted, which are finite: the requests in RatingCache, the films in
Favorites, the posts in UgcEvents.

| theorem | what it says | inductive invariant |
|---|---|---|
| ProfileCrudProofs!TypeCorrect | TypeOK | `TInv`: with it, each label of a request has the job, the loaded instance and the valid number it needs |
| ProfileCrudProofs!LocksSafe | pending writes exclude one another and fit the table | `LInv` |
| ProfileCrudProofs!WaitsFormNoCycle | a transaction that others wait for waits for nobody: the safety half of EveryRequestAnswered | `LInv`; `WaitsHaveBlockers` names the blocker of every guard that waits |
| ProfileCrudProofs!ProfilesAreUnique | UniqueProfiles | `LInv` |
| ProfileCrudProofs!ProfilesArePermanent | ProfilesNeverRemoved | `FInv`: every profile is referenced, so no DELETE is ever pending |
| ProfileCrudProofs!PatientPhonesAgree | PhoneColumnsAgree: the columns of the phone agree for a user who waits for each answer | `PInv`: what a patient user's request has loaded is still in the table |
| ProfileCrudProofs!StoredRowsAreTraced | RowsTraceToAudit | `TraceInv`: what is stored is traced, and what is pending will be once its audit row joins the trail |
| ProfileCrudProofs!DeletionsAreFinal | DeletedStaysDeleted | `DeletedInv`: a pending row is its creator's or of a profile that is there |
| ProfileCrudProofs!UpdatesAreKept | NoLostUpdate | `UpdateInv`, column by column: what the table, a pending write and a loaded instance hold, given the updates committed so far |
| RatingCacheProofs!TypeCorrect | TypeOK: an aggregate is an average between 0.0 and 10.0 of at most as many ratings as there are requests | `RInv` and `Typed` |
| RatingCacheProofs!RatingsAreUnique | OneRating | `UInv` |
| RatingCacheProofs!RatingsAreAsked | RatedAsAsked | `RInv` and `AInv`: a pending rating has the points its request was sent |
| RatingCacheProofs!RatingsAreAtomic | ImplementsRegister | `RegInv`, all of the above with `WInv`: a put that reaches COMMIT with nothing to write loaded the rating it was sent |
| RatingCacheProofs!AverageIsNearest | the average served is the tenth nearest to the mean, the even one for a tie that is a double | none: a fact about `Tenths` |
| RatingCacheProofs!CacheCoherent | CoherentUnlessRaced | `RInv` and `CInv`: a reader that nobody has overtaken holds the current aggregate |
| ApplicationProofs!TypeCorrect | TypeOK of RateLimiter | `IInv` |
| ApplicationProofs!WindowIsRespected | WindowRespected | `IInv`: the deque is a suffix of the passes, and what it has dropped had left the window (`Kept`); passes are `Limit` apart by more than the interval (`Spaced`) |
| ApplicationProofs!BucketsAreBounded | BucketsBounded | `IInv` |
| ApplicationProofs!RateLimiterImplementsWindow | ImplementsWindow | `IInv`: with `Kept`, the deque is full exactly if the abstract window is (`FullWindow`) |
| FavoritesProofs!TypeCorrect | TypeOK | `FInv` and `LInv`: a page is part of an order of what its listing read (`PageRight`) |
| FavoritesProofs!EffectsWereSeen | TookEffect | `FInv`: the instance a request loaded was seen by its history (`Witness`), at most one writer per entry (`Locks`) |
| FavoritesProofs!RefusalsAreRaces | OnlyRacesFail | `FInv` |
| FavoritesProofs!AuditExplainsFavorites | AuditAccounts | `FInv` and `AInv`: a pending insertion bears the mark of its request, and what is pending deletion had been loaded; entries are counted as finite sets |
| FavoritesProofs!PagesAreJoined | PagesJoin | `FInv` and `LInv`: the place of a film on its page is bounded by the films that are newer and those that are as new (`PageRight`, `PlaceInOrder`) |
| FavoritesProofs!TotalsAreTimely | TotalIsTimely | `FInv` and `LInv`: what is listed now and what the page was cut from differ by films that have moved (`Meanwhile`), and so does the total (`TotalRight`) |
| ApplicationProofs!ApplicationLimits | the process implements RateLimiter (`AppSpec => Spec`) | none: each step maps to one of the limiter or to a stutter |
| ApplicationProofs!WindowIsRespectedInPlace | WindowRespected | that of RateLimiter, through ApplicationLimits |
| ApplicationProofs!ApplicationImplementsWindow | ImplementsWindow | the same |
| ApplicationProofs!AppTypeCorrect | AppTypeOK | `PInv` |
| ApplicationProofs!ClientsAreOpen | ClientsOutliveRequests | `PInv`: a process that does not serve has no request, and `uses` is among `open` (`Quiet`) |
| ApplicationProofs!IdsAreKept | RequestIdsKept | `PInv` |
| AiosqliteStubProofs!TypeCorrect | TypeOK | `SInv` |
| AiosqliteStubProofs!TransactionsAreKept | TransactionsKept | `SInv`: a call that outlived its task finds its session past its transaction (`Jobs`), which closes its connection after that (`Course`); a row is in the transaction of its connection from its statement to its commit (`Rows`) |
| AccountsProofs!TypeCorrect | TypeOK | `AInv` |
| AccountsProofs!AddressesAreUnique | OneAccount | `AInv`: the table and the flushed rows share no address (`Unique`), a row stays what its request flushed (`Rows`) |
| AccountsProofs!AnswersAreTrue | AnswersWereTrue | `AInv`: what a request goes by is in its history (`Witness`, `Told`) |
| AccountsProofs!RefusalsAreExplained | OnlyRacesFail | `AInv`: a request that was refused has one of the two excuses (`Excused`) |
| UgcEventsProofs!TypeCorrect | TypeOK | `PInv`, with `KInv` and `LInv` |
| UgcEventsProofs!RefusalsAreFaults | OnlyFaultsFail | `PInv`: the backend a request is on is the one its process had chosen (`Requested`), and a process on ClickHouse has a table if it has ensured it (`Process`) |
| UgcEventsProofs!AcknowledgedAreKept | AcknowledgedKept | `KInv`: the memory is a suffix of the arrivals (`Suffix`), and what it has dropped it dropped when full (`Remembered`) |
| UgcEventsProofs!ListingsAreOrdered | ListedInOrder | `LInv`: each item is newer than those after it (`Listed`) |
| UgcEventsProofs!AcknowledgedAreListed | AcknowledgedIsListed | `LInv`: what a listing has been given has what was acknowledged before it, or newer events in its place |
| ContentCacheProofs!TypeCorrect | TypeOK | `CInv` |
| ContentCacheProofs!StalenessIsBounded | BoundedStaleness | `CInv`: an entry's content was held less than `Ttl + Latency` before it expires (`EntryFresh`), what a request carries was current when it read (`Recent`, `Sourced`) |
| ContentCacheProofs!ErrorsAreTheSource | AnswersAreTheSource | `CInv` (`Sound`) |
| ContentCacheProofs!CacheOutlivesSource | WarmAnswers | `CInv` (`Warm`) |

Why strengthenings are needed: a property such as UniqueProfiles speaks of the
committed table, and a step that commits keeps it only because what is
pending fits the table, which the flush established and the locks have
preserved since; that is `LInv`. In the same way a history property (TookEffect,
AnswersWereTrue) needs what the request remembers tied to what its
history has seen. NoLostUpdate is the furthest from inductive: an update writes
what differs from a row it loaded several awaits ago, so a column is right
only because a row loaded before any other update holds what the creation
stored, and that is what `LoadedRight` adds. Each proof has a lemma per action or per group of actions
that leave the same variables alone, and a last theorem that combines them.

The proofs have corrected the models, too: that of AuditAccounts failed on a `CASE`
of `Action` whose guards overlapped, which TLC evaluates in the order of the text and TLA+
does not.

The refinement of `AtomicRatings` is proved step by step. A step that does not touch the table,
the audit trail or the jobs is nothing to the register, unless the request loses what it had found
(`ForgetStep`); a COMMIT is `Write`, or `Keep` where the rating was there already, since a put that
has nothing to write met its value when it loaded the row. That `RegValue` is one value at all is
OneRating.

Two facts look as if they needed an induction over data, which is out of the
prover's reach, and were proved without. The sum behind an average is
a fold over a finite set; that the fold is defined and bounded follows from a smallest
counterexample, as the order of the naturals is well-founded (`Least`, `SumsExist`,
`SumBound`). The place of a film in an order
by time is more than the number of the films that are newer, and at most one more than the number of those that are
as new or newer (`PlaceInOrder`), two cardinalities, whichever order the ties take. So a film on two consecutive pages,
or on neither, has had its numbers changed between the two, or has a tie.

Model-checked only: the liveness properties (EveryRequestAnswered of ProfileCrud and
of Accounts, EventuallyFresh, SessionsEnd), for TLAPS has no rules for fairness here.
`BucketsBounded`, `RatedAsAsked` and `PhoneColumnsAgree` are the reverse: they are proved, and no run repeats them.

## 6 Where the code and its documents disagree

Three runs are expected to find a violation.

1. `crud_phone_hash`: PROFILE_SERVICE_SPEC.md:341 calls `phone_hash` the sha256 of the
   number. One update re-sends the stored number A: it has a new ciphertext and the old
   hash, so only the ciphertext is written. Another changes the number to B and commits in between. The row then
   has the ciphertext of A and the hash of B: the number shown is A, and B is the one taken.
2. `crud_delete`: tests/test_profile_crud.py:29-30 and PROFILE_SERVICE_SPEC.md:309
   expect 204 of DELETE /api/profile. On PostgreSQL the creation's audit row still
   references the profile, and the answer is 500. The test passes as SQLite does not
   enforce foreign keys by default.
3. `accounts_race`: auth.py:57-59 turns the IntegrityError of a duplicate address into
   409, but the INSERT is flushed at line 54, before the `try`. The loser of a race gets
   500.

Lesser disagreements that no run is about:

* PROFILE_SERVICE_SPEC.md:41 has the cached aggregate invalidated when a rating changes.
  A reader that selected before the commit and stores after the deletion puts the
  old aggregate back, until the ttl ends. `CoherentUnlessRaced` says when, and
  `EventuallyFresh` until when.
* `RatingPut` accepts 0 to 10 where README.md:47 says 1 to 10.
* The docstring at in_memory.py:38 promises reverse chronological order where
  `fetch_recent` returns the reverse order of arrival.
* README.md:305 lists "favorites add" as idempotent, which two concurrent additions are not:
  one may answer 500, which `OnlyRacesFail` of Favorites admits for a race and for nothing
  else.
* auth_service/app/schemas.py:10 and :15 accept any password of 8 to 128 characters. bcrypt refuses one that
  contains NUL: passlib raises at auth.py:51 or auth.py:68, and the answer is 500, which `OnlyRacesFail` of
  Accounts admits for such a password and for the race of finding 3.
* README.md:412 promises logs "with request IDs". The request context is the innermost
  layer: a 429, an answered preflight, a refused host and the 500 of an unhandled
  exception, with its log record, carry none (`AnsweredOutside`, `Fail` of Application).
* The routes of profile_service carry `@limiter.limit("10/minute")`, which slowapi
  would enforce. It is in no requirements file, and the stub in its place limits nothing.
* aiosqlite_stub.py:145 installs the stub "if the real package is absent". The code asks
  whether the package has been *imported*, so an installed one that nobody has
  imported yet is replaced.
* content_api's handler of a plain `ContentServiceError` (exceptions.py:69-73) passes
  `message` in the `extra` of a log call, which `logging` refuses with a KeyError: the
  answer is a 500 of another layer (`ContentHandlers`).

## 7 What is not modelled

* *Identity of the caller* (dependencies.py, security.py of profile_service): a token is decoded
  without state; the models take the result (`Sub`, the profile of a job).
* *Observability*: the format of log records, metrics and spans, which no request reads
  back. The instrumentation that `main.py` adds to each application is left out of
  `Application`.
* *Settings, logging, the slowapi stub*: read once, formatting, and a limiter
  that never limits; the stub has its place in `ProfileStack`.
* *Migrations*: one change of the schema, which creates `profiles` alone. The models follow
  `models.py`, which declares the other tables.
* *The health endpoints* of all services: they only read.
* *ugc_service*: an `event_service` injected by tests; malformed rows or bodies from
  ClickHouse.
* *admin_panel*: declarative Django models on a schema of its own. *Gateway, compose
  file*: static configuration.
* *Growth of the limiter's dict*, which keeps a deque for every identity ever seen:
  a model has finitely many. It is listed as a hazard.
* *aiosqlite stub*: the module that `ensure_aiosqlite` builds, the methods SQLAlchemy
  does not use, and the values a cursor returns.

## 8 Plan

In the order of importance to the users of the services.

Done:

1. ProfileCrud, with proofs of every safety property its runs check.
2. RatingCache, with proofs of coherence and uniqueness, and that it implements AtomicRatings.
3. RateLimiter against SlidingWindow, with a proof of the refinement.
4. Favorites, with proofs of what answers, refusals, listings and the audit trail mean.
5. Accounts, with proofs of the same kind.
6. UgcEvents, with proofs of what an acknowledged event and a listing are worth.
7. ContentCache, with proofs of bounded staleness and of the meaning of errors.
8. AiosqliteStub, with a proof of what becomes of transactions.
9. Application: the limiter in each service's stack, lifespans and request ids, with
   proofs that it implements the limiter and, through it, the window.

Left:

* *Tokens across services*: profile_service accepts a token of auth_service without
  asking whether its user is still active. A composition with Accounts would say for how long.
* *Abstract specifications*: an atomic store of profiles that ProfileCrud implements for
  patient users; an event log that UgcEvents implements on ClickHouse; a read-through
  register of bounded age for ContentCache.
