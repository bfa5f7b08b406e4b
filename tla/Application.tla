------------------------------ MODULE Application ------------------------------
(***************************************************************************)
(* The process of one service: the lifespan of its FastAPI application and *)
(* the middleware stack its requests run through, with the limiter of      *)
(* RateLimiter in place.                                                   *)
(*                                                                         *)
(* uvicorn runs one process per service: it starts the lifespan, serves,   *)
(* and on SIGTERM accepts nothing more, waits for the requests it has and  *)
(* then ends the lifespan; compose starts the process again.  Requests are *)
(* tasks of one event loop.  A request can be overtaken where a            *)
(* BaseHTTPMiddleware runs the rest of the stack in a task of its own      *)
(* (behind the limiter, behind RequestContextMiddleware) and in its route. *)
(***************************************************************************)
EXTENDS RateLimiter

CONSTANTS
    Deployed,          \* the services the process may be of
    Slots,             \* bound: the requests in flight at a time
    Sent,              \* the ids clients put into their X-Request-ID
    RateLimitEnabled, RestrictHosts, TrustHeader   \* settings

Services == {"auth", "content", "profile", "ugc"}
Connections == {"redis", "elastic", "clickhouse"}   \* what a lifespan opens
\* "foreign": the Host header is not an allowed one.  A preflight has no headers of its own.
Asked == [kind : {"plain", "foreign"}, sent : Sent \cup {Nil}] \cup [kind : {"preflight"}, sent : {Nil}]
Ids == Sent \cup Slots   \* a slot stands for the uuid made for the request in it

ASSUME ApplicationAssumption ==
    /\ Deployed \subseteq Services
    /\ RateLimitEnabled \in BOOLEAN /\ RestrictHosts \in BOOLEAN /\ TrustHeader \in BOOLEAN
    /\ Nil \notin Sent \cup Slots /\ Nil \notin Asked

VARIABLES
    service,  \* whose process it is
    stage,    \* of the process
    open,     \* the clients with open connections
    uses,     \* the clients that app.state gives to the routes
    raised,   \* auxiliary: lifespan ended with an exception
    at,       \* how far a request has come
    query,    \* what it asked
    context   \* the ContextVar _REQUEST_ID in the task of a request

server == <<service, stage, open, uses, raised>>
tasks == <<at, query, context>>
limiter == <<clock, buckets, admitted, verdict>>
appVars == <<limiter, server, tasks>>

AppTypeOK ==
    /\ TypeOK
    /\ service \in Services
    /\ stage \in {"starting", "serving", "draining", "down"}
    /\ open \subseteq Connections /\ uses \subseteq Connections
    /\ raised \in BOOLEAN
    /\ at \in [Slots -> {"idle", "accepted", "routed", "answered", "failed"}]
    /\ query \in [Slots -> Asked \cup {Nil}]
    /\ context \in [Slots -> Ids \cup {Nil}]

NoTasks ==
    /\ at = [r \in Slots |-> "idle"]
    /\ query = [r \in Slots |-> Nil]
    /\ context = [r \in Slots |-> Nil]

AppInit ==
    /\ Init
    /\ service \in Deployed
    /\ stage = "starting" /\ open = {} /\ uses = {} /\ raised = FALSE
    /\ NoTasks

-----------------------------------------------------------------------------
(* Middleware: the last one added is the outermost, so it comes first. *)

Optional(enabled, layer) == IF enabled THEN <<layer>> ELSE <<>>

AuthStack ==
    Optional(RateLimitEnabled, "limit") \o <<"cors">> \o Optional(RestrictHosts, "hosts") \o <<"context">>
ContentStack ==
    Optional(RateLimitEnabled, "limit") \o <<"cors">> \o Optional(RestrictHosts, "hosts") \o <<"context">>
\* SlowAPIMiddleware is the stub: slowapi is in no requirements file.
ProfileStack ==
    <<"slowapi">> \o Optional(RateLimitEnabled, "limit") \o <<"cors">>
                  \o Optional(RestrictHosts, "hosts") \o <<"context">>
UgcStack ==
    Optional(RateLimitEnabled, "limit") \o <<"cors">> \o Optional(RestrictHosts, "hosts") \o <<"context">>

Stack == [auth |-> AuthStack, content |-> ContentStack,
          profile |-> ProfileStack, ugc |-> UgcStack][service]

\* A layer outside the request context answers q itself.
AnsweredOutside(q) ==
    \E i, j \in DOMAIN Stack :
        /\ i < j /\ Stack[j] = "context"
        /\ <<Stack[i], q.kind>> \in {<<"cors", "preflight">>, <<"hosts", "foreign">>}

Limited == \E i \in DOMAIN Stack : Stack[i] = "limit"

\* A new connection's request: the limiter asks before it awaits anything.
Accept(r, q, asked) ==
    /\ stage = "serving" /\ at[r] = "idle"
    /\ IF Limited THEN Dispatch(q) ELSE UNCHANGED limiter
    /\ IF Limited /\ verdict'.status = 429 THEN UNCHANGED tasks
       ELSE /\ at' = [at EXCEPT ![r] = "accepted"]
            /\ query' = [query EXCEPT ![r] = asked]
            /\ UNCHANGED context
    /\ UNCHANGED server

\* _resolve_request_id
RequestId(r) == IF TrustHeader /\ query[r].sent # Nil THEN query[r].sent ELSE r

Leave(r) ==
    /\ at' = [at EXCEPT ![r] = "idle"]
    /\ query' = [query EXCEPT ![r] = Nil]

\* Mutant: the id is kept in a variable of the module.
BindGlobally(r) == context' = [s \in Slots |-> RequestId(r)]

\* bind_request_id
Bind(r) == context' = [context EXCEPT ![r] = RequestId(r)]

\* CORSMiddleware and TrustedHostMiddleware, then RequestContextMiddleware.dispatch up
\* to call_next.
Enter(r) ==
    /\ at[r] = "accepted"
    /\ IF AnsweredOutside(query[r]) THEN Leave(r) /\ UNCHANGED context
       ELSE /\ Bind(r)
            /\ at' = [at EXCEPT ![r] = "routed"]
            /\ UNCHANGED query
    /\ UNCHANGED <<limiter, server>>

(* Exceptions, by the layer that turns them into an answer. *)

\* register_exception_handlers of the common package; its third handler, for Exception,
\* is not among those: Starlette gives it to ServerErrorMiddleware, outside every layer.
CommonHandlers == {"HTTPException", "RequestValidationError"}

AuthHandlers == CommonHandlers \cup {"AuthServiceError"}
ProfileHandlers == CommonHandlers \cup {"RateLimitExceeded", "DomainError"}
\* The handler of the plain ContentServiceError raises a KeyError: logging refuses an
\* extra of the name "message".
ContentHandlers == CommonHandlers \cup {"ContentNotFoundError", "ExternalServiceError"}
UgcHandlers == CommonHandlers \cup {"ServiceError"}

Handled == [auth |-> AuthHandlers, content |-> ContentHandlers,
            profile |-> ProfileHandlers, ugc |-> UgcHandlers][service]

\* The route returns, or raises an exception that a handler answers or nobody does.
Route(r) ==
    /\ at[r] = "routed"
    /\ \E e \in Handled \cup {Nil, "Exception"} :
          at' = [at EXCEPT ![r] = IF e \in Handled \cup {Nil} THEN "answered" ELSE "failed"]
    /\ UNCHANGED <<limiter, server, query, context>>

\* release_request_id
Release(r) == context' = [context EXCEPT ![r] = Nil]

\* The rest of RequestContextMiddleware.dispatch, with an answer or an exception.
Complete(r) ==
    /\ at[r] \in {"answered", "failed"} /\ context[r] # Nil
    /\ Release(r)
    /\ IF at[r] = "answered" THEN Leave(r) ELSE UNCHANGED <<at, query>>
    /\ UNCHANGED <<limiter, server>>

\* The exception has left the request context: the handler for Exception answers 500.
Fail(r) ==
    /\ at[r] = "failed" /\ context[r] = Nil
    /\ Leave(r)
    /\ UNCHANGED <<limiter, server, context>>

-----------------------------------------------------------------------------
(* Lifespans. *)

Starting(s) == service = s /\ stage = "starting"

Serve(clients) ==
    /\ stage' = "serving" /\ open' = clients /\ uses' = clients
    /\ UNCHANGED raised

\* The lifespan ends with an exception, clients still open; uvicorn exits.
Abandon(clients) ==
    /\ stage' = "down" /\ open' = clients /\ uses' = {} /\ raised' = TRUE

\* init_models may not reach the database.
AuthStartup == Starting("auth") /\ (Serve({}) \/ Abandon({}))

ProfileStartup == Starting("profile") /\ Serve({"redis"})

\* The pings log RedisError, ApiError and TransportError; no try protects the clients
\* from another one.
ContentStartup ==
    Starting("content") /\ (Serve({"redis", "elastic"}) \/ Abandon({"redis", "elastic"}))

\* Mutant: the closed client stays the one that the routes use.
UgcStartupKeepsClient ==
    /\ Starting("ugc")
    /\ \/ Serve({"clickhouse"})
       \/ /\ stage' = "serving" /\ open' = {} /\ uses' = {"clickhouse"}
          /\ UNCHANGED raised
       \/ Abandon({"clickhouse"})

\* Without ClickHouse its client is closed, which may fail, and memory takes its place.
UgcStartup == Starting("ugc") /\ (Serve({"clickhouse"}) \/ Serve({}) \/ Abandon({"clickhouse"}))

Stopping(s) == service = s /\ stage = "draining" /\ \A r \in Slots : at[r] = "idle"

End == stage' = "down" /\ open' = {} /\ uses' = {} /\ UNCHANGED raised

AuthShutdown == Stopping("auth") /\ End

ProfileShutdown == Stopping("profile") /\ (End \/ Abandon(open))

\* close_redis lets what is no RedisError pass, and elastic stays open; close_elastic
\* lets nothing pass.
ContentShutdown ==
    Stopping("content") /\ (End \/ Abandon(open) \/ Abandon({"elastic"}))

UgcShutdown == Stopping("ugc") /\ (End \/ (open # {} /\ Abandon(open)))

Startup == AuthStartup \/ ContentStartup \/ ProfileStartup \/ UgcStartup
Shutdown == AuthShutdown \/ ContentShutdown \/ ProfileShutdown \/ UgcShutdown

Lifespan == (Startup \/ Shutdown) /\ UNCHANGED <<limiter, tasks, service>>

\* SIGTERM
Terminate ==
    /\ stage = "serving"
    /\ stage' = "draining"
    /\ UNCHANGED <<limiter, service, open, uses, raised, tasks>>

\* The process dies with its tasks and its sockets.
Crash ==
    /\ stage \in {"serving", "draining"}
    /\ stage' = "down" /\ open' = {} /\ uses' = {}
    /\ at' = [r \in Slots |-> "idle"]
    /\ query' = [r \in Slots |-> Nil]
    /\ context' = [r \in Slots |-> Nil]
    /\ UNCHANGED <<limiter, service, raised>>

\* compose: restart: unless-stopped
StartAgain ==
    /\ stage = "down"
    /\ Restart
    /\ stage' = "starting" /\ open' = {} /\ uses' = {} /\ raised' = FALSE
    /\ UNCHANGED <<service, tasks>>

Work(r) == Enter(r) \/ Route(r) \/ Complete(r) \/ Fail(r)

AppNext ==
    \/ \E r \in Slots : Work(r) \/ \E q \in Request, asked \in Asked : Accept(r, q, asked)
    \/ Lifespan \/ Terminate \/ Crash \/ StartAgain
    \/ Tick /\ UNCHANGED <<server, tasks>>

AppSpec == AppInit /\ [][AppNext]_appVars

-----------------------------------------------------------------------------
(* Properties. *)

\* While routes may run, the clients that app.state gives them are open; when the
\* process has ended in order, all are closed, unless an exception ended its lifespan.
ClientsOutliveRequests ==
    /\ (\E r \in Slots : at[r] # "idle") => uses \subseteq open /\ stage \in {"serving", "draining"}
    /\ stage = "down" /\ ~raised => open = {}

\* Tasks that overtake one another keep their own X-Request-ID: what is logged and
\* answered for a request, from its binding to its release, names that request.
RequestIdsKept ==
    \A r \in Slots :
        /\ at[r] \in {"routed", "answered"} => context[r] = RequestId(r)
        /\ at[r] \in {"idle", "accepted"} => context[r] = Nil
=============================================================================
