------------------------------ MODULE ContentCache ------------------------------
(***************************************************************************)
(* services/content_api: ContentService over RedisJSONCache and            *)
(* ElasticContentRepository, for the documents of one index.               *)
(*                                                                         *)
(* get reads through the cache and swallows every RedisError; list goes to *)
(* Elasticsearch.  Nothing of the service writes documents, and who does   *)
(* does not invalidate the cache.  The cache client sends a SET again when *)
(* it times out, and one that was given up may still take effect: a SET    *)
(* happens at any moments up to Latency after the document was read, or    *)
(* never.                                                                  *)
(***************************************************************************)
EXTENDS Integers, FiniteSetsExt

CONSTANTS
    Docs,
    Requests,
    Targets,       \* Targets[r]: what r may ask for, a document or a listing (All)
    All,
    Size,          \* the size of a listing
    Initial,       \* what Elasticsearch may hold of a document at first
    Ttl,           \* redis_cache_ttl_seconds
    Latency,       \* bound: how long after the read its SET may take effect
    MaxEditions,   \* bound: how often a document changes
    Horizon        \* bound: on the clock

\* A document has a content, one that does not validate, no _source, or does not exist.
Editions == 0..MaxEditions
Invalid == -1
Sourceless == -2
Absent == -3
Contents == Editions \cup {Invalid, Sourceless, Absent}

ASSUME ContentAssumption ==
    /\ All \notin Docs
    /\ Targets \in [Requests -> SUBSET (Docs \cup {All})]
    /\ Size \in Nat \ {0}
    /\ Initial \subseteq {0, Invalid, Sourceless, Absent}
    /\ Ttl \in Nat \ {0} /\ Latency \in Nat
    /\ MaxEditions \in Nat /\ Horizon \in Nat

NoEntry == [content |-> Absent, until |-> 0]

VARIABLES
    now,
    source,    \* Elasticsearch, by document
    edition,   \* auxiliary: how often a document has changed
    gone,      \* auxiliary: when a document last ceased to hold a content, -1 if never
    cache,     \* Redis, by document
    pc,
    target,    \* what a request asks for
    found,     \* the documents a request has, with their contents
    read,      \* when a get read its document from Elasticsearch, -1 if it did not
    status,    \* the HTTP status answered, 0 while there is none
    asked,     \* auxiliary: when a request began
    warm,      \* auxiliary: gets whose document was cached all the while
    faults     \* auxiliary: the servers a request had an error of

elastic == <<source, edition, gone>>
client == <<pc, target, found, read, status>>
history == <<asked, warm, faults>>
vars == <<now, elastic, cache, client, history>>

Servers == {"redis", "elastic"}

TypeOK ==
    /\ now \in 0..Horizon
    /\ source \in [Docs -> Contents]
    /\ edition \in 0..MaxEditions
    /\ gone \in [Docs \X Contents -> -1..Horizon]
    /\ cache \in [Docs -> [content : Contents, until : 0..(Horizon + Ttl)]]
    /\ target \in [Requests -> Docs \cup {All}]
    /\ pc \in [Requests -> {"idle", "get", "invalidate", "source", "store", "done"}]
    /\ found \in [Requests -> SUBSET (Docs \X Editions)]
    /\ read \in [Requests -> -1..Horizon]
    /\ status \in [Requests -> {0, 200, 404, 502}]
    /\ asked \in [Requests -> 0..Horizon]
    /\ warm \subseteq Requests
    /\ faults \in [Requests -> SUBSET Servers]

\* An entry that another release of the service has stored may not validate.
Init ==
    /\ now = 0
    /\ source \in [Docs -> Initial]
    /\ edition = 0
    /\ gone = [x \in Docs \X Contents |-> -1]
    /\ cache \in [Docs -> {NoEntry, [content |-> Invalid, until |-> Ttl]}]
    /\ pc = [r \in Requests |-> "idle"]
    /\ target = [r \in Requests |-> All]
    /\ found = [r \in Requests |-> {}]
    /\ read = [r \in Requests |-> -1]
    /\ status = [r \in Requests |-> 0]
    /\ asked = [r \in Requests |-> 0]
    /\ warm = {}
    /\ faults = [r \in Requests |-> {}]

-----------------------------------------------------------------------------
(* Observation. *)

Busy(r) == pc[r] \notin {"idle", "done"}
Live(d) == cache[d].until > now
Cached(d) == Live(d) /\ cache[d].content \in Editions

\* A change of Redis or of the time is seen by the gets that wait.
Observe ==
    /\ warm' = {r \in warm : Busy(r) => Cached(target[r])'}
    /\ UNCHANGED asked

-----------------------------------------------------------------------------
(* The servers and the time. *)

Publish(d) ==
    /\ edition < MaxEditions
    /\ edition' = edition + 1
    /\ \E c \in {edition', Invalid, Sourceless, Absent} \ {source[d]} :
          source' = [source EXCEPT ![d] = c]
    /\ gone' = [gone EXCEPT ![<<d, source[d]>>] = now]
    /\ UNCHANGED <<now, cache, client, history>>

Tick ==
    /\ now < Horizon
    /\ now' = now + 1
    /\ UNCHANGED <<elastic, cache, client, faults>>
    /\ Observe

\* Redis evicts an entry, restarts, or carries out a DELETE that was given up.
Evict(d) ==
    /\ cache' = [cache EXCEPT ![d] = NoEntry]
    /\ UNCHANGED <<now, elastic, client, faults>>
    /\ Observe

\* Mutant: no expiry is given when it is set again, an entry keeps the later one.
SetForever(r) ==
    /\ pc[r] \in {"store", "done"} /\ read[r] >= 0
    /\ now <= read[r] + Latency
    /\ \E x \in found[r] :
          cache' = [cache EXCEPT ![x[1]] = [content |-> x[2], until |-> Horizon + Ttl]]
    /\ UNCHANGED <<now, elastic, client, faults>>
    /\ Observe

\* The SET of store_model takes effect.
Set(r) ==
    /\ pc[r] \in {"store", "done"} /\ read[r] >= 0
    /\ now <= read[r] + Latency
    /\ \E x \in found[r] :
          cache' = [cache EXCEPT ![x[1]] = [content |-> x[2], until |-> now + Ttl]]
    /\ UNCHANGED <<now, elastic, client, faults>>
    /\ Observe

-----------------------------------------------------------------------------
(* The handlers. *)

Goto(r, label) == pc' = [pc EXCEPT ![r] = label]

Answer(r, code) ==
    /\ Goto(r, "done")
    /\ status' = [status EXCEPT ![r] = code]

Ask(r, x) ==
    /\ pc[r] = "idle" /\ x \in Targets[r]
    /\ target' = [target EXCEPT ![r] = x]
    /\ asked' = [asked EXCEPT ![r] = now]

Get(r, d) ==
    /\ Ask(r, d)
    /\ Goto(r, "get")
    /\ warm' = IF Cached(d) THEN warm \cup {r} ELSE warm
    /\ UNCHANGED <<now, elastic, cache, found, read, status, faults>>

\* Mutant: get reads the document although it is cached.
HitUnused(r) ==
    /\ pc[r] = "get" /\ Cached(target[r])
    /\ Goto(r, "source")
    /\ UNCHANGED <<now, elastic, cache, target, found, read, status, history>>

\* An answer of Redis is used as it comes; an error of Redis is a miss.
Hit(r) ==
    /\ pc[r] = "get" /\ Cached(target[r])
    /\ found' = [found EXCEPT ![r] = {<<target[r], cache[target[r]].content>>}]
    /\ Answer(r, 200)
    /\ UNCHANGED <<now, elastic, cache, target, read, history>>

Miss(r) ==
    /\ pc[r] = "get" /\ ~Live(target[r])
    /\ Goto(r, "source")
    /\ UNCHANGED <<now, elastic, cache, target, found, read, status, history>>

\* Mutant: the RedisError of a GET becomes an ExternalServiceError.
FetchFailsLoudly(r) ==
    /\ pc[r] = "get"
    /\ Answer(r, 502)
    /\ faults' = [faults EXCEPT ![r] = @ \cup {"redis"}]
    /\ UNCHANGED <<now, elastic, cache, target, found, read, asked, warm>>

FetchFails(r) ==
    /\ pc[r] = "get"
    /\ Goto(r, "source")
    /\ faults' = [faults EXCEPT ![r] = @ \cup {"redis"}]
    /\ UNCHANGED <<now, elastic, cache, target, found, read, status, asked, warm>>

Discard(r) ==
    /\ pc[r] = "get" /\ Live(target[r]) /\ ~Cached(target[r])
    /\ Goto(r, "invalidate")
    /\ UNCHANGED <<now, elastic, cache, target, found, read, status, history>>

\* The DELETE removes what is there by now, or fails.
Invalidate(r) ==
    /\ pc[r] = "invalidate"
    /\ Goto(r, "source")
    /\ cache' \in {cache, [cache EXCEPT ![target[r]] = NoEntry]}
    /\ UNCHANGED <<now, elastic, target, found, read, status, faults>>
    /\ Observe

Found(r) ==
    /\ pc[r] = "source" /\ source[target[r]] \in Editions
    /\ found' = [found EXCEPT ![r] = {<<target[r], source[target[r]]>>}]
    /\ read' = [read EXCEPT ![r] = now]
    /\ Goto(r, "store")
    /\ UNCHANGED <<now, elastic, cache, target, status, history>>

NotFound(r) ==
    /\ pc[r] = "source" /\ source[target[r]] = Absent
    /\ Answer(r, 404)
    /\ UNCHANGED <<now, elastic, cache, target, found, read, history>>

\* Mutant: the ValidationError of a document is nobody's.
BadDocumentUncaught(r) ==
    /\ pc[r] = "source" /\ source[target[r]] \in {Invalid, Sourceless}
    /\ Answer(r, 500)
    /\ UNCHANGED <<now, elastic, cache, target, found, read, history>>

BadDocument(r) ==
    /\ pc[r] = "source" /\ source[target[r]] \in {Invalid, Sourceless}
    /\ Answer(r, 502)
    /\ UNCHANGED <<now, elastic, cache, target, found, read, history>>

\* The SET was answered, or its RedisError swallowed.
Respond(r) ==
    /\ pc[r] = "store"
    /\ Answer(r, 200)
    /\ UNCHANGED <<now, elastic, cache, target, found, read, history>>

SourceFails(r) ==
    /\ pc[r] = "source"
    /\ Answer(r, 502)
    /\ faults' = [faults EXCEPT ![r] = @ \cup {"elastic"}]
    /\ UNCHANGED <<now, elastic, cache, target, found, read, asked, warm>>

\* The pages search_all may return: any documents up to the size.
Pages ==
    LET all == {d \in Docs : source[d] # Absent}
    IN IF Cardinality(all) <= Size THEN {all} ELSE kSubset(Size, all)

Readable(page) == {<<d, source[d]>> : d \in {x \in page : source[x] # Sourceless}}

\* A listing is one exchange.  Hits without _source are left out; a document that does
\* not validate spoils it.
List(r) ==
    /\ Ask(r, All)
    /\ \E page \in Pages :
          IF \E d \in page : source[d] = Invalid
          THEN Answer(r, 502) /\ UNCHANGED found
          ELSE Answer(r, 200) /\ found' = [found EXCEPT ![r] = Readable(page)]
    /\ UNCHANGED <<now, elastic, cache, read, warm, faults>>

ListFails(r) ==
    /\ Ask(r, All)
    /\ Answer(r, 502)
    /\ faults' = [faults EXCEPT ![r] = @ \cup {"elastic"}]
    /\ UNCHANGED <<now, elastic, cache, found, read, warm>>

Step(r) ==
    \/ \E d \in Docs : Get(r, d)
    \/ Hit(r) \/ Miss(r) \/ FetchFails(r) \/ Discard(r) \/ Invalidate(r)
    \/ Found(r) \/ NotFound(r) \/ BadDocument(r) \/ Respond(r)
    \/ SourceFails(r)
    \/ List(r) \/ ListFails(r)

Finished == (\A r \in Requests : pc[r] = "done") /\ UNCHANGED vars

Next ==
    \/ \E d \in Docs : Publish(d) \/ Evict(d)
    \/ \E r \in Requests : Step(r) \/ Set(r)
    \/ Tick \/ Finished

Spec == Init /\ [][Next]_vars

-----------------------------------------------------------------------------
(* Properties. *)

\* The last moment a document held a content.
LastHeld(d, c) == IF source[d] = c THEN now ELSE gone[<<d, c>>]

\* What get answers was the document less than Ttl + Latency before the request began,
\* whoever filled the cache and whatever was published meanwhile.
BoundedStaleness ==
    \A r \in Requests : status[r] = 200 /\ target[r] \in Docs =>
        \A x \in found[r] : LastHeld(x[1], x[2]) + Ttl + Latency > asked[r]

\* A listing shows what Elasticsearch held since it began, and an error is one of
\* Elasticsearch since then: never of Redis, never of an old cache entry.
AnswersAreTheSource ==
    \A r \in Requests :
        LET Since(d, c) == LastHeld(d, c) >= asked[r]
            Broken == "elastic" \in faults[r]
        IN
        /\ target[r] \in Docs =>
              /\ status[r] = 404 => Since(target[r], Absent)
              /\ status[r] = 502 => \/ Broken
                                    \/ Since(target[r], Invalid)
                                    \/ Since(target[r], Sourceless)
        /\ target[r] = All =>
              /\ status[r] = 200 => \A x \in found[r] : Since(x[1], x[2])
              /\ status[r] = 502 => Broken \/ \E d \in Docs : Since(d, Invalid)
              /\ status[r] # 404

\* A document that stays cached is answered while Redis answers, even if Elasticsearch
\* fails or has lost it.
WarmAnswers ==
    \A r \in warm : pc[r] = "done" /\ "redis" \notin faults[r] => status[r] = 200
=============================================================================
