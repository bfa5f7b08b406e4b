--------------------------- MODULE ContentCacheProofs ---------------------------
(***************************************************************************)
(* Theorems about ContentCache for every set of documents and requests and *)
(* every Ttl and Latency: how old an answer may be, whose errors are       *)
(* answered, and what a cached document is worth.                          *)
(***************************************************************************)
EXTENDS ContentCache, TLAPS

-----------------------------------------------------------------------------
(* The inductive invariant. *)

\* Nothing has ended, and nobody has asked, later than now.
Past ==
    /\ \A x \in Docs \X Contents : gone[x] <= now
    /\ \A r \in Requests : asked[r] <= now

\* An entry that validates was true Ttl + Latency before it expires, or later.
EntryFresh ==
    \A d \in Docs : cache[d].content \in Editions =>
        LastHeld(d, cache[d].content) + Ttl + Latency >= cache[d].until

\* Where a request stands bounds what it has.
Calls(r) ==
    /\ pc[r] \in {"idle", "get", "invalidate", "source"} => read[r] = -1
    /\ pc[r] \in {"get", "invalidate", "source", "store"} => target[r] \in Docs
    /\ pc[r] # "done" => status[r] = 0
    /\ pc[r] = "store" => read[r] >= 0

\* What was read from Elasticsearch was true then.
Sourced(r) ==
    read[r] >= 0 =>
        /\ target[r] \in Docs /\ asked[r] <= read[r]
        /\ \E e \in Editions :
              found[r] = {<<target[r], e>>} /\ LastHeld(target[r], e) >= read[r]

\* A get whose document stays cached is on its way to answer it.
Warm(r) ==
    r \in warm =>
        /\ pc[r] # "idle"
        /\ Busy(r) => Cached(target[r])
        /\ \/ "redis" \in faults[r]
           \/ pc[r] = "get"
           \/ pc[r] = "done" /\ status[r] = 200

\* BoundedStaleness and AnswersAreTheSource of one request.
Recent(r) ==
    status[r] = 200 /\ target[r] \in Docs =>
        \A x \in found[r] : LastHeld(x[1], x[2]) + Ttl + Latency > asked[r]

Since(r, d, c) == LastHeld(d, c) >= asked[r]

Sound(r) ==
    /\ target[r] \in Docs =>
          /\ status[r] = 404 => Since(r, target[r], Absent)
          /\ status[r] = 502 => \/ "elastic" \in faults[r]
                                \/ Since(r, target[r], Invalid)
                                \/ Since(r, target[r], Sourceless)
    /\ target[r] = All =>
          /\ status[r] = 200 => \A x \in found[r] : Since(r, x[1], x[2])
          /\ status[r] = 502 => "elastic" \in faults[r] \/ \E d \in Docs : Since(r, d, Invalid)
          /\ status[r] # 404

CInv ==
    /\ TypeOK /\ Past /\ EntryFresh
    /\ \A r \in Requests : Calls(r) /\ Sourced(r) /\ Warm(r) /\ Recent(r) /\ Sound(r)

LEMMA InitInvariant == Init => CInv
<1> SUFFICES ASSUME Init  PROVE CInv
  OBVIOUS
<1> USE ContentAssumption
<1>1. TypeOK
  <2>1. {0, Invalid, Sourceless, Absent} \subseteq Contents /\ 0 \in 0..Horizon
    BY DEF Contents, Editions
  <2>2. source \in [Docs -> Contents]
    BY <2>1 DEF Init
  <2>3. {NoEntry, [content |-> Invalid, until |-> Ttl]}
           \subseteq [content : Contents, until : 0..(Horizon + Ttl)]
    BY <2>1 DEF NoEntry
  <2>4. cache \in [Docs -> [content : Contents, until : 0..(Horizon + Ttl)]]
    BY <2>3 DEF Init
  <2>5. gone \in [Docs \X Contents -> -1..Horizon] /\ read \in [Requests -> -1..Horizon]
    BY DEF Init
  <2>6. /\ now \in 0..Horizon /\ edition \in 0..MaxEditions
        /\ status \in [Requests -> {0, 200, 404, 502}]
        /\ asked \in [Requests -> 0..Horizon]
    BY DEF Init
  <2>7. /\ target \in [Requests -> Docs \cup {All}]
        /\ pc \in [Requests -> {"idle", "get", "invalidate", "source", "store", "done"}]
        /\ found \in [Requests -> SUBSET (Docs \X Editions)]
        /\ warm \subseteq Requests
        /\ faults \in [Requests -> SUBSET Servers]
    BY DEF Init
  <2> QED
    BY <2>2, <2>4, <2>5, <2>6, <2>7 DEF TypeOK
<1>2. Past /\ EntryFresh
  BY DEF Init, Past, EntryFresh, NoEntry, Contents, Editions, Invalid, Absent
<1>3. \A r \in Requests : Calls(r) /\ Sourced(r) /\ Warm(r) /\ Recent(r) /\ Sound(r)
  BY DEF Init, Calls, Sourced, Warm, Recent, Sound
<1> QED
  BY <1>1, <1>2, <1>3 DEF CInv

-----------------------------------------------------------------------------
(* Time. *)

LEMMA LastHeldType ==
    ASSUME TypeOK, Past, NEW d \in Docs, NEW c \in Contents
    PROVE  /\ LastHeld(d, c) \in Int /\ LastHeld(d, c) <= now
           /\ gone[<<d, c>>] \in Int /\ gone[<<d, c>>] <= now
BY ContentAssumption DEF TypeOK, Past, LastHeld

\* The last moment of a content only moves forward.
Forward ==
    /\ now' \in Int /\ now <= now'
    /\ \A d \in Docs, c \in Contents :
          LastHeld(d, c)' \in Int /\ LastHeld(d, c)' >= LastHeld(d, c)

LEMMA Same ==
    ASSUME UNCHANGED <<now, elastic>>, NEW d, NEW c
    PROVE  LastHeld(d, c)' = LastHeld(d, c)
BY DEF LastHeld, elastic

LEMMA Still ==
    ASSUME TypeOK, Past, UNCHANGED <<now, elastic>>
    PROVE  Forward
<1>1. ASSUME NEW d \in Docs, NEW c \in Contents  PROVE LastHeld(d, c)' = LastHeld(d, c)
  BY Same
<1>2. \A d \in Docs, c \in Contents : LastHeld(d, c) \in Int
  BY LastHeldType
<1>3. now \in Int
  BY ContentAssumption DEF TypeOK
<1> QED
  BY <1>1, <1>2, <1>3 DEF Forward

\* What holds of a request that stays as it is.
LEMMA Kept ==
    ASSUME CInv, Forward, NEW r \in Requests,
           pc'[r] = pc[r], target'[r] = target[r], found'[r] = found[r], read'[r] = read[r],
           status'[r] = status[r], asked'[r] = asked[r], faults'[r] = faults[r]
    PROVE  Calls(r)' /\ Sourced(r)' /\ Recent(r)' /\ Sound(r)'
<1>1. /\ Calls(r) /\ Sourced(r) /\ Recent(r) /\ Sound(r)
      /\ asked[r] \in Int /\ read[r] \in Int /\ found[r] \subseteq Docs \X Editions
      /\ target[r] \in Docs \cup {All}
  BY ContentAssumption DEF CInv, TypeOK
<1>2. \A d \in Docs, c \in Contents :
          /\ LastHeld(d, c)' \in Int /\ LastHeld(d, c) \in Int
          /\ LastHeld(d, c)' >= LastHeld(d, c)
  BY LastHeldType DEF Forward, CInv
<1>3. Editions \subseteq Contents /\ {Invalid, Sourceless, Absent} \subseteq Contents
  BY DEF Contents
<1>4. Calls(r)'
  BY <1>1 DEF Calls
<1>5. Sourced(r)'
  BY <1>1, <1>2, <1>3 DEF Sourced
<1>6. Recent(r)'
  <2> SUFFICES ASSUME status[r] = 200, target[r] \in Docs, NEW x \in found[r]
               PROVE  LastHeld(x[1], x[2])' + Ttl + Latency > asked[r]
    BY DEF Recent
  <2>1. x[1] \in Docs /\ x[2] \in Contents
    BY <1>1, <1>3
  <2>2. LastHeld(x[1], x[2]) + Ttl + Latency > asked[r]
    BY <1>1 DEF Recent
  <2>3. LastHeld(x[1], x[2])' >= LastHeld(x[1], x[2])
    BY <1>2, <2>1
  <2> QED
    BY <1>1, <1>2, <2>1, <2>2, <2>3, ContentAssumption
<1>7. \A d \in Docs, c \in Contents : Since(r, d, c) => Since(r, d, c)'
  BY <1>1, <1>2 DEF Since
<1>8. Sound(r)'
  <2>1. target[r] = All => \A x \in found[r] : x[1] \in Docs /\ x[2] \in Contents
    BY <1>1, <1>3
  <2> QED
    BY <1>1, <1>3, <1>7, <2>1 DEF Sound
<1> QED
  BY <1>4, <1>5, <1>6, <1>8

\* An entry that stays is as fresh as before.
LEMMA EntryKept ==
    ASSUME CInv, Forward, NEW d \in Docs, NEW c \in Editions, cache[d].content = c
    PROVE  LastHeld(d, c)' + Ttl + Latency >= cache[d].until
<1> USE ContentAssumption
<1>1. c \in Contents /\ cache[d].until \in Int
  BY DEF CInv, TypeOK, Contents
<1>2. LastHeld(d, c) + Ttl + Latency >= cache[d].until
  BY DEF CInv, EntryFresh
<1>3. /\ LastHeld(d, c)' \in Int /\ LastHeld(d, c) \in Int
      /\ LastHeld(d, c)' >= LastHeld(d, c)
  BY <1>1, LastHeldType DEF Forward, CInv
<1> QED
  BY <1>1, <1>2, <1>3

\* The entries are as fresh as before, if those that change are.
LEMMA EntriesKept ==
    ASSUME CInv, Forward,
           \A d \in Docs, c \in Editions : cache'[d] # cache[d] /\ cache'[d].content = c =>
               LastHeld(d, c)' + Ttl + Latency >= cache'[d].until
    PROVE  EntryFresh'
<1> SUFFICES ASSUME NEW d \in Docs, NEW c \in Editions, cache'[d].content = c
             PROVE  LastHeld(d, c)' + Ttl + Latency >= cache'[d].until
  BY DEF EntryFresh, LastHeld
<1>1. CASE cache'[d] = cache[d]
  BY <1>1, EntryKept
<1>2. CASE cache'[d] # cache[d]
  BY <1>2
<1> QED
  BY <1>1, <1>2

-----------------------------------------------------------------------------
(* The servers and the time. *)

LEMMA EnvironmentStep ==
    ASSUME CInv, Forward, TypeOK', Past', EntryFresh', UNCHANGED <<client, faults, asked>>,
           \A r \in warm' : r \in warm /\ (Busy(r) => Cached(target[r])')
    PROVE  CInv'
<1>1. ASSUME NEW r \in Requests  PROVE Calls(r)' /\ Sourced(r)' /\ Recent(r)' /\ Sound(r)'
  BY Kept DEF client
<1>2. ASSUME NEW r \in Requests  PROVE Warm(r)'
  <2>1. Warm(r)
    BY DEF CInv
  <2> QED
    BY <2>1 DEF Warm, Busy, client, Cached, Live
<1> QED
  BY <1>1, <1>2 DEF CInv

LEMMA ObservedWarm ==
    ASSUME Observe
    PROVE  /\ UNCHANGED asked
           /\ \A r \in warm' : r \in warm /\ (Busy(r) => Cached(target[r])')
BY DEF Observe

LEMMA PublishStep ==
    ASSUME CInv, NEW d \in Docs, Publish(d)
    PROVE  CInv'
<1> USE ContentAssumption
<1>1. /\ TypeOK /\ Past /\ EntryFresh
      /\ now \in Int /\ source[d] \in Contents /\ UNCHANGED <<now, cache, client, history>>
  BY DEF CInv, TypeOK, Publish
<1>2. PICK c \in {edition', Invalid, Sourceless, Absent} \ {source[d]} :
          source' = [source EXCEPT ![d] = c]
  BY DEF Publish
<1>3. edition' \in Editions /\ c \in Contents
  BY <1>1, <1>2 DEF Publish, Editions, Contents, TypeOK
<1>4. gone' = [gone EXCEPT ![<<d, source[d]>>] = now]
  BY DEF Publish
<1>5. \A x \in Docs, k \in Contents :
          gone'[<<x, k>>] = IF x = d /\ k = source[d] THEN now ELSE gone[<<x, k>>]
  BY <1>1, <1>4 DEF TypeOK
<1>6. TypeOK'
  <2>1. source' \in [Docs -> Contents]
    BY <1>1, <1>2, <1>3 DEF TypeOK
  <2>2. gone' \in [Docs \X Contents -> -1..Horizon]
    <3>1. now \in -1..Horizon
      BY <1>1 DEF TypeOK
    <3> QED
      BY <1>1, <1>4, <3>1 DEF TypeOK
  <2>3. edition' \in 0..MaxEditions
    BY <1>3 DEF Editions
  <2> QED
    BY <1>1, <2>1, <2>2, <2>3 DEF TypeOK, client, history
<1>7. Forward
  <2>1. ASSUME NEW x \in Docs, NEW k \in Contents
        PROVE  LastHeld(x, k)' \in Int /\ LastHeld(x, k)' >= LastHeld(x, k)
    <3>1. /\ LastHeld(x, k) \in Int /\ LastHeld(x, k) <= now
          /\ gone[<<x, k>>] \in Int /\ gone[<<x, k>>] <= now
      BY <1>1, LastHeldType
    <3>2. source'[x] = IF x = d THEN c ELSE source[x]
      BY <1>1, <1>2 DEF TypeOK
    <3> QED
      BY <1>1, <1>2, <1>5, <3>1, <3>2 DEF LastHeld
  <2> QED
    BY <1>1, <2>1 DEF Forward
<1>8. Past'
  <2>1. \A x \in Docs \X Contents : gone'[x] <= now
    <3> SUFFICES ASSUME NEW x \in Docs \X Contents  PROVE gone'[x] <= now
      OBVIOUS
    <3>1. gone'[x] = now \/ gone'[x] = gone[x]
      BY <1>1, <1>4 DEF TypeOK
    <3> QED
      BY <1>1, <3>1 DEF Past
  <2> QED
    BY <1>1, <2>1 DEF Past, history
<1>9. EntryFresh'
  BY <1>1, <1>7, EntriesKept
<1>10. \A r \in warm' : r \in warm /\ (Busy(r) => Cached(target[r])')
  <2> SUFFICES ASSUME NEW r \in warm, Busy(r)  PROVE Cached(target[r])'
    BY <1>1 DEF history
  <2>1. Cached(target[r])
    BY <1>1 DEF CInv, Warm, TypeOK
  <2> QED
    BY <1>1, <2>1 DEF Cached, Live, client
<1> QED
  BY <1>1, <1>6, <1>7, <1>8, <1>9, <1>10, EnvironmentStep DEF history

LEMMA TickStep ==
    ASSUME CInv, Tick
    PROVE  CInv'
<1> USE ContentAssumption
<1>1. /\ TypeOK /\ Past /\ EntryFresh /\ Observe
      /\ now \in Int /\ now' = now + 1 /\ now' \in 0..Horizon
      /\ UNCHANGED <<elastic, cache, client, faults>>
  BY DEF CInv, TypeOK, Tick
<1>2. TypeOK'
  BY <1>1 DEF TypeOK, Observe, elastic, client
<1>3. ASSUME NEW d \in Docs, NEW c \in Contents
      PROVE  LastHeld(d, c)' \in Int /\ LastHeld(d, c)' >= LastHeld(d, c)
  BY <1>1, LastHeldType DEF LastHeld, elastic
<1>4. Forward
  BY <1>1, <1>3 DEF Forward
<1>5. Past'
  <2>1. \A x \in Docs \X Contents : gone[x] \in Int /\ gone[x] <= now
    BY <1>1 DEF TypeOK, Past
  <2>2. \A r \in Requests : asked[r] \in Int /\ asked[r] <= now
    BY <1>1 DEF TypeOK, Past
  <2> QED
    BY <1>1, <2>1, <2>2 DEF Past, elastic, Observe
<1>6. EntryFresh'
  BY <1>1, <1>4, EntriesKept
<1> QED
  BY <1>1, <1>2, <1>4, <1>5, <1>6, ObservedWarm, EnvironmentStep

LEMMA EvictStep ==
    ASSUME CInv, NEW d \in Docs, Evict(d)
    PROVE  CInv'
<1> USE ContentAssumption
<1>1. /\ TypeOK /\ Past /\ EntryFresh /\ Observe
      /\ UNCHANGED <<now, elastic, client, faults>>
      /\ cache' = [cache EXCEPT ![d] = NoEntry]
  BY DEF CInv, Evict
<1>2. NoEntry \in [content : Contents, until : 0..(Horizon + Ttl)] /\ NoEntry.content \notin Editions
  BY DEF NoEntry, Contents, Editions, Absent
<1>3. cache' \in [Docs -> [content : Contents, until : 0..(Horizon + Ttl)]]
  BY <1>1, <1>2 DEF TypeOK
<1>4. TypeOK'
  BY <1>1, <1>3 DEF TypeOK, Observe, elastic, client
<1>5. Forward
  BY <1>1, Still
<1>6. Past'
  BY <1>1 DEF Past, Observe, elastic
<1>7. EntryFresh'
  <2>1. \A x \in Docs : cache'[x] = IF x = d THEN NoEntry ELSE cache[x]
    BY <1>1 DEF TypeOK
  <2> QED
    BY <1>2, <1>5, <2>1, EntriesKept
<1> QED
  BY <1>1, <1>4, <1>5, <1>6, <1>7, ObservedWarm, EnvironmentStep

LEMMA SetStep ==
    ASSUME CInv, NEW r \in Requests, Set(r)
    PROVE  CInv'
<1> USE ContentAssumption
<1>1. /\ TypeOK /\ Past /\ EntryFresh /\ Observe
      /\ UNCHANGED <<now, elastic, client, faults>>
      /\ now \in 0..Horizon /\ read[r] \in Int /\ read[r] >= 0 /\ now <= read[r] + Latency
  BY DEF CInv, Set, TypeOK
<1>2. PICK x \in found[r] : cache' = [cache EXCEPT ![x[1]] = [content |-> x[2], until |-> now + Ttl]]
  BY DEF Set
<1>3. PICK t \in Docs, e \in Editions : x = <<t, e>> /\ LastHeld(t, e) >= read[r]
  BY <1>1, <1>2 DEF CInv, Sourced
<1> DEFINE entry == [content |-> e, until |-> now + Ttl]
<1>4. entry \in [content : Contents, until : 0..(Horizon + Ttl)]
  BY <1>1, <1>3 DEF Contents
<1>5. cache' = [cache EXCEPT ![t] = entry]
  BY <1>2, <1>3
<1>6. cache' \in [Docs -> [content : Contents, until : 0..(Horizon + Ttl)]]
  BY <1>1, <1>3, <1>4, <1>5 DEF TypeOK
<1>7. TypeOK'
  BY <1>1, <1>6 DEF TypeOK, Observe, elastic, client
<1>8. Forward
  BY <1>1, Still
<1>9. Past'
  BY <1>1 DEF Past, Observe, elastic
<1>10. EntryFresh'
  <2>1. \A d \in Docs : cache'[d] = IF d = t THEN entry ELSE cache[d]
    BY <1>1, <1>3, <1>5 DEF TypeOK
  <2>2. LastHeld(t, e)' + Ttl + Latency >= now + Ttl
    <3>1. LastHeld(t, e)' = LastHeld(t, e)
      BY <1>1, Same
    <3>2. LastHeld(t, e) \in Int
      BY <1>1, <1>3, LastHeldType DEF Contents
    <3> QED
      BY <1>1, <1>3, <3>1, <3>2
  <2>3. \A d \in Docs, c \in Editions : cache'[d] # cache[d] /\ cache'[d].content = c =>
           d = t /\ c = e /\ cache'[d].until = now + Ttl
    BY <2>1
  <2> QED
    BY <1>8, <2>2, <2>3, EntriesKept
<1> QED
  BY <1>1, <1>7, <1>8, <1>9, <1>10, ObservedWarm, EnvironmentStep

-----------------------------------------------------------------------------
(* The handlers. *)

\* The other requests stay where they are.
Others(r) ==
    \A q \in Requests \ {r} :
        /\ pc'[q] = pc[q] /\ target'[q] = target[q] /\ found'[q] = found[q]
        /\ read'[q] = read[q] /\ status'[q] = status[q] /\ asked'[q] = asked[q]
        /\ faults'[q] = faults[q]
        /\ q \in warm' => q \in warm

LEMMA RequestStep ==
    ASSUME CInv, NEW r \in Requests, TypeOK', UNCHANGED <<now, elastic, cache>>, Others(r),
           asked'[r] <= now,
           Calls(r)', Sourced(r)', Warm(r)', Recent(r)', Sound(r)'
    PROVE  CInv'
<1>1. Forward
  BY Still DEF CInv
<1>2. ASSUME NEW q \in Requests \ {r}
      PROVE  Calls(q)' /\ Sourced(q)' /\ Recent(q)' /\ Sound(q)' /\ Warm(q)'
  <2>1. Calls(q)' /\ Sourced(q)' /\ Recent(q)' /\ Sound(q)'
    BY <1>1, Kept DEF Others
  <2>2. Warm(q)'
    BY DEF CInv, Others, Warm, Busy, Cached, Live
  <2> QED
    BY <2>1, <2>2
<1>3. Past'
  BY DEF CInv, Past, Others, elastic
<1>4. EntryFresh'
  BY <1>1, EntriesKept
<1> QED
  BY <1>2, <1>3, <1>4 DEF CInv

LEMMA GetStep ==
    ASSUME CInv, NEW r \in Requests, NEW d \in Docs, Get(r, d)
    PROVE  CInv'
<1> USE ContentAssumption
<1>1. /\ TypeOK /\ Calls(r) /\ now \in 0..Horizon /\ pc[r] = "idle"
      /\ UNCHANGED <<now, elastic, cache, found, read, status, faults>>
  BY DEF CInv, TypeOK, Get, Ask
<1>2. /\ pc' = [pc EXCEPT ![r] = "get"] /\ target' = [target EXCEPT ![r] = d]
      /\ asked' = [asked EXCEPT ![r] = now]
      /\ warm' = IF Cached(d) THEN warm \cup {r} ELSE warm
  BY DEF Get, Ask, Goto
<1>3. TypeOK'
  BY <1>1, <1>2 DEF TypeOK, elastic
<1>4. /\ pc'[r] = "get" /\ target'[r] = d /\ asked'[r] = now /\ Others(r)
  BY <1>1, <1>2 DEF TypeOK, Others
<1>5. read'[r] = -1 /\ status'[r] = 0
  BY <1>1 DEF Calls
<1>6. Calls(r)' /\ Sourced(r)' /\ Recent(r)' /\ Sound(r)'
  BY <1>4, <1>5 DEF Calls, Sourced, Recent, Sound
<1>7. Warm(r)'
  <2>1. r \notin warm
    BY <1>1 DEF CInv, Warm
  <2> QED
    BY <1>1, <1>2, <1>4, <2>1 DEF Warm, Cached, Live
<1> QED
  BY <1>1, <1>3, <1>4, <1>6, <1>7, RequestStep

\* Steps of a get that has nothing to answer yet and touches no server's state.
LEMMA MoveStep ==
    ASSUME CInv, NEW r \in Requests, NEW label \in {"invalidate", "source"},
           pc[r] = "get", pc' = [pc EXCEPT ![r] = label],
           UNCHANGED <<now, elastic, cache, target, found, read, status, asked, warm>>,
           faults' \in {faults, [faults EXCEPT ![r] = @ \cup {"redis"}]},
           r \in warm => "redis" \in faults'[r]
    PROVE  CInv'
<1> USE ContentAssumption
<1>1. TypeOK /\ Calls(r) /\ Warm(r)
  BY DEF CInv
<1>2. faults' \in [Requests -> SUBSET Servers]
  BY <1>1 DEF TypeOK, Servers
<1>3. TypeOK'
  BY <1>1, <1>2 DEF TypeOK, elastic
<1>4. pc'[r] = label /\ asked'[r] <= now /\ Others(r)
  BY <1>1 DEF TypeOK, Others, CInv, Past
<1>5. read'[r] = -1 /\ status'[r] = 0 /\ target'[r] \in Docs
  BY <1>1 DEF Calls
<1>6. Calls(r)' /\ Sourced(r)' /\ Recent(r)' /\ Sound(r)'
  BY <1>4, <1>5 DEF Calls, Sourced, Recent, Sound
<1>7. Warm(r)'
  BY <1>1, <1>4 DEF Warm, Busy, Cached, Live
<1> QED
  BY <1>3, <1>4, <1>6, <1>7, RequestStep

LEMMA MissStep ==
    ASSUME CInv, NEW r \in Requests, Miss(r) \/ FetchFails(r) \/ Discard(r)
    PROVE  CInv'
<1>1. TypeOK /\ Warm(r)
  BY DEF CInv
<1>2. CASE Miss(r)
  <2>1. r \notin warm
    BY <1>1, <1>2 DEF Miss, Warm, Busy, Cached
  <2> QED
    BY <1>2, <2>1, MoveStep DEF Miss, Goto, history
<1>3. CASE FetchFails(r)
  <2>1. "redis" \in faults'[r]
    BY <1>1, <1>3 DEF FetchFails, TypeOK
  <2> QED
    BY <1>3, <2>1, MoveStep DEF FetchFails, Goto
<1>4. CASE Discard(r)
  <2>1. r \notin warm
    BY <1>1, <1>4 DEF Discard, Warm, Busy
  <2> QED
    BY <1>4, <2>1, MoveStep DEF Discard, Goto, history
<1> QED
  BY <1>2, <1>3, <1>4

LEMMA InvalidateStep ==
    ASSUME CInv, NEW r \in Requests, Invalidate(r)
    PROVE  CInv'
<1> USE ContentAssumption
<1>1. /\ TypeOK /\ Past /\ EntryFresh /\ Observe /\ Calls(r) /\ Warm(r)
      /\ UNCHANGED <<now, elastic, target, found, read, status, faults>>
      /\ pc[r] = "invalidate" /\ pc' = [pc EXCEPT ![r] = "source"]
      /\ cache' \in {cache, [cache EXCEPT ![target[r]] = NoEntry]}
  BY DEF CInv, Invalidate, Goto
<1>2. NoEntry \in [content : Contents, until : 0..(Horizon + Ttl)] /\ NoEntry.content \notin Editions
  BY DEF NoEntry, Contents, Editions, Absent
<1>3. cache' \in [Docs -> [content : Contents, until : 0..(Horizon + Ttl)]]
  BY <1>1, <1>2 DEF TypeOK
<1>4. TypeOK'
  BY <1>1, <1>3 DEF TypeOK, Observe, elastic
<1>5. Forward
  BY <1>1, Still
<1>6. Past'
  BY <1>1 DEF Past, Observe, elastic
<1>7. EntryFresh'
  <2>1. \A x \in Docs : cache'[x] \in {cache[x], NoEntry}
    BY <1>1 DEF TypeOK, Calls
  <2> QED
    BY <1>2, <1>5, <2>1, EntriesKept
<1>8. pc'[r] = "source" /\ read'[r] = -1 /\ status'[r] = 0 /\ target'[r] \in Docs
  BY <1>1 DEF TypeOK, Calls
<1>9. Calls(r)' /\ Sourced(r)' /\ Recent(r)' /\ Sound(r)'
  BY <1>8 DEF Calls, Sourced, Recent, Sound
<1>10. ASSUME NEW q \in Requests \ {r}
       PROVE  Calls(q)' /\ Sourced(q)' /\ Recent(q)' /\ Sound(q)' /\ pc'[q] = pc[q]
  <2>1. pc'[q] = pc[q]
    BY <1>1 DEF TypeOK
  <2> QED
    BY <1>1, <1>5, <2>1, Kept DEF Observe
<1>11. ASSUME NEW q \in Requests  PROVE Warm(q)'
  <2> SUFFICES ASSUME q \in warm'  PROVE Warm(q)'
    BY DEF Warm
  <2>1. q \in warm /\ (Busy(q) => Cached(target[q])') /\ Warm(q)
    BY <1>1 DEF Observe, CInv
  <2>2. CASE q = r
    BY <1>1, <1>8, <2>1, <2>2 DEF Warm, Busy
  <2>3. CASE q # r
    BY <1>1, <1>10, <2>1, <2>3 DEF Warm, Busy, Cached, Live
  <2> QED
    BY <2>2, <2>3
<1> QED
  BY <1>4, <1>6, <1>7, <1>9, <1>10, <1>11 DEF CInv

\* The last step of a get or a listing: nothing but the request itself changes.
LEMMA AnswerStep ==
    ASSUME CInv, NEW r \in Requests, pc' = [pc EXCEPT ![r] = "done"],
           UNCHANGED <<now, elastic, cache, read, warm>>,
           TypeOK', Others(r), asked'[r] <= now,
           Sourced(r)', Recent(r)', Sound(r)',
           r \in warm => "redis" \in faults'[r] \/ status'[r] = 200
    PROVE  CInv'
<1>1. pc'[r] = "done"
  BY DEF CInv, TypeOK
<1>2. Calls(r)' /\ Warm(r)'
  BY <1>1 DEF Calls, Warm, Busy
<1> QED
  BY <1>2, RequestStep

LEMMA HitStep ==
    ASSUME CInv, NEW r \in Requests, Hit(r)
    PROVE  CInv'
<1> USE ContentAssumption
<1>1. /\ TypeOK /\ Calls(r) /\ Past /\ EntryFresh
      /\ pc[r] = "get" /\ Cached(target[r])
      /\ found' = [found EXCEPT ![r] = {<<target[r], cache[target[r]].content>>}]
      /\ pc' = [pc EXCEPT ![r] = "done"] /\ status' = [status EXCEPT ![r] = 200]
      /\ UNCHANGED <<now, elastic, cache, target, read, history>>
  BY DEF CInv, Hit, Answer, Goto
<1>2. PICK d \in Docs, c \in Editions : d = target[r] /\ c = cache[d].content
  BY <1>1 DEF Calls, Cached
<1>3. /\ found'[r] = {<<d, c>>} /\ status'[r] = 200 /\ read'[r] = -1
      /\ target'[r] = d /\ asked'[r] = asked[r] /\ asked[r] <= now
      /\ asked[r] \in Int /\ now \in Int /\ cache[d].until \in Int
  BY <1>1, <1>2 DEF TypeOK, Past, Calls, history
<1>4. TypeOK'
  BY <1>1, <1>2 DEF TypeOK, elastic, history
<1>5. Others(r)
  BY <1>1 DEF TypeOK, Others, history
<1>6. LastHeld(d, c)' + Ttl + Latency > asked[r]
  <2>1. LastHeld(d, c)' = LastHeld(d, c)
    BY <1>1, Same
  <2>2. LastHeld(d, c) \in Int
    BY <1>1, LastHeldType DEF Contents
  <2>3. LastHeld(d, c) + Ttl + Latency >= cache[d].until
    BY <1>1, <1>2 DEF EntryFresh
  <2>4. cache[d].until > now
    BY <1>1, <1>2 DEF Cached, Live
  <2> QED
    BY <1>3, <2>1, <2>2, <2>3, <2>4
<1>7. Recent(r)'
  BY <1>3, <1>6 DEF Recent
<1>8. Sourced(r)' /\ Sound(r)'
  BY <1>3 DEF Sourced, Sound
<1> QED
  BY <1>1, <1>3, <1>4, <1>5, <1>7, <1>8, AnswerStep DEF history

LEMMA FoundStep ==
    ASSUME CInv, NEW r \in Requests, Found(r)
    PROVE  CInv'
<1> USE ContentAssumption
<1>1. /\ TypeOK /\ Calls(r) /\ Warm(r) /\ Past
      /\ pc[r] = "source" /\ source[target[r]] \in Editions
      /\ found' = [found EXCEPT ![r] = {<<target[r], source[target[r]]>>}]
      /\ read' = [read EXCEPT ![r] = now] /\ pc' = [pc EXCEPT ![r] = "store"]
      /\ UNCHANGED <<now, elastic, cache, target, status, history>>
  BY DEF CInv, Found, Goto
<1>2. PICK d \in Docs, e \in Editions : d = target[r] /\ e = source[d]
  BY <1>1 DEF Calls
<1>3. /\ found'[r] = {<<d, e>>} /\ status'[r] = 0 /\ read'[r] = now /\ now \in 0..Horizon
      /\ pc'[r] = "store" /\ target'[r] = d /\ asked'[r] = asked[r] /\ asked[r] <= now
  BY <1>1, <1>2 DEF TypeOK, Past, Calls, history
<1>4. TypeOK'
  BY <1>1, <1>2, <1>3 DEF TypeOK, elastic, history
<1>5. Others(r)
  BY <1>1 DEF TypeOK, Others, history
<1>6. LastHeld(d, e)' = now
  BY <1>1, <1>2 DEF LastHeld, elastic
<1>7. Calls(r)' /\ Sourced(r)' /\ Recent(r)' /\ Sound(r)'
  BY <1>1, <1>3, <1>6 DEF Calls, Sourced, Recent, Sound
<1>8. Warm(r)'
  BY <1>1, <1>3 DEF Warm, Busy, Cached, Live, history
<1> QED
  BY <1>1, <1>3, <1>4, <1>5, <1>7, <1>8, RequestStep

\* Elasticsearch has no document for a get, a bad one, or an error.
LEMMA FailedGetStep ==
    ASSUME CInv, NEW r \in Requests, NotFound(r) \/ BadDocument(r) \/ SourceFails(r)
    PROVE  CInv'
<1> USE ContentAssumption
<1>1. /\ TypeOK /\ Calls(r) /\ Warm(r) /\ Past /\ pc[r] = "source"
      /\ UNCHANGED <<now, elastic, cache, target, found, read, asked, warm>>
  BY DEF CInv, NotFound, BadDocument, SourceFails, history
<1>2. PICK d \in Docs : d = target[r]
  BY <1>1 DEF Calls
<1>3. PICK code \in {404, 502} :
          /\ pc' = [pc EXCEPT ![r] = "done"] /\ status' = [status EXCEPT ![r] = code]
          /\ \/ code = 404 /\ source[d] = Absent /\ faults' = faults
             \/ code = 502 /\ source[d] \in {Invalid, Sourceless} /\ faults' = faults
             \/ code = 502 /\ faults' = [faults EXCEPT ![r] = @ \cup {"elastic"}]
  BY <1>2 DEF NotFound, BadDocument, SourceFails, Answer, Goto, history
<1>4. faults' \in [Requests -> SUBSET Servers] /\ faults[r] \subseteq faults'[r]
  BY <1>1, <1>3 DEF TypeOK, Servers
<1>5. TypeOK'
  BY <1>1, <1>3, <1>4 DEF TypeOK, elastic
<1>6. Others(r)
  BY <1>1, <1>3 DEF TypeOK, Others
<1>7. /\ status'[r] = code /\ read'[r] = -1 /\ target'[r] = d
      /\ asked'[r] = asked[r] /\ asked[r] <= now
  BY <1>1, <1>2, <1>3 DEF TypeOK, Calls, Past
<1>8. Sourced(r)' /\ Recent(r)'
  BY <1>3, <1>7 DEF Sourced, Recent
<1>9. Sound(r)'
  <2>1. \A c \in Contents : source[d] = c => Since(r, d, c)'
    BY <1>1, <1>7 DEF Since, LastHeld, elastic
  <2>2. {Invalid, Sourceless, Absent} \subseteq Contents
    BY DEF Contents
  <2>3. \/ code = 404 /\ Since(r, d, Absent)'
        \/ code = 502 /\ (Since(r, d, Invalid)' \/ Since(r, d, Sourceless)')
        \/ code = 502 /\ "elastic" \in faults'[r]
    <3>1. CASE code = 404 /\ source[d] = Absent
      BY <2>1, <2>2, <3>1
    <3>2. CASE code = 502 /\ source[d] \in {Invalid, Sourceless}
      BY <2>1, <2>2, <3>2
    <3>3. CASE code = 502 /\ faults' = [faults EXCEPT ![r] = @ \cup {"elastic"}]
      BY <1>1, <3>3 DEF TypeOK
    <3> QED
      BY <1>3, <3>1, <3>2, <3>3
  <2> QED
    BY <1>7, <2>3 DEF Sound
<1>10. r \in warm => "redis" \in faults'[r]
  BY <1>1, <1>4 DEF Warm
<1>11. /\ pc' = [pc EXCEPT ![r] = "done"] /\ asked'[r] <= now
       /\ UNCHANGED <<now, elastic, cache, read, warm>>
  BY <1>1, <1>3, <1>7
<1> QED
  BY <1>5, <1>6, <1>8, <1>9, <1>10, <1>11, AnswerStep

LEMMA RespondStep ==
    ASSUME CInv, NEW r \in Requests, Respond(r)
    PROVE  CInv'
<1> USE ContentAssumption
<1>1. /\ TypeOK /\ Calls(r) /\ Warm(r) /\ Past /\ Sourced(r) /\ pc[r] = "store"
      /\ pc' = [pc EXCEPT ![r] = "done"] /\ status' = [status EXCEPT ![r] = 200]
      /\ UNCHANGED <<now, elastic, cache, target, found, read, history>>
  BY DEF CInv, Respond, Answer, Goto
<1>2. PICK d \in Docs, e \in Editions :
          /\ d = target[r] /\ found[r] = {<<d, e>>}
          /\ asked[r] <= read[r] /\ LastHeld(d, e) >= read[r]
  BY <1>1 DEF Calls, Sourced
<1>3. /\ found'[r] = {<<d, e>>} /\ status'[r] = 200 /\ target'[r] = d
      /\ asked'[r] = asked[r] /\ asked[r] <= now /\ asked[r] \in Int /\ read[r] \in Int
      /\ read'[r] = read[r]
  BY <1>1, <1>2 DEF TypeOK, Past, history
<1>4. TypeOK'
  BY <1>1 DEF TypeOK, elastic, history
<1>5. Others(r)
  BY <1>1 DEF TypeOK, Others, history
<1>6. LastHeld(d, e)' = LastHeld(d, e) /\ LastHeld(d, e) \in Int
  BY <1>1, Same, LastHeldType DEF Contents
<1>7. Sourced(r)' /\ Recent(r)'
  BY <1>2, <1>3, <1>6 DEF Sourced, Recent
<1>8. Sound(r)'
  BY <1>3 DEF Sound
<1> QED
  BY <1>1, <1>3, <1>4, <1>5, <1>7, <1>8, AnswerStep DEF history

LEMMA PageType ==
    ASSUME TypeOK, NEW page \in Pages, \A d \in page : source[d] # Invalid
    PROVE  /\ page \subseteq Docs
           /\ \A x \in Readable(page) :
                 x \in Docs \X Editions /\ source[x[1]] = x[2]
<1>1. page \subseteq {d \in Docs : source[d] # Absent}
  BY DEF Pages, kSubset
<1>2. ASSUME NEW x \in Readable(page)
      PROVE  x \in Docs \X Editions /\ source[x[1]] = x[2]
  <2>1. PICK d \in page : x = <<d, source[d]>> /\ source[d] # Sourceless
    BY DEF Readable
  <2>2. d \in Docs /\ source[d] \in Contents \ {Absent, Invalid, Sourceless}
    BY <1>1, <2>1 DEF TypeOK
  <2> QED
    BY <2>1, <2>2 DEF Contents
<1> QED
  BY <1>1, <1>2

LEMMA ListStep ==
    ASSUME CInv, NEW r \in Requests, List(r)
    PROVE  CInv'
<1> USE ContentAssumption
<1>1. /\ TypeOK /\ Calls(r) /\ Warm(r) /\ pc[r] = "idle"
      /\ now \in 0..Horizon
      /\ target' = [target EXCEPT ![r] = All] /\ asked' = [asked EXCEPT ![r] = now]
      /\ UNCHANGED <<now, elastic, cache, read, warm, faults>>
  BY DEF CInv, TypeOK, List, Ask
<1>2. PICK page \in Pages, code \in {200, 502} :
          /\ pc' = [pc EXCEPT ![r] = "done"] /\ status' = [status EXCEPT ![r] = code]
          /\ code = 502 => (\E d \in page : source[d] = Invalid) /\ found' = found
          /\ code = 200 => /\ \A d \in page : source[d] # Invalid
                           /\ found' = [found EXCEPT ![r] = Readable(page)]
  BY DEF List, Answer, Goto
<1>3. page \subseteq Docs
  BY <1>2 DEF Pages, kSubset
<1>4. found' \in [Requests -> SUBSET (Docs \X Editions)]
  BY <1>1, <1>2, PageType DEF TypeOK
<1>5. TypeOK'
  BY <1>1, <1>2, <1>4 DEF TypeOK, elastic
<1>6. /\ status'[r] = code /\ read'[r] = -1 /\ target'[r] = All /\ asked'[r] = now
      /\ Others(r)
  BY <1>1, <1>2 DEF TypeOK, Calls, Others
<1>7. Sourced(r)' /\ Recent(r)'
  BY <1>6 DEF Sourced, Recent
<1>8. \A d \in Docs, c \in Contents : source[d] = c => Since(r, d, c)'
  BY <1>1, <1>6 DEF Since, LastHeld, elastic
<1>9. Sound(r)'
  <2>1. code = 200 => \A x \in found'[r] : Since(r, x[1], x[2])'
    <3> SUFFICES ASSUME code = 200, NEW x \in Readable(page)  PROVE Since(r, x[1], x[2])'
      BY <1>1, <1>2 DEF TypeOK
    <3>1. x[1] \in Docs /\ x[2] \in Contents /\ source[x[1]] = x[2]
      BY <1>1, <1>2, PageType DEF Contents
    <3> QED
      BY <1>8, <3>1
  <2>2. code = 502 => \E d \in Docs : Since(r, d, Invalid)'
    BY <1>2, <1>3, <1>8 DEF Contents
  <2> QED
    BY <1>6, <2>1, <2>2 DEF Sound
<1>10. r \notin warm
  BY <1>1 DEF Warm
<1>11. /\ pc' = [pc EXCEPT ![r] = "done"] /\ asked'[r] <= now
       /\ UNCHANGED <<now, elastic, cache, read, warm>>
  BY <1>1, <1>2, <1>6
<1> QED
  BY <1>5, <1>6, <1>7, <1>9, <1>10, <1>11, AnswerStep

LEMMA ListFailsStep ==
    ASSUME CInv, NEW r \in Requests, ListFails(r)
    PROVE  CInv'
<1> USE ContentAssumption
<1>1. /\ TypeOK /\ Calls(r) /\ Warm(r) /\ pc[r] = "idle" /\ now \in 0..Horizon
      /\ target' = [target EXCEPT ![r] = All] /\ asked' = [asked EXCEPT ![r] = now]
      /\ pc' = [pc EXCEPT ![r] = "done"] /\ status' = [status EXCEPT ![r] = 502]
      /\ faults' = [faults EXCEPT ![r] = @ \cup {"elastic"}]
      /\ UNCHANGED <<now, elastic, cache, found, read, warm>>
  BY DEF CInv, TypeOK, ListFails, Ask, Answer, Goto
<1>2. faults' \in [Requests -> SUBSET Servers]
  BY <1>1 DEF TypeOK, Servers
<1>3. TypeOK'
  BY <1>1, <1>2 DEF TypeOK, elastic
<1>4. /\ status'[r] = 502 /\ read'[r] = -1 /\ target'[r] = All /\ asked'[r] = now
      /\ "elastic" \in faults'[r] /\ Others(r)
  BY <1>1 DEF TypeOK, Calls, Others
<1>5. Sourced(r)' /\ Recent(r)' /\ Sound(r)'
  BY <1>4 DEF Sourced, Recent, Sound
<1>6. r \notin warm
  BY <1>1 DEF Warm
<1>7. /\ pc' = [pc EXCEPT ![r] = "done"] /\ asked'[r] <= now
      /\ UNCHANGED <<now, elastic, cache, read, warm>>
  BY <1>1, <1>4
<1> QED
  BY <1>3, <1>4, <1>5, <1>6, <1>7, AnswerStep

-----------------------------------------------------------------------------
(* The theorems. *)

LEMMA StepInvariant ==
    ASSUME CInv, NEW r \in Requests, Step(r)
    PROVE  CInv'
<1>1. ASSUME NEW d \in Docs, Get(r, d)  PROVE CInv'
  BY <1>1, GetStep
<1>2. CASE Hit(r)
  BY <1>2, HitStep
<1>3. CASE Miss(r) \/ FetchFails(r) \/ Discard(r)
  BY <1>3, MissStep
<1>4. CASE Invalidate(r)
  BY <1>4, InvalidateStep
<1>5. CASE Found(r)
  BY <1>5, FoundStep
<1>6. CASE NotFound(r) \/ BadDocument(r) \/ SourceFails(r)
  BY <1>6, FailedGetStep
<1>7. CASE Respond(r)
  BY <1>7, RespondStep
<1>8. CASE List(r)
  BY <1>8, ListStep
<1>9. CASE ListFails(r)
  BY <1>9, ListFailsStep
<1> QED
  BY <1>1, <1>2, <1>3, <1>4, <1>5, <1>6, <1>7, <1>8, <1>9 DEF Step

LEMMA StutterInvariant ==
    ASSUME CInv, UNCHANGED vars
    PROVE  CInv'
<1>1. Forward
  BY Still DEF CInv, vars
<1>2. TypeOK' /\ Past'
  BY DEF CInv, TypeOK, Past, vars, elastic, client, history
<1>3. EntryFresh'
  BY <1>1, EntriesKept DEF vars
<1>4. \A r \in warm' : r \in warm /\ (Busy(r) => Cached(target[r])')
  BY DEF CInv, TypeOK, Warm, Cached, Live, vars, client, history
<1> QED
  BY <1>1, <1>2, <1>3, <1>4, EnvironmentStep DEF vars, history

LEMMA NextInvariant == CInv /\ [Next]_vars => CInv'
<1> SUFFICES ASSUME CInv, [Next]_vars  PROVE CInv'
  OBVIOUS
<1>1. ASSUME NEW d \in Docs, Publish(d) \/ Evict(d)  PROVE CInv'
  BY <1>1, PublishStep, EvictStep
<1>2. ASSUME NEW r \in Requests, Step(r) \/ Set(r)  PROVE CInv'
  BY <1>2, StepInvariant, SetStep
<1>3. CASE Tick
  BY <1>3, TickStep
<1>4. CASE Finished \/ UNCHANGED vars
  BY <1>4, StutterInvariant DEF Finished
<1> QED
  BY <1>1, <1>2, <1>3, <1>4 DEF Next

LEMMA Invariant == Spec => []CInv
<1> QED
  BY InitInvariant, NextInvariant, PTL DEF Spec

\* The variables of ContentCache keep their types.
THEOREM TypeCorrect == Spec => []TypeOK
<1>1. CInv => TypeOK
  BY DEF CInv
<1> QED
  BY <1>1, Invariant, PTL

\* An answered document was true less than Ttl + Latency before the request began,
\* although nobody invalidates the cache: ContentService.get.
THEOREM StalenessIsBounded == Spec => []BoundedStaleness
<1>1. CInv => BoundedStaleness
  BY DEF CInv, BoundedStaleness, Recent
<1> QED
  BY <1>1, Invariant, PTL

\* No error of Redis, and no old entry, is ever answered as one of Elasticsearch; a
\* listing is no older than its request: ContentService.get and list.
THEOREM ErrorsAreTheSource == Spec => []AnswersAreTheSource
<1>1. CInv => AnswersAreTheSource
  BY DEF CInv, AnswersAreTheSource, Sound, Since
<1> QED
  BY <1>1, Invariant, PTL

\* A document that stays cached is answered whatever becomes of Elasticsearch.
THEOREM CacheOutlivesSource == Spec => []WarmAnswers
<1>1. CInv => WarmAnswers
  BY DEF CInv, WarmAnswers, Warm, TypeOK
<1> QED
  BY <1>1, Invariant, PTL
=============================================================================
