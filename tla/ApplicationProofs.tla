--------------------------- MODULE ApplicationProofs ---------------------------
(***************************************************************************)
(* For any clients, limits, settings and number of requests in flight: the *)
(* limiter implements the window of SlidingWindow, and keeps its promise   *)
(* inside the process of a service, through its crashes and restarts;      *)
(* connections outlive the requests that use them; request ids are not     *)
(* mixed up.                                                               *)
(*                                                                         *)
(* The argument for the limiter (Kept): the deque is the end of the list   *)
(* of admitted times, and what it has forgotten is out of the window for   *)
(* good.  Hence the deque is full exactly when the window is.              *)
(***************************************************************************)
EXTENDS Application, WellFoundedInduction, SequenceTheorems, TLAPS

-----------------------------------------------------------------------------
(* The limiter. *)

USE LimiterAssumption

LEMMA TimesAreIntegers == Times \subseteq Int  BY DEF Times

\* What relates the deque b of a client, the times a at which it passed and the
\* time now.
Kept(b, a, now) ==
    /\ Len(b) <= Limit
    /\ Len(b) <= Len(a)
    \* Suffix
    /\ \A i \in 1..Len(b) : b[i] = a[Len(a) - Len(b) + i]
    \* Forgotten
    /\ \A i \in 1..(Len(a) - Len(b)) : now - a[i] > Interval

Spaced(a) ==
    \A i \in 1..Len(a) : i + Limit <= Len(a) => a[i + Limit] - a[i] > Interval

IInv ==
    /\ TypeOK
    /\ \A k \in Keys : Kept(buckets[k], admitted[k], clock) /\ Spaced(admitted[k])

\* The loop that pops stale entries stops.
LEMMA StaleProperty ==
    ASSUME NEW b \in Seq(Times), clock \in Times
    PROVE  /\ Stale(b) \in 0..Len(b)
           /\ \A i \in 1..Stale(b) : Expired(b[i])
           /\ Stale(b) < Len(b) => ~Expired(b[Stale(b) + 1])
<1> DEFINE P(n) == /\ \A i \in 1..n : Expired(b[i])
                   /\ n < Len(b) => ~Expired(b[n + 1])
           Live == {i \in 1..Len(b) : ~Expired(b[i])}
<1>1. \E n \in 0..Len(b) : P(n)
  <2>1. CASE Live = {}
    <3>1. P(Len(b))  BY <2>1
    <3> QED  BY <3>1
  <2>2. CASE Live # {}
    <3>1. Live \subseteq Nat  OBVIOUS
    <3>2. PICK m \in Live : \A i \in Live : ~(<<i, m>> \in OpToRel(<, Nat))
      BY <2>2, <3>1, NatLessThanWellFounded, WFMin
    <3>3. \A i \in Live : m <= i
      <4> SUFFICES ASSUME NEW i \in Live, i < m  PROVE FALSE  BY <3>1
      <4>1. <<i, m>> \in Nat \X Nat  BY <3>1
      <4>2. <<i, m>> \in {p \in Nat \X Nat : p[1] < p[2]}  BY <4>1
      <4>3. OpToRel(<, Nat) = {p \in Nat \X Nat : p[1] < p[2]}  BY DEF OpToRel
      <4> QED  BY <3>2, <4>2, <4>3
    <3>4. m \in 1..Len(b) /\ m - 1 \in 0..Len(b)  OBVIOUS
    <3>5. \A i \in 1..(m - 1) : Expired(b[i])  BY <3>3, <3>4
    <3>6. (m - 1) + 1 = m  BY <3>4
    <3>7. ~Expired(b[m])  OBVIOUS
    <3>8. P(m - 1)  BY <3>5, <3>6, <3>7
    <3> QED  BY <3>4, <3>8
  <2> QED  BY <2>1, <2>2
<1> QED  BY <1>1 DEF Stale

\* Evict keeps the end of the deque.
LEMMA EvictProperty ==
    ASSUME NEW b \in Seq(Times), clock \in Times
    PROVE  /\ Evict(b) \in Seq(Times)
           /\ Len(Evict(b)) = Len(b) - Stale(b)
           /\ \A i \in 1..Len(Evict(b)) : Evict(b)[i] = b[Stale(b) + i]
<1>1. Stale(b) \in 0..Len(b)  BY StaleProperty
<1> QED  BY <1>1, SubSeqProperties DEF Evict

-----------------------------------------------------------------------------
\* What allow() keeps is still the end of the admitted times; what it drops has
\* expired.
LEMMA EvictKeeps ==
    ASSUME NEW b \in Seq(Times), NEW a \in Seq(Times), clock \in Times, Kept(b, a, clock)
    PROVE  /\ Kept(Evict(b), a, clock)
           /\ Len(Evict(b)) > 0 => ~(clock - Evict(b)[1] > Interval)
<1> DEFINE kept == Evict(b)
           s == Stale(b)
<1>2. /\ kept \in Seq(Times)
      /\ \A i \in 1..Len(kept) : kept[i] = b[s + i]
      /\ \A i \in 1..s : clock - b[i] > Interval
      /\ s < Len(b) => ~(clock - b[s + 1] > Interval)
  BY StaleProperty, EvictProperty DEF Expired
<1>3. /\ \A i \in 1..Len(b) : b[i] = a[Len(a) - Len(b) + i]
      /\ \A i \in 1..(Len(a) - Len(b)) : clock - a[i] > Interval
  BY DEF Kept
<1> DEFINE la == Len(a)
           lb == Len(b)
           lk == Len(kept)
<1>4. la \in Nat /\ lb \in Nat /\ s \in Nat /\ s <= lb /\ lk = lb - s
  <2>1. s \in 0..Len(b) /\ Len(kept) = Len(b) - s
    BY StaleProperty, EvictProperty
  <2>2. Len(a) \in Nat /\ Len(b) \in Nat  OBVIOUS
  <2> HIDE DEF s, kept
  <2> QED  BY <2>1, <2>2
<1>9. lb <= Limit /\ lb <= la  BY DEF Kept
<1> HIDE DEF kept, s, la, lb, lk
<1>5. \A i \in 1..lk : kept[i] = a[la - lk + i]
  <2> TAKE i \in 1..lk
  <2>1. s + i \in 1..lb  BY <1>4
  <2>2. la - lb + (s + i) = la - lk + i  BY <1>4
  <2> QED  BY <1>2, <1>3, <2>1, <2>2 DEF la, lb, lk
<1>6. \A i \in 1..(la - lk) : clock - a[i] > Interval
  <2> TAKE i \in 1..(la - lk)
  <2>1. i \in Nat /\ 1 <= i /\ i <= la - lk  BY <1>4
  <2>2. CASE i <= la - lb
    <3>1. i \in 1..(la - lb)  BY <1>4, <2>1, <2>2
    <3> QED  BY <1>3, <3>1 DEF la, lb
  <2>3. CASE i > la - lb
    <3>1. PICK j \in Int : i = la - lb + j
      <4>1. i - (la - lb) \in Int /\ i = la - lb + (i - (la - lb))  BY <1>4, <2>1
      <4> QED  BY <4>1
    <3>2. j \in 1..s /\ j \in 1..lb  BY <1>4, <2>1, <2>3, <3>1
    <3>3. b[j] = a[i]  BY <1>3, <3>1, <3>2 DEF la, lb
    <3> QED  BY <1>2, <3>2, <3>3
  <2> QED  BY <1>4, <2>1, <2>2, <2>3
<1>7. lk <= Limit /\ lk <= la  BY <1>4, <1>9
<1>8. lk > 0 => ~(clock - kept[1] > Interval)
  <2> SUFFICES ASSUME lk > 0  PROVE ~(clock - kept[1] > Interval)  OBVIOUS
  <2>1. s < lb /\ 1 \in 1..lk  BY <1>4
  <2> QED  BY <1>2, <2>1 DEF lb, lk
<1> QED  BY <1>2, <1>5, <1>6, <1>7, <1>8 DEF Kept, kept, la, lk

\* allow() finds the deque full exactly when the window is.
LEMMA FullWindow ==
    ASSUME IInv, NEW k \in Keys
    PROVE  Len(Evict(buckets[k])) >= Limit <=> Window!Full(k)
<1> DEFINE a == admitted[k]
           kept == Evict(buckets[k])
           oldest == Len(a) - Limit + 1
<1>1. /\ a \in Seq(Times) /\ Len(a) \in Nat
      /\ clock \in Int /\ \A i \in 1..Len(a) : a[i] \in Int
  <2>1. a \in Seq(Times) /\ clock \in Times  BY DEF IInv, TypeOK
  <2>2. Len(a) \in Nat /\ \A i \in 1..Len(a) : a[i] \in Times  BY <2>1
  <2> QED  BY <2>1, <2>2, TimesAreIntegers
<1>2. /\ kept \in Seq(Times)
      /\ Len(kept) <= Limit /\ Len(kept) <= Len(a)
      /\ \A i \in 1..Len(kept) : kept[i] = a[Len(a) - Len(kept) + i]
      /\ \A i \in 1..(Len(a) - Len(kept)) : clock - a[i] > Interval
      /\ Len(kept) > 0 => ~(clock - kept[1] > Interval)
  <2>1. Kept(buckets[k], a, clock)  BY DEF IInv
  <2>2. buckets[k] \in Seq(Times) /\ a \in Seq(Times) /\ clock \in Times  BY DEF IInv, TypeOK
  <2>3. kept \in Seq(Times)  BY <2>2, EvictProperty
  <2>4. Kept(kept, a, clock) /\ (Len(kept) > 0 => ~(clock - kept[1] > Interval))
    BY <2>1, <2>2, EvictKeeps
  <2> QED  BY <2>3, <2>4 DEF Kept
<1>3. Len(kept) \in Nat /\ Len(kept) <= Limit /\ Len(kept) <= Len(a)  BY <1>2
<1> HIDE DEF kept
<1>4. CASE Len(kept) >= Limit
  <2>1. Len(kept) = Limit /\ 1 \in 1..Len(kept) /\ Len(kept) > 0  BY <1>3, <1>4
  <2>2. oldest \in 1..Len(a) /\ Len(a) >= Limit  BY <1>1, <1>3, <2>1
  <2>3. kept[1] = a[oldest]  BY <1>2, <2>1
  <2>4. ~(clock - a[oldest] > Interval)  BY <1>2, <2>1, <2>3
  <2>5. clock - a[oldest] <= Interval  BY <1>1, <2>2, <2>4
  <2> QED  BY <1>4, <2>2, <2>5 DEF Window!Full, kept
<1>5. CASE Len(kept) < Limit
  <2> SUFFICES ASSUME Len(a) >= Limit
               PROVE  ~(clock - a[oldest] <= Interval)
    BY <1>1, <1>3, <1>5 DEF Window!Full, kept
  <2>1. oldest \in 1..(Len(a) - Len(kept)) /\ oldest \in 1..Len(a)  BY <1>1, <1>3, <1>5
  <2>2. clock - a[oldest] > Interval  BY <1>2, <2>1
  <2> QED  BY <1>1, <2>1, <2>2
<1> QED  BY <1>3, <1>4, <1>5

\* Admitting one more where there is room keeps the spacing.
LEMMA AppendKeeps ==
    ASSUME NEW b \in Seq(Times), NEW a \in Seq(Times), NEW t \in Times,
           Kept(b, a, t), Spaced(a), Len(b) < Limit
    PROVE  Kept(Append(b, t), Append(a, t), t) /\ Spaced(Append(a, t))
<1> DEFINE la == Len(a)
           lb == Len(b)
           a2 == Append(a, t)
           b2 == Append(b, t)
<1>1. /\ la \in Nat /\ lb \in Nat /\ lb <= la /\ lb < Limit
      /\ \A i \in 1..lb : b[i] = a[la - lb + i]
      /\ \A i \in 1..(la - lb) : t - a[i] > Interval
  BY DEF Kept
<1>2. /\ Len(a2) = la + 1 /\ a2[la + 1] = t /\ \A i \in 1..la : a2[i] = a[i]
      /\ Len(b2) = lb + 1 /\ b2[lb + 1] = t /\ \A i \in 1..lb : b2[i] = b[i]
  OBVIOUS
<1>3. \A i \in 1..la : i + Limit <= la => a[i + Limit] - a[i] > Interval  BY DEF Spaced
<1> HIDE DEF la, lb, a2, b2
<1>4. \A i \in 1..(lb + 1) : b2[i] = a2[la - lb + i]
  <2> TAKE i \in 1..(lb + 1)
  <2>1. CASE i = lb + 1
    <3>1. la - lb + i = la + 1  BY <1>1, <2>1
    <3> QED  BY <1>2, <2>1, <3>1
  <2>2. CASE i \in 1..lb
    <3>1. la - lb + i \in 1..la  BY <1>1, <2>2
    <3> QED  BY <1>1, <1>2, <2>2, <3>1
  <2> QED  BY <1>1, <2>1, <2>2
<1>5. \A i \in 1..(la - lb) : t - a2[i] > Interval
  <2> TAKE i \in 1..(la - lb)
  <2>1. i \in 1..la  BY <1>1
  <2> QED  BY <1>1, <1>2, <2>1
<1>6. \A i \in 1..(la + 1) : i + Limit <= la + 1 => a2[i + Limit] - a2[i] > Interval
  <2> SUFFICES ASSUME NEW i \in 1..(la + 1), i + Limit <= la + 1
               PROVE  a2[i + Limit] - a2[i] > Interval
    OBVIOUS
  <2>1. i \in 1..la  BY <1>1
  <2>2. CASE i + Limit = la + 1
    <3>1. i \in 1..(la - lb)  BY <1>1, <2>2
    <3> QED  BY <1>2, <1>5, <2>2, <3>1
  <2>3. CASE i + Limit <= la
    <3>1. i + Limit \in 1..la  BY <1>1, <2>3
    <3> QED  BY <1>2, <1>3, <2>1, <2>3, <3>1
  <2> QED  BY <1>1, <2>2, <2>3
<1>7. Kept(b2, a2, t)
  <2>1. (la + 1) - (lb + 1) = la - lb  BY <1>1
  <2>2. \A i \in 1..(lb + 1) : la - lb + i = (la + 1) - (lb + 1) + i  BY <1>1
  <2>3. lb + 1 <= Limit /\ lb + 1 <= la + 1  BY <1>1
  <2> QED  BY <1>2, <1>4, <1>5, <2>1, <2>2, <2>3 DEF Kept
<1>8. Spaced(a2)  BY <1>2, <1>6 DEF Spaced
<1> QED  BY <1>7, <1>8 DEF a2, b2

\* Time only moves what has been forgotten further away.
LEMMA TickKeeps ==
    ASSUME NEW b \in Seq(Times), NEW a \in Seq(Times),
           NEW t \in Times, NEW u \in Times, t <= u, Kept(b, a, t)
    PROVE  Kept(b, a, u)
<1>1. t \in Int /\ u \in Int /\ \A i \in 1..Len(a) : a[i] \in Int
  <2>1. \A i \in 1..Len(a) : a[i] \in Times  OBVIOUS
  <2> QED  BY <2>1, TimesAreIntegers
<1>2. Len(a) \in Nat /\ Len(b) \in Nat  OBVIOUS
<1>3. ASSUME NEW i \in 1..(Len(a) - Len(b))  PROVE u - a[i] > Interval
  <2>1. i \in 1..Len(a)  BY <1>2
  <2>2. t - a[i] > Interval  BY DEF Kept
  <2> QED  BY <1>1, <2>1, <2>2
<1> QED  BY <1>3 DEF Kept

-----------------------------------------------------------------------------
LEMMA InitInvariant == Init => IInv
<1> SUFFICES ASSUME Init  PROVE IInv  OBVIOUS
<1>1. TypeOK
  <2>1. <<>> \in Seq(Times) /\ 0 \in Times  BY DEF Times
  <2> QED  BY <2>1 DEF Init, TypeOK
<1>2. Kept(<<>>, <<>>, 0) /\ Spaced(<<>>)  BY DEF Kept, Spaced
<1> QED  BY <1>1, <1>2 DEF Init, IInv

LEMMA IdentifierType == ASSUME NEW q \in Request  PROVE Identifier(q) \in Keys
BY DEF Request, Identifier, Keys

LEMMA AllowInvariant ==
    ASSUME IInv, NEW k \in Keys, Allow(k), clock' = clock
    PROVE  IInv'
<1> DEFINE kept == Evict(buckets[k])
<1>1. /\ buckets \in [Keys -> Seq(Times)] /\ admitted \in [Keys -> Seq(Times)]
      /\ clock \in Times
  BY DEF IInv, TypeOK
<1>2. kept \in Seq(Times)  BY <1>1, EvictProperty
<1>3. Kept(kept, admitted[k], clock) /\ Spaced(admitted[k])
  BY <1>1, EvictKeeps DEF IInv
<1>4. \A j \in Keys : Kept(buckets[j], admitted[j], clock) /\ Spaced(admitted[j])
  BY DEF IInv
<1> HIDE DEF kept
<1>5. CASE /\ buckets' = [buckets EXCEPT ![k] = kept]
           /\ verdict' = [client |-> k, status |-> 429]
           /\ UNCHANGED admitted
  <2>1. TypeOK'  BY <1>1, <1>2, <1>5 DEF TypeOK
  <2>2. ASSUME NEW j \in Keys
        PROVE  Kept(buckets'[j], admitted'[j], clock') /\ Spaced(admitted'[j])
    BY <1>1, <1>3, <1>4, <1>5
  <2> QED  BY <2>1, <2>2 DEF IInv
<1>6. CASE /\ Len(kept) < Limit
           /\ buckets' = [buckets EXCEPT ![k] = Append(kept, clock)]
           /\ admitted' = [admitted EXCEPT ![k] = Append(@, clock)]
           /\ verdict' = [client |-> k, status |-> 200]
  <2>1. Append(kept, clock) \in Seq(Times) /\ Append(admitted[k], clock) \in Seq(Times)
    BY <1>1, <1>2
  <2>2. TypeOK'  BY <1>1, <1>6, <2>1 DEF TypeOK
  <2>3. /\ Kept(Append(kept, clock), Append(admitted[k], clock), clock)
        /\ Spaced(Append(admitted[k], clock))
    BY <1>1, <1>2, <1>3, <1>6, AppendKeeps
  <2>4. ASSUME NEW j \in Keys
        PROVE  Kept(buckets'[j], admitted'[j], clock') /\ Spaced(admitted'[j])
    BY <1>1, <1>4, <1>6, <2>3
  <2> QED  BY <2>2, <2>4 DEF IInv
<1>7. Len(kept) \in Nat  BY <1>2
<1> QED  BY <1>5, <1>6, <1>7 DEF Allow, kept

LEMMA NextInvariant == IInv /\ [Next]_vars => IInv'
<1> SUFFICES ASSUME IInv, [Next]_vars  PROVE IInv'  OBVIOUS
<1>1. ASSUME NEW q \in Request, Dispatch(q)  PROVE IInv'
  <2>1. CASE q.exempt  BY <1>1, <2>1 DEF Dispatch, IInv, TypeOK
  <2>2. CASE ~q.exempt  BY <1>1, <2>2, IdentifierType, AllowInvariant DEF Dispatch
  <2> QED  BY <2>1, <2>2
<1>2. CASE Tick
  <2>1. clock \in Times /\ clock' \in Times /\ clock' = clock + 1
    BY <1>2 DEF Tick, IInv, TypeOK, Times
  <2>2. TypeOK'  BY <1>2, <2>1 DEF Tick, IInv, TypeOK
  <2>3. ASSUME NEW k \in Keys  PROVE Kept(buckets[k], admitted[k], clock')
    <3>1. buckets[k] \in Seq(Times) /\ admitted[k] \in Seq(Times)  BY DEF IInv, TypeOK
    <3>2. clock <= clock'  BY <2>1 DEF Times
    <3> QED  BY <2>1, <3>1, <3>2, TickKeeps DEF IInv
  <2> QED  BY <1>2, <2>1, <2>2, <2>3 DEF Tick, IInv
<1>3. CASE Restart
  <2>1. TypeOK'  BY <1>3 DEF Restart, IInv, TypeOK
  <2>2. Kept(<<>>, <<>>, clock) /\ Spaced(<<>>)  BY DEF Kept, Spaced
  <2> QED  BY <1>3, <2>1, <2>2 DEF Restart, IInv
<1>4. CASE UNCHANGED vars  BY <1>4 DEF vars, IInv, TypeOK
<1> QED  BY <1>1, <1>2, <1>3, <1>4 DEF Next

LEMMA Invariant == Spec => []IInv
BY InitInvariant, NextInvariant, PTL DEF Spec

\* TypeOK of RateLimiter.
THEOREM TypeCorrect == Spec => []TypeOK
<1>1. IInv => TypeOK  BY DEF IInv
<1> QED  BY <1>1, Invariant, PTL

\* No client passes more than Limit times in any Interval.
THEOREM WindowIsRespected == Spec => []WindowRespected
<1>1. IInv => WindowRespected
  <2> SUFFICES ASSUME IInv, NEW k \in Keys, NEW i \in DOMAIN admitted[k],
                      i + Limit <= Len(admitted[k])
               PROVE  admitted[k][i + Limit] - admitted[k][i] > Interval
    BY DEF WindowRespected
  <2>1. i \in 1..Len(admitted[k])  BY DEF IInv, TypeOK
  <2> QED  BY <2>1 DEF IInv, Spaced
<1> QED  BY <1>1, Invariant, PTL

\* The deque of a client holds at most Limit times.
THEOREM BucketsAreBounded == Spec => []BucketsBounded
<1>1. IInv => BucketsBounded  BY DEF IInv, Kept, BucketsBounded
<1> QED  BY <1>1, Invariant, PTL

\* RateLimiter implements SlidingWindow: every step of the deque is a step, or a
\* stutter, of the window.
THEOREM RateLimiterImplementsWindow == Spec => ImplementsWindow
<1>1. Init => Window!Init  BY DEF Init, Window!Init
<1>2. IInv /\ [Next]_vars => [Window!Next]_(Window!vars)
  <2> SUFFICES ASSUME IInv, [Next]_vars  PROVE [Window!Next]_(Window!vars)  OBVIOUS
  <2>1. ASSUME NEW q \in Request, Dispatch(q), q.exempt  PROVE Window!PassExempt
    BY <2>1 DEF Dispatch, Window!PassExempt
  <2>2. ASSUME NEW q \in Request, Dispatch(q), ~q.exempt
        PROVE  \E k \in Keys : Window!Pass(k) \/ Window!Refuse(k)
    <3> DEFINE k == Identifier(q)
    <3>1. k \in Keys  BY IdentifierType
    <3>2. Allow(k) /\ UNCHANGED clock  BY <2>2 DEF Dispatch
    <3> HIDE DEF k
    <3>3. CASE Len(Evict(buckets[k])) >= Limit
      <4>1. Window!Full(k)  BY <3>1, <3>3, FullWindow
      <4> QED  BY <3>1, <3>2, <3>3, <4>1 DEF Allow, Window!Refuse
    <3>4. CASE ~(Len(Evict(buckets[k])) >= Limit)
      <4>1. ~Window!Full(k)  BY <3>1, <3>4, FullWindow
      <4> QED  BY <3>1, <3>2, <3>4, <4>1 DEF Allow, Window!Pass
    <3> QED  BY <3>3, <3>4
  <2>3. CASE Tick  BY <2>3 DEF Tick, Window!Tick, Window!Next
  <2>4. CASE Restart  BY <2>4 DEF Restart, Window!Restart, Window!Next
  <2>5. CASE UNCHANGED vars  BY <2>5 DEF vars, Window!vars
  <2> QED  BY <2>1, <2>2, <2>3, <2>4, <2>5 DEF Next, Window!Next
<1> QED  BY <1>1, <1>2, Invariant, PTL DEF Spec, ImplementsWindow, Window!Spec

-----------------------------------------------------------------------------
(* The limiter in its place. *)

\* A step of the process is a step of the limiter or none.
LEMMA LimiterStep == [AppNext]_appVars => [Next]_vars
<1> SUFFICES ASSUME [AppNext]_appVars  PROVE [Next]_vars  OBVIOUS
<1> USE DEF limiter, vars
<1>1. CASE \E r \in Slots, q \in Request, asked \in Asked : Accept(r, q, asked)
  BY <1>1 DEF Accept, Next
<1>2. CASE \E r \in Slots : Work(r)
  BY <1>2 DEF Work, Enter, Route, Complete, Fail
<1>3. CASE Lifespan \/ Terminate \/ Crash
  BY <1>3 DEF Lifespan, Terminate, Crash
<1>4. CASE StartAgain  BY <1>4 DEF StartAgain, Next
<1>5. CASE Tick  BY <1>5 DEF Next
<1>6. CASE UNCHANGED appVars  BY <1>6 DEF appVars
<1> QED  BY <1>1, <1>2, <1>3, <1>4, <1>5, <1>6 DEF AppNext

\* The process of a service implements RateLimiter.
THEOREM ApplicationLimits == AppSpec => Spec
<1>1. AppInit => Init  BY DEF AppInit
<1> QED  BY <1>1, LimiterStep, PTL DEF AppSpec, Spec

\* No window of a client holds more than Limit requests of a process's life.
THEOREM WindowIsRespectedInPlace == AppSpec => []WindowRespected
BY ApplicationLimits, WindowIsRespected, PTL

\* The process of a service implements SlidingWindow.
THEOREM ApplicationImplementsWindow == AppSpec => ImplementsWindow
BY ApplicationLimits, RateLimiterImplementsWindow, PTL

-----------------------------------------------------------------------------
(* Lifespans and request contexts. *)

\* A process that is not serving has no request, and before its lifespan no client;
\* a request has asked something.
Quiet ==
    /\ \A r \in Slots : at[r] # "idle" => query[r] # Nil
    /\ stage \in {"starting", "down"} => \A r \in Slots : at[r] = "idle"
    /\ stage = "starting" => open = {}
    /\ uses \subseteq open

PInv == IInv /\ AppTypeOK /\ Quiet /\ ClientsOutliveRequests /\ RequestIdsKept

LEMMA AppInitInvariant == AppInit => PInv
<1> SUFFICES ASSUME AppInit  PROVE PInv  OBVIOUS
<1>1. IInv /\ TypeOK  BY InitInvariant DEF AppInit, IInv
<1> QED
  BY <1>1, ApplicationAssumption
     DEF AppInit, NoTasks, PInv, AppTypeOK, Quiet, ClientsOutliveRequests, RequestIdsKept,
         Services, Connections

LEMMA RequestIdType ==
    ASSUME NEW r \in Slots, query[r] \in Asked
    PROVE  RequestId(r) \in Ids \ {Nil}
BY ApplicationAssumption DEF RequestId, Asked, Ids

\* What a request does touches no client and leaves the stage alone.
LEMMA TaskStep ==
    ASSUME PInv, NEW r \in Slots,
           Work(r) \/ \E q \in Request, asked \in Asked : Accept(r, q, asked), TypeOK'
    PROVE  AppTypeOK' /\ Quiet' /\ ClientsOutliveRequests' /\ RequestIdsKept'
<1> USE DEF PInv, server
<1>1. ASSUME NEW q \in Request, NEW asked \in Asked, Accept(r, q, asked)
      PROVE  AppTypeOK' /\ Quiet' /\ ClientsOutliveRequests' /\ RequestIdsKept'
  <2>1. AppTypeOK'  BY <1>1 DEF Accept, AppTypeOK, tasks
  <2>2. Quiet' /\ ClientsOutliveRequests'
    BY <1>1, ApplicationAssumption
       DEF Accept, AppTypeOK, tasks, Quiet, ClientsOutliveRequests
  <2>3. RequestIdsKept'  BY <1>1 DEF Accept, AppTypeOK, tasks, RequestIdsKept, RequestId
  <2> QED  BY <2>1, <2>2, <2>3
<1>2. CASE Enter(r)
  <2>0. query[r] \in Asked  BY <1>2 DEF Enter, Quiet, AppTypeOK
  <2>1. AppTypeOK'  BY <1>2, <2>0, RequestIdType DEF Enter, Bind, Leave, AppTypeOK
  <2>2. Quiet' /\ ClientsOutliveRequests'
    BY <1>2 DEF Enter, Leave, AppTypeOK, Quiet, ClientsOutliveRequests
  <2>3. RequestIdsKept'  BY <1>2 DEF Enter, Bind, Leave, AppTypeOK, RequestIdsKept, RequestId
  <2> QED  BY <2>1, <2>2, <2>3
<1>3. CASE Route(r)
  <2>1. AppTypeOK'  BY <1>3 DEF Route, AppTypeOK
  <2>2. Quiet' /\ ClientsOutliveRequests'
    BY <1>3 DEF Route, AppTypeOK, Quiet, ClientsOutliveRequests
  <2>3. RequestIdsKept'  BY <1>3 DEF Route, AppTypeOK, RequestIdsKept, RequestId
  <2> QED  BY <2>1, <2>2, <2>3
<1>4. CASE Complete(r)
  <2>1. AppTypeOK'  BY <1>4 DEF Complete, Release, Leave, AppTypeOK
  <2>2. Quiet' /\ ClientsOutliveRequests'
    BY <1>4 DEF Complete, Leave, AppTypeOK, Quiet, ClientsOutliveRequests
  <2>3. RequestIdsKept'
    BY <1>4 DEF Complete, Release, Leave, AppTypeOK, RequestIdsKept, RequestId
  <2> QED  BY <2>1, <2>2, <2>3
<1>5. CASE Fail(r)
  <2>1. AppTypeOK'  BY <1>5 DEF Fail, Leave, AppTypeOK
  <2>2. Quiet' /\ ClientsOutliveRequests'
    BY <1>5 DEF Fail, Leave, AppTypeOK, Quiet, ClientsOutliveRequests
  <2>3. RequestIdsKept'  BY <1>5 DEF Fail, Leave, AppTypeOK, RequestIdsKept, RequestId
  <2> QED  BY <2>1, <2>2, <2>3
<1> QED  BY <1>1, <1>2, <1>3, <1>4, <1>5 DEF Work

\* A lifespan begins and ends without requests.
LEMMA LifespanStep ==
    ASSUME PInv, Lifespan, TypeOK'
    PROVE  AppTypeOK' /\ Quiet' /\ ClientsOutliveRequests' /\ RequestIdsKept'
<1> USE DEF PInv, tasks
<1>1. \A r \in Slots : at[r] = "idle"
  BY DEF Lifespan, Startup, Shutdown, AuthStartup, ContentStartup, ProfileStartup, UgcStartup,
         AuthShutdown, ContentShutdown, ProfileShutdown, UgcShutdown, Starting, Stopping, Quiet
<1>2. \/ \E clients \in SUBSET Connections : Serve(clients) \/ Abandon(clients)
      \/ End
  <2>1. {"redis", "elastic"} \in SUBSET Connections /\ {"redis"} \in SUBSET Connections
        /\ {"elastic"} \in SUBSET Connections /\ {"clickhouse"} \in SUBSET Connections
        /\ {} \in SUBSET Connections /\ open \in SUBSET Connections
    BY DEF Connections, AppTypeOK
  <2> QED
    BY <2>1
       DEF Lifespan, Startup, Shutdown, AuthStartup, ContentStartup, ProfileStartup, UgcStartup,
           AuthShutdown, ContentShutdown, ProfileShutdown, UgcShutdown
<1>3. RequestIdsKept' /\ UNCHANGED <<at, query, context, service>>
  BY DEF Lifespan, RequestIdsKept, RequestId
<1>4. AppTypeOK' /\ Quiet' /\ ClientsOutliveRequests'
  BY <1>1, <1>2, <1>3 DEF Serve, Abandon, End, AppTypeOK, Quiet, ClientsOutliveRequests
<1> QED  BY <1>3, <1>4

LEMMA ProcessStep ==
    ASSUME PInv, Terminate \/ Crash \/ StartAgain, TypeOK'
    PROVE  AppTypeOK' /\ Quiet' /\ ClientsOutliveRequests' /\ RequestIdsKept'
<1> USE DEF PInv
<1>1. CASE Terminate
  BY <1>1 DEF Terminate, tasks, AppTypeOK, Quiet, ClientsOutliveRequests, RequestIdsKept, RequestId
<1>2. CASE Crash
  BY <1>2 DEF Crash, AppTypeOK, Quiet, ClientsOutliveRequests, RequestIdsKept
<1>3. CASE StartAgain
  BY <1>3 DEF StartAgain, tasks, AppTypeOK, Quiet, ClientsOutliveRequests, RequestIdsKept, RequestId
<1> QED  BY <1>1, <1>2, <1>3

LEMMA AppNextInvariant == PInv /\ [AppNext]_appVars => PInv'
<1> SUFFICES ASSUME PInv, [AppNext]_appVars  PROVE PInv'  OBVIOUS
<1>1. IInv' /\ TypeOK'  BY LimiterStep, NextInvariant DEF PInv, IInv
<1>2. CASE \E r \in Slots : Work(r) \/ \E q \in Request, asked \in Asked : Accept(r, q, asked)
  BY <1>1, <1>2, TaskStep DEF PInv
<1>3. CASE Lifespan  BY <1>1, <1>3, LifespanStep DEF PInv
<1>4. CASE Terminate \/ Crash \/ StartAgain  BY <1>1, <1>4, ProcessStep DEF PInv
<1>5. CASE Tick /\ UNCHANGED <<server, tasks>>
  BY <1>1, <1>5 DEF server, tasks, PInv, AppTypeOK, Quiet, ClientsOutliveRequests,
                    RequestIdsKept, RequestId
<1>6. CASE UNCHANGED appVars
  BY <1>1, <1>6 DEF appVars, server, tasks, PInv, AppTypeOK, Quiet, ClientsOutliveRequests,
                    RequestIdsKept, RequestId
<1> QED  BY <1>2, <1>3, <1>4, <1>5, <1>6 DEF AppNext

LEMMA AppInvariant == AppSpec => []PInv
BY AppInitInvariant, AppNextInvariant, PTL DEF AppSpec

\* AppTypeOK: the process, its requests and the limiter keep their types.
THEOREM AppTypeCorrect == AppSpec => []AppTypeOK
<1>1. PInv => AppTypeOK  BY DEF PInv
<1> QED  BY <1>1, AppInvariant, PTL

\* No route runs with a client whose connections are closed.
THEOREM ClientsAreOpen == AppSpec => []ClientsOutliveRequests
<1>1. PInv => ClientsOutliveRequests  BY DEF PInv
<1> QED  BY <1>1, AppInvariant, PTL

\* However many requests overtake one another, each keeps its X-Request-ID.
THEOREM IdsAreKept == AppSpec => []RequestIdsKept
<1>1. PInv => RequestIdsKept  BY DEF PInv
<1> QED  BY <1>1, AppInvariant, PTL
================================================================================
