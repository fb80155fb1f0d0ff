--------------------------- MODULE ErrorRateProofs ---------------------------
(***************************************************************************)
(* Theorems about ErrorRate, for every capacity, window and threshold.     *)
(***************************************************************************)
EXTENDS ErrorRate, FiniteSetTheorems, FunctionTheorems, TLAPS

\* The time of the last alert is that of an alert, and none was sent before the
\* clock's start.
LastAlertIsOne ==
    lastAlertAt = 0 \/ \E k \in DOMAIN alerts : alerts[k].at = lastAlertAt

MonitorInv ==
    /\ now \in Nat /\ now >= Start /\ breachAt \in 0..now /\ lastAlertAt \in 0..now
    /\ alerts \in Seq([at : Nat, rate : Rate])
    /\ LastAlertIsOne
    /\ NoSilentBreach

\* The ring is full before its index moves.
RingInv ==
    /\ samples \in Seq(Sample) /\ Len(samples) <= Capacity
    /\ nextSampleIndex \in 0..(Capacity - 1)

LEMMA ParametersAreNat ==
    /\ Start \in Nat /\ Start > Cooldown /\ Cooldown \in Nat
    /\ Capacity \in Nat \ {0} /\ Threshold \in Nat /\ Window \in Nat
  BY ErrorRateAssumption DEF Start

LEMMA RingStep == RingInv /\ now \in Nat /\ [Next]_vars => RingInv'
<1> SUFFICES ASSUME RingInv, now \in Nat, [Next]_vars PROVE RingInv'
  OBVIOUS
<1>1. ASSUME NEW r \in Route, NEW error \in BOOLEAN, Record(r, error) PROVE RingInv'
  <2> DEFINE s == [at |-> now, error |-> error]
  <2>1. s \in Sample
    BY DEF Sample
  <2>2. PushSample(s)
    BY <1>1 DEF Record
  <2> HIDE DEF s
  <2>3. QED
    BY <2>1, <2>2, ParametersAreNat DEF PushSample, RingInv
<1>2. CASE UNCHANGED <<samples, nextSampleIndex>>
  BY <1>2 DEF RingInv
<1>3. QED
  BY <1>1, <1>2 DEF Next, Tick, Check, Metrics, Evaluate, vars

\* metrics.service.ts:66-82: a rate counts a finite number of samples.
LEMMA RateIsRate == RingInv => RecentErrorRate \in Rate
<1> SUFFICES ASSUME RingInv PROVE RecentErrorRate \in Rate
  OBVIOUS
<1>1. IsFiniteSet(1..Len(samples))
  BY FS_Interval DEF RingInv
<1>2. InWindow(samples) \subseteq 1..Len(samples)
  BY DEF InWindow, RingInv
<1>3. IsFiniteSet(InWindow(samples))
  BY <1>1, <1>2, FS_Subset
<1>4. IsFiniteSet({k \in InWindow(samples) : samples[k].error})
  BY <1>3, FS_Subset
<1>5. QED
  BY <1>3, <1>4, FS_CardinalityType DEF RecentErrorRate, RateOf, Rate

LEMMA MonitorInit == Init => MonitorInv /\ RingInv
  BY ParametersAreNat
  DEF Init, MonitorInv, RingInv, LastAlertIsOne, NoSilentBreach

LEMMA CheckStep == ASSUME MonitorInv, RingInv, Evaluate PROVE MonitorInv'
<1> DEFINE rate == RecentErrorRate
           alert == [at |-> now, rate |-> rate]
<1>1. rate \in Rate
  BY RateIsRate
<1> HIDE DEF rate
<1>2. CASE UNCHANGED <<lastAlertAt, alerts, breachAt>>
  BY <1>2 DEF MonitorInv, Evaluate, LastAlertIsOne, NoSilentBreach
<1>3. CASE Alert(rate) /\ breachAt' = now
  <2>1. now' = now
    BY DEF Evaluate
  <2>2. CASE WithinCooldown /\ UNCHANGED <<lastAlertAt, alerts>>
    <3>1. lastAlertAt # 0
      BY <2>2, ParametersAreNat DEF WithinCooldown, MonitorInv
    <3>2. PICK k \in DOMAIN alerts : alerts[k].at = lastAlertAt
      BY <3>1 DEF MonitorInv, LastAlertIsOne
    <3>3. NoSilentBreach'
      <4>1. alerts[k].at <= now /\ now - alerts[k].at < Cooldown
        BY <2>2, <3>2 DEF MonitorInv, WithinCooldown
      <4>2. alerts' = alerts /\ breachAt' = now
        BY <1>3, <2>2
      <4>3. QED
        BY <4>1, <4>2 DEF NoSilentBreach
    <3>4. QED
      BY <1>3, <2>1, <2>2, <3>3 DEF MonitorInv, LastAlertIsOne
  <2>3. CASE lastAlertAt' = now /\ alerts' = Append(alerts, alert)
    <3>1. alert \in [at : Nat, rate : Rate]
      BY <1>1 DEF MonitorInv
    <3>2. /\ alerts' \in Seq([at : Nat, rate : Rate])
          /\ Len(alerts) + 1 \in DOMAIN alerts' /\ alerts'[Len(alerts) + 1].at = now
      <4> HIDE DEF alert
      <4>1. /\ alerts' \in Seq([at : Nat, rate : Rate])
            /\ Len(alerts) + 1 \in DOMAIN alerts' /\ alerts'[Len(alerts) + 1] = alert
        BY <2>3, <3>1 DEF MonitorInv
      <4>2. alert.at = now
        BY DEF alert
      <4>3. QED
        BY <4>1, <4>2
    <3>3. NoSilentBreach'
      BY <1>3, <3>2 DEF NoSilentBreach
    <3>4. QED
      BY <1>3, <2>1, <2>3, <3>2, <3>3 DEF MonitorInv, LastAlertIsOne
  <2>4. QED
    BY <1>3, <2>2, <2>3 DEF Alert, Notify
<1>4. QED
  BY <1>2, <1>3 DEF Evaluate, rate

LEMMA MonitorStep == MonitorInv /\ RingInv /\ [Next]_vars => MonitorInv' /\ RingInv'
<1> SUFFICES ASSUME MonitorInv, RingInv, [Next]_vars PROVE MonitorInv' /\ RingInv'
  OBVIOUS
<1>1. RingInv'
  BY RingStep DEF MonitorInv
<1>2. CASE Evaluate
  BY <1>1, <1>2, CheckStep
<1>3. CASE /\ now' \in {now, now + 1}
           /\ UNCHANGED <<lastAlertAt, alerts, breachAt>>
  BY <1>1, <1>3, ParametersAreNat DEF MonitorInv, LastAlertIsOne, NoSilentBreach
<1>4. QED
  BY <1>1, <1>2, <1>3 DEF Next, Tick, Check, Metrics, Record, vars

\* metrics.service.ts:114-126: the ring never grows past its capacity and its
\* index always points into it.
THEOREM RingIsBounded == Spec => []RingInv
<1>1. MonitorInv /\ RingInv => RingInv
  OBVIOUS
<1>2. QED
  BY MonitorInit, MonitorStep, PTL DEF Spec

\* error-rate.monitor.ts:57-88: the debounce silences only a breach that an
\* alert announced less than a cooldown ago.
THEOREM BreachesAreAnnounced == Spec => []NoSilentBreach
<1>1. MonitorInv => NoSilentBreach
  BY DEF MonitorInv
<1>2. QED
  BY <1>1, MonitorInit, MonitorStep, PTL DEF Spec

-----------------------------------------------------------------------------
(* The ring holds the newest requests: sample k is that of request Place(k). *)

Place(k) ==
    Len(requests) - nextSampleIndex + k
        - (IF k <= nextSampleIndex THEN 0 ELSE Len(samples))

Request == [at : Nat, error : BOOLEAN, route : Route]

\* metrics.service.ts:114-126: how far the ring is filled, where it goes on, and
\* what is in it.
RingHolds ==
    /\ requests \in Seq(Request)
    /\ Len(samples) = IF Len(requests) < Capacity THEN Len(requests) ELSE Capacity
    /\ Len(requests) <= Capacity => nextSampleIndex = 0
    /\ \A k \in DOMAIN samples :
          /\ samples[k].at = requests[Place(k)].at
          /\ samples[k].error = requests[Place(k)].error

LEMMA NextIndex ==
  ASSUME NEW n \in 0..(Capacity - 1)
  PROVE  (n + 1) % Capacity = IF n + 1 = Capacity THEN 0 ELSE n + 1
<1>1. Capacity \in Nat /\ Capacity > 0
  BY ParametersAreNat
<1>2. CASE n + 1 = Capacity
  BY <1>1, <1>2
<1>3. CASE n + 1 < Capacity
  BY <1>1, <1>3
<1>4. QED
  BY <1>1, <1>2, <1>3

LEMMA HoldsStep ==
  ASSUME RingInv, RingHolds, now \in Nat, NEW r \in Route, NEW error \in BOOLEAN,
         Record(r, error)
  PROVE  RingHolds'
<1> DEFINE s == [at |-> now, error |-> error]
           q == [at |-> now, error |-> error, route |-> r]
<1>1. s \in Sample /\ q \in Request /\ s.at = q.at /\ s.error = q.error
  BY DEF Sample, Request
<1>2. requests' = Append(requests, q) /\ PushSample(s)
  BY DEF Record
<1> HIDE DEF s, q
<1>3. /\ requests' \in Seq(Request) /\ Len(requests') = Len(requests) + 1
      /\ requests'[Len(requests) + 1] = q
      /\ \A j \in 1..Len(requests) : requests'[j] = requests[j]
  BY <1>1, <1>2 DEF RingHolds
<1>4. CASE Len(samples) < Capacity
  <2>1. samples' = Append(samples, s) /\ nextSampleIndex' = nextSampleIndex
    BY <1>2, <1>4 DEF PushSample
  <2>2. nextSampleIndex = 0 /\ Len(samples) = Len(requests) /\ Len(requests) \in Nat
    BY <1>4, ParametersAreNat DEF RingHolds, RingInv
  <2>3. /\ Len(samples') = Len(requests) + 1 /\ samples'[Len(requests) + 1] = s
        /\ DOMAIN samples' = 1..(Len(requests) + 1)
        /\ \A k \in 1..Len(requests) : samples'[k] = samples[k]
    BY <1>1, <2>1, <2>2 DEF RingInv
  <2>4. \A k \in 1..(Len(requests) + 1) : Place(k)' = k
    BY <1>3, <2>1, <2>2, <2>3 DEF Place
  <2>5. \A k \in 1..Len(requests) : Place(k) = k /\ k \in DOMAIN samples
    BY <2>2 DEF Place, RingInv
  <2>6. ASSUME NEW k \in DOMAIN samples'
        PROVE  samples'[k].at = requests'[Place(k)'].at /\ samples'[k].error = requests'[Place(k)'].error
    <3>1. CASE k = Len(requests) + 1
      BY <1>1, <1>3, <2>3, <2>4, <3>1
    <3>2. CASE k \in 1..Len(requests)
      BY <1>3, <2>3, <2>4, <2>5, <3>2 DEF RingHolds
    <3>3. QED
      BY <2>2, <2>3, <3>1, <3>2
  <2>7. QED
    BY <1>3, <1>4, <2>1, <2>2, <2>3, <2>6, ParametersAreNat DEF RingHolds
<1>5. CASE Len(samples) = Capacity
  <2> DEFINE n == nextSampleIndex
  <2>1. /\ samples' = [samples EXCEPT ![n + 1] = s]
        /\ nextSampleIndex' = IF n + 1 = Capacity THEN 0 ELSE n + 1
    BY <1>2, <1>5, NextIndex, ParametersAreNat DEF PushSample, RingInv
  <2>2. n \in 0..(Capacity - 1) /\ Len(requests) >= Capacity /\ Len(requests) \in Nat
    BY <1>5, ParametersAreNat DEF RingHolds, RingInv
  <2>3. /\ DOMAIN samples = 1..Capacity /\ DOMAIN samples' = 1..Capacity /\ Len(samples') = Capacity
        /\ samples'[n + 1] = s
        /\ \A k \in 1..Capacity : k # n + 1 => samples'[k] = samples[k]
    BY <1>1, <1>5, <2>1, <2>2, ParametersAreNat DEF RingInv
  <2>4. ASSUME NEW k \in 1..Capacity
        PROVE  /\ k = n + 1 => Place(k)' = Len(requests) + 1
               /\ k # n + 1 => Place(k)' = Place(k) /\ Place(k) \in 1..Len(requests)
    <3>1. /\ Capacity \in Nat /\ Len(samples) = Capacity /\ Len(samples') = Capacity
          /\ Len(requests') = Len(requests) + 1
      BY <1>3, <1>5, <2>3, ParametersAreNat
    <3>2. CASE n + 1 = Capacity /\ nextSampleIndex' = 0
      BY <2>2, <3>1, <3>2 DEF Place
    <3>3. CASE n + 1 < Capacity /\ nextSampleIndex' = n + 1
      BY <2>2, <3>1, <3>3 DEF Place
    <3>4. QED
      BY <2>1, <2>2, <3>1, <3>2, <3>3
  <2>6. ASSUME NEW k \in DOMAIN samples'
        PROVE  samples'[k].at = requests'[Place(k)'].at /\ samples'[k].error = requests'[Place(k)'].error
    <3>1. CASE k = n + 1
      BY <1>1, <1>3, <2>3, <2>4, <3>1
    <3>2. CASE k # n + 1
      BY <1>3, <2>3, <2>4, <3>2 DEF RingHolds
    <3>3. QED
      BY <3>1, <3>2
  <2>7. QED
    BY <1>3, <1>5, <2>2, <2>3, <2>6, ParametersAreNat DEF RingHolds
<1>6. QED
  BY <1>4, <1>5, ParametersAreNat DEF RingInv

LEMMA PlaceIsNewest ==
  ASSUME RingInv, RingHolds
  PROVE  /\ \A k \in DOMAIN samples :
               Place(k) \in DOMAIN requests /\ Place(k) + Capacity > Len(requests)
         /\ \A k, l \in DOMAIN samples : Place(k) = Place(l) => k = l
         /\ \A j \in DOMAIN requests : j + Capacity > Len(requests) =>
               \E k \in DOMAIN samples : Place(k) = j
<1> DEFINE L == Len(requests)
           C == Len(samples)
           n == nextSampleIndex
<1>1. /\ L \in Nat /\ C \in Nat /\ n \in Nat /\ Capacity \in Nat /\ n < Capacity
      /\ C <= L /\ C <= Capacity /\ (C < L => C = Capacity) /\ (n > 0 => C = Capacity)
      /\ DOMAIN samples = 1..C /\ DOMAIN requests = 1..L
  BY ParametersAreNat DEF RingInv, RingHolds
<1>2. \A k \in 1..C : Place(k) = L - n + k - (IF k <= n THEN 0 ELSE C)
  BY DEF Place
<1> HIDE DEF L, C, n
<1>3. n <= C
  BY <1>1
<1>4. \A k \in 1..C : Place(k) \in 1..L /\ Place(k) + Capacity > L
  BY <1>1, <1>2, <1>3
<1>5. \A k, l \in 1..C : Place(k) = Place(l) => k = l
  BY <1>1, <1>2, <1>3
<1>6. ASSUME NEW j \in 1..L, j + Capacity > L PROVE \E k \in 1..C : Place(k) = j
  <2>1. CASE j > L - n
    <3>1. j - L + n \in 1..C /\ j - L + n <= n
      BY <1>1, <1>3, <2>1
    <3>2. Place(j - L + n) = j
      BY <1>1, <1>2, <3>1
    <3>3. QED
      BY <3>1, <3>2
  <2>2. CASE j <= L - n
    <3>1. j - L + n + C \in 1..C /\ j - L + n + C > n
      BY <1>1, <1>3, <1>6, <2>2
    <3>2. Place(j - L + n + C) = j
      BY <1>1, <1>2, <3>1
    <3>3. QED
      BY <3>1, <3>2
  <2>3. QED
    BY <1>1, <2>1, <2>2
<1>7. QED
  BY <1>1, <1>4, <1>5, <1>6 DEF L

LEMMA SameCount ==
  ASSUME RingInv, RingHolds, NEW S \in SUBSET DOMAIN samples
  PROVE  Cardinality({Place(k) : k \in S}) = Cardinality(S)
<1> DEFINE T == {Place(k) : k \in S}
           f == [k \in S |-> Place(k)]
<1>1. IsFiniteSet(S)
  <2>1. S \subseteq 1..Len(samples) /\ Len(samples) \in Int
    BY DEF RingInv
  <2>2. IsFiniteSet(1..Len(samples))
    BY <2>1, FS_Interval
  <2>3. QED
    BY <2>1, <2>2, FS_Subset
<1>2. f \in Bijection(S, T)
  <2>1. f \in [S -> T] /\ \A y \in T : \E k \in S : f[k] = y
    OBVIOUS
  <2>2. \A k, l \in S : f[k] = f[l] => k = l
    BY PlaceIsNewest
  <2>3. QED
    BY <2>1, <2>2, Fun_IsBij
<1>3. ExistsBijection(S, T)
  BY <1>2 DEF ExistsBijection
<1> HIDE DEF T
<1>4. Cardinality(T) = Cardinality(S)
  BY <1>1, <1>3, FS_Bijection
<1>5. QED
  BY <1>4 DEF T

LEMMA NewestRate == RingInv /\ RingHolds => WindowIsNewest
<1> SUFFICES ASSUME RingInv, RingHolds PROVE WindowIsNewest
  OBVIOUS
<1> DEFINE S == InWindow(samples)
           E == {k \in S : samples[k].error}
           T == {j \in InWindow(requests) : j + Capacity > Len(requests)}
           F == {j \in T : requests[j].error}
<1>1. \A k \in DOMAIN samples :
          samples[k].at = requests[Place(k)].at /\ samples[k].error = requests[Place(k)].error
  BY DEF RingHolds
<1>2. T = {Place(k) : k \in S}
  BY <1>1, PlaceIsNewest DEF InWindow
<1>3. F = {Place(k) : k \in E}
  BY <1>1, <1>2 DEF InWindow
<1>4. S \in SUBSET DOMAIN samples /\ E \in SUBSET DOMAIN samples
  BY DEF InWindow
<1> HIDE DEF S, E, T, F
<1>5. Cardinality(T) = Cardinality(S) /\ Cardinality(F) = Cardinality(E)
  BY <1>2, <1>3, <1>4, SameCount
<1>6. QED
  BY <1>5 DEF WindowIsNewest, RecentErrorRate, RateOf, S, E, T, F

-----------------------------------------------------------------------------
(* The table: at most MaxRoutes routes, each with all of its requests. *)

RequestsOf(x) == {k \in DOMAIN requests : requests[k].route = x}
ErrorsOf(x)   == {k \in RequestsOf(x) : requests[k].error}

TableInv ==
    /\ DOMAIN routes \subseteq Route /\ IsFiniteSet(DOMAIN routes)
    /\ routes \in [DOMAIN routes -> Metric]
    /\ Cardinality(DOMAIN routes) <= MaxRoutes
    /\ TableIsExact

LEMMA OneMoreRequest ==
  ASSUME requests \in Seq(Request), now \in Nat,
         NEW r \in Route, NEW error \in BOOLEAN, Record(r, error)
  PROVE  \A x \in Route :
            /\ RequestsOf(x)' = IF x = r THEN RequestsOf(x) \cup {Len(requests) + 1} ELSE RequestsOf(x)
            /\ ErrorsOf(x)' = IF x = r /\ error THEN ErrorsOf(x) \cup {Len(requests) + 1} ELSE ErrorsOf(x)
            /\ IsFiniteSet(RequestsOf(x)) /\ IsFiniteSet(ErrorsOf(x))
            /\ Len(requests) + 1 \notin RequestsOf(x) \cup ErrorsOf(x)
<1> DEFINE L == Len(requests)
           q == [at |-> now, error |-> error, route |-> r]
<1>1. q \in Request /\ q.route = r /\ q.error = error
  BY DEF Request
<1>2. requests' = Append(requests, q)
  BY DEF Record
<1> HIDE DEF q
<1>3. /\ L \in Nat /\ DOMAIN requests = 1..L /\ DOMAIN requests' = 1..(L + 1)
      /\ requests'[L + 1] = q /\ \A k \in 1..L : requests'[k] = requests[k]
  BY <1>1, <1>2
<1> HIDE DEF L
<1>4. IsFiniteSet(1..L)
  BY <1>3, FS_Interval
<1>5. ASSUME NEW x \in Route
      PROVE  /\ RequestsOf(x)' = IF x = r THEN RequestsOf(x) \cup {L + 1} ELSE RequestsOf(x)
             /\ ErrorsOf(x)' = IF x = r /\ error THEN ErrorsOf(x) \cup {L + 1} ELSE ErrorsOf(x)
             /\ IsFiniteSet(RequestsOf(x)) /\ IsFiniteSet(ErrorsOf(x))
             /\ L + 1 \notin RequestsOf(x) \cup ErrorsOf(x)
  <2>1. RequestsOf(x)' = IF x = r THEN RequestsOf(x) \cup {L + 1} ELSE RequestsOf(x)
    BY <1>1, <1>3 DEF RequestsOf
  <2>2. ErrorsOf(x)' = IF x = r /\ error THEN ErrorsOf(x) \cup {L + 1} ELSE ErrorsOf(x)
    BY <1>1, <1>3 DEF RequestsOf, ErrorsOf
  <2>3. RequestsOf(x) \subseteq 1..L /\ ErrorsOf(x) \subseteq 1..L
    BY <1>3 DEF RequestsOf, ErrorsOf
  <2>4. IsFiniteSet(RequestsOf(x)) /\ IsFiniteSet(ErrorsOf(x))
    BY <1>4, <2>3, FS_Subset
  <2>5. QED
    BY <1>3, <2>1, <2>2, <2>3, <2>4
<1>6. QED
  BY <1>5 DEF L

LEMMA TableExact ==
  TableIsExact <=> \A x \in Route :
      IF x \in DOMAIN routes
      THEN routes[x] = [count |-> Cardinality(RequestsOf(x)), errors |-> Cardinality(ErrorsOf(x))]
      ELSE RequestsOf(x) = {} \/ Cardinality(DOMAIN routes) = MaxRoutes
BY DEF TableIsExact, RequestsOf, ErrorsOf

LEMMA TableStep ==
  ASSUME TableInv, requests \in Seq(Request), now \in Nat,
         NEW r \in Route, NEW error \in BOOLEAN, Record(r, error)
  PROVE  TableInv'
<1> DEFINE count(x)  == Cardinality(RequestsOf(x))
           errors(x) == Cardinality(ErrorsOf(x))
<1>1. \A x \in Route :
          /\ count(x) \in Nat /\ errors(x) \in Nat
          /\ count(x)' = IF x = r THEN count(x) + 1 ELSE count(x)
          /\ errors(x)' = IF x = r THEN errors(x) + Errors(error) ELSE errors(x)
          /\ RequestsOf(x)' = {} => x # r /\ RequestsOf(x) = {}
          /\ x # r => RequestsOf(x)' = RequestsOf(x)
          /\ RequestsOf(x) = {} => count(x) = 0 /\ errors(x) = 0
  <2>1. ASSUME NEW x \in Route
        PROVE  /\ count(x) \in Nat /\ errors(x) \in Nat
               /\ count(x)' = IF x = r THEN count(x) + 1 ELSE count(x)
               /\ errors(x)' = IF x = r THEN errors(x) + Errors(error) ELSE errors(x)
    <3>1. count(x) \in Nat /\ errors(x) \in Nat
      BY OneMoreRequest, FS_CardinalityType
    <3>2. count(x)' = IF x = r THEN count(x) + 1 ELSE count(x)
      BY OneMoreRequest, FS_AddElement
    <3>3. errors(x)' = IF x = r THEN errors(x) + Errors(error) ELSE errors(x)
      <4>1. CASE x = r /\ error
        <5>1. /\ ErrorsOf(x)' = ErrorsOf(x) \cup {Len(requests) + 1}
              /\ Len(requests) + 1 \notin ErrorsOf(x) /\ IsFiniteSet(ErrorsOf(x))
          BY <4>1, OneMoreRequest
        <5>2. Errors(error) = 1
          BY <4>1 DEF Errors
        <5>3. QED
          BY <4>1, <5>1, <5>2, FS_AddElement
      <4>2. CASE ~ (x = r /\ error)
        <5>1. ErrorsOf(x)' = ErrorsOf(x)
          BY <4>2, OneMoreRequest
        <5>2. QED
          BY <3>1, <4>2, <5>1 DEF Errors
      <4>3. QED
        BY <4>1, <4>2
    <3>4. QED
      BY <3>1, <3>2, <3>3
  <2>2. ASSUME NEW x \in Route
        PROVE  /\ RequestsOf(x)' = {} => x # r /\ RequestsOf(x) = {}
               /\ x # r => RequestsOf(x)' = RequestsOf(x)
               /\ RequestsOf(x) = {} => count(x) = 0 /\ errors(x) = 0
    <3>1. /\ RequestsOf(x)' = {} => x # r /\ RequestsOf(x) = {}
          /\ x # r => RequestsOf(x)' = RequestsOf(x)
      BY OneMoreRequest
    <3>2. RequestsOf(x) = {} => ErrorsOf(x) = {}
      BY DEF ErrorsOf
    <3>3. QED
      BY <3>1, <3>2, FS_EmptySet
  <2>3. QED
    BY <2>1, <2>2
<1>2. \A x \in Route :
          IF x \in DOMAIN routes
          THEN routes[x] = [count |-> count(x), errors |-> errors(x)]
          ELSE RequestsOf(x) = {} \/ Cardinality(DOMAIN routes) = MaxRoutes
  BY TableExact DEF TableInv
<1>3. SUFFICES /\ DOMAIN routes' \subseteq Route /\ IsFiniteSet(DOMAIN routes')
               /\ routes' \in [DOMAIN routes' -> Metric]
               /\ Cardinality(DOMAIN routes') <= MaxRoutes
               /\ \A x \in Route :
                     IF x \in DOMAIN routes'
                     THEN routes'[x] = [count |-> count(x)', errors |-> errors(x)']
                     ELSE RequestsOf(x)' = {} \/ Cardinality(DOMAIN routes') = MaxRoutes
  <2>1. TableIsExact' <=> \A x \in Route :
            IF x \in DOMAIN routes'
            THEN routes'[x] = [count |-> count(x)', errors |-> errors(x)']
            ELSE RequestsOf(x)' = {} \/ Cardinality(DOMAIN routes') = MaxRoutes
    BY DEF TableIsExact, RequestsOf, ErrorsOf
  <2>2. QED
    BY <2>1 DEF TableInv
<1> HIDE DEF count, errors
<1>4. Cardinality(DOMAIN routes) \in Nat /\ MaxRoutes \in Nat
  BY FS_CardinalityType, ErrorRateAssumption DEF TableInv
<1>5. CASE r \in DOMAIN routes \/ Cardinality(DOMAIN routes) < MaxRoutes
  <2>1. routes' = Tracked(r, error)
    BY <1>5 DEF Record, Track
  <2>2. /\ DOMAIN routes' = DOMAIN routes \cup {r}
        /\ \A x \in DOMAIN routes : x # r => routes'[x] = routes[x]
    BY <2>1 DEF Tracked
  <2>3. /\ IsFiniteSet(DOMAIN routes')
        /\ Cardinality(DOMAIN routes') =
               IF r \in DOMAIN routes THEN Cardinality(DOMAIN routes) ELSE Cardinality(DOMAIN routes) + 1
    BY <2>2, FS_AddElement DEF TableInv
  <2>4. routes'[r] = [count |-> count(r) + 1, errors |-> errors(r) + Errors(error)]
    <3>1. CASE r \in DOMAIN routes
      BY <1>2, <2>1, <3>1 DEF Tracked
    <3>2. CASE r \notin DOMAIN routes
      <4>1. count(r) = 0 /\ errors(r) = 0
        BY <1>1, <1>2, <1>4, <1>5, <3>2
      <4>2. routes'[r] = [count |-> 0 + 1, errors |-> 0 + Errors(error)]
        BY <2>1, <3>2 DEF Tracked
      <4>3. QED
        BY <4>1, <4>2
    <3>3. QED
      BY <3>1, <3>2
  <2>5. ASSUME NEW x \in Route
        PROVE  IF x \in DOMAIN routes'
               THEN routes'[x] = [count |-> count(x)', errors |-> errors(x)']
               ELSE RequestsOf(x)' = {} \/ Cardinality(DOMAIN routes') = MaxRoutes
    <3>1. CASE x = r
      BY <1>1, <2>2, <2>4, <3>1
    <3>2. CASE x # r
      BY <1>1, <1>2, <1>4, <1>5, <2>2, <2>3, <3>2
    <3>3. QED
      BY <3>1, <3>2
  <2>6. QED
    <3>1. Cardinality(DOMAIN routes') <= MaxRoutes
      BY <1>4, <1>5, <2>3 DEF TableInv
    <3>2. DOMAIN routes' \subseteq Route
      BY <2>2 DEF TableInv
    <3>3. routes' \in [DOMAIN routes' -> Metric]
      <4>1. ASSUME NEW x \in DOMAIN routes' PROVE routes'[x] \in Metric
        <5>1. count(r) + 1 \in Nat /\ errors(r) + Errors(error) \in Nat
          BY <1>1 DEF Errors
        <5>2. CASE x = r
          BY <2>4, <5>1, <5>2 DEF Metric
        <5>3. CASE x # r
          BY <2>2, <4>1, <5>3 DEF TableInv
        <5>4. QED
          BY <5>2, <5>3
      <4>2. QED
        BY <2>1, <4>1 DEF Tracked
    <3>4. QED
      BY <2>3, <2>5, <3>1, <3>2, <3>3
<1>6. CASE r \notin DOMAIN routes /\ ~ (Cardinality(DOMAIN routes) < MaxRoutes)
  <2>1. routes' = routes /\ Cardinality(DOMAIN routes) = MaxRoutes
    BY <1>4, <1>6 DEF Record, Track, TableInv
  <2>2. ASSUME NEW x \in Route
        PROVE  IF x \in DOMAIN routes'
               THEN routes'[x] = [count |-> count(x)', errors |-> errors(x)']
               ELSE RequestsOf(x)' = {} \/ Cardinality(DOMAIN routes') = MaxRoutes
    <3>1. CASE x \in DOMAIN routes
      BY <1>1, <1>2, <1>6, <2>1, <3>1
    <3>2. CASE x \notin DOMAIN routes
      BY <2>1, <3>2
    <3>3. QED
      BY <3>1, <3>2
  <2>3. QED
    BY <1>4, <2>1, <2>2 DEF TableInv
<1>7. QED
  BY <1>5, <1>6

-----------------------------------------------------------------------------
(* All of it together. *)

HistoryInv == RingHolds /\ TableInv

LEMMA HistoryInit == Init => HistoryInv
<1> SUFFICES ASSUME Init PROVE RingHolds /\ TableInv
  BY DEF HistoryInv
<1>1. RingHolds
  BY ParametersAreNat DEF Init, RingHolds
<1>2. DOMAIN routes = {} /\ DOMAIN requests = {}
  BY DEF Init
<1>3. TableIsExact
  BY <1>2, TableExact DEF RequestsOf
<1>4. QED
  BY <1>1, <1>2, <1>3, FS_EmptySet, ErrorRateAssumption DEF TableInv

LEMMA HistoryStep ==
  MonitorInv /\ RingInv /\ HistoryInv /\ [Next]_vars => HistoryInv'
<1> SUFFICES ASSUME MonitorInv, RingInv, HistoryInv, [Next]_vars PROVE HistoryInv'
  OBVIOUS
<1>1. ASSUME NEW r \in Route, NEW error \in BOOLEAN, Record(r, error) PROVE HistoryInv'
  <2>1. now \in Nat /\ requests \in Seq(Request) /\ RingHolds /\ TableInv
    BY DEF MonitorInv, HistoryInv, RingHolds
  <2>2. QED
    BY <1>1, <2>1, HoldsStep, TableStep DEF HistoryInv
<1>2. CASE UNCHANGED <<samples, nextSampleIndex, requests, routes>>
  BY <1>2 DEF HistoryInv, RingHolds, Place, TableInv, TableIsExact
<1>3. QED
  BY <1>1, <1>2 DEF Next, Tick, Check, Metrics, Evaluate, vars

LEMMA HistoryAlways == Spec => [](MonitorInv /\ RingInv /\ HistoryInv)
<1>1. QED
  BY MonitorInit, MonitorStep, HistoryInit, HistoryStep, PTL DEF Spec

\* metrics.service.ts:66-82 and :114-126: however often the ring went round, the
\* error rate is that of the newest requests among those in the window.
THEOREM RateIsOfTheNewest == Spec => []WindowIsNewest
<1>1. RingInv /\ HistoryInv => WindowIsNewest
  BY NewestRate DEF HistoryInv
<1>2. QED
  BY <1>1, HistoryAlways, PTL

\* metrics.service.ts:36-57: a route in the table has all of its requests and
\* errors; one that is not there came too late or never.
THEOREM TableExactAlways == Spec => []TableIsExact
<1>1. HistoryInv => TableIsExact
  BY DEF HistoryInv, TableInv
<1>2. QED
  BY <1>1, HistoryAlways, PTL

\* The times the type adds to what the invariants above already bound.
ClockInv ==
    /\ now \in Start..(Start + Duration) /\ checkedAt \in 0..now
    /\ \A k \in DOMAIN alerts : alerts[k].at <= now

\* A sequence is one over any set its members are in.
LEMMA SequenceOver ==
  ASSUME NEW S, NEW T, NEW q \in Seq(S)
  PROVE  /\ \A k \in DOMAIN q : q[k] \in S
         /\ (\A k \in DOMAIN q : q[k] \in T) => q \in Seq(T)
OBVIOUS

LEMMA AlertsTyped ==
  ASSUME MonitorInv, NEW k \in DOMAIN alerts
  PROVE  alerts[k] = [at |-> alerts[k].at, rate |-> alerts[k].rate]
         /\ alerts[k].at \in Nat /\ alerts[k].rate \in Rate
<1>1. alerts \in Seq([at : Nat, rate : Rate])
  BY DEF MonitorInv
<1>2. alerts[k] \in [at : Nat, rate : Rate]
  BY <1>1, SequenceOver
<1>3. QED
  BY <1>2

LEMMA ClockStep ==
  ClockInv /\ MonitorInv /\ RingInv /\ [Next]_vars => ClockInv'
<1> SUFFICES ASSUME ClockInv, MonitorInv, RingInv, [Next]_vars PROVE ClockInv'
  OBVIOUS
<1>1. Duration \in Nat /\ Start \in Nat /\ now \in Nat /\ checkedAt \in Nat
  BY ParametersAreNat, ErrorRateAssumption DEF ClockInv
<1>2. CASE UNCHANGED <<now, alerts>> /\ checkedAt' \in {checkedAt, now}
  BY <1>1, <1>2 DEF ClockInv
<1>3. CASE Tick
  <2>1. now < Start + Duration /\ now' = now + 1 /\ UNCHANGED <<alerts, checkedAt>>
    BY <1>3 DEF Tick
  <2>2. \A k \in DOMAIN alerts : alerts[k].at \in Nat /\ alerts[k].at <= now
    BY AlertsTyped DEF ClockInv
  <2>3. \A k \in DOMAIN alerts' : alerts'[k].at <= now'
    BY <1>1, <2>1, <2>2
  <2>4. now' \in Start..(Start + Duration) /\ checkedAt' \in 0..now'
    BY <1>1, <2>1 DEF ClockInv
  <2>5. QED
    BY <2>3, <2>4 DEF ClockInv
<1>4. ASSUME NEW rate \in Rate, checkedAt' \in {checkedAt, now}, now' = now, Notify(rate)
      PROVE  ClockInv'
  <2> DEFINE alert == [at |-> now, rate |-> rate]
  <2>1. alert \in [at : Nat, rate : Rate] /\ alert.at = now
    BY <1>1, <1>4
  <2>2. alerts' = Append(alerts, alert)
    BY <1>4 DEF Notify
  <2> HIDE DEF alert
  <2>3. \A k \in DOMAIN alerts' : (k \in DOMAIN alerts /\ alerts'[k] = alerts[k]) \/ alerts'[k] = alert
    BY <2>1, <2>2 DEF MonitorInv
  <2>4. QED
    BY <1>1, <1>4, <2>1, <2>3 DEF ClockInv
<1>5. QED
  BY <1>2, <1>3, <1>4, RateIsRate
  DEF Next, Check, Metrics, Evaluate, Alert, Record, vars

\* Every variable keeps its type; in particular the ring and the table keep
\* their limits, and alerts are sent when a check runs.
THEOREM TypeCorrect == Spec => []TypeOK
<1>1. ASSUME Init PROVE ClockInv
  BY <1>1, ParametersAreNat, ErrorRateAssumption DEF Init, ClockInv
<1>2. ASSUME ClockInv, MonitorInv, RingInv, HistoryInv PROVE TypeOK
  <2>1. alerts \in Seq([at : 0..now, rate : Rate])
    <3>1. \A k \in DOMAIN alerts :
              /\ alerts[k] = [at |-> alerts[k].at, rate |-> alerts[k].rate]
              /\ alerts[k].at \in 0..now /\ alerts[k].rate \in Rate
      BY <1>2, AlertsTyped DEF ClockInv, MonitorInv
    <3>2. \A k \in DOMAIN alerts : alerts[k] \in [at : 0..now, rate : Rate]
      BY <3>1
    <3>3. alerts \in Seq([at : Nat, rate : Rate])
      BY <1>2 DEF MonitorInv
    <3>4. QED
      BY <3>2, <3>3, SequenceOver
  <2>2. QED
    BY <1>2, <2>1 DEF ClockInv, MonitorInv, RingInv, HistoryInv, RingHolds, TableInv, Request, TypeOK
<1>3. QED
  BY <1>1, <1>2, ClockStep, HistoryAlways, PTL DEF Spec
=============================================================================
