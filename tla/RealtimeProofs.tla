--------------------------- MODULE RealtimeProofs ---------------------------
(***************************************************************************)
(* Theorems about RealtimeAdapter and HealthProbe, for every number of     *)
(* reconnections; and about the limit on handshakes L, for any sockets and *)
(* limit.                                                                  *)
(***************************************************************************)
EXTENDS MCRealtime, FiniteSets, FiniteSetTheorems, TLAPS

\* Only the clients of the attached adapter are kept for dispose.
KeptWhenAttached == kept = 1 => redisAttached

\* These facts support each other: the number of open clients is a natural
\* number because each disconnection is that of an attempt under way.
AdapterInv == TypeOK /\ OneContinuation /\ ClientsAccounted /\ KeptWhenAttached

LEMMA AdapterInit == Init => AdapterInv
<1> SUFFICES ASSUME Init PROVE AdapterInv
  OBVIOUS
<1>1. TypeOK
  <2>1. up \in BOOLEAN /\ readyEvent \in BOOLEAN /\ redisAttached \in BOOLEAN
    BY DEF Init
  <2>2. redisAttached <=> adapterStatus = "attached"
    BY DEF Init
  <2>3. /\ status \in {"connecting", "ready", "end"} /\ tries \in 0..MaxTries
        /\ attempts \in Nat /\ timers \in Nat /\ listeners \in Nat
        /\ adapterStatus \in {"pending", "attached", "degraded"}
        /\ kept \in 0..1 /\ pairs \in Nat
        /\ phase \in {"running", "disposed", "closed"}
    BY TriesAssumption DEF Init
  <2>4. QED
    BY <2>1, <2>2, <2>3 DEF TypeOK
<1>2. OneContinuation
  BY DEF Init, OneContinuation
<1>3. ClientsAccounted /\ KeptWhenAttached
  BY DEF Init, ClientsAccounted, KeptWhenAttached
<1>4. QED
  BY <1>1, <1>2, <1>3 DEF AdapterInv

LEMMA AdapterInvStep == AdapterInv /\ [Next]_vars => AdapterInv'
<1> SUFFICES ASSUME AdapterInv, [Next]_vars PROVE AdapterInv'
  OBVIOUS
<1> USE TriesAssumption
    DEF AdapterInv, TypeOK, OneContinuation, ClientsAccounted, KeptWhenAttached,
        client, adapter
<1>1. CASE UpOrDown
  BY <1>1 DEF UpOrDown
<1>2. CASE ClientReady
  BY <1>2 DEF ClientReady
<1>3. CASE ClientRetries
  BY <1>3 DEF ClientRetries
<1>4. CASE ReadyEmitted
  <2>1. readyEvent' \in BOOLEAN
    BY <1>4, Zenon DEF ReadyEmitted
  <2>2. TypeOK'
    <3>1. attempts' \in Nat /\ pairs' \in Nat /\ listeners' \in Nat
      BY <1>4 DEF ReadyEmitted, Attach
    <3>2. UNCHANGED <<up, status, tries, timers, redisAttached, adapterStatus, kept, phase>>
      BY <1>4 DEF ReadyEmitted
    <3>3. QED
      BY <2>1, <3>1, <3>2
  <2>3. OneContinuation'
    BY <1>4 DEF ReadyEmitted, Attach
  <2>4. (ClientsAccounted /\ KeptWhenAttached)'
    BY <1>4 DEF ReadyEmitted, Attach
  <2>5. QED
    BY <2>2, <2>3, <2>4
<1>5. CASE TimerFires
  BY <1>5 DEF TimerFires, Attach
<1>6. CASE PingsAnswered
  <2>1. ~ redisAttached /\ kept = 0
    BY <1>6 DEF PingsAnswered, Mark
  <2>2. attempts = 1 /\ timers = 0 /\ listeners = 0 /\ pairs = 1
    BY <1>6, <2>1 DEF PingsAnswered, Mark
  <2>3. QED
    BY <1>6, <2>1, <2>2 DEF PingsAnswered, Mark
<1>7. CASE PingsFail
  BY <1>7 DEF PingsFail, Disconnected, Degrade, Mark
<1>8. CASE Dispose
  <2>1. CASE kept = 1
    BY <1>8, <2>1 DEF Dispose
  <2>2. CASE kept = 0
    BY <1>8, <2>2 DEF Dispose
  <2>3. QED
    BY <2>1, <2>2
<1>9. CASE RedisShutdown
  BY <1>9 DEF RedisShutdown
<1>10. CASE UNCHANGED vars
  BY <1>10 DEF vars
<1>11. QED
  BY <1>1, <1>2, <1>3, <1>4, <1>5, <1>6, <1>7, <1>8, <1>9, <1>10 DEF Next

\* redis-io.adapter.ts:97-99, 155-157: what /health reports is whether the Redis
\* adapter is attached.
THEOREM AdapterTypeCorrect == Spec => []TypeOK
<1>1. AdapterInv => TypeOK
  BY DEF AdapterInv
<1>2. QED
  BY <1>1, AdapterInit, AdapterInvStep, PTL DEF Spec

\* redis-io.adapter.ts:50-113, 155-172: the retries form one chain that is never
\* lost and never doubled.
THEOREM OneRetryChain == Spec => []OneContinuation
<1>1. AdapterInv => OneContinuation
  BY DEF AdapterInv
<1>2. QED
  BY <1>1, AdapterInit, AdapterInvStep, PTL DEF Spec

\* redis-io.adapter.ts:57-98, 103-111: no retry leaks its connections.
THEOREM NoClientLeaks == Spec => []ClientsAccounted
<1>1. AdapterInv => ClientsAccounted
  BY DEF AdapterInv
<1>2. QED
  BY <1>1, AdapterInit, AdapterInvStep, PTL DEF Spec

-----------------------------------------------------------------------------
\* Who asks while something is wrong has noted it; so has who found the database down.
FaultSeen ==
    /\ probe # "idle" /\ Wrong => fault
    /\ probe = "redis" /\ ~ dbSeen => fault

HealthInv == HealthTypeOK /\ AdapterInv /\ FaultSeen

LEMMA HealthStart == HealthInit => HealthInv
<1> SUFFICES ASSUME HealthInit PROVE HealthInv
  OBVIOUS
<1>1. AdapterInv
  BY AdapterInit DEF HealthInit
<1>2. HealthTypeOK /\ FaultSeen
  BY <1>1 DEF AdapterInv, HealthInit, HealthTypeOK, FaultSeen
<1>3. QED
  BY <1>1, <1>2 DEF HealthInv

\* The adapter, once attached, stays so: no attempt is left that could fail.
LEMMA StaysAttached == AdapterInv /\ [Next]_vars /\ redisAttached => redisAttached'
<1> SUFFICES ASSUME AdapterInv, [Next]_vars, redisAttached PROVE redisAttached'
  OBVIOUS
<1> USE DEF client, adapter
<1>1. QED
  BY DEF Next, vars, UpOrDown, ClientReady, ClientRetries, ReadyEmitted, TimerFires,
         PingsAnswered, PingsFail, Dispose, RedisShutdown, AdapterInv, TypeOK

LEMMA HealthStep == HealthInv /\ [HealthNext]_healthVars => HealthInv'
<1> SUFFICES ASSUME HealthInv, [HealthNext]_healthVars PROVE HealthInv'
  OBVIOUS
<1>1. [Next]_vars
  BY DEF HealthNext, healthVars, AdapterStep, DbUpOrDown, MailFails, Poll, AskDb, AskRedis
<1>2. AdapterInv' /\ TypeOK'
  BY <1>1, AdapterInvStep DEF HealthInv, AdapterInv
<1>3. redisAttached => redisAttached'
  BY <1>1, StaysAttached DEF HealthInv
<1>4. /\ dbUp \in BOOLEAN /\ mailFailed \in BOOLEAN /\ probe \in {"idle", "db", "redis"}
      /\ dbSeen \in BOOLEAN /\ fault \in BOOLEAN /\ reported \in {"none", "ok", "degraded"}
      /\ reported = "ok" => redisAttached
  BY DEF HealthInv, HealthTypeOK
<1>5. HealthTypeOK'
  <2>1. CASE AdapterStep \/ DbUpOrDown
    BY <1>2, <1>3, <1>4, <2>1, Zenon DEF AdapterStep, DbUpOrDown, Watch, HealthTypeOK
  <2>2. CASE MailFails \/ Poll \/ AskDb
    BY <1>2, <1>3, <1>4, <2>2, Zenon DEF MailFails, Poll, AskDb, Wrong, HealthTypeOK
  <2>3. CASE AskRedis
    <3>1. reported' \in {"none", "ok", "degraded"} /\ probe' = "idle"
          /\ UNCHANGED <<dbUp, mailFailed, dbSeen, fault, redisAttached, adapterStatus>>
      BY <2>3 DEF AskRedis, vars, adapter
    <3>2. reported' = "ok" => adapterStatus = "attached"
      BY <2>3 DEF AskRedis, Degraded
    <3>3. reported' = "ok" => redisAttached'
      BY <3>1, <3>2 DEF HealthInv, AdapterInv, TypeOK
    <3>4. QED
      BY <1>2, <1>4, <3>1, <3>3 DEF HealthTypeOK
  <2>4. CASE UNCHANGED healthVars
    BY <1>2, <1>3, <1>4, <2>4 DEF healthVars, health, HealthTypeOK
  <2>5. QED
    BY <2>1, <2>2, <2>3, <2>4 DEF HealthNext
<1>6. FaultSeen'
  <2>1. CASE AdapterStep \/ DbUpOrDown
    BY <2>1 DEF AdapterStep, DbUpOrDown, Watch, HealthInv, FaultSeen
  <2>2. CASE MailFails \/ Poll \/ AskDb \/ AskRedis
    BY <1>4, <2>2 DEF MailFails, Poll, AskDb, AskRedis, vars, client, adapter, HealthInv,
                      FaultSeen, Wrong
  <2>3. CASE UNCHANGED healthVars
    BY <2>3 DEF healthVars, health, vars, client, adapter, HealthInv, FaultSeen, Wrong
  <2>4. QED
    BY <2>1, <2>2, <2>3 DEF HealthNext
<1>7. QED
  BY <1>2, <1>5, <1>6 DEF HealthInv

LEMMA HealthAlways == HealthSpec => []HealthInv
  BY HealthStart, HealthStep, PTL DEF HealthSpec

\* health.controller.ts:81-112: "ok" is never answered before the Redis adapter is
\* attached.
THEOREM HealthTypeCorrect == HealthSpec => []HealthTypeOK
<1>1. HealthInv => HealthTypeOK
  BY DEF HealthInv
<1>2. QED
  BY <1>1, HealthAlways, PTL

\* Whatever changes between the awaits of a health check, it answers "degraded"
\* only when something was wrong while it ran.
THEOREM NoFalseAlarms == HealthSpec => DegradedIsReal
<1>1. HealthInv /\ AskRedis /\ reported' = "degraded" => fault
  BY DEF AskRedis, Degraded, RedisAnswers, HealthInv, FaultSeen, HealthTypeOK, TypeOK, Wrong
<1>2. HealthInv => [AskRedis /\ reported' = "degraded" => fault]_healthVars
  BY <1>1
<1>3. QED
  BY <1>2, HealthAlways, PTL DEF DegradedIsReal

-----------------------------------------------------------------------------
\* The handshakes counted in this window that may still be admitted.
Pending ==
    {s \in Socket \ late : pc[s] \in {"expire", "decide"} /\ current[s] <= Limit}

\* Each of the first Limit increments of a window admits one handshake at most.
Quota == IF count < Limit THEN count ELSE Limit

LimitInv == L!TypeOK /\ admitted + Cardinality(Pending) <= Quota

LEMMA LimitStart == L!Init => LimitInv
<1> SUFFICES ASSUME L!Init PROVE LimitInv
  OBVIOUS
<1> USE RealtimeAssumption DEF L!Init, L!LimitAssumption
<1>1. L!TypeOK
  <2>1. 0 \in 0..MaxCount /\ 0 \in 0..MaxFailures
    OBVIOUS
  <2>2. QED
    BY <2>1 DEF L!TypeOK
<1>2. Pending = {}
  BY DEF Pending
<1>3. QED
  BY <1>1, <1>2, FS_EmptySet DEF LimitInv, Quota

\* The handshakes are finitely many.
LEMMA PendingIsFinite ==
  ASSUME LimitInv
  PROVE  /\ IsFiniteSet(Pending) /\ Cardinality(Pending) \in Nat
         /\ IsFiniteSet(Pending') /\ Cardinality(Pending') \in Nat
<1>1. Pending \subseteq Socket /\ Pending' \subseteq Socket
  BY DEF Pending
<1>2. IsFiniteSet(Socket)
  BY RealtimeAssumption DEF L!LimitAssumption, IsFiniteSet, L!IsFiniteSet
<1>3. QED
  BY <1>1, <1>2, FS_Subset, FS_CardinalityType

\* No handshake becomes pending, and no other is admitted, in the same window.
LEMMA FewerPending ==
  ASSUME LimitInv, L!TypeOK', Pending' \subseteq Pending, admitted' = admitted,
         count' >= count
  PROVE  LimitInv'
<1>1. Cardinality(Pending') <= Cardinality(Pending)
  BY PendingIsFinite, FS_Subset
<1>2. /\ count \in Nat /\ count' \in Nat /\ Limit \in Nat /\ admitted \in Nat
      /\ Cardinality(Pending) \in Nat /\ Cardinality(Pending') \in Nat
  BY RealtimeAssumption, PendingIsFinite DEF LimitInv, L!TypeOK, L!LimitAssumption
<1>3. admitted + Cardinality(Pending) <= Quota /\ Quota <= Quota'
  BY <1>2 DEF LimitInv, Quota
<1>4. QED
  BY <1>1, <1>2, <1>3 DEF LimitInv, Quota

LEMMA IncrStep == ASSUME LimitInv, NEW s \in Socket, L!Incr(s) PROVE LimitInv'
<1> USE RealtimeAssumption DEF L!LimitAssumption
<1>1. /\ count \in 0..MaxCount /\ count' = L!Incremented /\ count' \in 0..MaxCount
      /\ count' >= count /\ current'[s] = count' /\ admitted' = admitted
      /\ \A t \in Socket \ {s} : /\ pc'[t] = pc[t] /\ current'[t] = current[t]
                                 /\ t \in late' <=> t \in late
      /\ s \notin Pending
  BY DEF LimitInv, L!TypeOK, L!Incr, L!Incremented, L!Goto, Pending
<1>2. L!TypeOK'
  BY <1>1 DEF LimitInv, L!TypeOK, L!Incr, L!Goto
<1>3. CASE count' > Limit
  <2>1. Pending' \subseteq Pending
    BY <1>1, <1>3 DEF Pending
  <2>2. QED
    BY <1>1, <1>2, <2>1, FewerPending
<1>4. CASE ~ (count' > Limit)
  <2>1. Pending' \subseteq Pending \cup {s}
    BY <1>1 DEF Pending
  <2>2. /\ IsFiniteSet(Pending \cup {s})
        /\ Cardinality(Pending \cup {s}) = Cardinality(Pending) + 1
    BY <1>1, PendingIsFinite, FS_AddElement
  <2>3. Cardinality(Pending') <= Cardinality(Pending) + 1
    BY <2>1, <2>2, FS_Subset
  <2>4. count' = count + 1
    BY <1>1, <1>4 DEF L!Incremented
  <2>5. Cardinality(Pending) \in Nat /\ Cardinality(Pending') \in Nat /\ admitted \in Nat
    BY PendingIsFinite DEF LimitInv, L!TypeOK
  <2>6. admitted + Cardinality(Pending) <= count
    BY <1>1, <1>4, <2>4, <2>5 DEF LimitInv, Quota
  <2>7. Quota' = count'
    BY <1>1, <1>4 DEF Quota
  <2>8. QED
    BY <1>1, <1>2, <2>3, <2>4, <2>5, <2>6, <2>7 DEF LimitInv
<1>5. QED
  BY <1>3, <1>4

\* A pending handshake that is decided leaves those that are pending.
LEMMA DecideStep == ASSUME LimitInv, NEW s \in Socket, L!Decide(s) PROVE LimitInv'
<1> USE RealtimeAssumption DEF L!LimitAssumption
<1>1. L!TypeOK'
  BY DEF LimitInv, L!TypeOK, L!Decide, L!Goto
<1>2. /\ Pending' = Pending \ {s} /\ count' = count
      /\ admitted' = IF s \in Pending THEN admitted + 1 ELSE admitted
  BY DEF LimitInv, L!TypeOK, L!Decide, L!Goto, Pending
<1>3. CASE s \notin Pending
  <2>1. Pending' \subseteq Pending /\ admitted' = admitted /\ count' >= count
    BY <1>2, <1>3 DEF LimitInv, L!TypeOK
  <2>2. QED
    BY <1>1, <2>1, FewerPending
<1>4. CASE s \in Pending
  <2>1. Cardinality(Pending') = Cardinality(Pending) - 1
    BY <1>2, <1>4, PendingIsFinite, FS_RemoveElement
  <2>2. admitted' + Cardinality(Pending') = admitted + Cardinality(Pending)
    BY <1>2, <1>4, <2>1, PendingIsFinite DEF LimitInv, L!TypeOK
  <2>3. QED
    BY <1>1, <1>2, <2>2 DEF LimitInv, Quota
<1>5. QED
  BY <1>3, <1>4

LEMMA LimitStep == LimitInv /\ [L!Next]_(L!vars) => LimitInv'
<1> SUFFICES ASSUME LimitInv, [L!Next]_(L!vars) PROVE LimitInv'
  OBVIOUS
<1> USE RealtimeAssumption DEF L!LimitAssumption
<1>1. ASSUME NEW s \in Socket, L!Expire(s) \/ L!Leave(s) \/ L!IncrFails(s) \/ L!ExpireFails(s)
      PROVE  LimitInv'
  <2> USE <1>1 DEF L!Expire, L!Leave, L!IncrFails, L!ExpireFails, L!Goto, L!SetExpiry,
                   L!Incremented
  <2>1. L!TypeOK'
    <3>1. pc' \in [Socket -> {"away", "expire", "decide", "open"}]
      BY DEF LimitInv, L!TypeOK
    <3>2. count' \in 0..MaxCount /\ expires' \in BOOLEAN /\ (expires' => count' > 0)
      <4>1. count' \in 0..MaxCount /\ count' >= count
        BY DEF LimitInv, L!TypeOK
      <4>2. expires' = expires \/ (expires' = (count > 0) /\ count' = count)
        OBVIOUS
      <4>3. /\ count \in 0..MaxCount /\ expires \in BOOLEAN /\ (expires => count > 0)
            /\ MaxCount \in Nat
        BY DEF LimitInv, L!TypeOK
      <4> HIDE DEF L!Expire, L!Leave, L!IncrFails, L!ExpireFails
      <4>4. CASE expires' = expires
        BY <4>1, <4>3, <4>4
      <4>5. CASE expires' = (count > 0) /\ count' = count
        BY <4>3, <4>5
      <4>6. QED
        BY <4>2, <4>4, <4>5
    <3>3. failures' \in 0..MaxFailures
      BY DEF LimitInv, L!TypeOK
    <3>4. QED
      BY <3>1, <3>2, <3>3 DEF LimitInv, L!TypeOK
  <2>2. Pending' \subseteq Pending
    BY DEF LimitInv, L!TypeOK, Pending
  <2>3. admitted' = admitted /\ count' >= count
    BY DEF LimitInv, L!TypeOK
  <2>4. QED
    BY <2>1, <2>2, <2>3, FewerPending
<1>2. ASSUME NEW D \in SUBSET Socket, L!Crash(D) PROVE LimitInv'
  <2>1. L!TypeOK'
    BY <1>2 DEF LimitInv, L!TypeOK, L!Crash
  <2>2. Pending' \subseteq Pending /\ admitted' = admitted /\ count' >= count
    BY <1>2 DEF LimitInv, L!TypeOK, L!Crash, Pending
  <2>3. QED
    BY <2>1, <2>2, FewerPending
<1>3. CASE L!WindowEnds
  <2>1. L!TypeOK'
    <3>1. 0 \in 0..MaxCount
      OBVIOUS
    <3>2. QED
      BY <1>3, <3>1 DEF LimitInv, L!TypeOK, L!WindowEnds
  <2>2. Pending' = {} /\ admitted' = 0
    BY <1>3 DEF L!WindowEnds, Pending
  <2>3. Quota' >= 0
    BY <2>1 DEF Quota, L!TypeOK
  <2>4. QED
    BY <2>1, <2>2, <2>3, FS_EmptySet DEF LimitInv
<1>4. CASE UNCHANGED L!vars
  BY <1>4 DEF L!vars, LimitInv, L!TypeOK, Pending, Quota
<1>5. QED
  BY <1>1, <1>2, <1>3, <1>4, IncrStep, DecideStep DEF L!Next

\* However the handshakes of any number of sockets on any instances interleave,
\* and whichever fail, no more than the limit are admitted by one window's count.
THEOREM HandshakesLimited == L!Spec => [](L!TypeOK /\ L!AdmitsAtMostLimit)
<1>1. LimitInv => L!AdmitsAtMostLimit
  <2> SUFFICES ASSUME LimitInv PROVE admitted <= Limit
    BY DEF L!AdmitsAtMostLimit
  <2>1. /\ admitted \in Nat /\ Cardinality(Pending) \in Nat /\ count \in Nat /\ Limit \in Nat
        /\ admitted + Cardinality(Pending) <= Quota
    BY RealtimeAssumption, PendingIsFinite DEF LimitInv, L!TypeOK, L!LimitAssumption
  <2>2. QED
    BY <2>1 DEF Quota
<1>2. LimitInv => L!TypeOK
  BY DEF LimitInv
<1>3. QED
  BY <1>1, <1>2, LimitStart, LimitStep, PTL DEF L!Spec
=============================================================================
