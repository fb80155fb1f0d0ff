---------------------------- MODULE GuardsProofs ----------------------------
(***************************************************************************)
(* Theorems about the two guarded entrances: HttpPipeline, for any number  *)
(* of requests, instances, addresses, users and routes, and any limit; and *)
(* the gateway G, for any number of sockets, users and messages, and any   *)
(* limit and window.                                                       *)
(***************************************************************************)
EXTENDS MCGuards, Integers, Sequences, FiniteSetTheorems, TLAPS

\* Where a request stands says what the guards before it have found.
PlacedAt(r) ==
    /\ pc[r] # "done" => answer[r] = "none"
    /\ pc[r] # "idle" => route[r] \in Route /\ address[r] \in Address /\ at[r] \in Instance
    /\ pc[r] \in {"idle", "wall"} => via[r] = None
    /\ pc[r] \in {"idle", "wall", "verify"} => user[r] = None /\ r \notin checked
    /\ pc[r] \in {"verify", "lookup", "quota", "rules", "load", "store", "handle"} =>
          route[r] \in Unthrottled \/ via[r] # None
    /\ pc[r] = "lookup" => user[r] = None /\ route[r] \notin Public /\ subject[r] \in User
    /\ pc[r] \in {"quota", "rules", "handle"} => route[r] \in Public \/ user[r] # None
    /\ pc[r] \in {"load", "store"} => route[r] \in Restricted /\ user[r] \in User
    /\ pc[r] = "store" => loading[r] = user[r]
    /\ user[r] # None => r \in seenActive
    /\ pc[r] = "handle" /\ route[r] \in Restricted => r \in seenTrusted

Placed == \A r \in Request : PlacedAt(r)

\* Who has the rules is trusted, and so is everyone of whom a trace of them is left.
Trusting == permitted \subseteq trusted /\ Trace \subseteq trusted

\* Whoever is in order now while a request is open was so at some moment of it.
Seen ==
    \A r \in Request : Open(r) =>
        /\ subject[r] \in active => r \in seenActive
        /\ subject[r] \in trusted => r \in seenTrusted

\* A token is looked at only past the wall.
CheckedPastWall ==
    \A r \in checked : /\ route[r] \in Unthrottled \/ via[r] # None
                       /\ answer[r] = "tooMany" => user[r] # None

PipelineInv ==
    TypeOK /\ Trusting /\ Placed /\ Seen /\ CheckedPastWall /\ HandlersAreAuthorized

-----------------------------------------------------------------------------
LEMMA PipelineInit == Init => PipelineInv
<1> SUFFICES ASSUME Init PROVE PipelineInv
  OBVIOUS
<1>1. TypeOK /\ Trusting
  BY PipelineAssumption, RulesAssumption
     DEF Init, CacheInit, TypeOK, CacheTypeOK, Steps, Statuses, Backend, Trusting, Trace
<1>2. Placed
  BY DEF Init, Placed, PlacedAt
<1>3. Seen /\ CheckedPastWall /\ HandlersAreAuthorized
  BY DEF Init, Seen, Open, CheckedPastWall, HandlersAreAuthorized
<1>4. QED
  BY <1>1, <1>2, <1>3 DEF PipelineInv

\* No trace of the rules comes from nowhere: what is loaded is what users have, and
\* what is cached was loaded.
LEMMA EntriesStep ==
  ASSUME CacheTypeOK, Trusting, Trust, NEW g \in Guard, NEW u \in User,
         Load(g, u) \/ Put(g) \/ PutFails(g) \/ Drop(u)
  PROVE  /\ CacheTypeOK' /\ Trusting' /\ trusted' \subseteq trusted
         /\ \A h \in Guard \ {g} : loading'[h] = loading[h]
         /\ Load(g, u) => loading'[g] = u
<1> USE DEF Load, Put, PutFails, Loaded, Drop, entryVars, loadVars
<1>1. CacheTypeOK' /\ UNCHANGED permitted /\ \A h \in Guard \ {g} : loading'[h] = loading[h]
  BY RulesAssumption DEF CacheTypeOK
<1>2. Trace' \subseteq Trace \cup permitted
  <2>1. CASE Load(g, u)
    BY <2>1 DEF Trace, CacheTypeOK
  <2>2. CASE Put(g) \/ PutFails(g)
    BY <2>2 DEF Trace, CacheTypeOK
  <2>3. CASE Drop(u)
    BY <2>3 DEF Trace
  <2>4. QED
    BY <2>1, <2>2, <2>3
<1>3. Trusting' /\ trusted' \subseteq trusted
  BY <1>1, <1>2 DEF Trusting, Trust, StillTrusted
<1>4. QED
  BY <1>1, <1>3 DEF CacheTypeOK

LEMMA RightsStep ==
  ASSUME CacheTypeOK, Trusting, Trust, Change
  PROVE  CacheTypeOK' /\ Trusting' /\ UNCHANGED loading
  BY DEF Change, CacheTypeOK, Trusting, Trace, Trust, StillTrusted, entryVars, loadVars

\* What a step of r leaves as it was.
Kept(r) ==
    /\ UNCHANGED <<active, request, seenActive, seenTrusted>>
    /\ trusted' \subseteq trusted
    /\ Open(r)
    /\ \A q \in Request \ {r} :
          /\ UNCHANGED <<pc[q], user[q], via[q], answer[q], loading[q]>>
          /\ q \in checked' <=> q \in checked
          /\ q \in recorded' <=> q \in recorded

\* The claims about r itself.
FineAt(r) ==
    /\ PlacedAt(r)
    /\ r \in checked => /\ route[r] \in Unthrottled \/ via[r] # None
                        /\ answer[r] = "tooMany" => user[r] # None
    /\ r \in recorded => /\ route[r] \in Public \/ r \in seenActive
                         /\ route[r] \in Restricted => r \in seenTrusted

LEMMA ProceedStep ==
  ASSUME PipelineInv, NEW r \in Request, Kept(r), TypeOK', Trusting', FineAt(r)'
  PROVE  PipelineInv'
<1>1. Placed'
  BY DEF PipelineInv, Placed, PlacedAt, Kept, FineAt, request
<1>2. Seen'
  BY DEF PipelineInv, Seen, Open, Kept, request
<1>3. CheckedPastWall'
  BY DEF PipelineInv, TypeOK, CheckedPastWall, Kept, FineAt, request
<1>4. HandlersAreAuthorized'
  BY DEF PipelineInv, TypeOK, HandlersAreAuthorized, Kept, FineAt, request
<1>5. QED
  BY <1>1, <1>2, <1>3, <1>4 DEF PipelineInv

\* The cache rests in most steps.
LEMMA CacheRests == CacheTypeOK /\ Trusting /\ UNCHANGED world => CacheTypeOK' /\ Trusting'
  BY DEF CacheTypeOK, Trusting, Trace, world, cacheVars, entryVars, loadVars

\* The counters stay in their range.
LEMMA HitType ==
  ASSUME count \in [Backend -> [Bucket -> 0..Limit + 1]],
         NEW b \in Backend, NEW k \in Bucket, NEW extra \in 0..1, Hit(b, k, extra)
  PROVE  /\ count' \in [Backend -> [Bucket -> 0..Limit + 1]]
         /\ count'[b][k] > count[b][k] \/ count'[b][k] = Limit + 1
         /\ \A c \in Backend, l \in Bucket : count'[c][l] >= count[c][l]
<1> DEFINE hits(c) == (IF c = b THEN 1 ELSE 0) + (IF c = "redis" THEN extra ELSE 0)
<1>1. count' = [c \in Backend |-> [count[c] EXCEPT ![k] = Capped(@ + hits(c))]]
  BY DEF Hit
<1>2. \A n \in 0..Limit + 1, m \in 0..2 :
          /\ Capped(n + m) \in 0..Limit + 1 /\ Capped(n + m) >= n
          /\ m > 0 => Capped(n + m) > n \/ Capped(n + m) = Limit + 1
  BY PipelineAssumption DEF Capped
<1>3. \A c \in Backend : hits(c) \in 0..2
  OBVIOUS
<1>4. hits(b) > 0
  OBVIOUS
<1> HIDE DEF hits
<1>5. ASSUME NEW c \in Backend
      PROVE  /\ count'[c] = [count[c] EXCEPT ![k] = Capped(@ + hits(c))]
             /\ count[c] \in [Bucket -> 0..Limit + 1]
             /\ count'[c] \in [Bucket -> 0..Limit + 1]
             /\ \A l \in Bucket : count'[c][l] >= count[c][l]
  <2>1. count'[c] = [count[c] EXCEPT ![k] = Capped(@ + hits(c))]
    BY <1>1
  <2>2. count[c] \in [Bucket -> 0..Limit + 1]
    OBVIOUS
  <2>3. Capped(count[c][k] + hits(c)) \in 0..Limit + 1
        /\ Capped(count[c][k] + hits(c)) >= count[c][k]
    BY <1>2, <1>3, <2>2
  <2>4. QED
    BY PipelineAssumption, <2>1, <2>2, <2>3
<1>6. count' \in [Backend -> [Bucket -> 0..Limit + 1]]
  BY <1>1, <1>5
<1>7. count'[b][k] > count[b][k] \/ count'[b][k] = Limit + 1
  <2>1. count'[b][k] = Capped(count[b][k] + hits(b)) /\ count[b][k] \in 0..Limit + 1
    BY <1>5
  <2>2. QED
    BY <1>2, <1>3, <1>4, <2>1
<1>8. QED
  BY <1>5, <1>6, <1>7

LEMMA ArriveStep ==
  ASSUME PipelineInv, NEW r \in Request, NEW i \in Instance, NEW p \in Route,
         NEW a \in Address, NEW u \in User \cup {None}, Arrive(r, i, p, a, u)
  PROVE  PipelineInv'
<1> USE DEF Arrive, Go, FirstGuard
<1>1. answer[r] = "none" /\ r \notin checked /\ r \notin recorded
  BY DEF PipelineInv, TypeOK, Placed, PlacedAt
<1>2. CacheTypeOK' /\ Trusting' /\ UNCHANGED <<active, trusted, loading>>
  BY CacheRests DEF PipelineInv, TypeOK, world, cacheVars, loadVars
<1>3. TypeOK'
  BY <1>1, <1>2 DEF PipelineInv, TypeOK, Steps, Placed, PlacedAt
<1>4. Placed'
  BY <1>2 DEF PipelineInv, TypeOK, Placed, PlacedAt
<1>5. Seen'
  BY <1>2, PipelineAssumption DEF PipelineInv, TypeOK, Seen, Open
<1>6. CheckedPastWall'
  BY <1>1 DEF PipelineInv, TypeOK, CheckedPastWall
<1>7. HandlersAreAuthorized'
  BY <1>1 DEF PipelineInv, TypeOK, HandlersAreAuthorized
<1>8. QED
  BY <1>2, <1>3, <1>4, <1>5, <1>6, <1>7 DEF PipelineInv

\* A step that leaves the world as it is.
LEMMA RestingStep ==
  ASSUME PipelineInv, UNCHANGED world
  PROVE  /\ CacheTypeOK' /\ Trusting' /\ trusted' \subseteq trusted
         /\ UNCHANGED <<active, trusted, loading>>
  BY CacheRests DEF PipelineInv, TypeOK, world, cacheVars, loadVars

LEMMA WallStep ==
  ASSUME PipelineInv, NEW r \in Request, WallSkipped(r) \/ Wall(r) PROVE PipelineInv'
<1>1. CASE WallSkipped(r)
  <2> USE DEF WallSkipped, Go, request, history
  <2>1. CacheTypeOK' /\ Trusting' /\ UNCHANGED <<active, trusted, loading>>
    BY <1>1, RestingStep
  <2>2. Kept(r)
    BY <1>1, <2>1 DEF PipelineInv, TypeOK, Kept, Open
  <2>3. TypeOK'
    BY <1>1, <2>1 DEF PipelineInv, TypeOK, Steps
  <2>4. FineAt(r)'
    BY <1>1, <2>1 DEF PipelineInv, TypeOK, Placed, PlacedAt, FineAt
  <2>5. QED
    BY <2>1, <2>2, <2>3, <2>4, ProceedStep
<1>2. CASE Wall(r)
  <2> DEFINE k == <<route[r], address[r]>>
  <2>1. PICK b \in Backends(r), extra \in 0..1 :
          /\ Hit(b, k, extra)
          /\ via' = [via EXCEPT ![r] = b]
          /\ IF Over(b, k) THEN Answer(r, "tooMany") ELSE Go(r, "verify")
    <3>1. \A extra \in 0..(IF MayFail THEN 1 ELSE 0) : extra \in 0..1
      OBVIOUS
    <3> HIDE DEF k
    <3>2. QED
      BY <1>2, <3>1 DEF Wall, k
  <2>2. /\ pc[r] = "wall" /\ CacheTypeOK' /\ Trusting'
        /\ UNCHANGED <<active, trusted, loading, request, user, recorded, history>>
    BY <1>2, RestingStep DEF Wall
  <2>3. b \in Backend /\ b # None /\ k \in Bucket
    BY <2>2, PipelineAssumption
       DEF PipelineInv, Placed, PlacedAt, Backends, Backend, Bucket
  <2>4. Kept(r)
    BY <2>1, <2>2 DEF PipelineInv, TypeOK, Kept, Open, Answer, Go, history
  <2>5. TypeOK'
    <3>1. count' \in [Backend -> [Bucket -> 0..Limit + 1]]
      BY <2>1, <2>3, HitType DEF PipelineInv, TypeOK
    <3>2. r \notin recorded
      BY <2>2 DEF PipelineInv, TypeOK, Placed, PlacedAt
    <3>3. /\ pc' \in [Request -> Steps] /\ answer' \in [Request -> Statuses]
          /\ recorded' \subseteq {q \in Request : answer'[q] \in {"ok", "client", "server"}}
      BY <2>1, <2>2, <3>2 DEF PipelineInv, TypeOK, Steps, Statuses, Answer, Go
    <3>4. via' \in [Request -> Backend \cup {Past, None}]
      BY <2>1, <2>2, <2>3 DEF PipelineInv, TypeOK
    <3>5. QED
      BY <2>2, <3>1, <3>3, <3>4 DEF PipelineInv, TypeOK, request, history
  <2>6. FineAt(r)'
    BY <2>1, <2>2, <2>3
       DEF PipelineInv, TypeOK, Placed, PlacedAt, FineAt, request, history, Answer, Go
  <2>7. QED
    BY <2>2, <2>4, <2>5, <2>6, ProceedStep
<1>3. QED
  BY <1>1, <1>2

LEMMA VerifyStep ==
  ASSUME PipelineInv, NEW r \in Request, NoToken(r) \/ Verify(r) \/ LookUp(r)
  PROVE  PipelineInv'
<1> USE DEF NoToken, Verify, LookUp, Go, Answer, request, history
<1>0. CacheTypeOK' /\ Trusting' /\ UNCHANGED <<active, trusted, loading>>
  BY RestingStep
<1>1. Kept(r)
  BY <1>0 DEF PipelineInv, TypeOK, Kept, Open
<1>2. TypeOK'
  BY <1>0 DEF PipelineInv, TypeOK, Placed, PlacedAt, Steps, Statuses
<1>3. FineAt(r)'
  <2>1. CASE NoToken(r)
    BY <1>0, <2>1 DEF PipelineInv, TypeOK, Placed, PlacedAt, FineAt
  <2>2. CASE Verify(r)
    BY <1>0, <2>2 DEF PipelineInv, TypeOK, Placed, PlacedAt, FineAt
  <2>3. CASE LookUp(r)
    <3>1. IsActive(subject[r]) => r \in seenActive
      BY <2>3 DEF PipelineInv, Seen, Open, IsActive
    <3>2. FineAt(r)
      BY DEF PipelineInv, Placed, CheckedPastWall, HandlersAreAuthorized, FineAt
    <3>3. answer[r] = "none" /\ user[r] = None /\ route[r] \notin Public /\ r \notin recorded
          /\ subject[r] # None
      BY <2>3, PipelineAssumption DEF PipelineInv, TypeOK, Placed, PlacedAt
    <3>4. UNCHANGED <<route, address, at, via, loading, checked, recorded, seenActive,
                      seenTrusted>>
      BY <1>0, <2>3
    <3>5. CASE IsActive(subject[r])
      <4>1. pc'[r] = "quota" /\ answer'[r] = "none" /\ user'[r] = subject[r]
        BY <2>3, <3>3, <3>5 DEF PipelineInv, TypeOK
      <4>2. QED
        BY <2>3, <3>1, <3>2, <3>3, <3>4, <3>5, <4>1 DEF FineAt, PlacedAt
    <3>6. CASE ~ IsActive(subject[r])
      <4>1. pc'[r] = "done" /\ answer'[r] = "unauthorized" /\ user'[r] = None
        BY <2>3, <3>3, <3>6 DEF PipelineInv, TypeOK
      <4>2. QED
        BY <2>3, <3>2, <3>3, <3>4, <4>1 DEF FineAt, PlacedAt
    <3>7. QED
      BY <3>5, <3>6
  <2>4. QED
    BY <2>1, <2>2, <2>3
<1>4. QED
  BY <1>0, <1>1, <1>2, <1>3, ProceedStep

LEMMA QuotaStep ==
  ASSUME PipelineInv, NEW r \in Request, QuotaSkipped(r) \/ Quota(r) PROVE PipelineInv'
<1>1. FineAt(r)
  BY DEF PipelineInv, Placed, CheckedPastWall, HandlersAreAuthorized, FineAt
<1>2. CASE QuotaSkipped(r)
  <2> USE DEF QuotaSkipped, Go, request, history
  <2>1. CacheTypeOK' /\ Trusting' /\ UNCHANGED <<active, trusted, loading>>
    BY <1>2, RestingStep
  <2>2. Kept(r)
    BY <1>2, <2>1 DEF PipelineInv, TypeOK, Kept, Open
  <2>3. TypeOK'
    BY <1>2, <2>1 DEF PipelineInv, TypeOK, Steps
  <2>4. FineAt(r)'
    BY <1>1, <1>2, <2>1 DEF PipelineInv, TypeOK, PlacedAt, FineAt
  <2>5. QED
    BY <2>1, <2>2, <2>3, <2>4, ProceedStep
<1>3. CASE Quota(r)
  <2> DEFINE k == <<route[r], user[r]>>
  <2>1. PICK b \in Backends(r), extra \in 0..1 :
          /\ Hit(b, k, extra)
          /\ IF Over(b, k) THEN Answer(r, "tooMany") ELSE Go(r, "rules")
    <3>1. \A extra \in 0..(IF MayFail THEN 1 ELSE 0) : extra \in 0..1
      OBVIOUS
    <3> HIDE DEF k
    <3>2. QED
      BY <1>3, <3>1 DEF Quota, k
  <2>2. /\ pc[r] = "quota" /\ user[r] # None /\ CacheTypeOK' /\ Trusting'
        /\ UNCHANGED <<active, trusted, loading, request, user, via, recorded, history>>
    BY <1>3, RestingStep DEF Quota, ShouldSkip
  <2>3. b \in Backend /\ k \in Bucket
    BY <2>2, PipelineAssumption
       DEF PipelineInv, TypeOK, Placed, PlacedAt, Backends, Backend, Bucket
  <2>4. Kept(r)
    BY <2>1, <2>2 DEF PipelineInv, TypeOK, Kept, Open, Answer, Go, history
  <2>5. TypeOK'
    <3>1. count' \in [Backend -> [Bucket -> 0..Limit + 1]]
      BY <2>1, <2>3, HitType DEF PipelineInv, TypeOK
    <3>2. r \notin recorded
      BY <2>2 DEF PipelineInv, TypeOK, Placed, PlacedAt
    <3>3. /\ pc' \in [Request -> Steps] /\ answer' \in [Request -> Statuses]
          /\ recorded' \subseteq {q \in Request : answer'[q] \in {"ok", "client", "server"}}
      BY <2>1, <2>2, <3>2 DEF PipelineInv, TypeOK, Steps, Statuses, Answer, Go
    <3>4. QED
      BY <2>2, <3>1, <3>3 DEF PipelineInv, TypeOK, request, history
  <2>6. FineAt(r)'
    BY <1>1, <2>1, <2>2
       DEF PipelineInv, TypeOK, PlacedAt, FineAt, request, history, Answer, Go
  <2>7. QED
    BY <2>2, <2>4, <2>5, <2>6, ProceedStep
<1>4. QED
  BY <1>2, <1>3

\* PermissionsGuard: the entry has the rules, or the guard loaded them, only for who
\* is trusted.
LEMMA RulesReadStep ==
  ASSUME PipelineInv, NEW r \in Request, RulesSkipped(r) \/ RulesCached(r) \/ RulesMissed(r)
  PROVE  PipelineInv'
<1> USE DEF Go, Answer, request, history, NeedsRules, RulesSkipped, RulesCached, RulesMissed
<1>1. FineAt(r)
  BY DEF PipelineInv, Placed, CheckedPastWall, HandlersAreAuthorized, FineAt
<1>2. CacheTypeOK' /\ Trusting' /\ UNCHANGED <<active, trusted, loading>>
  BY RestingStep
<1>3. Kept(r)
  BY <1>2 DEF PipelineInv, TypeOK, Kept, Open, Decide
<1>4. answer[r] = "none" /\ r \notin recorded
  BY <1>1 DEF PipelineInv, TypeOK, FineAt, PlacedAt
<1>5. TypeOK'
  BY <1>2, <1>4 DEF PipelineInv, TypeOK, Steps, Statuses, Decide
<1>6. FineAt(r)'
  <2>1. CASE RulesSkipped(r)
    BY <1>1, <1>2, <1>4, <2>1 DEF PipelineInv, TypeOK, FineAt, PlacedAt
  <2>2. CASE RulesCached(r)
    <3>1. user[r] \in says => r \in seenTrusted
      BY <2>2 DEF PipelineInv, TypeOK, Trusting, Trace, Seen, Open
    <3>2. QED
      BY <1>1, <1>2, <1>4, <2>2, <3>1 DEF PipelineInv, TypeOK, FineAt, PlacedAt, Decide
  <2>3. CASE RulesMissed(r)
    BY <1>1, <1>2, <1>4, <2>3 DEF PipelineInv, TypeOK, FineAt, PlacedAt
  <2>4. QED
    BY <2>1, <2>2, <2>3
<1>7. QED
  BY <1>2, <1>3, <1>5, <1>6, ProceedStep

LEMMA RulesLoadStep ==
  ASSUME PipelineInv, NEW r \in Request, LoadRules(r) \/ StoreRules(r) PROVE PipelineInv'
<1> USE DEF Go, Answer, request, history, LoadRules, StoreRules
<1>1. FineAt(r)
  BY DEF PipelineInv, Placed, CheckedPastWall, HandlersAreAuthorized, FineAt
<1>2. user[r] \in User /\ answer[r] = "none" /\ r \notin recorded /\ route[r] \in Restricted
      /\ subject[r] = user[r]
  BY <1>1, PipelineAssumption DEF PipelineInv, TypeOK, FineAt, PlacedAt
<1>3. /\ CacheTypeOK' /\ Trusting' /\ trusted' \subseteq trusted
      /\ \A h \in Guard \ {r} : loading'[h] = loading[h]
      /\ LoadRules(r) => loading'[r] = user[r]
  BY <1>2, EntriesStep, PipelineAssumption DEF PipelineInv, TypeOK
<1>4. Kept(r)
  BY <1>3, PipelineAssumption DEF PipelineInv, TypeOK, Kept, Open, Decide
<1>5. TypeOK'
  <2>1. trusted' \subseteq User
    BY <1>3 DEF PipelineInv, TypeOK
  <2>2. QED
    BY <1>2, <1>3, <2>1 DEF PipelineInv, TypeOK, Steps, Statuses, Decide
<1>6. FineAt(r)'
  <2>1. CASE LoadRules(r)
    BY <1>1, <1>2, <1>3, <2>1 DEF PipelineInv, TypeOK, FineAt, PlacedAt
  <2>2. CASE StoreRules(r)
    <3>1. r \in saw => r \in seenTrusted
      BY <1>1, <1>2, <2>2, PipelineAssumption
         DEF PipelineInv, Trusting, Trace, Seen, Open, FineAt, PlacedAt
    <3>2. /\ UNCHANGED <<route, address, at, via, user, checked, recorded, seenActive,
                         seenTrusted>>
          /\ \/ r \in saw /\ pc'[r] = "handle" /\ answer'[r] = "none"
             \/ r \notin saw /\ pc'[r] = "done" /\ answer'[r] = "forbidden"
      BY <1>2, <2>2 DEF PipelineInv, TypeOK, Decide
    <3>3. pc[r] = "store" /\ user[r] # None
      BY <1>2, <2>2, PipelineAssumption
    <3>4. QED
      BY <1>1, <3>1, <3>2, <3>3 DEF FineAt, PlacedAt
  <2>3. QED
    BY <2>1, <2>2
<1>7. QED
  BY <1>3, <1>4, <1>5, <1>6, ProceedStep

LEMMA LastSteps ==
  ASSUME PipelineInv, NEW r \in Request, GuardFails(r) \/ Handle(r) PROVE PipelineInv'
<1> USE DEF Go, Answer, request, history, GuardFails, Handle
<1>1. FineAt(r)
  BY DEF PipelineInv, Placed, CheckedPastWall, HandlersAreAuthorized, FineAt
<1>2. CacheTypeOK' /\ Trusting' /\ UNCHANGED <<active, trusted, loading>>
  BY RestingStep
<1>3. Kept(r)
  BY <1>2 DEF PipelineInv, TypeOK, Kept, Open
<1>4. answer[r] = "none" /\ r \notin recorded
  BY <1>1 DEF PipelineInv, TypeOK, FineAt, PlacedAt
<1>5. TypeOK'
  BY <1>2, <1>4 DEF PipelineInv, TypeOK, Steps, Statuses
<1>6. FineAt(r)'
  BY <1>1, <1>2, <1>4 DEF PipelineInv, TypeOK, FineAt, PlacedAt
<1>7. QED
  BY <1>2, <1>3, <1>5, <1>6, ProceedStep

LEMMA ToggleStep ==
  ASSUME PipelineInv, NEW u \in User, Toggle(u) PROVE PipelineInv'
<1> USE DEF Toggle, request
<1>0. CacheTypeOK' /\ Trusting' /\ UNCHANGED <<trusted, loading>>
  BY DEF PipelineInv, TypeOK, CacheTypeOK, Trusting, Trace, cacheVars, entryVars, loadVars
<1>1. TypeOK'
  BY <1>0 DEF PipelineInv, TypeOK
<1>2. Placed'
  BY <1>0 DEF PipelineInv, Placed, PlacedAt
<1>3. Seen'
  BY <1>0 DEF PipelineInv, Seen, Open
<1>4. CheckedPastWall' /\ HandlersAreAuthorized'
  BY DEF PipelineInv, CheckedPastWall, HandlersAreAuthorized
<1>5. QED
  BY <1>0, <1>1, <1>2, <1>3, <1>4 DEF PipelineInv

\* Roles and grants change: who has the rules now is trusted from now on.
LEMMA ChangeRightsStep == ASSUME PipelineInv, ChangeRights PROVE PipelineInv'
<1> USE DEF ChangeRights, request
<1>1. CacheTypeOK' /\ Trusting' /\ UNCHANGED loading
  BY RightsStep DEF PipelineInv, TypeOK
<1>2. TypeOK'
  BY <1>1 DEF PipelineInv, TypeOK, Trust, StillTrusted, CacheTypeOK
<1>3. Placed'
  BY <1>1 DEF PipelineInv, Placed, PlacedAt
<1>4. Seen'
  BY DEF PipelineInv, Seen, Open
<1>5. CheckedPastWall' /\ HandlersAreAuthorized'
  BY DEF PipelineInv, CheckedPastWall, HandlersAreAuthorized
<1>6. QED
  BY <1>1, <1>2, <1>3, <1>4, <1>5 DEF PipelineInv

LEMMA OtherEntriesStep == ASSUME PipelineInv, Elsewhere PROVE PipelineInv'
<1> USE DEF Elsewhere, request, history
<1>1. CacheTypeOK /\ Trusting /\ Trust
  BY DEF PipelineInv, TypeOK
<1>2. /\ CacheTypeOK' /\ Trusting' /\ trusted' \subseteq trusted
      /\ \A r \in Request : loading'[r] = loading[r]
  <2>1. ASSUME NEW u \in User, Drop(u)
        PROVE  /\ CacheTypeOK' /\ Trusting' /\ trusted' \subseteq trusted
               /\ UNCHANGED loading
    BY <1>1, <2>1 DEF Drop, CacheTypeOK, Trusting, Trace, Trust, StillTrusted, loadVars
  <2>2. ASSUME NEW g \in Guard \ Request, NEW u \in User, Load(g, u)
        PROVE  /\ CacheTypeOK' /\ Trusting' /\ trusted' \subseteq trusted
               /\ \A r \in Request : loading'[r] = loading[r]
    BY <1>1, <2>2, EntriesStep, PipelineAssumption
  <2>3. ASSUME NEW g \in Guard \ Request, Put(g) \/ PutFails(g)
        PROVE  /\ CacheTypeOK' /\ Trusting' /\ trusted' \subseteq trusted
               /\ \A r \in Request : loading'[r] = loading[r]
    <3>1. loading[g] \in User
      BY <1>1, <2>3 DEF Put, PutFails, Loaded, CacheTypeOK
    <3>2. QED
      BY <1>1, <2>3, <3>1, EntriesStep, PipelineAssumption
  <2>4. QED
    BY <2>1, <2>2, <2>3
<1>4. TypeOK'
  BY <1>2 DEF PipelineInv, TypeOK
<1>5. Placed'
  BY <1>2 DEF PipelineInv, Placed, PlacedAt
<1>6. Seen'
  BY <1>2 DEF PipelineInv, Seen, Open
<1>7. CheckedPastWall' /\ HandlersAreAuthorized'
  BY DEF PipelineInv, CheckedPastWall, HandlersAreAuthorized
<1>8. QED
  BY <1>2, <1>4, <1>5, <1>6, <1>7 DEF PipelineInv

LEMMA WindowStep ==
  ASSUME PipelineInv, NEW b \in Backend, NEW k \in Bucket, WindowEnds(b, k)
  PROVE  PipelineInv'
<1> USE DEF WindowEnds, request, history
<1>0. CacheTypeOK' /\ Trusting' /\ UNCHANGED <<active, trusted, loading>>
  BY RestingStep
<1>1. \A r \in Request : via'[r] # None <=> via[r] # None
  BY PipelineAssumption DEF PipelineInv, TypeOK
<1>2. TypeOK'
  BY <1>0, PipelineAssumption DEF PipelineInv, TypeOK
<1>3. Placed'
  BY <1>0, <1>1 DEF PipelineInv, Placed, PlacedAt
<1>4. Seen' /\ HandlersAreAuthorized'
  BY <1>0 DEF PipelineInv, Seen, Open, HandlersAreAuthorized
<1>5. CheckedPastWall'
  BY <1>1 DEF PipelineInv, TypeOK, CheckedPastWall
<1>6. QED
  BY <1>0, <1>2, <1>3, <1>4, <1>5 DEF PipelineInv

LEMMA PipelineStep == PipelineInv /\ [Next]_vars => PipelineInv'
<1> SUFFICES ASSUME PipelineInv, [Next]_vars PROVE PipelineInv'
  OBVIOUS
<1>1. ASSUME NEW r \in Request, NEW i \in Instance, NEW p \in Route, NEW a \in Address,
             NEW u \in User \cup {None}, Arrive(r, i, p, a, u)
      PROVE  PipelineInv'
  BY <1>1, ArriveStep
<1>2. ASSUME NEW r \in Request, Proceed(r) PROVE PipelineInv'
  BY <1>2, WallStep, VerifyStep, QuotaStep, RulesReadStep, RulesLoadStep, LastSteps DEF Proceed
<1>3. ASSUME NEW u \in User, Toggle(u) PROVE PipelineInv'
  BY <1>3, ToggleStep
<1>4. ASSUME NEW b \in Backend, NEW k \in Bucket, WindowEnds(b, k) PROVE PipelineInv'
  BY <1>4, WindowStep
<1>5. CASE UNCHANGED vars
  <2>1. CacheTypeOK' /\ Trusting' /\ UNCHANGED <<active, trusted, loading>>
    BY <1>5, RestingStep DEF vars
  <2>2. QED
    BY <1>5, <2>1 DEF vars, request, history, PipelineInv, TypeOK, Placed, PlacedAt, Seen,
                      Open, CheckedPastWall, HandlersAreAuthorized
<1>6. QED
  BY <1>1, <1>2, <1>3, <1>4, <1>5, ChangeRightsStep, OtherEntriesStep DEF Next

LEMMA PipelineAlways == Spec => []PipelineInv
  BY PipelineInit, PipelineStep, PTL DEF Spec

\* TypeOK; with it, that only what the handler answered is recorded, never what
\* a guard refused.
THEOREM TypeCorrect == Spec => []TypeOK
<1>1. PipelineInv => TypeOK
  BY DEF PipelineInv
<1>2. QED
  BY <1>1, PipelineAlways, PTL

\* A handler runs only for a sender whose account was active at some moment of the
\* request, and who had the rules then, or was left a trace of them, in an entry or
\* with a guard, from the time the sender had them until then.
THEOREM HandlersAuthorized == Spec => []HandlersAreAuthorized
<1>1. PipelineInv => HandlersAreAuthorized
  BY DEF PipelineInv
<1>2. QED
  BY <1>1, PipelineAlways, PTL

-----------------------------------------------------------------------------
\* The requests the wall let through: what it refused has an answer and no user.
Through == {r \in Request : answer[r] = "tooMany" => user[r] # None}

\* Those a backend counted and let through in a window are no more than its
\* counter says, which lets nobody through from the limit on.
CapInv ==
    \A b \in Backend, k \in Bucket :
        LET through == CountedBy(b, k) \cap Through IN
        /\ IsFiniteSet(through)
        /\ Cardinality(through) <= count[b][k] /\ Cardinality(through) <= Limit

LEMMA CapInit == Init => CapInv
<1> SUFFICES ASSUME Init, NEW b \in Backend, NEW k \in Bucket
             PROVE  /\ IsFiniteSet(CountedBy(b, k) \cap Through)
                    /\ Cardinality(CountedBy(b, k) \cap Through) <= count[b][k]
                    /\ Cardinality(CountedBy(b, k) \cap Through) <= Limit
  BY DEF CapInv
<1>1. CountedBy(b, k) = {} /\ count[b][k] = 0
  BY PipelineAssumption DEF Init, CountedBy
<1>2. CountedBy(b, k) \cap Through = {}
  BY <1>1
<1>3. QED
  BY <1>1, <1>2, FS_EmptySet, PipelineAssumption

\* Fewer of them, and the counter as high as it was: the cap holds on.
LEMMA CapFewer ==
  ASSUME TypeOK, CapInv, NEW b \in Backend, NEW k \in Bucket,
         (CountedBy(b, k) \cap Through)' \subseteq CountedBy(b, k) \cap Through,
         count'[b][k] \in Nat, count'[b][k] >= count[b][k]
  PROVE  (/\ IsFiniteSet(CountedBy(b, k) \cap Through)
          /\ Cardinality(CountedBy(b, k) \cap Through) <= count[b][k]
          /\ Cardinality(CountedBy(b, k) \cap Through) <= Limit)'
<1> DEFINE old == CountedBy(b, k) \cap Through
           new == (CountedBy(b, k) \cap Through)'
<1>1. IsFiniteSet(old) /\ Cardinality(old) <= count[b][k] /\ Cardinality(old) <= Limit
  BY DEF CapInv
<1>2. IsFiniteSet(new) /\ Cardinality(new) <= Cardinality(old)
  BY <1>1, FS_Subset
<1>3. Cardinality(old) \in Nat /\ Cardinality(new) \in Nat
  BY <1>1, <1>2, FS_CardinalityType
<1>4. count[b][k] \in Nat /\ Limit \in Nat
  BY PipelineAssumption DEF TypeOK
<1> HIDE DEF old, new
<1>5. /\ IsFiniteSet(new) /\ Cardinality(new) <= count'[b][k] /\ Cardinality(new) <= Limit
  BY <1>1, <1>2, <1>3, <1>4
<1>6. QED
  BY <1>5 DEF new

\* The steps that count nothing at the wall and end no window.
LEMMA CapQuietStep ==
  ASSUME PipelineInv, CapInv, PipelineInv',
         \A r \in Request : via[r] # None =>
             /\ via'[r] = via[r] /\ route'[r] = route[r] /\ address'[r] = address[r]
             /\ answer[r] = "tooMany" /\ user[r] = None =>
                    answer'[r] = "tooMany" /\ user'[r] = None,
         \A r \in Request : via[r] = None => via'[r] = None,
         \A b \in Backend, k \in Bucket : count'[b][k] >= count[b][k]
  PROVE  CapInv'
<1> SUFFICES ASSUME NEW b \in Backend, NEW k \in Bucket
             PROVE  (/\ IsFiniteSet(CountedBy(b, k) \cap Through)
                     /\ Cardinality(CountedBy(b, k) \cap Through) <= count[b][k]
                     /\ Cardinality(CountedBy(b, k) \cap Through) <= Limit)'
  BY DEF CapInv
<1>1. (CountedBy(b, k) \cap Through)' \subseteq CountedBy(b, k) \cap Through
  BY PipelineAssumption DEF CountedBy, Through
<1>2. count'[b][k] \in Nat
  BY PipelineAssumption DEF PipelineInv, TypeOK
<1>3. QED
  BY <1>1, <1>2, CapFewer DEF PipelineInv

LEMMA CapWallStep ==
  ASSUME PipelineInv, CapInv, PipelineInv', NEW r \in Request, Wall(r) PROVE CapInv'
<1> DEFINE key == <<route[r], address[r]>>
<1>1. PICK b \in Backends(r), extra \in 0..1 :
        /\ Hit(b, key, extra)
        /\ via' = [via EXCEPT ![r] = b]
        /\ IF Over(b, key) THEN Answer(r, "tooMany") ELSE Go(r, "verify")
  <2>1. \A extra \in 0..(IF MayFail THEN 1 ELSE 0) : extra \in 0..1
    OBVIOUS
  <2> HIDE DEF key
  <2>2. QED
    BY <2>1 DEF Wall, key
<1>2. /\ pc[r] = "wall" /\ via[r] = None /\ user[r] = None /\ answer[r] = "none"
      /\ UNCHANGED <<route, address, user>>
  BY DEF PipelineInv, Placed, PlacedAt, Wall, request
<1>3. b \in Backend /\ key \in Bucket
  BY <1>2 DEF PipelineInv, Placed, PlacedAt, Backends, Backend, Bucket
<1>4. /\ count' \in [Backend -> [Bucket -> 0..Limit + 1]]
      /\ count'[b][key] > count[b][key] \/ count'[b][key] = Limit + 1
      /\ \A c \in Backend, l \in Bucket : count'[c][l] >= count[c][l]
  BY <1>1, <1>3, HitType DEF PipelineInv, TypeOK
<1> SUFFICES ASSUME NEW c \in Backend, NEW k \in Bucket
             PROVE  (/\ IsFiniteSet(CountedBy(c, k) \cap Through)
                     /\ Cardinality(CountedBy(c, k) \cap Through) <= count[c][k]
                     /\ Cardinality(CountedBy(c, k) \cap Through) <= Limit)'
  BY DEF CapInv
<1>5. count'[c][k] \in Nat /\ count'[c][k] >= count[c][k]
  BY <1>4, PipelineAssumption
<1>6. \A q \in Request \ {r} : via'[q] = via[q] /\ answer'[q] = answer[q]
  BY <1>1 DEF PipelineInv, TypeOK, Answer, Go
<1>7. via'[r] = b
  BY <1>1 DEF PipelineInv, TypeOK
<1>8. CASE c # b \/ k # key \/ Over(b, key)
  <2>1. r \notin (CountedBy(c, k) \cap Through)'
    <3>1. CASE c # b \/ k # key
      BY <1>2, <1>7, <3>1 DEF CountedBy
    <3>2. CASE Over(b, key)
      BY <1>1, <1>2, <3>2 DEF PipelineInv, TypeOK, Through, Answer
    <3>3. QED
      BY <1>8, <3>1, <3>2
  <2>2. (CountedBy(c, k) \cap Through)' \subseteq CountedBy(c, k) \cap Through
    BY <1>2, <1>6, <2>1 DEF CountedBy, Through
  <2>3. QED
    BY <1>5, <2>2, CapFewer DEF PipelineInv
<1>9. CASE c = b /\ k = key /\ ~ Over(b, key)
  <2> DEFINE old == CountedBy(c, k) \cap Through
             new == (CountedBy(c, k) \cap Through)'
  <2>1. new \subseteq old \cup {r}
    BY <1>2, <1>6 DEF CountedBy, Through
  <2>2. IsFiniteSet(old) /\ Cardinality(old) <= count[c][k] /\ Cardinality(old) <= Limit
    BY DEF CapInv
  <2> HIDE DEF old, new
  <2>3. IsFiniteSet(old \cup {r}) /\ Cardinality(old) \in Nat
        /\ Cardinality(old \cup {r}) \in Nat /\ Cardinality(old \cup {r}) <= Cardinality(old) + 1
    <3>1. Cardinality(old) \in Nat
      BY <2>2, FS_CardinalityType
    <3>2. /\ IsFiniteSet(old \cup {r})
          /\ Cardinality(old \cup {r}) = IF r \in old THEN Cardinality(old) ELSE Cardinality(old) + 1
      BY <2>2, FS_AddElement
    <3>3. QED
      BY <3>1, <3>2
  <2>4. IsFiniteSet(new) /\ Cardinality(new) <= Cardinality(old \cup {r})
        /\ Cardinality(new) \in Nat
    BY <2>1, <2>3, FS_Subset, FS_CardinalityType
  <2>5. /\ count[c][k] < Limit /\ count[c][k] \in 0..Limit + 1
        /\ count'[c][k] \in 0..Limit + 1 /\ Limit \in Nat
        /\ count'[c][k] > count[c][k] \/ count'[c][k] = Limit + 1
    BY <1>4, <1>9, PipelineAssumption DEF Over, PipelineInv, TypeOK
  <2>6. IsFiniteSet(new) /\ Cardinality(new) <= count'[c][k] /\ Cardinality(new) <= Limit
    BY <2>2, <2>3, <2>4, <2>5
  <2>7. QED
    BY <2>6 DEF new
<1>10. QED
  BY <1>8, <1>9

LEMMA CapWindowStep ==
  ASSUME PipelineInv, CapInv, PipelineInv',
         NEW b \in Backend, NEW k \in Bucket, WindowEnds(b, k)
  PROVE  CapInv'
<1> SUFFICES ASSUME NEW c \in Backend, NEW l \in Bucket
             PROVE  (/\ IsFiniteSet(CountedBy(c, l) \cap Through)
                     /\ Cardinality(CountedBy(c, l) \cap Through) <= count[c][l]
                     /\ Cardinality(CountedBy(c, l) \cap Through) <= Limit)'
  BY DEF CapInv
<1>1. /\ via' = [r \in Request |-> IF via[r] = b /\ <<route[r], address[r]>> = k
                                   THEN Past ELSE via[r]]
      /\ count' = [count EXCEPT ![b][k] = 0]
      /\ UNCHANGED <<route, address, answer, user>>
  BY DEF WindowEnds, request
<1>2. CASE c = b /\ l = k
  <2>1. (CountedBy(c, l) \cap Through)' = {}
    BY <1>1, <1>2, PipelineAssumption DEF CountedBy
  <2>2. count'[c][l] \in Nat /\ count'[c][l] >= 0 /\ Limit >= 0
    BY PipelineAssumption DEF PipelineInv, TypeOK
  <2>3. QED
    BY <2>1, <2>2, FS_EmptySet
<1>3. CASE c # b \/ l # k
  <2>1. (CountedBy(c, l) \cap Through)' \subseteq CountedBy(c, l) \cap Through
    BY <1>1, PipelineAssumption DEF CountedBy, Through
  <2>2. count'[c][l] \in Nat /\ count'[c][l] >= count[c][l]
    BY <1>1, <1>3, PipelineAssumption DEF PipelineInv, TypeOK
  <2>3. QED
    BY <2>1, <2>2, CapFewer DEF PipelineInv
<1>4. QED
  BY <1>2, <1>3

LEMMA CapStep == PipelineInv /\ CapInv /\ PipelineInv' /\ [Next]_vars => CapInv'
<1> SUFFICES ASSUME PipelineInv, CapInv, PipelineInv', [Next]_vars PROVE CapInv'
  OBVIOUS
<1>1. \A b \in Backend, k \in Bucket : count[b][k] \in 0..Limit + 1
  BY DEF PipelineInv, TypeOK
<1>2. ASSUME NEW r \in Request, NEW i \in Instance, NEW p \in Route, NEW a \in Address,
             NEW u \in User \cup {None}, Arrive(r, i, p, a, u)
      PROVE  CapInv'
  BY <1>1, <1>2, CapQuietStep, PipelineAssumption
     DEF PipelineInv, TypeOK, Placed, PlacedAt, Arrive, Go
<1>3. ASSUME NEW r \in Request, Wall(r) PROVE CapInv'
  BY <1>3, CapWallStep
<1>4. ASSUME NEW r \in Request, Quota(r) PROVE CapInv'
  <2> DEFINE key == <<route[r], user[r]>>
  <2>1. PICK b \in Backends(r), extra \in 0..1 :
          Hit(b, key, extra) /\ (Answer(r, "tooMany") \/ Go(r, "rules"))
    <3>1. \A extra \in 0..(IF MayFail THEN 1 ELSE 0) : extra \in 0..1
      OBVIOUS
    <3> HIDE DEF key
    <3>2. QED
      BY <1>4, <3>1 DEF Quota, key
  <2>2. b \in Backend /\ key \in Bucket /\ answer[r] = "none" /\ user[r] # None
        /\ UNCHANGED <<via, route, address, user>>
    BY <1>4, PipelineAssumption DEF PipelineInv, TypeOK, Placed, PlacedAt, Backends, Backend,
                Bucket, Quota, ShouldSkip, request
  <2>3. \A c \in Backend, l \in Bucket : count'[c][l] >= count[c][l]
    BY <2>1, <2>2, HitType DEF PipelineInv, TypeOK
  <2>4. \A q \in Request : answer[q] = "tooMany" => answer'[q] = "tooMany"
    BY <2>1, <2>2 DEF PipelineInv, TypeOK, Answer, Go
  <2>5. QED
    BY <2>2, <2>3, <2>4, CapQuietStep
<1>5. ASSUME NEW r \in Request,
             \/ WallSkipped(r) \/ NoToken(r) \/ Verify(r) \/ LookUp(r) \/ QuotaSkipped(r)
             \/ RulesSkipped(r) \/ RulesCached(r) \/ RulesMissed(r) \/ LoadRules(r)
             \/ StoreRules(r) \/ GuardFails(r) \/ Handle(r)
      PROVE  CapInv'
  <2> USE DEF WallSkipped, NoToken, Verify, LookUp, QuotaSkipped, RulesSkipped, RulesCached,
              RulesMissed, NeedsRules, LoadRules, StoreRules, GuardFails, Handle
  <2>1. answer[r] = "none" /\ UNCHANGED <<via, route, address, count>>
    BY <1>5 DEF PipelineInv, Placed, PlacedAt, request
  <2>2. \A q \in Request \ {r} : answer'[q] = answer[q] /\ user'[q] = user[q]
    BY <1>5 DEF PipelineInv, TypeOK, Decide, Answer, Go
  <2>3. QED
    BY <1>1, <2>1, <2>2, CapQuietStep, PipelineAssumption
<1>6. ASSUME NEW u \in User, Toggle(u) PROVE CapInv'
  BY <1>1, <1>6, CapQuietStep, PipelineAssumption DEF Toggle, request
<1>10. CASE ChangeRights \/ Elsewhere
  BY <1>1, <1>10, CapQuietStep, PipelineAssumption DEF ChangeRights, Elsewhere, request
<1>7. ASSUME NEW b \in Backend, NEW k \in Bucket, WindowEnds(b, k) PROVE CapInv'
  BY <1>7, CapWindowStep
<1>8. CASE UNCHANGED vars
  BY <1>1, <1>8, CapQuietStep, PipelineAssumption DEF vars, request
<1>9. QED
  BY <1>2, <1>3, <1>4, <1>5, <1>6, <1>7, <1>8, <1>10 DEF Next, Proceed

\* "Floods are rate-limited before any JWT verification work happens": of the
\* requests a backend counts for an address in one window, no more reach the
\* check of their token than the limit allows, whatever Redis does.
THEOREM FloodsAreCapped == Spec => []VerificationIsCapped
<1>1. ASSUME PipelineInv, CapInv, NEW b \in Backend, NEW k \in Bucket
      PROVE  Cardinality(CountedBy(b, k) \cap checked) <= Limit
  <2> DEFINE through == CountedBy(b, k) \cap Through
  <2>1. CountedBy(b, k) \cap checked \subseteq through
    BY <1>1 DEF PipelineInv, TypeOK, CheckedPastWall, Through
  <2>2. IsFiniteSet(through) /\ Cardinality(through) <= Limit
    BY <1>1 DEF CapInv
  <2> HIDE DEF through
  <2>3. /\ Cardinality(CountedBy(b, k) \cap checked) <= Cardinality(through)
        /\ Cardinality(CountedBy(b, k) \cap checked) \in Nat /\ Cardinality(through) \in Nat
    BY <2>1, <2>2, FS_Subset, FS_CardinalityType
  <2>4. QED
    BY <2>2, <2>3, PipelineAssumption
<1>2. PipelineInv /\ CapInv => VerificationIsCapped
  BY <1>1 DEF VerificationIsCapped, PipelineInv, CheckedPastWall
<1>3. Spec => []CapInv
  BY CapInit, CapStep, PipelineAlways, PTL DEF Spec
<1>4. QED
  BY <1>2, <1>3, PipelineAlways, PTL

-----------------------------------------------------------------------------
\* What is known of a message by where it stands.  Its socket is not used again
\* while it is under way, so that the token stays the one it came with.
MessageAt(m) ==
    /\ step[m] # "none" => from[m] \in Socket
    /\ step[m] = "none" => m \notin late \cup outlawed \cup barred
    /\ step[m] = "verify" /\ m \in late => from[m] \notin valid
    /\ step[m] \in {"verify", "lookup"} /\ m \in outlawed => token[from[m]] \notin unblocked
    /\ step[m] \in {"lookup", "rules", "load", "store", "emit"} => m \notin late
    /\ step[m] \in {"rules", "load", "store", "emit"} => m \notin outlawed
    /\ step[m] \in {"rules", "load", "store"} =>
          socketUser[from[m]] = token[from[m]] /\ token[from[m]] \in User
    /\ step[m] = "store" => fetching[m] = token[from[m]]
    /\ step[m] \in {"verify", "lookup", "rules", "load", "store"} /\ m \in barred =>
          token[from[m]] \notin relied
    /\ step[m] = "emit" => m \notin barred
    /\ m \in sent => step[m] = "done"

GateTrusting == mayManage \subseteq relied /\ G!Trace \subseteq relied

GateInv ==
    /\ G!TypeOK
    /\ GateTrusting
    /\ from \in [Message -> Socket \cup {None}]
    /\ passed \in [Socket -> Seq(0..Duration)]
    /\ G!RoomsAreOwned
    /\ \A m \in Message : MessageAt(m)
    /\ BroadcastsAreAuthorized

\* The messages of the present window that passed the throttle.
InWindow(s) == IF counter[s].count < MaxMessages THEN counter[s].count ELSE MaxMessages

\* The times at which messages of s passed: all before the present window were
\* over when it opened, and those further back than the window before it were a
\* whole window earlier.
PacedAt(s) ==
    LET times == passed[s]
        opened == counter[s].resetAt - Window
        before == Len(times) - InWindow(s)
    IN
    /\ counter[s].count = 0 => times = <<>> /\ counter[s] = G!NoEntry
    /\ counter[s].count > 0 =>
          /\ opened <= now
          /\ \A i \in 1..Len(times) : times[i] <= now
          /\ \A i \in 1..before : times[i] <= opened
          /\ \A i \in 1..(before - MaxMessages) : times[i] + Window <= opened

Paced == \A s \in Socket : PacedAt(s)

-----------------------------------------------------------------------------
LEMMA GateInit == G!Init => GateInv /\ Paced
<1> SUFFICES ASSUME G!Init PROVE GateInv /\ Paced
  OBVIOUS
<1> USE GuardsAssumption DEF G!Init, G!GatewayAssumption, G!NoEntry
<1>1. passed \in [Socket -> Seq(0..Duration)]
  OBVIOUS
<1>2. G!TypeOK /\ GateTrusting
  <2>1. G!CacheTypeOK /\ GateTrusting
    BY RulesAssumption DEF G!CacheInit, G!CacheTypeOK, GateTrusting, G!Trace
  <2>2. QED
    BY <1>1, <2>1 DEF G!TypeOK, G!Steps, G!CacheTypeOK, G!CacheInit
<1>3. GateInv
  BY <1>1, <1>2 DEF GateInv, MessageAt, G!RoomsAreOwned, BroadcastsAreAuthorized,
                    G!BroadcastsAreAuthorized
<1>4. Paced
  BY DEF Paced, PacedAt
<1>5. QED
  BY <1>3, <1>4

\* As in EntriesStep and RightsStep, for the entries the gateway sees.
LEMMA GateEntriesStep ==
  ASSUME G!CacheTypeOK, GateTrusting, G!Trust, NEW g \in Message \cup (Guard \ Request),
         NEW u \in User, G!Load(g, u) \/ G!Put(g) \/ G!PutFails(g) \/ G!Drop(u)
  PROVE  /\ G!CacheTypeOK' /\ GateTrusting' /\ relied' \subseteq relied
         /\ \A h \in Message \ {g} : fetching'[h] = fetching[h]
         /\ G!Load(g, u) => fetching'[g] = u
<1> USE DEF G!Load, G!Put, G!PutFails, G!Loaded, G!Drop, G!entryVars, G!loadVars
<1>1. /\ G!CacheTypeOK' /\ UNCHANGED mayManage
      /\ \A h \in Message \ {g} : fetching'[h] = fetching[h]
  BY RulesAssumption DEF G!CacheTypeOK
<1>2. (G!Trace)' \subseteq G!Trace \cup mayManage
  <2>1. CASE G!Load(g, u)
    BY <2>1 DEF G!Trace, G!CacheTypeOK
  <2>2. CASE G!Put(g) \/ G!PutFails(g)
    BY <2>2 DEF G!Trace, G!CacheTypeOK
  <2>3. CASE G!Drop(u)
    BY <2>3 DEF G!Trace
  <2>4. QED
    BY <2>1, <2>2, <2>3
<1>3. GateTrusting' /\ relied' \subseteq relied
  BY <1>1, <1>2 DEF GateTrusting, G!Trust, G!StillTrusted
<1>4. QED
  BY <1>1, <1>3 DEF G!CacheTypeOK

LEMMA GateRests ==
  ASSUME GateInv, UNCHANGED <<mayManage, entries, tells, fetching, found, relied>>
  PROVE  G!CacheTypeOK' /\ GateTrusting'
  BY DEF GateInv, G!TypeOK, G!CacheTypeOK, GateTrusting, G!Trace

LEMMA ConnectStep ==
  ASSUME GateInv, NEW s \in Socket, NEW u \in User \cup {None}, G!Connect(s, u)
  PROVE  GateInv'
<1> USE DEF G!Connect, G!messages, G!world, G!NoEntry
<1>1. passed' \in [Socket -> Seq(0..Duration)]
  BY DEF GateInv
<1>2. counter' \in [Socket -> [count : Nat, resetAt : 0..(Duration + Window)]]
  BY GuardsAssumption DEF GateInv, G!TypeOK, G!GatewayAssumption
<1>3. G!CacheTypeOK' /\ GateTrusting'
  BY GateRests DEF G!cacheVars, G!entryVars, G!loadVars
<1>4. G!TypeOK'
  BY <1>1, <1>2, <1>3 DEF GateInv, G!TypeOK
<1>5. G!RoomsAreOwned'
  BY DEF GateInv, G!TypeOK, G!RoomsAreOwned
<1>6. ASSUME NEW m \in Message PROVE MessageAt(m)'
  <2>1. step[m] \in G!Pending => from[m] # s
    BY DEF G!Underway
  <2>2. fetching' = fetching
    BY DEF G!cacheVars, G!loadVars
  <2>3. QED
    BY <2>1, <2>2 DEF GateInv, G!TypeOK, MessageAt, G!Pending
<1>7. BroadcastsAreAuthorized'
  BY DEF GateInv, BroadcastsAreAuthorized, G!BroadcastsAreAuthorized
<1>8. QED
  BY <1>1, <1>3, <1>4, <1>5, <1>6, <1>7 DEF GateInv

\* The steps of a socket that is accepted, refused, closed or out of date.
LEMMA SocketStep ==
  ASSUME GateInv, NEW s \in Socket,
         \/ G!Proven(s) \/ G!Authenticated(s) \/ G!Refused(s)
         \/ G!Disconnect(s) \/ G!ExpireToken(s)
  PROVE  GateInv'
<1> USE DEF G!Proven, G!Authenticated, G!Refused, G!Disconnect, G!ExpireToken, G!Opened,
            G!Close, G!messages, G!history, G!world
<1>1. G!CacheTypeOK' /\ GateTrusting'
  BY GateRests DEF G!cacheVars, G!entryVars, G!loadVars
<1>2. G!TypeOK'
  BY <1>1 DEF GateInv, G!TypeOK
<1>3. G!RoomsAreOwned'
  <2>1. G!IsActive(s) => token[s] # None
    BY RulesAssumption DEF G!IsActive, GateInv, G!TypeOK
  <2>2. QED
    BY <2>1 DEF GateInv, G!TypeOK, G!RoomsAreOwned
<1>4. ASSUME NEW m \in Message PROVE MessageAt(m)'
  <2>1. fetching' = fetching
    BY DEF G!cacheVars, G!loadVars
  <2>2. QED
    BY <2>1 DEF GateInv, G!TypeOK, MessageAt
<1>5. BroadcastsAreAuthorized'
  BY DEF GateInv, BroadcastsAreAuthorized, G!BroadcastsAreAuthorized
<1>6. QED
  BY <1>1, <1>2, <1>3, <1>4, <1>5 DEF GateInv

\* The throttle's entry of a socket is a record of a hit and the end of its window.
LEMMA EntryType ==
  ASSUME GateInv, NEW s \in Socket
  PROVE  /\ counter[s] = [count |-> counter[s].count, resetAt |-> counter[s].resetAt]
         /\ counter[s].count \in Nat /\ counter[s].resetAt \in 0..(Duration + Window)
         /\ G!Entry(s) \in [count : Nat \ {0}, resetAt : 0..(Duration + Window)]
         /\ counter[s] # G!NoEntry /\ now < counter[s].resetAt =>
                /\ G!Entry(s).count = counter[s].count + 1
                /\ G!Entry(s).resetAt = counter[s].resetAt
         /\ counter[s] = G!NoEntry \/ counter[s].resetAt <= now =>
                G!Entry(s).count = 1 /\ G!Entry(s).resetAt = now + Window
<1>1. /\ counter[s] \in [count : Nat, resetAt : 0..(Duration + Window)]
      /\ now \in 0..Duration /\ Duration \in Nat /\ Window \in Nat
  BY GuardsAssumption DEF GateInv, G!TypeOK, G!GatewayAssumption
<1>2. QED
  BY <1>1 DEF G!Entry, G!Started

LEMMA GateArriveStep ==
  ASSUME GateInv, NEW s \in Socket, NEW m \in Message, G!Arrive(s, m)
  PROVE  GateInv'
<1> USE DEF G!Arrive, G!connection, G!history, G!world
<1>1. counter' \in [Socket -> [count : Nat, resetAt : 0..(Duration + Window)]]
  BY EntryType DEF GateInv, G!TypeOK
<1>2. passed' \in [Socket -> Seq(0..Duration)]
  <2>1. Append(passed[s], now) \in Seq(0..Duration)
    BY DEF GateInv, G!TypeOK
  <2>2. QED
    BY <2>1 DEF GateInv
<1>3. /\ from' \in [Message -> Socket \cup {None}]
      /\ from'[m] = s /\ step'[m] \in {"verify", "done"}
      /\ \A n \in Message \ {m} : UNCHANGED <<from[n], step[n]>>
  BY DEF GateInv, G!TypeOK
<1>4. G!CacheTypeOK' /\ GateTrusting' /\ UNCHANGED fetching
  BY GateRests DEF G!cacheVars, G!entryVars, G!loadVars
<1>5. G!TypeOK'
  <2>1. step' \in [Message -> G!Steps]
    BY DEF GateInv, G!TypeOK, G!Steps, G!Pending
  <2>2. \A n \in Message : step'[n] = "none" \/ from'[n] \in Socket
    BY <1>3 DEF GateInv, G!TypeOK
  <2>3. sent' \cup late' \cup outlawed' \cup barred' \subseteq Message
    BY DEF GateInv, G!TypeOK
  <2>4. \A t \in Socket : passed'[t] \in Seq(0..Duration)
    BY <1>2
  <2>5. QED
    BY <1>1, <1>4, <2>1, <2>2, <2>3, <2>4 DEF GateInv, G!TypeOK
<1>6. G!RoomsAreOwned'
  BY DEF GateInv, G!RoomsAreOwned
<1>7. m \notin sent
  BY DEF GateInv, MessageAt
<1>8. MessageAt(m)'
  BY <1>3, <1>4, <1>7 DEF GateInv, MessageAt, G!InDate, G!IsActive
<1>9. ASSUME NEW n \in Message, n # m PROVE MessageAt(n)'
  BY <1>3, <1>4, <1>9 DEF GateInv, MessageAt
<1>10. BroadcastsAreAuthorized'
  BY <1>7 DEF GateInv, BroadcastsAreAuthorized, G!BroadcastsAreAuthorized
<1>11. QED
  BY <1>2, <1>3, <1>4, <1>5, <1>6, <1>8, <1>9, <1>10 DEF GateInv

\* The steps of a message that neither load rules nor keep them.
LEMMA GateProceedStep ==
  ASSUME GateInv, NEW m \in Message,
         \/ G!Verify(m) \/ G!LookUp(m) \/ G!VerifyFails(m) \/ G!RulesCached(m)
         \/ G!RulesMissed(m) \/ G!LoadFails(m) \/ G!Broadcast(m)
  PROVE  GateInv'
<1> USE DEF G!Verify, G!LookUp, G!VerifyFails, G!RulesCached, G!RulesMissed, G!LoadFails,
            G!Broadcast, G!Goto, G!Close, G!MessageVerified, G!InDate, G!IsActive, G!Decide,
            G!connection, G!history, G!world
<1>1. from[m] \in Socket
  BY DEF GateInv, MessageAt
<1>2. /\ UNCHANGED <<from, token, valid, passed, late, outlawed, barred>>
      /\ step'[m] \in {"lookup", "rules", "load", "emit", "done"}
      /\ \A n \in Message \ {m} : step'[n] = step[n] /\ (n \in sent' <=> n \in sent)
  BY DEF GateInv, G!TypeOK
<1>3. \A t \in Socket : socketUser'[t] = socketUser[t] \/ socketUser'[t] = token[t]
  BY <1>1 DEF GateInv, G!TypeOK
<1>4. G!CacheTypeOK' /\ GateTrusting' /\ UNCHANGED <<unblocked, relied, fetching>>
  BY GateRests DEF G!cacheVars, G!entryVars, G!loadVars
<1>5. G!TypeOK'
  BY <1>1, <1>4 DEF GateInv, G!TypeOK, G!Steps, G!Pending
<1>6. G!RoomsAreOwned'
  BY <1>1, <1>3 DEF GateInv, G!TypeOK, G!RoomsAreOwned
<1>7. MessageAt(m)'
  <2>1. CASE G!RulesCached(m)
    <3>1. socketUser[from[m]] \in tells => m \notin barred
      BY <1>1, <2>1 DEF GateInv, MessageAt, GateTrusting, G!Trace
    <3>2. QED
      BY <1>1, <1>2, <1>4, <2>1, <3>1 DEF GateInv, G!TypeOK, MessageAt
  <2>2. CASE G!LookUp(m)
    BY <1>1, <1>2, <1>4, <2>2 DEF GateInv, G!TypeOK, MessageAt
  <2>3. CASE ~ G!RulesCached(m) /\ ~ G!LookUp(m)
    BY <1>1, <1>2, <1>4, <2>3 DEF GateInv, G!TypeOK, MessageAt
  <2>4. QED
    BY <2>1, <2>2, <2>3
<1>8. ASSUME NEW n \in Message, n # m PROVE MessageAt(n)'
  BY <1>2, <1>3, <1>4, <1>8 DEF GateInv, G!TypeOK, MessageAt
<1>9. BroadcastsAreAuthorized'
  BY <1>2 DEF GateInv, G!TypeOK, MessageAt, BroadcastsAreAuthorized,
              G!BroadcastsAreAuthorized
<1>10. QED
  BY <1>2, <1>4, <1>5, <1>6, <1>7, <1>8, <1>9 DEF GateInv

\* The steps that leave sockets and histories alone, whatever they do to the entries.
LEMMA EntriesMoved ==
  ASSUME GateInv, G!CacheTypeOK', GateTrusting', relied' \subseteq relied,
         UNCHANGED <<now, unblocked, G!connection, counter, sent, G!history, from>>,
         step' \in [Message -> G!Steps],
         \A m \in Message : step[m] = "none" <=> step'[m] = "none",
         \A m \in Message : MessageAt(m)'
  PROVE  GateInv'
<1> USE DEF G!connection, G!history
<1>1. G!TypeOK'
  <2>1. relied' \subseteq User
    BY DEF GateInv, G!TypeOK
  <2>2. QED
    BY <2>1 DEF GateInv, G!TypeOK
<1>2. G!RoomsAreOwned' /\ BroadcastsAreAuthorized'
  BY DEF GateInv, G!RoomsAreOwned, BroadcastsAreAuthorized, G!BroadcastsAreAuthorized
<1>3. QED
  BY <1>1, <1>2 DEF GateInv

LEMMA GateRulesStep ==
  ASSUME GateInv, NEW m \in Message, G!LoadRules(m) \/ G!StoreRules(m)
  PROVE  GateInv'
<1> USE DEF G!LoadRules, G!StoreRules, G!Goto, G!Decide, G!connection, G!history
<1>1. from[m] \in Socket /\ socketUser[from[m]] \in User
      /\ socketUser[from[m]] = token[from[m]] /\ m \notin sent
  BY DEF GateInv, MessageAt
<1>2. /\ G!CacheTypeOK' /\ GateTrusting' /\ relied' \subseteq relied
      /\ \A h \in Message \ {m} : fetching'[h] = fetching[h]
      /\ G!LoadRules(m) => fetching'[m] = socketUser[from[m]]
  BY <1>1, GateEntriesStep DEF GateInv, G!TypeOK
<1>3. /\ step' \in [Message -> G!Steps] /\ step[m] # "none" /\ step'[m] # "none"
      /\ \A n \in Message \ {m} : step'[n] = step[n]
  BY DEF GateInv, G!TypeOK, G!Steps, G!Pending
<1>4. MessageAt(m)'
  <2>1. CASE G!LoadRules(m)
    BY <1>1, <1>2, <2>1 DEF GateInv, G!TypeOK, MessageAt
  <2>2. CASE G!StoreRules(m)
    <3>1. m \in found => m \notin barred
      BY <1>1, <2>2 DEF GateInv, MessageAt, GateTrusting, G!Trace
    <3>2. QED
      BY <1>1, <2>2, <3>1 DEF GateInv, G!TypeOK, MessageAt
  <2>3. QED
    BY <2>1, <2>2
<1>5. ASSUME NEW n \in Message, n # m PROVE MessageAt(n)'
  BY <1>2, <1>3, <1>5 DEF GateInv, MessageAt
<1>6. QED
  BY <1>2, <1>3, <1>4, <1>5, EntriesMoved

\* What happens elsewhere.
LEMMA ElsewhereStep ==
  ASSUME GateInv, (\E u \in User : G!SetStatus(u)) \/ G!ChangeRights \/ G!Tick
  PROVE  GateInv'
<1> USE DEF G!SetStatus, G!ChangeRights, G!Tick, G!connection, G!messages, G!history
<1>1. G!CacheTypeOK' /\ GateTrusting' /\ relied' \subseteq User /\ UNCHANGED fetching
  <2>1. CASE G!ChangeRights
    <3>1. G!CacheTypeOK' /\ UNCHANGED fetching /\ (G!Trace)' = G!Trace
      BY <2>1 DEF GateInv, G!TypeOK, G!CacheTypeOK, G!Change, G!entryVars, G!loadVars, G!Trace
    <3>2. QED
      BY <2>1, <3>1 DEF GateInv, G!TypeOK, GateTrusting, G!Trust, G!StillTrusted, G!CacheTypeOK
  <2>2. CASE (\E u \in User : G!SetStatus(u)) \/ G!Tick
    BY <2>2, GateRests DEF GateInv, G!TypeOK, G!cacheVars, G!entryVars, G!loadVars
  <2>3. QED
    BY <2>1, <2>2
<1>2. G!TypeOK'
  BY <1>1, GuardsAssumption DEF GateInv, G!TypeOK, G!GatewayAssumption
<1>3. G!RoomsAreOwned'
  BY DEF GateInv, G!RoomsAreOwned
<1>4. ASSUME NEW m \in Message PROVE MessageAt(m)'
  BY <1>1 DEF GateInv, G!TypeOK, MessageAt
<1>5. BroadcastsAreAuthorized'
  BY DEF GateInv, BroadcastsAreAuthorized, G!BroadcastsAreAuthorized
<1>6. QED
  BY <1>1, <1>2, <1>3, <1>4, <1>5 DEF GateInv

LEMMA GateElsewhere == ASSUME GateInv, G!Elsewhere PROVE GateInv'
<1> USE DEF G!Elsewhere, G!connection, G!messages, G!history
<1>1. G!CacheTypeOK /\ GateTrusting /\ G!Trust
  BY DEF GateInv, G!TypeOK
<1>2. /\ G!CacheTypeOK' /\ GateTrusting' /\ relied' \subseteq relied
      /\ \A h \in Message : fetching'[h] = fetching[h]
  <2>1. ASSUME NEW u \in User, G!Drop(u)
        PROVE  /\ G!CacheTypeOK' /\ GateTrusting' /\ relied' \subseteq relied
               /\ UNCHANGED fetching
    BY <1>1, <2>1 DEF G!Drop, G!CacheTypeOK, GateTrusting, G!Trace, G!Trust, G!StillTrusted,
                      G!loadVars
  <2>2. ASSUME NEW g \in (Message \cup (Guard \ Request)) \ Message, NEW u \in User,
               G!Load(g, u)
        PROVE  /\ G!CacheTypeOK' /\ GateTrusting' /\ relied' \subseteq relied
               /\ \A h \in Message : fetching'[h] = fetching[h]
    BY <1>1, <2>2, GateEntriesStep
  <2>3. ASSUME NEW g \in (Message \cup (Guard \ Request)) \ Message,
               G!Put(g) \/ G!PutFails(g)
        PROVE  /\ G!CacheTypeOK' /\ GateTrusting' /\ relied' \subseteq relied
               /\ \A h \in Message : fetching'[h] = fetching[h]
    <3>1. fetching[g] \in User
      BY <1>1, <2>3 DEF G!Put, G!PutFails, G!Loaded, G!CacheTypeOK
    <3>2. QED
      BY <1>1, <2>3, <3>1, GateEntriesStep
  <2>4. QED
    BY <2>1, <2>2, <2>3
<1>3. \A m \in Message : MessageAt(m)'
  BY <1>2 DEF GateInv, MessageAt
<1>4. QED
  BY <1>2, <1>3, EntriesMoved DEF GateInv, G!TypeOK

LEMMA GateStep == GateInv /\ [G!Next]_(G!vars) => GateInv'
<1> SUFFICES ASSUME GateInv, [G!Next]_(G!vars) PROVE GateInv'
  OBVIOUS
<1>1. CASE UNCHANGED G!vars
  <2>1. G!CacheTypeOK' /\ GateTrusting' /\ UNCHANGED <<relied, fetching>>
    BY <1>1, GateRests DEF G!vars, G!world, G!cacheVars, G!entryVars, G!loadVars
  <2>2. \A m \in Message : MessageAt(m)'
    BY <1>1, <2>1 DEF G!vars, G!world, G!connection, G!messages, G!history, GateInv, MessageAt
  <2>3. QED
    BY <1>1, <2>1, <2>2, EntriesMoved
       DEF G!vars, G!world, G!connection, G!messages, G!history, GateInv, G!TypeOK
<1>2. CASE G!Next
  BY <1>2, ConnectStep, SocketStep, GateArriveStep, GateProceedStep, GateRulesStep,
     ElsewhereStep, GateElsewhere DEF G!Next, G!Proceed
<1>3. QED
  BY <1>1, <1>2

-----------------------------------------------------------------------------
\* The steps that let no message of s through leave its pace as it was.
LEMMA PaceKept ==
  ASSUME GateInv, NEW s \in Socket, PacedAt(s), UNCHANGED <<passed[s], counter[s]>>,
         now' >= now, now' \in Nat
  PROVE  PacedAt(s)'
<1>1. /\ passed[s] \in Seq(0..Duration) /\ now \in 0..Duration
      /\ Duration \in Nat /\ Window \in Nat /\ counter[s].resetAt \in Nat
  BY GuardsAssumption, EntryType DEF GateInv, G!TypeOK, G!GatewayAssumption
<1>2. \A i \in 1..Len(passed[s]) : passed[s][i] \in Nat
  BY <1>1
<1>3. UNCHANGED InWindow(s)
  BY DEF InWindow
<1> HIDE DEF InWindow
<1>4. QED
  BY <1>1, <1>2, <1>3 DEF PacedAt, G!NoEntry

\* A message that passes: in the present window, or as the first of a new one.
LEMMA PassStep ==
  ASSUME GateInv, NEW s \in Socket, PacedAt(s),
         counter'[s] = G!Entry(s), G!Entry(s).count <= MaxMessages,
         passed'[s] = Append(passed[s], now), UNCHANGED now
  PROVE  PacedAt(s)'
<1> DEFINE times == passed[s]
           c == counter[s].count
           r == counter[s].resetAt
           n == Len(times)
<1>1. /\ times \in Seq(0..Duration) /\ now \in 0..Duration /\ Duration \in Nat
      /\ MaxMessages \in Nat \ {0} /\ Window \in Nat \ {0}
      /\ c \in Nat /\ r \in Nat /\ n \in Nat
  BY GuardsAssumption, EntryType DEF GateInv, G!TypeOK, G!GatewayAssumption
<1>2. /\ Len(passed'[s]) = n + 1 /\ passed'[s][n + 1] = now
      /\ \A i \in 1..n : passed'[s][i] = times[i] /\ times[i] \in Nat
  BY <1>1
<1>3. G!Entry(s).count \in Nat \ {0} /\ counter'[s].count = G!Entry(s).count
  BY EntryType
<1>4. c = 0 => n = 0 /\ counter[s] = G!NoEntry
  BY <1>1 DEF PacedAt
<1>5. c > 0 => /\ r - Window <= now
               /\ \A i \in 1..n : times[i] <= now
               /\ \A i \in 1..(n - InWindow(s)) : times[i] <= r - Window
               /\ \A i \in 1..(n - InWindow(s) - MaxMessages) : times[i] + Window <= r - Window
  BY DEF PacedAt
<1>6. InWindow(s) <= MaxMessages /\ InWindow(s) \in Nat
  BY <1>1 DEF InWindow
<1> DEFINE w == InWindow(s)
           w2 == InWindow(s)'
           r2 == counter'[s].resetAt
<1>7. /\ r2 - Window <= now /\ r2 \in Nat /\ w2 \in Nat /\ w2 <= MaxMessages
      /\ \A i \in 1..(n + 1 - w2) : i \in 1..n /\ times[i] <= r2 - Window
      /\ \A i \in 1..(n + 1 - w2 - MaxMessages) : i \in 1..n /\ times[i] + Window <= r2 - Window
  <2>1. CASE counter[s] # G!NoEntry /\ now < r
    <3>1. G!Entry(s).count = c + 1 /\ r2 = r
      BY <2>1, EntryType
    <3>2. c > 0
      BY <1>1, <1>4, <2>1
    <3>3. w = c /\ w2 = c + 1
      BY <1>1, <1>3, <3>1 DEF InWindow
    <3> HIDE DEF times, c, r, n, w, w2, r2
    <3>4. n + 1 - w2 = n - c /\ n + 1 - w2 - MaxMessages = n - c - MaxMessages /\ c \in Nat
      BY <1>1, <3>3
    <3>5. QED
      BY <1>1, <1>3, <1>5, <3>1, <3>2, <3>3, <3>4 DEF w
  <2>2. CASE counter[s] = G!NoEntry \/ r <= now
    <3>1. G!Entry(s).count = 1 /\ r2 = now + Window
      BY <2>2, EntryType
    <3>2. w2 = 1
      BY <1>1, <1>3, <3>1 DEF InWindow
    <3>3. c = 0 \/ r <= now
      BY <2>2 DEF G!NoEntry
    <3>4. c = 0 => n = 0
      BY <1>4
    <3> HIDE DEF times, c, r, n, w2, r2
    <3>5. \A i \in 1..n : times[i] <= now
      BY <1>1, <1>5, <3>4
    <3>6. ASSUME NEW i \in 1..(n - MaxMessages) PROVE times[i] + Window <= now
      <4>1. c > 0 /\ r <= now /\ i \in 1..n /\ i \in 1..(n - InWindow(s))
        BY <1>1, <1>6, <3>3, <3>4
      <4>2. times[i] <= r - Window /\ times[i] \in Nat
        BY <1>2, <1>5, <4>1
      <4>3. QED
        BY <1>1, <4>1, <4>2
    <3>7. r2 - Window = now /\ n + 1 - w2 = n
      BY <1>1, <3>1, <3>2
    <3>8. QED
      BY <1>1, <3>1, <3>2, <3>5, <3>6, <3>7
  <2>3. QED
    BY <1>1, <2>1, <2>2
<1>8. \A i \in 1..(n + 1) : passed'[s][i] <= now
  BY <1>1, <1>2, <1>4, <1>5
<1>9. counter'[s].count > 0
  BY <1>3
<1> HIDE DEF times, c, r, n, w, w2, r2
<1>10. /\ \A i \in 1..(n + 1 - w2) : passed'[s][i] <= r2 - Window
       /\ \A i \in 1..(n + 1 - w2 - MaxMessages) : passed'[s][i] + Window <= r2 - Window
  BY <1>2, <1>7
<1>11. n + 1 = Len(passed'[s]) /\ counter'[s].count # 0
  BY <1>2, <1>9
<1>12. /\ r2 - Window <= now'
       /\ \A i \in 1..Len(passed'[s]) : passed'[s][i] <= now'
       /\ \A i \in 1..(Len(passed'[s]) - w2) : passed'[s][i] <= r2 - Window
       /\ \A i \in 1..(Len(passed'[s]) - w2 - MaxMessages) :
             passed'[s][i] + Window <= r2 - Window
  <2>1. r2 - Window <= now'
    BY <1>7
  <2>2. \A i \in 1..Len(passed'[s]) : passed'[s][i] <= now
    BY <1>8, <1>11
  <2>3. \A i \in 1..(Len(passed'[s]) - w2) : passed'[s][i] <= r2 - Window
    BY <1>1, <1>7, <1>10, <1>11
  <2>4. \A i \in 1..(Len(passed'[s]) - w2 - MaxMessages) :
            passed'[s][i] + Window <= r2 - Window
    BY <1>1, <1>7, <1>10, <1>11
  <2>5. QED
    BY <2>1, <2>2, <2>3, <2>4
<1>13. QED
  BY <1>11, <1>12 DEF PacedAt, w2, r2

\* A message that is refused, because as many as may have passed in this window.
LEMMA RefuseStep ==
  ASSUME GateInv, NEW s \in Socket, PacedAt(s),
         counter'[s] = G!Entry(s), G!Entry(s).count > MaxMessages,
         UNCHANGED <<passed[s], now>>
  PROVE  PacedAt(s)'
<1>1. MaxMessages \in Nat \ {0} /\ counter[s].count \in Nat
  BY GuardsAssumption, EntryType DEF G!GatewayAssumption
<1>2. /\ counter'[s].count = counter[s].count + 1 /\ counter[s].count >= MaxMessages
      /\ counter'[s].resetAt = counter[s].resetAt
  <2>1. CASE counter[s] # G!NoEntry /\ now < counter[s].resetAt
    <3>1. /\ G!Entry(s).count = counter[s].count + 1
          /\ G!Entry(s).resetAt = counter[s].resetAt
      BY <2>1, EntryType
    <3>2. QED
      BY <1>1, <3>1
  <2>2. CASE ~ (counter[s] # G!NoEntry /\ now < counter[s].resetAt)
    <3>1. now \in Nat /\ counter[s].resetAt \in Nat
      BY GuardsAssumption, EntryType DEF GateInv, G!TypeOK, G!GatewayAssumption
    <3>2. counter[s] = G!NoEntry \/ counter[s].resetAt <= now
      BY <2>2, <3>1
    <3>3. G!Entry(s).count = 1
      BY <3>2, EntryType
    <3>4. QED
      BY <1>1, <3>3
  <2>3. QED
    BY <2>1, <2>2
<1>3. UNCHANGED InWindow(s)
  BY <1>1, <1>2 DEF InWindow
<1> HIDE DEF InWindow
<1>4. QED
  BY <1>1, <1>2, <1>3 DEF PacedAt

LEMMA PaceStep == GateInv /\ Paced /\ [G!Next]_(G!vars) => Paced'
<1> SUFFICES ASSUME GateInv, Paced, [G!Next]_(G!vars), NEW s \in Socket PROVE PacedAt(s)'
  BY DEF Paced
<1>1. PacedAt(s)
  BY DEF Paced
<1>2. now \in Nat /\ passed \in [Socket -> Seq(0..Duration)]
      /\ counter \in [Socket -> [count : Nat, resetAt : 0..(Duration + Window)]]
  BY GuardsAssumption DEF GateInv, G!TypeOK, G!GatewayAssumption
<1>3. ASSUME NEW u \in User \cup {None}, G!Connect(s, u) PROVE PacedAt(s)'
  BY <1>2, <1>3 DEF G!Connect, PacedAt, G!NoEntry
<1>4. ASSUME NEW m \in Message, G!Arrive(s, m) PROVE PacedAt(s)'
  <2>1. counter'[s] = G!Entry(s) /\ UNCHANGED now
    BY <1>2, <1>4 DEF G!Arrive, G!world
  <2>2. CASE G!Entry(s).count > MaxMessages
    BY <1>1, <1>4, <2>1, <2>2, RefuseStep DEF G!Arrive, G!history
  <2>3. CASE ~ (G!Entry(s).count > MaxMessages)
    <3>1. passed'[s] = Append(passed[s], now)
      BY <1>2, <1>4, <2>3 DEF G!Arrive
    <3>2. G!Entry(s).count <= MaxMessages
      <4>1. G!Entry(s).count \in Nat /\ MaxMessages \in Nat
        BY EntryType, GuardsAssumption DEF G!GatewayAssumption
      <4>2. QED
        BY <2>3, <4>1
    <3>3. QED
      BY <1>1, <2>1, <3>1, <3>2, PassStep
  <2>4. QED
    BY <2>2, <2>3
<1>5. ASSUME NEW t \in Socket, t # s, NEW u \in User \cup {None},
             G!Connect(t, u) \/ \E m \in Message : G!Arrive(t, m)
      PROVE  PacedAt(s)'
  <2>1. UNCHANGED <<passed[s], counter[s], now>>
    BY <1>2, <1>5 DEF G!Connect, G!Arrive, G!world, G!history
  <2>2. QED
    BY <1>1, <1>2, <2>1, PaceKept
<1>6. ASSUME UNCHANGED <<passed, counter>>, now' \in {now, now + 1} PROVE PacedAt(s)'
  BY <1>1, <1>2, <1>6, PaceKept
<1>7. ASSUME NEW t \in Socket,
             \/ G!Proven(t) \/ G!Authenticated(t) \/ G!Refused(t)
             \/ G!Disconnect(t) \/ G!ExpireToken(t)
      PROVE  PacedAt(s)'
  BY <1>6, <1>7 DEF G!Proven, G!Authenticated, G!Refused, G!Disconnect, G!ExpireToken,
                    G!world, G!history
<1>8. ASSUME NEW m \in Message, G!Proceed(m) PROVE PacedAt(s)'
  BY <1>6, <1>8
     DEF G!Proceed, G!Verify, G!LookUp, G!VerifyFails, G!RulesCached, G!RulesMissed,
         G!LoadRules, G!StoreRules, G!LoadFails, G!Broadcast, G!world, G!history
<1>9. ASSUME (\E u \in User : G!SetStatus(u)) \/ G!ChangeRights \/ G!Elsewhere \/ G!Tick
      PROVE  PacedAt(s)'
  BY <1>6, <1>9 DEF G!SetStatus, G!ChangeRights, G!Elsewhere, G!Tick, G!history
<1>10. CASE UNCHANGED G!vars
  BY <1>6, <1>10 DEF G!vars, G!world, G!history
<1>11. QED
  BY <1>3, <1>4, <1>5, <1>7, <1>8, <1>9, <1>10 DEF G!Next

\* The message that comes as the 2 * MaxMessages + 1st is in a window that opened
\* a whole window after the first of them.
LEMMA BurstStep ==
  GateInv /\ Paced /\ BurstsAreBounded /\ [G!Next]_(G!vars) /\ Paced' => BurstsAreBounded'
<1> SUFFICES ASSUME GateInv, Paced, BurstsAreBounded, [G!Next]_(G!vars), Paced',
                    NEW s \in Socket, NEW k \in DOMAIN passed'[s],
                    k + 2 * MaxMessages \in DOMAIN passed'[s]
             PROVE  passed'[s][k + 2 * MaxMessages] - passed'[s][k] >= Window
  BY DEF BurstsAreBounded, G!BurstsAreBounded
<1>1. /\ passed \in [Socket -> Seq(0..Duration)] /\ now \in 0..Duration
      /\ Duration \in Nat /\ MaxMessages \in Nat \ {0} /\ Window \in Nat \ {0}
      /\ counter \in [Socket -> [count : Nat, resetAt : 0..(Duration + Window)]]
  BY GuardsAssumption DEF GateInv, G!TypeOK, G!GatewayAssumption
<1>2. CASE passed'[s] = passed[s]
  BY <1>2 DEF BurstsAreBounded, G!BurstsAreBounded
<1>3. CASE passed'[s] # passed[s]
  <2>1. (\E m \in Message : G!Arrive(s, m)) \/ passed'[s] = <<>>
    <3>1. ASSUME NEW t \in Socket, NEW m \in Message, G!Arrive(t, m)
          PROVE  t = s
      BY <1>1, <1>3, <3>1 DEF G!Arrive, G!history
    <3>2. ASSUME NEW t \in Socket, NEW u \in User \cup {None}, G!Connect(t, u)
          PROVE  passed'[s] = <<>>
      BY <1>1, <1>3, <3>2 DEF G!Connect
    <3>3. ASSUME NEW t \in Socket,
                 \/ G!Proven(t) \/ G!Authenticated(t) \/ G!Refused(t)
                 \/ G!Disconnect(t) \/ G!ExpireToken(t)
          PROVE  FALSE
      BY <1>3, <3>3 DEF G!Proven, G!Authenticated, G!Refused, G!Disconnect, G!ExpireToken,
                        G!history
    <3>4. ASSUME NEW m \in Message, G!Proceed(m) PROVE FALSE
      BY <1>3, <3>4
         DEF G!Proceed, G!Verify, G!LookUp, G!VerifyFails, G!RulesCached, G!RulesMissed,
             G!LoadRules, G!StoreRules, G!LoadFails, G!Broadcast, G!history
    <3>5. ~ (\/ \E u \in User : G!SetStatus(u)
             \/ G!ChangeRights \/ G!Elsewhere \/ G!Tick)
      BY <1>3 DEF G!SetStatus, G!ChangeRights, G!Elsewhere, G!Tick, G!history
    <3>6. ~ UNCHANGED G!vars
      BY <1>3 DEF G!vars, G!history
    <3>7. QED
      BY <3>1, <3>2, <3>3, <3>4, <3>5, <3>6 DEF G!Next
  <2>2. /\ passed'[s] = Append(passed[s], now) /\ counter'[s] = G!Entry(s)
        /\ G!Entry(s).count <= MaxMessages /\ now' = now
    <3>1. passed'[s] # <<>>
      OBVIOUS
    <3>2. PICK m \in Message : G!Arrive(s, m)
      BY <2>1, <3>1
    <3>3. ~ (G!Entry(s).count > MaxMessages)
      BY <1>3, <3>2 DEF G!Arrive, G!history
    <3>4. G!Entry(s).count \in Nat
      BY EntryType
    <3>5. QED
      BY <1>1, <3>2, <3>3, <3>4 DEF G!Arrive, G!world
  <2> DEFINE n == Len(passed[s])
  <2> passed[s] \in Seq(0..Duration)
    BY <1>1
  <2>3. /\ n \in Nat /\ Len(passed'[s]) = n + 1 /\ passed'[s][n + 1] = now
        /\ DOMAIN passed'[s] = 1..(n + 1) /\ DOMAIN passed[s] = 1..n
        /\ \A i \in 1..n : passed'[s][i] = passed[s][i] /\ passed[s][i] \in Nat
    <3>1. n \in Nat /\ Len(passed'[s]) = n + 1 /\ passed'[s][n + 1] = now
      BY <1>1, <2>2
    <3>2. DOMAIN passed'[s] = 1..(n + 1) /\ DOMAIN passed[s] = 1..n
      <4>1. \A q \in Seq(0..Duration) : DOMAIN q = 1..Len(q)
        OBVIOUS
      <4>2. passed'[s] \in Seq(0..Duration)
        <5>1. Append(passed[s], now) \in Seq(0..Duration)
          BY <1>1
        <5>2. QED
          BY <2>2, <5>1
      <4>3. QED
        BY <3>1, <4>1, <4>2
    <3>3. \A i \in 1..n : passed'[s][i] = passed[s][i] /\ passed[s][i] \in Nat
      <4>1. \A i \in 1..n : passed[s][i] \in Nat
        BY <1>1
      <4>2. \A i \in 1..n : Append(passed[s], now)[i] = passed[s][i]
        OBVIOUS
      <4>3. QED
        BY <2>2, <4>1, <4>2
    <3>4. QED
      BY <3>1, <3>2, <3>3
  <2>4. k \in Nat \ {0} /\ k + 2 * MaxMessages \in 1..(n + 1) /\ k \in 1..n
    BY <1>1, <2>3
  <2>5. CASE k + 2 * MaxMessages # n + 1
    <3>1. k + 2 * MaxMessages \in 1..n
      BY <1>1, <2>3, <2>4, <2>5
    <3>2. QED
      BY <2>3, <2>4, <3>1 DEF BurstsAreBounded, G!BurstsAreBounded
  <2>6. CASE k + 2 * MaxMessages = n + 1
    <3> DEFINE w2 == InWindow(s)'
               r2 == counter'[s].resetAt
    <3>1. G!Entry(s).count \in Nat \ {0} /\ r2 \in Nat
      BY <2>2, EntryType, <1>1
    <3>2. w2 \in Nat /\ w2 <= MaxMessages
      BY <1>1, <2>2, <3>1 DEF InWindow
    <3>3. PacedAt(s)' /\ counter'[s].count > 0
      BY <2>2, <3>1 DEF Paced
    <3>4. /\ r2 - Window <= now
          /\ \A i \in 1..(n + 1 - w2 - MaxMessages) : passed'[s][i] + Window <= r2 - Window
      <4>1. Len(passed'[s]) = n + 1 /\ now' = now /\ counter'[s].count > 0
        BY <2>2, <2>3, <3>3
      <4> HIDE DEF n
      <4>2. QED
        BY <1>1, <2>3, <3>2, <3>3, <4>1 DEF PacedAt, w2, r2
    <3> HIDE DEF n, w2, r2
    <3>5. k \in 1..(n + 1 - w2 - MaxMessages)
      BY <1>1, <2>3, <2>4, <2>6, <3>2
    <3>6. passed'[s][k] + Window <= r2 - Window /\ passed'[s][k] \in Nat
      BY <2>3, <2>4, <3>4, <3>5
    <3>7. passed'[s][k + 2 * MaxMessages] = now
      BY <2>3, <2>6
    <3>8. QED
      BY <1>1, <3>1, <3>4, <3>6, <3>7
  <2>7. QED
    BY <2>5, <2>6
<1>4. QED
  BY <1>2, <1>3

\* The state of the gateway is of its types, and the room of a user holds only
\* open sockets of theirs that authenticate has found in order.
THEOREM RoomsOwned == G!Spec => []RoomsAreOwned
<1>1. GateInv => RoomsAreOwned
  BY DEF GateInv, RoomsAreOwned
<1>2. G!Spec => []GateInv
  BY GateInit, GateStep, PTL DEF G!Spec
<1>3. QED
  BY <1>1, <1>2, PTL

\* A message broadcasts nothing whose token is out of date when it comes, or whose
\* sender from then on is not active, or has neither the rules nor a trace of them
\* left in an entry or with a guard, however many messages and sockets there are.
THEOREM BroadcastersAuthorized == G!Spec => []BroadcastsAreAuthorized
<1>1. GateInv => BroadcastsAreAuthorized
  BY DEF GateInv
<1>2. G!Spec => []GateInv
  BY GateInit, GateStep, PTL DEF G!Spec
<1>3. QED
  BY <1>1, <1>2, PTL

\* For every limit and window, no more than twice the limit passes the throttle in
\* less than a window.
THEOREM BurstsBounded == G!Spec => []BurstsAreBounded
<1>1. G!Init => BurstsAreBounded
  BY DEF G!Init, BurstsAreBounded, G!BurstsAreBounded
<1>2. G!Spec => [](GateInv /\ Paced)
  BY GateInit, GateStep, PaceStep, PTL DEF G!Spec
<1>3. QED
  BY <1>1, <1>2, BurstStep, PTL DEF G!Spec
=============================================================================
