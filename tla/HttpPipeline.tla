---------------------------- MODULE HttpPipeline ----------------------------
(***************************************************************************)
(* The way of an HTTP request through the global guards of AppModule, in   *)
(* their order: ThrottlerGuard (the address wall), JwtAuthGuard,           *)
(* UserThrottlerGuard (the user's quota), PermissionsGuard; then the       *)
(* handler inside LoggingInterceptor; HttpExceptionFilter answers whatever *)
(* was thrown.                                                             *)
(*                                                                         *)
(* Both throttle guards count in ResilientThrottlerStorage: in Redis, or,  *)
(* as soon as a call of Redis fails, in the memory of the instance.  A     *)
(* bucket belongs to a route and to an address or a user; the library      *)
(* counts a hit and starts anew when the window is over.                   *)
(*                                                                         *)
(* PermissionsGuard asks RulesCache, which the guards of other instances   *)
(* and of the gateway fill as well.                                        *)
(***************************************************************************)
EXTENDS RulesCache, Naturals, FiniteSets

CONSTANTS Request, Instance, Address, Route,
          Public, Unthrottled, Restricted,   \* what the decorators say of a route
          Limit,
          MayFail,    \* whether Redis and the database can fail
          Past

Backend == Instance \cup {"redis"}
Bucket  == Route \X (Address \cup User)

ASSUME PipelineAssumption ==
    /\ Request \subseteq Guard
    /\ Public \cup Unthrottled \cup Restricted \subseteq Route
    /\ Public \cap Restricted = {}
    /\ Limit \in Nat \ {0} /\ MayFail \in BOOLEAN
    /\ Address \cap User = {} /\ None \notin User \cup Address
    /\ Past \notin Backend /\ None \notin Backend \cup {Past}

VARIABLES
    active,              \* the users who may log in
    count,               \* the hits of each bucket in each backend
    pc, at,              \* a request's next step, and its instance
    route, address, subject,   \* what it asks for, where from, and with whose token
    user,                \* request.user
    via,                 \* the backend that counted it at the wall; Past when that
                         \* window is over
    answer, recorded,    \* the status, and whether MetricsService has it
    \* history: the users RulesCache trusts, requests whose token was looked at, and
    \* requests whose sender was active, or trusted, at some moment of their time
    trusted, checked, seenActive, seenTrusted

world   == <<active, cacheVars, trusted>>
request == <<at, route, address, subject>>
history == <<checked, seenActive, seenTrusted>>
vars    == <<world, count, pc, request, user, via, answer, recorded, history>>

Steps    == {"idle", "wall", "verify", "lookup", "quota", "rules", "load", "store",
             "handle", "done"}
Statuses == {"none", "ok", "client", "tooMany", "unauthorized", "forbidden", "server"}

TypeOK ==
    /\ CacheTypeOK /\ active \subseteq User /\ trusted \subseteq User
    /\ count \in [Backend -> [Bucket -> 0..Limit + 1]]
    /\ pc \in [Request -> Steps]
    /\ at \in [Request -> Instance \cup {None}]
    /\ route \in [Request -> Route \cup {None}]
    /\ address \in [Request -> Address \cup {None}]
    /\ subject \in [Request -> User \cup {None}]
    /\ user \in [Request -> User \cup {None}]
    /\ \A r \in Request : user[r] \in {None, subject[r]}
    /\ via \in [Request -> Backend \cup {Past, None}]
    /\ answer \in [Request -> Statuses]
    /\ recorded \subseteq {r \in Request : answer[r] \in {"ok", "client", "server"}}
    /\ checked \subseteq Request
    /\ seenActive \subseteq Request /\ seenTrusted \subseteq Request

Init ==
    /\ CacheInit /\ active \in SUBSET User /\ trusted = permitted
    /\ count = [b \in Backend |-> [k \in Bucket |-> 0]]
    /\ pc = [r \in Request |-> "idle"]
    /\ at = [r \in Request |-> None] /\ route = [r \in Request |-> None]
    /\ address = [r \in Request |-> None] /\ subject = [r \in Request |-> None]
    /\ user = [r \in Request |-> None] /\ via = [r \in Request |-> None]
    /\ answer = [r \in Request |-> "none"] /\ recorded = {}
    /\ checked = {} /\ seenActive = {} /\ seenTrusted = {}

-----------------------------------------------------------------------------
Open(r) == pc[r] \notin {"idle", "done"}

Go(r, step) ==
    /\ pc' = [pc EXCEPT ![r] = step]
    /\ UNCHANGED answer

\* What a guard or the handler throws, the filter answers.
Answer(r, status) ==
    /\ pc' = [pc EXCEPT ![r] = "done"]
    /\ answer' = [answer EXCEPT ![r] = status]

\* Mutant: JwtAuthGuard is registered first.
VerifyFirst == "verify"
FirstGuard  == "wall"

\* A request arrives: u is whose valid token it bears, None when it has none.
Arrive(r, i, p, a, u) ==
    /\ pc[r] = "idle"
    /\ at' = [at EXCEPT ![r] = i]
    /\ route' = [route EXCEPT ![r] = p]
    /\ address' = [address EXCEPT ![r] = a]
    /\ subject' = [subject EXCEPT ![r] = u]
    /\ seenActive' = IF u \in active THEN seenActive \cup {r} ELSE seenActive
    /\ seenTrusted' = IF u \in trusted THEN seenTrusted \cup {r} ELSE seenTrusted
    /\ Go(r, FirstGuard)
    /\ UNCHANGED <<world, count, user, via, recorded, checked>>

\* Numbers past the limit are all alike.
Capped(n) == IF n > Limit THEN Limit + 1 ELSE n

\* increment: the hit is counted in b; a lost reply or a command sent again can
\* count it in Redis as well, or there twice.
Hit(b, k, extra) ==
    LET hits(c) == (IF c = b THEN 1 ELSE 0) + (IF c = "redis" THEN extra ELSE 0) IN
    count' = [c \in Backend |-> [count[c] EXCEPT ![k] = Capped(@ + hits(c))]]

Backends(r) == {"redis"} \cup (IF MayFail THEN {at[r]} ELSE {})

\* The library throws when this hit is past the limit.
Over(b, k) == count[b][k] >= Limit

\* The tracker of ThrottlerGuard is the address, and the wall is skipped where
\* the route says so.
WallSkipped(r) ==
    /\ pc[r] = "wall" /\ route[r] \in Unthrottled
    /\ Go(r, "verify")
    /\ UNCHANGED <<world, count, request, user, via, recorded, history>>

Wall(r) ==
    LET k == <<route[r], address[r]>> IN
    /\ pc[r] = "wall" /\ route[r] \notin Unthrottled
    /\ \E b \in Backends(r), extra \in 0..(IF MayFail THEN 1 ELSE 0) :
          /\ Hit(b, k, extra)
          /\ via' = [via EXCEPT ![r] = b]
          /\ IF Over(b, k) THEN Answer(r, "tooMany") ELSE Go(r, "verify")
    /\ UNCHANGED <<world, request, user, recorded, history>>

\* JwtAuthGuard lets a public route pass without a user.
NoToken(r) ==
    /\ pc[r] = "verify" /\ route[r] \in Public
    /\ Go(r, "quota")
    /\ UNCHANGED <<world, count, request, user, via, recorded, history>>

\* Elsewhere it verifies the token.
Verify(r) ==
    /\ pc[r] = "verify" /\ route[r] \notin Public
    /\ checked' = checked \cup {r}
    /\ IF subject[r] = None THEN Answer(r, "unauthorized") ELSE Go(r, "lookup")
    /\ UNCHANGED <<world, count, request, user, via, recorded, seenActive, seenTrusted>>

\* Mutant: the status of the account is not looked at.
AnyUser(u) == TRUE

IsActive(u) == u \in active

\* findActiveUserById
LookUp(r) ==
    /\ pc[r] = "lookup"
    /\ \/ IsActive(subject[r]) /\ Go(r, "quota") /\ user' = [user EXCEPT ![r] = subject[r]]
       \/ ~ IsActive(subject[r]) /\ Answer(r, "unauthorized") /\ UNCHANGED user
    /\ UNCHANGED <<world, count, request, via, recorded, history>>

ShouldSkip(r) == user[r] = None

\* UserThrottlerGuard; the library's own skip comes first.
QuotaSkipped(r) ==
    /\ pc[r] = "quota" /\ (route[r] \in Unthrottled \/ ShouldSkip(r))
    /\ Go(r, "rules")
    /\ UNCHANGED <<world, count, request, user, via, recorded, history>>

Quota(r) ==
    LET k == <<route[r], user[r]>> IN
    /\ pc[r] = "quota" /\ route[r] \notin Unthrottled /\ ~ ShouldSkip(r)
    /\ \E b \in Backends(r), extra \in 0..(IF MayFail THEN 1 ELSE 0) :
          /\ Hit(b, k, extra)
          /\ IF Over(b, k) THEN Answer(r, "tooMany") ELSE Go(r, "rules")
    /\ UNCHANGED <<world, request, user, via, recorded, history>>

\* PermissionsGuard, where the route requires no rules or the request has no user.
RulesSkipped(r) ==
    /\ pc[r] = "rules"
    /\ \/ route[r] \notin Restricted /\ Go(r, "handle")
       \/ route[r] \in Restricted /\ user[r] = None /\ Answer(r, "unauthorized")
    /\ UNCHANGED <<world, count, request, user, via, recorded, history>>

\* assertPermissionRules: every rule of the route must be met.
Decide(r, has) == IF has THEN Go(r, "handle") ELSE Answer(r, "forbidden")

NeedsRules(r) == pc[r] = "rules" /\ route[r] \in Restricted /\ user[r] # None

\* The entry decides, however old it is.
RulesCached(r) ==
    /\ NeedsRules(r) /\ user[r] \in cached
    /\ Decide(r, user[r] \in says)
    /\ UNCHANGED <<world, count, request, user, via, recorded, history>>

\* Mutant: a guard that cannot read the entry lets the request pass.
FailsOpen(r) ==
    /\ NeedsRules(r) /\ (user[r] \notin cached \/ MayFail)
    /\ Go(r, "handle")
    /\ UNCHANGED <<world, count, request, user, via, recorded, history>>

RulesMissed(r) ==
    /\ NeedsRules(r) /\ (user[r] \notin cached \/ MayFail)
    /\ Go(r, "load")
    /\ UNCHANGED <<world, count, request, user, via, recorded, history>>

Trust == trusted' = StillTrusted(trusted)

LoadRules(r) ==
    /\ pc[r] = "load"
    /\ Load(r, user[r]) /\ Trust
    /\ Go(r, "store")
    /\ UNCHANGED <<active, count, request, user, via, recorded, history>>

\* What was loaded is cached, unless Redis fails, and decides.
StoreRules(r) ==
    /\ pc[r] = "store"
    /\ Put(r) \/ (MayFail /\ PutFails(r))
    /\ Trust
    /\ Decide(r, r \in saw)
    /\ UNCHANGED <<active, count, request, user, via, recorded, history>>

\* The database fails under a guard.
GuardFails(r) ==
    /\ MayFail /\ pc[r] \in {"lookup", "load"}
    /\ Answer(r, "server")
    /\ UNCHANGED <<world, count, request, user, via, recorded, history>>

\* The handler, with LoggingInterceptor around it.
Handle(r) ==
    /\ pc[r] = "handle"
    /\ \E status \in {"ok", "client", "server"} : Answer(r, status)
    /\ recorded' = recorded \cup {r}
    /\ UNCHANGED <<world, count, request, user, via, history>>

\* Administrators change accounts at any time, and roles and grants.
Toggle(u) ==
    /\ active' = IF u \in active THEN active \ {u} ELSE active \cup {u}
    /\ seenActive' = seenActive \cup {r \in Request : Open(r) /\ subject[r] \in active'}
    /\ UNCHANGED <<cacheVars, trusted, count, pc, request, user, via, answer, recorded,
                   checked, seenTrusted>>

ChangeRights ==
    /\ Change /\ Trust
    /\ seenTrusted' = seenTrusted \cup {r \in Request : Open(r) /\ subject[r] \in trusted'}
    /\ UNCHANGED <<active, count, pc, request, user, via, answer, recorded, checked,
                   seenActive>>

\* Entries are dropped, and filled by the guards of other entrances.
Elsewhere ==
    /\ \/ \E u \in User : Drop(u)
       \/ \E g \in Guard \ Request : Put(g) \/ PutFails(g) \/ \E u \in User : Load(g, u)
    /\ Trust
    /\ UNCHANGED <<active, count, pc, request, user, via, answer, recorded, history>>

\* The window of a bucket is over, in Redis by the key's expiry.
WindowEnds(b, k) ==
    /\ count[b][k] > 0
    /\ count' = [count EXCEPT ![b][k] = 0]
    /\ via' = [r \in Request |-> IF via[r] = b /\ <<route[r], address[r]>> = k
                                THEN Past ELSE via[r]]
    /\ UNCHANGED <<world, pc, request, user, answer, recorded, history>>

Proceed(r) ==
    \/ WallSkipped(r) \/ Wall(r) \/ NoToken(r) \/ Verify(r) \/ LookUp(r)
    \/ QuotaSkipped(r) \/ Quota(r) \/ RulesSkipped(r) \/ RulesCached(r) \/ RulesMissed(r)
    \/ LoadRules(r) \/ StoreRules(r) \/ GuardFails(r) \/ Handle(r)

Next ==
    \/ \E r \in Request :
          \/ \E i \in Instance, p \in Route, a \in Address, u \in User \cup {None} :
                Arrive(r, i, p, a, u)
          \/ Proceed(r)
    \/ (\E u \in User : Toggle(u)) \/ ChangeRights \/ Elsewhere
    \/ \E b \in Backend, k \in Bucket : WindowEnds(b, k)

Spec == Init /\ [][Next]_vars

-----------------------------------------------------------------------------
\* The requests from an address to a route that count towards its bucket in b.
CountedBy(b, k) == {r \in Request : via[r] = b /\ <<route[r], address[r]>> = k}

\* "floods are rate-limited before any JWT verification work happens": in a
\* window, a backend lets no more token checks through than the limit, and none
\* on a throttled route gets past all of them.
VerificationIsCapped ==
    /\ \A r \in checked : route[r] \notin Unthrottled => via[r] # None
    /\ \A b \in Backend, k \in Bucket : Cardinality(CountedBy(b, k) \cap checked) <= Limit

\* A handler of a route that is not public runs only for a sender whose account
\* was active at some moment of the request.  Where the route requires rules, the
\* sender had them at some moment of the request, or had them before it and an
\* entry, or a guard about to write one, kept them without a break until then: who
\* has lost the rules, the entry and the guards that loaded them, runs nothing.
HandlersAreAuthorized ==
    \A r \in recorded :
        /\ route[r] \in Public \/ r \in seenActive
        /\ route[r] \in Restricted => r \in seenTrusted

\* "5 requests per minute per IP": the requests from an address to a route that
\* passed the wall in windows which are still open, in whatever backend.
LimitIsPerAddress ==
    \A k \in Bucket :
        Cardinality({r \in UNION {CountedBy(b, k) : b \in Backend} :
                        answer[r] # "tooMany"}) <= Limit

\* "Fraction of requests in the last `windowMs` that ended 5xx": a request that
\* ends so is among the recorded ones.
ServerErrorsAreRecorded ==
    \A r \in Request : answer[r] = "server" => r \in recorded
=============================================================================
