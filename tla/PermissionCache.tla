-------------------------- MODULE PermissionCache --------------------------
(***************************************************************************)
(* The permission rules of a user, cached in Redis beside the RBAC tables  *)
(* (PermissionsService, RolesService, UsersService.setRoles).              *)
(*                                                                         *)
(* A guard reads the cache and, on a miss or an error, loads the rules     *)
(* from the database and caches them for the lifetime of an access token.  *)
(* An administrator's request commits its change first and deletes the     *)
(* cache entries of the users concerned afterwards; errors of Redis are    *)
(* logged and ignored.  Each step is one call of the database or of Redis. *)
(*                                                                         *)
(* The seed of a container that starts beside the serving ones inserts     *)
(* what its version grants and finds missing, and deletes no entry.        *)
(***************************************************************************)
EXTENDS Naturals, FiniteSets

CONSTANTS Request, User, Role, Permission,
          SystemRole,     \* the seeded roles, which cannot be changed,
          Grants,         \* their role_permissions in the newest version of the seed,
          AdminLinks,     \* and its user_roles: the administrator's, if configured
          Needed,         \* rules that a guard asks for
          Ops,            \* the operations called in this instance
          MayFail,        \* whether Redis can fail and instances can die
          MaxWrites,      \* bounds the administrators' requests
          None            \* an idle request is about nothing

ASSUME CacheAssumption ==
    /\ SystemRole \subseteq Role
    /\ Grants \subseteq SystemRole \X Permission /\ AdminLinks \subseteq User \X SystemRole
    /\ Needed \subseteq Permission
    /\ None \notin Role \cup Permission \cup User
    /\ MayFail \in BOOLEAN
    /\ MaxWrites \in Nat

VARIABLES
    roles, permissions, userRoles, rolePermissions,  \* the tables
    cached,     \* the users who have an entry
    cache,      \* the rules in the entry of each user
    volatile,   \* the users whose entry has an expiry time
    pc, arg,    \* each request's next step, and the user, role or permission it is about
    rules,      \* the rules a guard has loaded and will cache
    todo,       \* the users whose entry a request still has to delete
    writes,     \* administrators' requests begun
    \* history: guards that loaded before and will cache after an attempt to
    \* delete the entry, and the users whose entry was left stale by such a
    \* guard, a failed delete, a crash or a look-up that missed the user; guards
    \* that loaded before and will cache after an insert of the seed that gives
    \* their user rights, and the users whose entry was cached before one
    overlapped, excused, outrun, seeded

tables  == <<roles, permissions, userRoles, rolePermissions>>
entries == <<cached, cache, volatile>>
history == <<overlapped, excused, outrun, seeded>>
vars    == <<tables, entries, pc, arg, rules, todo, writes, history>>

\* Values for TLC.
EveryGrant == SystemRole \X Permission
OneAdmin   == {CHOOSE link \in User \X SystemRole : TRUE}

AllOps == {"check", "setRoles", "softDelete", "setPermissions", "removeRole",
           "removePermission"}
Steps  == {"idle", "get", "load", "set", "affected", "delete", "invalidate"}

TypeOK ==
    /\ roles \subseteq Role /\ permissions \subseteq Permission
    /\ userRoles \subseteq User \X roles
    /\ rolePermissions \subseteq roles \X permissions
    /\ cache \in [User -> SUBSET Permission]
    /\ cached \subseteq User /\ volatile \subseteq cached
    /\ pc \in [Request -> Steps]
    /\ arg \in [Request -> User \cup Role \cup Permission \cup {None}]
    /\ \A r \in Request : pc[r] \in {"get", "load", "set"} => arg[r] \in User
    /\ rules \in [Request -> SUBSET Permission]
    /\ todo \in [Request -> SUBSET User]
    /\ writes \in 0..MaxWrites
    /\ overlapped \subseteq Request /\ excused \subseteq User
    /\ outrun \subseteq Request /\ seeded \subseteq User

\* Earlier versions of the seed granted some of what the newest one grants.
Init ==
    /\ roles = Role /\ permissions = Permission
    /\ userRoles = AdminLinks /\ rolePermissions \in SUBSET Grants
    /\ cached = {} /\ cache = [u \in User |-> {}] /\ volatile = {}
    /\ pc = [r \in Request |-> "idle"] /\ arg = [r \in Request |-> None]
    /\ rules = [r \in Request |-> {}] /\ todo = [r \in Request |-> {}]
    /\ writes = 0 /\ overlapped = {} /\ excused = {} /\ outrun = {} /\ seeded = {}

-----------------------------------------------------------------------------
\* loadPermissionRules: the permissions of the user's roles.
Rights(u) ==
    {p \in permissions : \E role \in roles :
        <<u, role>> \in userRoles /\ <<role, p>> \in rolePermissions}

UsersWithRole(role) == {u \in User : <<u, role>> \in userRoles}
UsersWithPermission(p) == {u \in User : p \in Rights(u)}

Begin(r, op, step, x) ==
    /\ op \in Ops /\ pc[r] = "idle"
    /\ pc' = [pc EXCEPT ![r] = step]
    /\ arg' = [arg EXCEPT ![r] = x]

Goto(r, step) == pc' = [pc EXCEPT ![r] = step] /\ UNCHANGED arg

Finish(r) ==
    /\ pc' = [pc EXCEPT ![r] = "idle"]
    /\ arg' = [arg EXCEPT ![r] = None]
    /\ rules' = [rules EXCEPT ![r] = {}]
    /\ todo' = [todo EXCEPT ![r] = {}]

-----------------------------------------------------------------------------
\* The guard of a request of user u.
Check(r, u) ==
    /\ Begin(r, "check", "get", u)
    /\ UNCHANGED <<tables, entries, rules, todo, writes, history>>

\* Mutant: a hit writes the entry back to renew its expiry time.
HitRenewed(r) ==
    /\ pc[r] = "get" /\ arg[r] \in cached
    /\ rules' = [rules EXCEPT ![r] = cache[arg[r]]]
    /\ Goto(r, "set")
    /\ UNCHANGED <<tables, entries, todo, writes, history>>

Hit(r) ==
    /\ pc[r] = "get" /\ arg[r] \in cached
    /\ Finish(r)
    /\ UNCHANGED <<tables, entries, writes, history>>

MissOrError(r) ==
    /\ pc[r] = "get"
    /\ arg[r] \notin cached \/ MayFail
    /\ Goto(r, "load")
    /\ UNCHANGED <<tables, entries, rules, todo, writes, history>>

Load(r) ==
    /\ pc[r] = "load"
    /\ rules' = [rules EXCEPT ![r] = Rights(arg[r])]
    /\ overlapped' = overlapped \ {r} /\ outrun' = outrun \ {r}
    /\ Goto(r, "set")
    /\ UNCHANGED <<tables, entries, todo, writes, excused, seeded>>

\* Mutant: the entry is written without an expiry time.
KeptForEver(u) == volatile \ {u}
WithTtl(u) == volatile \cup {u}

Store(r) ==
    LET u == arg[r] IN
    /\ pc[r] = "set"
    /\ cached' = cached \cup {u}
    /\ cache' = [cache EXCEPT ![u] = rules[r]]
    /\ volatile' = WithTtl(u)
    /\ excused' = IF r \in overlapped THEN excused \cup {u} ELSE excused \ {u}
    /\ seeded' = IF r \in outrun THEN seeded \cup {u} ELSE seeded \ {u}
    /\ overlapped' = overlapped \ {r} /\ outrun' = outrun \ {r}
    /\ Finish(r)
    /\ UNCHANGED <<tables, writes>>

StoreFails(r) ==
    /\ pc[r] = "set" /\ MayFail
    /\ overlapped' = overlapped \ {r} /\ outrun' = outrun \ {r}
    /\ Finish(r)
    /\ UNCHANGED <<tables, entries, writes, excused, seeded>>

-----------------------------------------------------------------------------
Write == writes < MaxWrites /\ writes' = writes + 1

\* Mutant: nobody's entry is deleted.
Nobody(u) == {}
Only(u) == {u}

\* UsersService.setRoles: the transaction, then the user's entry.
SetRoles(r, u, granted) ==
    /\ Begin(r, "setRoles", "invalidate", u) /\ Write
    /\ granted \subseteq roles
    /\ userRoles' = {ur \in userRoles : ur[1] # u} \cup ({u} \X granted)
    /\ todo' = [todo EXCEPT ![r] = Only(u)]
    /\ UNCHANGED <<roles, permissions, rolePermissions, entries, rules, history>>

\* UsersService.softDelete: the user's roles stay in the table.
SoftDelete(r, u) ==
    /\ Begin(r, "softDelete", "invalidate", u) /\ Write
    /\ todo' = [todo EXCEPT ![r] = Only(u)]
    /\ UNCHANGED <<tables, entries, rules, history>>

\* RolesService.setPermissions: the transaction, then the users of the role
\* are looked up, then their entries.
SetPermissions(r, role, granted) ==
    /\ Begin(r, "setPermissions", "affected", role) /\ Write
    /\ role \in roles \ SystemRole
    /\ granted \subseteq permissions
    /\ rolePermissions' = {rp \in rolePermissions : rp[1] # role} \cup ({role} \X granted)
    /\ UNCHANGED <<roles, permissions, userRoles, entries, rules, todo, history>>

FindAffected(r) ==
    /\ pc[r] = "affected"
    /\ todo' = [todo EXCEPT ![r] = UsersWithRole(arg[r])]
    /\ Goto(r, "invalidate")
    /\ UNCHANGED <<tables, entries, rules, writes, history>>

\* RolesService.remove and removePermission look the users up first.
RemoveRole(r, role) ==
    /\ Begin(r, "removeRole", "delete", role) /\ Write
    /\ role \in roles \ SystemRole
    /\ todo' = [todo EXCEPT ![r] = UsersWithRole(role)]
    /\ UNCHANGED <<tables, entries, rules, history>>

RemovePermission(r, p) ==
    /\ Begin(r, "removePermission", "delete", p) /\ Write
    /\ p \in permissions
    /\ todo' = [todo EXCEPT ![r] = UsersWithPermission(p)]
    /\ UNCHANGED <<tables, entries, rules, history>>

\* The users whose rules a deletion changes although the look-up before it did
\* not find them: they were given the role, or the permission, in between.
Missed(r) == (UsersWithRole(arg[r]) \cup UsersWithPermission(arg[r])) \ todo[r]

\* History: nobody will delete the entries of these users for this request.
Neglect(r, users) ==
    /\ excused' = excused \cup users
    /\ overlapped' = (overlapped \ {r})
                        \cup {g \in Request \ {r} : pc[g] = "set" /\ arg[g] \in users}
    /\ outrun' = outrun \ {r}
    /\ UNCHANGED seeded

\* The foreign keys cascade to the join tables.
Delete(r) ==
    /\ pc[r] = "delete"
    /\ roles' = roles \ {arg[r]}
    /\ permissions' = permissions \ {arg[r]}
    /\ userRoles' = {ur \in userRoles : ur[2] # arg[r]}
    /\ rolePermissions' = {rp \in rolePermissions : arg[r] \notin {rp[1], rp[2]}}
    /\ Neglect(r, Missed(r))
    /\ Goto(r, "invalidate")
    /\ UNCHANGED <<entries, rules, todo, writes>>

\* One DEL of the batch, and the guards it comes too early for.
Attempt(r, u) ==
    /\ pc[r] = "invalidate" /\ u \in todo[r]
    /\ todo' = [todo EXCEPT ![r] = @ \ {u}]
    /\ overlapped' = overlapped \cup {g \in Request : pc[g] = "set" /\ arg[g] = u}
    /\ UNCHANGED <<tables, pc, arg, rules, writes, outrun>>

Dropped(u) ==
    /\ cached' = cached \ {u}
    /\ cache' = [cache EXCEPT ![u] = {}]
    /\ volatile' = volatile \ {u}
    /\ excused' = excused \ {u} /\ seeded' = seeded \ {u}

Invalidate(r, u) ==
    /\ Attempt(r, u)
    /\ Dropped(u)

InvalidateFails(r, u) ==
    /\ MayFail
    /\ Attempt(r, u)
    /\ excused' = excused \cup {u}
    /\ UNCHANGED <<entries, seeded>>

Answer(r) ==
    /\ pc[r] = "invalidate" /\ todo[r] = {}
    /\ Finish(r)
    /\ UNCHANGED <<tables, entries, writes, history>>

-----------------------------------------------------------------------------
\* The users whose entries a request will still delete.
Pending(r) ==
    IF pc[r] = "affected" THEN UsersWithRole(arg[r])
    ELSE IF pc[r] = "invalidate" THEN todo[r] ELSE {}

\* The instance dies between two steps of a request.
Crash(r) ==
    /\ MayFail /\ pc[r] # "idle"
    /\ Neglect(r, Pending(r))
    /\ Finish(r)
    /\ UNCHANGED <<tables, entries, writes>>

\* Redis drops an entry whose time is over.
Expire(u) ==
    /\ u \in volatile
    /\ Dropped(u)
    /\ UNCHANGED <<tables, pc, arg, rules, todo, writes, overlapped, outrun>>

-----------------------------------------------------------------------------
\* What is inserted beside the requests, by the seed of a starting container or
\* by requests that touch no entry.

\* A permission of that name is created or seeded, under a new id, so that a
\* removal on its way finds nothing to delete; or the save of an update brings
\* the removed row back.
InsertPermission(p) ==
    /\ p \notin permissions
    /\ permissions' = permissions \cup {p}
    /\ \/ UNCHANGED arg
       \/ arg' = [r \in Request |-> IF pc[r] = "delete" /\ arg[r] = p THEN None ELSE arg[r]]
    /\ UNCHANGED <<roles, userRoles, rolePermissions, entries, pc, rules, todo, writes,
                   history>>

\* The save of an update brings a removed role back, without its links.
InsertRole(role) ==
    /\ role \notin roles
    /\ roles' = roles \cup {role}
    /\ UNCHANGED <<permissions, userRoles, rolePermissions, entries, pc, arg, rules, todo,
                   writes, history>>

\* History: the users who gained rights, and the guards that loaded without them.
Gain ==
    LET gained == {u \in User : Rights(u)' # Rights(u)} IN
    /\ seeded' = seeded \cup (cached \cap gained)
    /\ outrun' = outrun \cup {g \in Request : pc[g] = "set" /\ arg[g] \in gained}
    /\ UNCHANGED <<overlapped, excused>>

SeedGrant(role, p) ==
    /\ <<role, p>> \in Grants \ rolePermissions
    /\ role \in roles /\ p \in permissions
    /\ rolePermissions' = rolePermissions \cup {<<role, p>>}
    /\ UNCHANGED <<roles, permissions, userRoles, entries, pc, arg, rules, todo, writes>>
    /\ Gain

\* The account was looked up before, and may be deleted by now.
SeedAdmin(u, role) ==
    /\ <<u, role>> \in AdminLinks \ userRoles /\ role \in roles
    /\ userRoles' = userRoles \cup {<<u, role>>}
    /\ UNCHANGED <<roles, permissions, rolePermissions, entries, pc, arg, rules, todo, writes>>
    /\ Gain

Insert ==
    \/ \E p \in Permission : InsertPermission(p)
    \/ \E role \in Role : InsertRole(role)
    \/ \E role \in SystemRole, p \in Permission : SeedGrant(role, p)
    \/ \E u \in User, role \in SystemRole : SeedAdmin(u, role)

Proceed(r) ==
    \/ Hit(r) \/ MissOrError(r) \/ Load(r) \/ Store(r) \/ StoreFails(r)
    \/ FindAffected(r) \/ Delete(r) \/ Answer(r)
    \/ \E u \in User : Invalidate(r, u) \/ InvalidateFails(r, u)

Call(r) ==
    \/ \E u \in User : Check(r, u) \/ SoftDelete(r, u)
    \/ \E u \in User, granted \in SUBSET Role : SetRoles(r, u, granted)
    \/ \E role \in Role, granted \in SUBSET Permission : SetPermissions(r, role, granted)
    \/ \E role \in Role : RemoveRole(r, role)
    \/ \E p \in Permission : RemovePermission(r, p)

Next ==
    \/ \E r \in Request : Call(r) \/ Proceed(r) \/ Crash(r)
    \/ \E u \in User : Expire(u)
    \/ Insert

Spec == Init /\ [][Next]_vars

\* The event loop goes on with every request, and time passes for the entries
\* that expire.
FairSpec ==
    /\ Spec
    /\ \A r \in Request : WF_vars(Proceed(r))
    /\ \A u \in User : WF_vars(Expire(u))

-----------------------------------------------------------------------------
Fresh(u) == u \in cached => cache[u] = Rights(u)

\* The ways an entry becomes stale are these and no other: it is about to be
\* deleted, or was cached by a guard that loaded before the delete, or its
\* delete failed or never came, or a removal looked the users up before this
\* one had what was removed; and what the seed inserts beside an entry leaves it
\* poorer than the tables, never richer.
StaleHasCause ==
    \A u \in User : ~ Fresh(u) =>
        \/ u \in excused
        \/ \E r \in Request : u \in Pending(r)
        \/ u \in seeded /\ cache[u] \subseteq Rights(u)

\* "so a concurrent re-cache reflects the removed permission instead of
\* re-introducing stale rules": an entry holds a removed permission only while
\* a request has yet to delete that entry.
NoRemovedPermissionReCached ==
    \A u \in cached :
        cache[u] \subseteq permissions \/ \E r \in Request : u \in Pending(r)

\* Whatever fails, races or crashes, the entries agree with the tables again
\* some time after the last change, because every entry expires.
EventuallyFresh == <>[](\A u \in User : Fresh(u))

\* What guards see of the tables and the entries is RulesCache, for the rules in
\* Needed: every entry was loaded for the user it is stored for, by a guard that
\* had not stored anything since.
Cache == INSTANCE RulesCache WITH
    Guard     <- Request,
    permitted <- {u \in User : Needed \subseteq Rights(u)},
    says      <- {u \in cached : Needed \subseteq cache[u]},
    loading   <- [r \in Request |-> IF pc[r] = "set" THEN arg[r] ELSE None],
    saw       <- {r \in Request : pc[r] = "set" /\ Needed \subseteq rules[r]}

ImplementsRulesCache == Cache!CacheSpec
=============================================================================
