----------------------------- MODULE RulesCache -----------------------------
(***************************************************************************)
(* The cached permission rules as a guard sees them: for one set of rules  *)
(* a guard may ask for, who has them, what the entries in Redis say, and   *)
(* which guards have loaded rules they are about to cache.  PermissionCache *)
(* implements it; HttpPipeline and NotificationsGateway rest on it.        *)
(*                                                                         *)
(* Nothing ties an entry to the tables but the load it comes from: they    *)
(* change without it, and it is dropped at any time, late or never.        *)
(***************************************************************************)
CONSTANTS Guard, User, None

ASSUME RulesAssumption == None \notin User

VARIABLES
    permitted,   \* the users whose roles give them the rules
    cached,      \* the users who have an entry,
    says,        \* and those whose entry has the rules
    loading,     \* the user whose rules a guard has loaded and will cache
    saw          \* the guards that found the rules in what they loaded

entryVars == <<cached, says>>
loadVars  == <<loading, saw>>
cacheVars == <<permitted, entryVars, loadVars>>

CacheTypeOK ==
    /\ permitted \subseteq User
    /\ cached \subseteq User /\ says \subseteq cached
    /\ loading \in [Guard -> User \cup {None}]
    /\ saw \subseteq {g \in Guard : loading[g] # None}

CacheInit ==
    /\ permitted \in SUBSET User
    /\ cached = {} /\ says = {}
    /\ loading = [g \in Guard |-> None] /\ saw = {}

\* loadPermissionRules, on a miss or an error of the look-up.
Load(g, u) ==
    /\ loading[g] = None
    /\ loading' = [loading EXCEPT ![g] = u]
    /\ saw' = IF u \in permitted THEN saw \cup {g} ELSE saw
    /\ UNCHANGED <<permitted, entryVars>>

Loaded(g) ==
    /\ loading[g] # None
    /\ loading' = [loading EXCEPT ![g] = None]
    /\ saw' = saw \ {g}
    /\ UNCHANGED permitted

Put(g) ==
    /\ Loaded(g)
    /\ cached' = cached \cup {loading[g]}
    /\ says' = IF g \in saw THEN says \cup {loading[g]} ELSE says \ {loading[g]}

\* The entry is not written, but the guard decides by what it loaded.
PutFails(g) == Loaded(g) /\ UNCHANGED entryVars

\* A delete reaches Redis, or the entry's time is over.
Drop(u) ==
    /\ u \in cached
    /\ cached' = cached \ {u}
    /\ says' = says \ {u}
    /\ UNCHANGED <<permitted, loadVars>>

\* Roles and grants change; the entries do not.
Change ==
    /\ permitted' \in SUBSET User
    /\ UNCHANGED <<entryVars, loadVars>>

CacheNext ==
    \/ \E g \in Guard : Put(g) \/ PutFails(g) \/ \E u \in User : Load(g, u)
    \/ \E u \in User : Drop(u)
    \/ Change

CacheSpec == CacheInit /\ [][CacheNext]_cacheVars

-----------------------------------------------------------------------------
\* History kept by the modules that use this one.  A user is trusted who has
\* the rules, or had them and ever since is in an entry, or with a guard, that
\* has them still: when the last of these traces is gone, so is the trust.
Trace == says \cup {loading[g] : g \in saw}

StillTrusted(trusted) == permitted' \cup (trusted \cap Trace')
=============================================================================
