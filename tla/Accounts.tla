------------------------------ MODULE Accounts ------------------------------
(***************************************************************************)
(* Accounts and their e-mail addresses: registration, the administrator's  *)
(* create, update, delete and setRoles, and the removal of a role          *)
(* (UsersService, AuthService.register, RolesService.remove).              *)
(*                                                                         *)
(* Two accounts that are not deleted may not have one address: the partial *)
(* unique index of UserEmailPartialUnique.  A creation looks the address   *)
(* up, hashes the password, and then inserts inside a transaction that     *)
(* also inserts the account's roles.  A statement that needs a key or a    *)
(* row which an open transaction wrote waits for the end of it.            *)
(*                                                                         *)
(* A request is answered once, and the account it creates bears its name.  *)
(* Addresses are members of a set; trim and lower case happen before.      *)
(***************************************************************************)
EXTENDS Naturals

CONSTANTS Request, Address, Role,
          Initial,       \* an account that may exist already
          DefaultRole,   \* the role `user': seeded, a system role, never removed
          Kinds,         \* the operations called in this instance
          None           \* no address, no account

AllKinds == {"register", "create", "delete", "update", "setRoles"}
Statuses == {"ok", "badRequest", "notFound", "conflict", "error", "dropped"}

ASSUME AccountsAssumption ==
    /\ DefaultRole \in Role
    /\ None \notin Address \cup Request \cup {Initial} \cup Statuses
    /\ Initial \notin Request
    /\ Kinds \subseteq AllKinds

Account == Request \cup {Initial}

VARIABLES
    emailOf, deleted, suspended,  \* the table users: a row is there when it has an address
    granted,   \* the table user_roles
    roles,     \* the table roles
    pc, kind, arg,
    email,     \* the address a creation is about
    asked,     \* the role ids of the request
    entity,    \* an update: the status in the entity it holds
    sets,      \* an update: whether its body names the status
    diff,      \* an update: the columns save() will write
    answer,
    \* history: creations during which the address was taken for a moment, and
    \* updates whose account changed or was deleted since they read it
    taken, stale

table  == <<emailOf, deleted, suspended, granted>>
locals == <<kind, arg, email, asked, entity, sets, diff>>
vars   == <<table, roles, pc, locals, answer, taken, stale>>

Steps    == {"idle", "insert", "assign", "link", "commit", "reply", "delete",
             "deleting", "save", "write", "reread", "done"}
Answers  == {None} \cup Statuses

TypeOK ==
    /\ emailOf \in [Account -> Address \cup {None}]
    /\ deleted \subseteq Account /\ suspended \subseteq Account
    /\ DefaultRole \in roles /\ roles \subseteq Role
    /\ granted \in [Account -> SUBSET roles]
    /\ \A i \in Account : emailOf[i] = None =>
          granted[i] = {} /\ i \notin deleted /\ i \notin suspended
    /\ pc \in [Request -> Steps]
    /\ kind \in [Request -> AllKinds]
    /\ arg \in [Request -> Account \cup {None}]
    /\ email \in [Request -> Address \cup {None}]
    /\ asked \in [Request -> SUBSET Role]
    /\ entity \in [Request -> BOOLEAN]
    /\ sets \in [Request -> BOOLEAN]
    /\ diff \in [Request -> SUBSET {"name", "status", "deletedAt"}]
    /\ answer \in [Request -> Answers]
    /\ taken \subseteq Request /\ stale \subseteq Request

Init ==
    /\ \E a \in Address \cup {None} :
          emailOf = [i \in Account |-> IF i = Initial THEN a ELSE None]
    /\ granted = [i \in Account |-> IF emailOf[i] = None THEN {} ELSE {DefaultRole}]
    /\ deleted = {} /\ suspended = {}
    /\ roles = Role
    /\ pc = [r \in Request |-> "idle"]
    /\ kind \in [Request -> Kinds]
    /\ arg = [r \in Request |-> None]
    /\ email = [r \in Request |-> None]
    /\ asked = [r \in Request |-> {}]
    /\ entity = [r \in Request |-> FALSE]
    /\ sets = [r \in Request |-> FALSE]
    /\ diff = [r \in Request |-> {}]
    /\ answer = [r \in Request |-> None]
    /\ taken = {} /\ stale = {}

-----------------------------------------------------------------------------
Found(i) == emailOf[i] # None /\ i \notin deleted
Live(a)  == \E i \in Account : emailOf[i] = a /\ i \notin deleted

Creates(r) == kind[r] \in {"register", "create"}

\* The open transactions: what they wrote, others cannot see but wait for.
Inserted(q, a) == pc[q] \in {"assign", "link", "commit"} /\ email[q] = a
Deleting(q, i) == pc[q] = "deleting" /\ arg[q] = i

KeyIsFree(r, a) ==
    \A q \in Request \ {r} :
        /\ ~ Inserted(q, a)
        /\ \A i \in Account : Deleting(q, i) => emailOf[i] # a

RowIsFree(r, i) == \A q \in Request \ {r} : ~ Deleting(q, i)

\* A request begins.
Begin(r, k) == pc[r] = "idle" /\ kind[r] = k

Go(r, step) ==
    /\ pc' = [pc EXCEPT ![r] = step]
    /\ UNCHANGED answer

\* A transaction that did not commit leaves nothing.
Finish(r, how) ==
    /\ pc' = [pc EXCEPT ![r] = "done"]
    /\ answer' = [answer EXCEPT ![r] = how]

Refuse(r, how) == Finish(r, how) /\ UNCHANGED <<table, roles, taken, stale>>

\* The account i is live from now on.
Appears(i, a) ==
    taken' = taken \cup {q \in Request : Creates(q) /\ email[q] = a
                                         /\ pc[q] \notin {"idle", "done"} /\ q # i}

\* The row of i changed under those that hold an entity of it.
Outdates(r, i) ==
    stale' = stale \cup {q \in Request \ {r} : arg[q] = i /\ pc[q] \in {"save", "write"}}

-----------------------------------------------------------------------------
\* register and create: findByEmail, then the password is hashed.
LookUp(r, a) ==
    /\ pc[r] = "idle" /\ Creates(r)
    /\ email' = [email EXCEPT ![r] = a]
    /\ \E S \in SUBSET (Role \ {DefaultRole}) :
          /\ kind[r] = "register" => S = {}
          /\ asked' = [asked EXCEPT ![r] = S]
    /\ taken' = IF Live(a) THEN taken \cup {r} ELSE taken
    /\ IF Live(a) THEN Finish(r, "conflict") ELSE Go(r, "insert")
    /\ UNCHANGED <<table, roles, kind, arg, entity, sets, diff, stale>>

\* Mutant: the unique constraint of before the migration, which deleted
\* accounts count for.
InIndexWithDeleted(a) == \E i \in Account : emailOf[i] = a

\* Mutant: no unique index, only the look-up.
InNoIndex(a) == FALSE

\* UQ_users_email_active: a key is in the index WHERE deleted_at IS NULL.
InIndex(a) == Live(a)

\* Mutant: register and create do not catch the unique violation.
NothingCaught == "error"

\* rethrowConflictOrOriginal
OnUniqueViolation == "conflict"

InsertUser(r) ==
    /\ pc[r] = "insert"
    /\ KeyIsFree(r, email[r])
    /\ ~ InIndex(email[r])
    /\ Go(r, "assign")
    /\ UNCHANGED <<table, roles, locals, taken, stale>>

InsertRefused(r) ==
    /\ pc[r] = "insert"
    /\ KeyIsFree(r, email[r])
    /\ InIndex(email[r])
    /\ Refuse(r, OnUniqueViolation)
    /\ UNCHANGED locals

\* Mutant: the user is saved outside the transaction.
RollBackLinksOnly(r, how) ==
    /\ Finish(r, how)
    /\ emailOf' = [emailOf EXCEPT ![r] = email[r]]
    /\ UNCHANGED <<deleted, suspended, granted, roles, taken, stale>>

RollBack(r, how) == Refuse(r, how)

\* The default role, or the ids of the body, which must all exist.
AssignRoles(r) ==
    /\ pc[r] = "assign"
    /\ asked[r] \subseteq roles
    /\ asked' = [asked EXCEPT ![r] = IF @ = {} THEN {DefaultRole} ELSE @]
    /\ Go(r, "link")
    /\ UNCHANGED <<table, roles, kind, arg, email, entity, sets, diff, taken, stale>>

AssignRefused(r) ==
    /\ pc[r] = "assign"
    /\ ~ (asked[r] \subseteq roles)
    /\ RollBack(r, "badRequest")
    /\ UNCHANGED locals

LinkRoles(r) ==
    /\ pc[r] = "link"
    /\ asked[r] \subseteq roles
    /\ Go(r, "commit")
    /\ UNCHANGED <<table, roles, locals, taken, stale>>

\* A role removed since the check: the foreign key's error, which no handler
\* turns into a conflict.
LinkRefused(r) ==
    /\ pc[r] = "link"
    /\ ~ (asked[r] \subseteq roles)
    /\ RollBack(r, "error")
    /\ UNCHANGED locals

CommitUser(r) ==
    /\ pc[r] = "commit"
    /\ emailOf' = [emailOf EXCEPT ![r] = email[r]]
    /\ granted' = [granted EXCEPT ![r] = asked[r]]
    /\ Appears(r, email[r])
    /\ Go(r, "reply")
    /\ UNCHANGED <<deleted, suspended, roles, locals, stale>>

\* create reads the account back; register opens a session for it.
Reply(r) ==
    /\ pc[r] = "reply"
    /\ Refuse(r, IF kind[r] = "create" /\ ~ Found(r) THEN "notFound" ELSE "ok")
    /\ UNCHANGED locals

-----------------------------------------------------------------------------
\* softDelete: the acting administrator's own account is refused.
SoftDelete(r, i) ==
    /\ Begin(r, "delete")
    /\ arg' = [arg EXCEPT ![r] = i]
    /\ \/ Finish(r, "badRequest")
       \/ ~ Found(i) /\ Finish(r, "notFound")
       \/ Found(i) /\ Go(r, "delete")
    /\ UNCHANGED <<table, roles, kind, email, asked, entity, sets, diff, taken, stale>>

DeleteRow(r) ==
    /\ pc[r] = "delete"
    /\ RowIsFree(r, arg[r])
    /\ Go(r, "deleting")
    /\ UNCHANGED <<table, roles, locals, taken, stale>>

\* Tokens and links follow in the same transaction (AuthSessions), the cache
\* entry after it (PermissionCache).
DeleteCommit(r) ==
    /\ pc[r] = "deleting"
    /\ deleted' = deleted \cup {arg[r]}
    /\ Outdates(r, arg[r])
    /\ Finish(r, "ok")
    /\ UNCHANGED <<emailOf, suspended, granted, roles, locals, taken>>

-----------------------------------------------------------------------------
\* Mutant: the entity is looked for among the deleted ones, too.
FoundWithDeleted(i) == emailOf[i] # None

FoundByUpdate(i) == Found(i)

\* update: the entity is read; its status is set when the body names it.
Update(r, i) ==
    /\ Begin(r, "update")
    /\ arg' = [arg EXCEPT ![r] = i]
    /\ \E named \in BOOLEAN, status \in BOOLEAN :
          /\ ~ named => status = (i \in suspended)
          /\ sets' = [sets EXCEPT ![r] = named]
          /\ entity' = [entity EXCEPT ![r] = status]
          /\ \/ named /\ Finish(r, "badRequest")
             \/ ~ FoundByUpdate(i) /\ Finish(r, "notFound")
             \/ FoundByUpdate(i) /\ Go(r, "save")
    /\ UNCHANGED <<table, roles, kind, email, asked, diff, taken, stale>>

Differing(r) ==
    {c \in {"status", "deletedAt"} :
        \/ c = "status" /\ entity[r] # (arg[r] \in suspended)
        \/ c = "deletedAt" /\ arg[r] \in deleted}

\* save() reads the row again, deleted or not, and writes every column in which
\* the entity differs; the name may differ or not.
Save(r) ==
    /\ pc[r] = "save"
    /\ \E name \in SUBSET {"name"} :
          /\ diff' = [diff EXCEPT ![r] = Differing(r) \cup name]
          /\ Go(r, IF diff'[r] = {} THEN "reread" ELSE "write")
    /\ UNCHANGED <<table, roles, kind, arg, email, asked, entity, sets, taken, stale>>

Revives(r) == "deletedAt" \in diff[r] /\ arg[r] \in deleted

Writable(r) ==
    /\ pc[r] = "write"
    /\ RowIsFree(r, arg[r])
    /\ Revives(r) => KeyIsFree(r, emailOf[arg[r]])

Write(r) ==
    LET i == arg[r] IN
    /\ Writable(r)
    /\ Revives(r) => ~ InIndex(emailOf[i])
    /\ deleted' = IF Revives(r) THEN deleted \ {i} ELSE deleted
    /\ suspended' = IF "status" \notin diff[r] THEN suspended
                    ELSE IF entity[r] THEN suspended \cup {i} ELSE suspended \ {i}
    /\ IF Revives(r) THEN Appears(i, emailOf[i]) ELSE UNCHANGED taken
    /\ Outdates(r, i)
    /\ Go(r, "reread")
    /\ UNCHANGED <<emailOf, granted, roles, locals>>

\* update catches nothing: reviving an account whose address is taken is a 500.
WriteRefused(r) ==
    /\ Writable(r)
    /\ Revives(r) /\ InIndex(emailOf[arg[r]])
    /\ Refuse(r, "error")
    /\ UNCHANGED locals

\* setRoles: the ids are checked and the rows replaced in one transaction
\* (JoinRows); a row for an account that does not exist violates a foreign key.
SetRoles(r, i, S) ==
    /\ Begin(r, "setRoles")
    /\ arg' = [arg EXCEPT ![r] = i]
    /\ asked' = [asked EXCEPT ![r] = S]
    /\ IF S \subseteq roles /\ (emailOf[i] # None \/ S = {})
       THEN /\ granted' = [granted EXCEPT ![i] = S]
            /\ Go(r, "reread")
       ELSE /\ Finish(r, IF S \subseteq roles THEN "error" ELSE "badRequest")
            /\ UNCHANGED granted
    /\ UNCHANGED <<emailOf, deleted, suspended, roles, kind, email, entity, sets, diff,
                   taken, stale>>

\* update and setRoles read the account back.
ReadBack(r) ==
    /\ pc[r] = "reread"
    /\ Refuse(r, IF Found(arg[r]) THEN "ok" ELSE "notFound")
    /\ UNCHANGED locals

-----------------------------------------------------------------------------
\* The foreign key locks the role of an uncommitted row.
RoleIsFree(x) == \A q \in Request : pc[q] = "commit" => x \notin asked[q]

\* A role is removed; its rows in user_roles go with it.
RemoveRole(x) ==
    /\ x \in roles \ {DefaultRole}
    /\ RoleIsFree(x)
    /\ roles' = roles \ {x}
    /\ granted' = [i \in Account |-> granted[i] \ {x}]
    /\ UNCHANGED <<emailOf, deleted, suspended, pc, locals, answer, taken, stale>>

\* The connection or the instance is lost: an open transaction rolls back.
Drop(r) ==
    /\ pc[r] \notin {"idle", "done"}
    /\ Refuse(r, "dropped")
    /\ UNCHANGED locals

Proceed(r) ==
    \/ InsertUser(r) \/ InsertRefused(r) \/ AssignRoles(r) \/ AssignRefused(r)
    \/ LinkRoles(r) \/ LinkRefused(r) \/ CommitUser(r) \/ Reply(r)
    \/ DeleteRow(r) \/ DeleteCommit(r)
    \/ Save(r) \/ Write(r) \/ WriteRefused(r) \/ ReadBack(r)

Next ==
    \/ \E r \in Request :
          \/ \E a \in Address : LookUp(r, a)
          \/ \E i \in Account : \/ SoftDelete(r, i) \/ Update(r, i)
                                \/ \E S \in SUBSET Role : SetRoles(r, i, S)
          \/ Proceed(r)
          \/ Drop(r)
    \/ \E x \in Role : RemoveRole(x)

Spec == Init /\ [][Next]_vars

-----------------------------------------------------------------------------
\* Two accounts that are not deleted never have the same address, whatever is
\* created, deleted and updated at the same time.
OneLiveAccountPerAddress ==
    \A i, j \in Account : Found(i) /\ Found(j) /\ emailOf[i] = emailOf[j] => i = j

\* "Email is already registered" is told only to a creation during which an
\* account that was not deleted had the address: the address of a deleted
\* account can be used again.
ConflictsAreReal ==
    \A r \in Request : answer[r] = "conflict" => r \in taken

\* A creation ends in a 500 only when a role it asked for was removed meanwhile,
\* never because it lost the race for the address.
LosersGetConflict ==
    \A r \in Request : Creates(r) /\ answer[r] = "error" => ~ (asked[r] \subseteq roles)

\* A creation that was refused, for the address or for its roles, left no account.
RefusalsLeaveNothing ==
    \A r \in Request :
        Creates(r) /\ answer[r] \in {"conflict", "badRequest", "error"} => emailOf[r] = None

\* An account appears with the roles it was created with, all of them existing.
NewAccountsHaveRoles ==
    [][\A i \in Account : emailOf[i] = None /\ emailOf'[i] # None =>
          granted'[i] # {} /\ granted'[i] \subseteq roles']_vars

\* An update whose account nobody changed since it was read undeletes nothing
\* and changes the status only when its body named it.
OnlyStaleUpdatesOverwrite ==
    [][\A r \in Request \ stale : Write(r) =>
          /\ deleted' = deleted
          /\ sets[r] \/ suspended' = suspended]_vars

\* "Soft-delete a user (admin).": an account whose deletion was answered stays
\* deleted.
DeletedStaysDeleted ==
    \A r \in Request : kind[r] = "delete" /\ answer[r] = "ok" => arg[r] \in deleted

\* "Validation failed or email taken" is the 400 of register: what the caller is
\* told of a taken address.
TakenIsBadRequest ==
    \A r \in Request : kind[r] = "register" => answer[r] # "conflict"

\* "User not found" is the 404 of setRoles: the roles of an account that does not
\* exist are refused with it.
UnknownUserIsNotFound ==
    \A r \in Request : kind[r] = "setRoles" /\ answer[r] = "error" => emailOf[arg[r]] # None
=============================================================================
