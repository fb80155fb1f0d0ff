----------------------------- MODULE Catalogue -----------------------------
(***************************************************************************)
(* Roles and permissions as named things: create, update and remove of     *)
(* RolesService and PermissionsService.                                    *)
(*                                                                         *)
(* A role has a unique name, a permission a unique pair of action and      *)
(* subject; both are called a name here.  A creation or a renaming looks   *)
(* for the name, then saves.  save() of an entity that was read before     *)
(* reads its row again: if the row is gone it inserts it anew, otherwise   *)
(* it writes the columns in which the entity differs.  Each statement is a *)
(* transaction of its own, and other requests run between any two.         *)
(*                                                                         *)
(* A request is answered once, and what it creates bears its name.         *)
(***************************************************************************)
CONSTANTS Request,
          SystemRole, OwnRole, OwnPermission,  \* rows that are there at the start
          RoleName, Key,   \* the names of roles, the pairs of permissions
          NameOf,          \* the names of those rows
          None

Given == {SystemRole, OwnRole, OwnPermission}
Item  == Request \cup Given
Name  == RoleName \cup Key

Answers == {"ok", "badRequest", "forbidden", "notFound", "conflict", "error", "dropped"}

CatalogueAssumption ==
    /\ Request \cap Given = {} /\ RoleName \cap Key = {} /\ None \notin Name \cup Answers
    /\ NameOf \in [Given -> Name]
    /\ \A i, j \in Given : NameOf[i] = NameOf[j] => i = j

RoleKinds       == {"createRole", "updateRole", "removeRole"}
PermissionKinds == {"createPermission", "updatePermission", "removePermission"}

VARIABLES
    name,     \* the rows: the name of each item, None when it is not there
    pc, kind, arg,
    wanted,   \* the name in the entity of the request
    insert,   \* whether its save() found no row
    answer,
    \* history: updates whose row was removed or renamed since they read it, and
    \* requests whose name another item had at some moment since they came
    stale, rivalled

history == <<stale, rivalled>>
vars    == <<name, pc, kind, arg, wanted, insert, answer, history>>

TypeOK ==
    /\ name \in [Item -> Name \cup {None}]
    /\ pc \in [Request -> {"idle", "check", "save", "write", "affected", "reply", "done"}]
    /\ kind \in [Request -> RoleKinds \cup PermissionKinds]
    /\ arg \in [Request -> Item \cup {None}]
    /\ wanted \in [Request -> Name \cup {None}]
    /\ insert \in [Request -> BOOLEAN]
    /\ answer \in [Request -> Answers \cup {None}]
    /\ stale \subseteq Request /\ rivalled \subseteq Request
    /\ name[SystemRole] = NameOf[SystemRole]

Init ==
    /\ name = [i \in Item |-> IF i \in Given THEN NameOf[i] ELSE None]
    /\ pc = [r \in Request |-> "idle"]
    /\ kind \in [Request -> RoleKinds \cup PermissionKinds]
    /\ arg = [r \in Request |-> None]
    /\ wanted = [r \in Request |-> None]
    /\ insert = [r \in Request |-> FALSE]
    /\ answer = [r \in Request |-> None]
    /\ stale = {} /\ rivalled = {}

-----------------------------------------------------------------------------
OfRoles(r)  == kind[r] \in RoleKinds
Creates(r)  == kind[r] \in {"createRole", "createPermission"}
Updates(r)  == kind[r] \in {"updateRole", "updatePermission"}
Removes(r)  == kind[r] \in {"removeRole", "removePermission"}
Exists(i)   == name[i] # None

TakenBy(n) == {i \in Item : name[i] = n}

\* The table a path belongs to: an id of the other table is not found.
InTable(r, i) ==
    IF i \in Request THEN OfRoles(i) = OfRoles(r) ELSE (i # OwnPermission) = OfRoles(r)

\* assertMutable
Mutable(i) == i # SystemRole

Go(r, step) ==
    /\ pc' = [pc EXCEPT ![r] = step]
    /\ UNCHANGED answer

Answer(r, how) ==
    /\ pc' = [pc EXCEPT ![r] = "done"]
    /\ answer' = [answer EXCEPT ![r] = how]

Untouched == UNCHANGED <<name, history>>

\* Those that asked for their name and have not written it yet.
Racing == {q \in Request : pc[q] \in {"check", "save", "write"}}

\* The row of i has the name n, or is gone, from now on.
SetName(r, i, n) ==
    /\ name' = [name EXCEPT ![i] = n]
    /\ stale' = IF n = name[i] THEN stale
                ELSE stale \cup {q \in Racing \ {r} : arg[q] = i}
    /\ rivalled' = rivalled \cup {q \in Racing : arg[q] # i /\ wanted[q] = n}

\* r asks for the name n, for the item i.
Ask(r, i, n) ==
    /\ arg' = [arg EXCEPT ![r] = i]
    /\ wanted' = [wanted EXCEPT ![r] = n]
    /\ rivalled' = IF TakenBy(n) \ {i} = {} THEN rivalled ELSE rivalled \cup {r}
    /\ UNCHANGED stale

\* create, of either service: existsBy or findOneBy, then 409 or save().
Create(r, n) ==
    /\ pc[r] = "idle" /\ Creates(r)
    /\ n \in IF OfRoles(r) THEN RoleName ELSE Key
    /\ Ask(r, r, n)
    /\ insert' = [insert EXCEPT ![r] = TRUE]
    /\ IF TakenBy(n) = {} THEN Go(r, "write") ELSE Answer(r, "conflict")
    /\ UNCHANGED <<name, kind>>

\* Mutant: update does not look for the row first.
FoundUnread(i) == TRUE

Found(i) == Exists(i)

\* getOrThrow, assertMutable; a permission that is not there is a 400.
Missing(r) == IF OfRoles(r) THEN "notFound" ELSE "badRequest"

Refused(r, i) ==
    /\ pc[r] = "idle" /\ ~ Creates(r)
    /\ InTable(r, i)
    /\ \/ ~ Found(i) /\ Answer(r, Missing(r))
       \/ ~ Mutable(i) /\ Answer(r, "forbidden")
    /\ arg' = [arg EXCEPT ![r] = i]
    /\ UNCHANGED <<kind, wanted, insert>> /\ Untouched

\* Mutant: a name that is not changed is looked for as well.
LooksAnyhow(r, i, n) == OfRoles(r)

LooksForName(r, i, n) == n # name[i]

\* update reads the entity; the body has a new name for it, or not.  The action and
\* subject of a permission cannot change.
Update(r, i, n) ==
    /\ pc[r] = "idle" /\ Updates(r)
    /\ InTable(r, i) /\ Found(i) /\ Mutable(i)
    /\ n = name[i] \/ (OfRoles(r) /\ n \in RoleName)
    /\ Ask(r, i, n)
    /\ Go(r, IF LooksForName(r, i, n) THEN "check" ELSE "save")
    /\ UNCHANGED <<name, kind, insert>>

\* The look-up of a new name may find the role itself, renamed in the meantime.
CheckName(r) ==
    /\ pc[r] = "check"
    /\ IF TakenBy(wanted[r]) = {} THEN Go(r, "save") ELSE Answer(r, "conflict")
    /\ UNCHANGED <<kind, arg, wanted, insert>> /\ Untouched

\* The reading half of save().
Save(r) ==
    /\ pc[r] = "save"
    /\ insert' = [insert EXCEPT ![r] = ~ Exists(arg[r])]
    /\ Go(r, IF name[arg[r]] = wanted[r] THEN "reply" ELSE "write")
    /\ UNCHANGED <<kind, arg, wanted>> /\ Untouched

\* Mutant: what save() throws is thrown on.
ThrownOn(r) == "error"

\* rethrowConflictOrOriginal, which updatePermission does not call.
OnUniqueViolation(r) == IF kind[r] = "updatePermission" THEN "error" ELSE "conflict"

\* The unique constraints, of the names and of the ids, as the row of r meets them.
Clashes(r) ==
    \/ TakenBy(wanted[r]) \ {arg[r]} # {} /\ (insert[r] \/ Exists(arg[r]))
    \/ insert[r] /\ Exists(arg[r])

WriteRefused(r) ==
    /\ pc[r] = "write"
    /\ Clashes(r)
    /\ Answer(r, OnUniqueViolation(r))
    /\ UNCHANGED <<kind, arg, wanted, insert>> /\ Untouched

\* An UPDATE of a row that is gone changes nothing.
Write(r) ==
    /\ pc[r] = "write"
    /\ ~ Clashes(r)
    /\ IF insert[r] \/ Exists(arg[r]) THEN SetName(r, arg[r], wanted[r]) ELSE Untouched
    /\ Go(r, "reply")
    /\ UNCHANGED <<kind, arg, wanted, insert>>

\* RolesService reads the role back, PermissionsService answers with its entity.
Reply(r) ==
    /\ pc[r] = "reply"
    /\ Answer(r, IF OfRoles(r) /\ ~ Exists(arg[r]) THEN "notFound" ELSE "ok")
    /\ UNCHANGED <<kind, arg, wanted, insert>> /\ Untouched

\* remove: the row is found, then the users concerned (PermissionCache).
Remove(r, i) ==
    /\ pc[r] = "idle" /\ Removes(r)
    /\ InTable(r, i) /\ Found(i) /\ Mutable(i)
    /\ arg' = [arg EXCEPT ![r] = i]
    /\ Go(r, "affected")
    /\ UNCHANGED <<kind, wanted, insert>> /\ Untouched

Delete(r) ==
    /\ pc[r] = "affected"
    /\ SetName(r, arg[r], None)
    /\ Answer(r, "ok")
    /\ UNCHANGED <<kind, arg, wanted, insert>>

Drop(r) ==
    /\ pc[r] \notin {"idle", "done"}
    /\ Answer(r, "dropped")
    /\ UNCHANGED <<kind, arg, wanted, insert>> /\ Untouched

Next ==
    \E r \in Request :
        \/ \E n \in Name : Create(r, n)
        \/ \E i \in Item : \/ Refused(r, i) \/ Remove(r, i)
                           \/ \E n \in Name : Update(r, i, n)
        \/ CheckName(r) \/ Save(r) \/ Write(r) \/ WriteRefused(r) \/ Reply(r)
        \/ Delete(r)
        \/ Drop(r)

Spec == Init /\ [][Next]_vars

-----------------------------------------------------------------------------
\* Who loses the race for a name is told of the conflict, and nobody else is.  A
\* creation or a renaming is refused because another item had the name at some
\* moment of the request, or, an update only, because its row was renamed, or
\* removed and put back, since it was read; the constraint surfaces as an error of
\* the server only in the update of a permission that others removed.
NameConflictsAreReal ==
    \A r \in Request :
        /\ answer[r] = "conflict" => r \in rivalled \/ (Updates(r) /\ r \in stale)
        /\ answer[r] = "error" => kind[r] = "updatePermission" /\ r \in stale
        /\ Creates(r) /\ answer[r] \in {"conflict", "error"} => ~ Exists(r)

\* An update whose row nobody removed or renamed since it was read inserts
\* nothing.
OnlyStaleUpdatesRevive ==
    [][\A r \in Request \ stale : Updates(r) /\ Write(r) => Exists(arg[r])]_vars

\* "Permission not found" is the 404 of an update or deletion of a permission
\* that is not there.
MissingPermissionIsNotFound ==
    \A r \in Request : ~ OfRoles(r) => answer[r] # "badRequest"

\* "Delete a role (admin)": a role whose deletion was answered is gone.
RemovedStaysRemoved ==
    \A r \in Request : Removes(r) /\ answer[r] = "ok" => ~ Exists(arg[r])
=============================================================================
