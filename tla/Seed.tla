-------------------------------- MODULE Seed --------------------------------
(***************************************************************************)
(* The seed of roles, permissions and the first administrator, which every *)
(* container runs before it serves (docker-entrypoint.sh), beside other    *)
(* containers that run it too or serve already.                            *)
(*                                                                         *)
(* Each baseline row is looked for and inserted when it is missing, in two *)
(* statements without a transaction; the unique constraints refuse the     *)
(* second of two inserts, which ends the run, and Docker restarts the      *)
(* container.                                                              *)
(***************************************************************************)
EXTENDS Naturals, Sequences, FiniteSets

CONSTANTS Container,
          Permission, Role,   \* of SEED_ROLES
          Grants,             \* its role_permissions, pairs <<role, permission>>
          Account, AdminLink, \* the administrator's user and user_role
          MaxCrashes, MaxChanges   \* bound the crashes and the users' changes

\* A role's permission is one of the seed's own; tables share no rows.
ASSUME SeedAssumption ==
    /\ IsFiniteSet(Container) /\ IsFiniteSet(Permission) /\ IsFiniteSet(Role)
    /\ Grants \subseteq Role \X Permission
    /\ (Permission \cup Role) \cap (Grants \cup {Account, AdminLink}) = {}
    /\ Account \notin Grants \cup {AdminLink}
    /\ MaxCrashes \in Nat /\ MaxChanges \in Nat

Row == Permission \cup Role \cup Grants \cup {Account, AdminLink}

\* The rows a row refers to.
Refers(row) ==
    {x \in Permission \cup Role : \E g \in Grants : row = g /\ x \in {g[1], g[2]}}
        \cup (IF row = AdminLink THEN {Account} ELSE {})

\* What must be seeded before a row: the permissions, then each role with its
\* grants, the administrator last.
Earlier(row) ==
    Refers(row) \cup (IF row \in Permission THEN {} ELSE Permission)
        \cup (IF row \in {Account, AdminLink} THEN Role \cup Grants ELSE {})

Both(row) == Refers(row) \cup {row}

VARIABLES
    rows,       \* the baseline rows in the tables
    phase,      \* of each container
    passed,     \* the rows its seed found or inserted,
    pending,    \* the missing row it is about to insert,
    gone,       \* and those of them that users removed since
    password,   \* of the administrator: as configured, or the owner's
    crashes, changes

vars == <<rows, phase, passed, pending, gone, password, crashes, changes>>

None == {}

TypeOK ==
    /\ rows \subseteq Row
    /\ \A row \in rows : Refers(row) \subseteq rows
    /\ phase \in [Container -> {"seeding", "serving", "down"}]
    /\ passed \in [Container -> SUBSET Row] /\ gone \in [Container -> SUBSET Row]
    /\ pending \in [Container -> {None} \cup {{row} : row \in Row}]
    /\ password \in {"configured", "owner"}
    /\ crashes \in 0..MaxCrashes /\ changes \in 0..MaxChanges

\* The first start, with empty tables.
Init ==
    /\ rows = {}
    /\ phase = [c \in Container |-> "down"]
    /\ passed = [c \in Container |-> {}] /\ gone = [c \in Container |-> {}]
    /\ pending = [c \in Container |-> None]
    /\ password = "configured"
    /\ crashes = 0 /\ changes = 0

-----------------------------------------------------------------------------
Start(c) ==
    /\ phase[c] = "down"
    /\ phase' = [phase EXCEPT ![c] = "seeding"]
    /\ passed' = [passed EXCEPT ![c] = {}] /\ gone' = [gone EXCEPT ![c] = {}]
    /\ pending' = [pending EXCEPT ![c] = None]
    /\ UNCHANGED <<rows, password, crashes, changes>>

Pass(c, row) == passed' = [passed EXCEPT ![c] = @ \cup {row}]

\* Mutant: the seed inserts without a look.
NeverPresent(c, row) == FALSE

\* A row is found by its keys.  A reference to a row that is gone finds nothing,
\* as a row inserted again has another id.
Present(c, row) == row \in rows /\ Refers(row) \cap gone[c] = {}

\* Mutant: a row that is found is saved again, password and all.
SaveFound(c, row) ==
    /\ IF Present(c, row)
       THEN Pass(c, row) /\ UNCHANGED pending
       ELSE pending' = [pending EXCEPT ![c] = {row}] /\ UNCHANGED passed
    /\ password' = IF row = Account THEN "configured" ELSE password
    /\ UNCHANGED rows

Look(c, row) ==
    /\ IF Present(c, row)
       THEN Pass(c, row) /\ UNCHANGED pending
       ELSE pending' = [pending EXCEPT ![c] = {row}] /\ UNCHANGED passed
    /\ UNCHANGED <<rows, password>>

\* findOneBy
Find(c, row) ==
    /\ phase[c] = "seeding" /\ pending[c] = None
    /\ row \notin passed[c] /\ Earlier(row) \subseteq passed[c]
    /\ Look(c, row)
    /\ UNCHANGED <<phase, gone, crashes, changes>>

\* Mutant: a failed insert is skipped over.
SkipRefused(c, row) == Pass(c, row) /\ UNCHANGED phase

\* The seed exits with 1, so the entrypoint does not start the application.
ExitRefused(c, row) == phase' = [phase EXCEPT ![c] = "down"] /\ UNCHANGED passed

Orphan(c, row) == Refers(row) \cap gone[c] # {}

\* A soft-deleted account keeps its row and its links: another seed may have
\* linked it already.
Refused(c, row) ==
    \/ row \in rows /\ ~ Orphan(c, row)    \* unique constraint
    \/ Orphan(c, row)                      \* foreign key, or that link

Accepted(c, row) ==
    \/ row \notin rows /\ ~ Orphan(c, row)
    \/ row = AdminLink /\ Orphan(c, row)

Save(c, row) ==
    /\ Accepted(c, row)
    /\ rows' = IF Orphan(c, row) THEN rows ELSE rows \cup {row}
    /\ gone' = IF Orphan(c, row) THEN [gone EXCEPT ![c] = @ \cup {row}] ELSE gone
    /\ password' = IF row = Account THEN "configured" ELSE password
    /\ Pass(c, row)
    /\ UNCHANGED phase

Insert(c, row) ==
    /\ phase[c] = "seeding" /\ pending[c] = {row}
    /\ pending' = [pending EXCEPT ![c] = None]
    /\ \/ Save(c, row)
       \/ Refused(c, row) /\ ExitRefused(c, row) /\ UNCHANGED <<rows, gone, password>>
    /\ UNCHANGED <<crashes, changes>>

Serve(c) ==
    /\ phase[c] = "seeding" /\ passed[c] = Row
    /\ phase' = [phase EXCEPT ![c] = "serving"]
    /\ UNCHANGED <<rows, passed, pending, gone, password, crashes, changes>>

Crash(c) ==
    /\ phase[c] # "down" /\ crashes < MaxCrashes
    /\ crashes' = crashes + 1
    /\ phase' = [phase EXCEPT ![c] = "down"]
    /\ UNCHANGED <<rows, passed, pending, gone, password, changes>>

-----------------------------------------------------------------------------
Serving == \E c \in Container : phase[c] = "serving"

Change == Serving /\ changes < MaxChanges /\ changes' = changes + 1

\* The rows go, and those that refer to them.
Drop(R) ==
    LET dropped == {row \in Row : Both(row) \cap R # {}} IN
    /\ rows' = rows \ dropped
    /\ gone' = [c \in Container |-> gone[c] \cup (dropped \cap passed[c])]
    /\ UNCHANGED <<phase, passed, pending, crashes>>

\* System roles and their grants are immutable, but permissions can be removed.
RemovePermission(p) ==
    /\ Change /\ p \in rows
    /\ Drop({p})
    /\ UNCHANGED password

\* softDelete of the administrator by another user.
SoftDelete ==
    /\ Change /\ Account \in rows
    /\ Drop({Account})
    /\ UNCHANGED password

\* resetPassword by the administrator.
ResetPassword ==
    /\ Change /\ Account \in rows
    /\ password' = "owner"
    /\ UNCHANGED <<rows, phase, passed, pending, gone, crashes>>

Next ==
    \/ \E c \in Container : \/ Start(c) \/ Serve(c) \/ Crash(c)
                            \/ \E row \in Row : Find(c, row) \/ Insert(c, row)
    \/ \E p \in Permission : RemovePermission(p)
    \/ SoftDelete \/ ResetPassword

Spec == Init /\ [][Next]_vars

\* Docker restarts containers, and a run goes on to its end.
Proceeds(c) == Start(c) \/ Serve(c) \/ \E row \in Row : Find(c, row) \/ Insert(c, row)
FairSpec == Spec /\ \A c \in Container : WF_vars(Proceeds(c))

-----------------------------------------------------------------------------
\* What a run has passed is there when it goes on, except what users removed
\* meanwhile: an instance that serves has its baseline, whatever other seeds,
\* refused inserts and crashes came before.
PassedIsThere == \A c \in Container : passed[c] \subseteq rows \cup gone[c]

\* "a reset/change applied later ... must survive container restarts and
\* re-seeds": a password of the owner's stays as long as the account does.
PasswordSurvives ==
    [][password = "owner" /\ password' # "owner" => Account \notin rows]_vars

\* Refused inserts hold nobody up for ever: in the end every container serves.
EveryContainerServes == \A c \in Container : <>[](phase[c] = "serving")
=============================================================================
