------------------------------ MODULE JoinRows ------------------------------
(***************************************************************************)
(* replaceJoinRows: the set of roles of one user, or of permissions of one *)
(* role, replaced inside a transaction of setRoles or setPermissions.      *)
(*                                                                         *)
(* A transaction checks that the ids exist, deletes the owner's rows and   *)
(* saves the new ones; save() looks for the rows first and inserts those   *)
(* it does not find.  Each statement sees the rows committed when it       *)
(* starts.  A row of PgLocks is a key of the join table for this owner,    *)
(* named by the id at its other end: the lock of a key is held by the      *)
(* transaction that deleted or inserted it.                                *)
(***************************************************************************)
EXTENDS PgLocks, FiniteSets

KeyAssumption == None \notin Request \cup Row

VARIABLES
    referenced,  \* the ids that exist in the referenced table
    rows,        \* the committed rows of the owner
    pc, ids,     \* the requests: next step, and the set asked for
    doomed,      \* the rows a transaction has deleted
    added,       \* the rows it inserts
    \* history: the requests that ran alone so far, and the ids asked for by
    \* the requests that overlapped
    alone, overlap

txVars == <<pc, ids, doomed, added>>
vars   == <<referenced, rows, txVars, alone, overlap, lockVars>>

Steps == {"idle", "delete", "deleting", "inserting"}

TypeOK ==
    /\ LockTypeOK
    /\ referenced \subseteq Row /\ rows \subseteq referenced
    /\ pc \in [Request -> Steps]
    /\ ids \in [Request -> SUBSET Row]
    /\ doomed \in [Request -> SUBSET Row]
    /\ added \in [Request -> SUBSET Row]
    /\ alone \subseteq Request
    /\ overlap \in [Request -> SUBSET Row]

Init ==
    /\ LockInit
    /\ referenced = Row /\ rows \in SUBSET Row
    /\ pc = [r \in Request |-> "idle"]
    /\ ids = [r \in Request |-> {}]
    /\ doomed = [r \in Request |-> {}]
    /\ added = [r \in Request |-> {}]
    /\ alone = {}
    /\ overlap = [r \in Request |-> {}]

-----------------------------------------------------------------------------
Busy == {r \in Request : pc[r] # "idle"}

At(r, step) == pc[r] = step /\ Granted(r)

\* The rows of `gone' are no longer there: a DELETE that waits for one of them
\* skips it when it gets its turn.
End(r, gone) ==
    /\ lock' = [x \in Row |-> IF lock[x] = r THEN None ELSE lock[x]]
    /\ want' = [q \in Request |-> IF q = r THEN {}
                                  ELSE IF pc[q] = "deleting" THEN want[q] \ gone
                                  ELSE want[q]]
    /\ pc' = [pc EXCEPT ![r] = "idle"]
    /\ ids' = [ids EXCEPT ![r] = {}]
    /\ doomed' = [doomed EXCEPT ![r] = {}]
    /\ added' = [added EXCEPT ![r] = {}]
    /\ alone' = alone \ {r}
    /\ overlap' = [overlap EXCEPT ![r] = {}]

\* Every id must exist before the current set is wiped; an unknown id is
\* refused before anything happened.
Replace(r, S) ==
    /\ pc[r] = "idle"
    /\ S \subseteq referenced
    /\ pc' = [pc EXCEPT ![r] = "delete"]
    /\ ids' = [ids EXCEPT ![r] = S]
    /\ alone' = IF Busy = {} THEN {r} ELSE {}
    /\ overlap' = [q \in Request |->
                      IF q = r THEN UNION {ids[b] : b \in Busy}
                      ELSE IF q \in Busy THEN overlap[q] \cup S ELSE {}]
    /\ UNCHANGED <<referenced, rows, doomed, added, lockVars>>

CurrentRows == rows

DeleteRows(r) ==
    /\ At(r, "delete")
    /\ Ask(r, CurrentRows)
    /\ pc' = [pc EXCEPT ![r] = "deleting"]
    /\ UNCHANGED <<referenced, rows, ids, doomed, added, alone, overlap>>

\* Mutant: the rows the transaction itself deleted count as found.
MissingBeforeDelete(r) == ids[r] \ rows

\* save(): what it finds committed by others it leaves as it is.
Missing(r) == ids[r] \ (rows \ Held(r))

SaveRows(r) ==
    /\ At(r, "deleting")
    /\ doomed' = [doomed EXCEPT ![r] = Held(r)]
    /\ added' = [added EXCEPT ![r] = Missing(r)]
    /\ Ask(r, Missing(r))
    /\ pc' = [pc EXCEPT ![r] = "inserting"]
    /\ UNCHANGED <<referenced, rows, ids, alone, overlap>>

\* An insert whose key was committed by another transaction meanwhile, or
\* whose id is gone: the primary key or a foreign key is violated.
Refused(r) ==
    \E x \in (added[r] \cap Held(r)) \ doomed[r] : x \in rows \/ x \notin referenced

InsertRefused(r) ==
    /\ pc[r] = "inserting"
    /\ Refused(r)
    /\ End(r, {})
    /\ UNCHANGED <<referenced, rows>>

Commit(r) ==
    /\ At(r, "inserting")
    /\ ~ Refused(r)
    /\ rows' = (rows \ doomed[r]) \cup added[r]
    /\ End(r, doomed[r])
    /\ UNCHANGED referenced

Acquire(r) ==
    /\ AcquireRow(r)
    /\ UNCHANGED <<referenced, rows, txVars, alone, overlap>>

\* Rollback of a request whose instance dies or that closes a ring of waiters.
Crash(r) ==
    /\ pc[r] # "idle"
    /\ End(r, {})
    /\ UNCHANGED <<referenced, rows>>

DeadlockAbort(r) ==
    /\ \E S \in DeadlockRings : r \in S
    /\ End(r, {})
    /\ UNCHANGED <<referenced, rows>>

\* A role or permission is removed; the foreign key removes the join row.  It
\* waits for transactions that inserted or deleted that row.
Remove(x) ==
    /\ x \in referenced
    /\ lock[x] = None
    /\ referenced' = referenced \ {x}
    /\ rows' = rows \ {x}
    /\ want' = [q \in Request |-> IF pc[q] = "deleting" THEN want[q] \ {x} ELSE want[q]]
    /\ UNCHANGED <<txVars, alone, overlap, lock>>

Proceed(r) == DeleteRows(r) \/ SaveRows(r) \/ InsertRefused(r) \/ Commit(r)

Next ==
    \/ \E r \in Request : \/ \E S \in SUBSET Row : Replace(r, S)
                          \/ Proceed(r) \/ Acquire(r)
                          \/ Crash(r) \/ DeadlockAbort(r)
    \/ \E x \in Row : Remove(x)

Spec == Init /\ [][Next]_vars

-----------------------------------------------------------------------------
\* No row of the old set survives a replacement: what is there after it was
\* asked for by it or by a request that overlapped it.
OldRowsAreReplaced ==
    [][\A r \in Request : Commit(r) => rows' \subseteq ids[r] \cup overlap[r]]_vars

\* Without overlapping requests the result is the set asked for, however the
\* requests before it ended and whatever is removed meanwhile.
ReplacesWhenAlone ==
    [][\A r \in alone : Commit(r) => rows' = ids[r]]_vars

\* "Atomically replaces the join rows for one owner": each replacement leaves
\* the set asked for.
ReplacesAtomically ==
    [][\A r \in Request : Commit(r) => rows' = ids[r]]_vars

=============================================================================
