------------------------------ MODULE PgLocks ------------------------------
(***************************************************************************)
(* The row locks of PostgreSQL at READ COMMITTED, as the repository's      *)
(* services use them through TypeORM: SELECT ... FOR UPDATE, and the row   *)
(* locks an UPDATE ... WHERE takes on the rows it found.                   *)
(*                                                                         *)
(* A statement fixes the rows it is going to change when it starts (its    *)
(* snapshot) and locks them one at a time, in an order the planner         *)
(* chooses; the locks are kept until the transaction ends.  A transaction  *)
(* that closes a ring of waiters is aborted by the deadlock detector.      *)
(***************************************************************************)
CONSTANTS Request,   \* the HTTP requests being served, on any instance
          Row,       \* the rows that can be locked
          None       \* "no request", "no row"

ASSUME NoneAssumption == None \notin Request

VARIABLES lock,      \* the request whose transaction holds the row, or None
          want       \* the rows the request's current statement still has to lock

lockVars == <<lock, want>>

LockTypeOK ==
    /\ lock \in [Row -> Request \cup {None}]
    /\ want \in [Request -> SUBSET Row]

LockInit ==
    /\ lock = [x \in Row |-> None]
    /\ want = [r \in Request |-> {}]

Held(r) == {x \in Row : lock[x] = r}

\* A statement of r starts: it will lock the rows of S that r does not hold.
Ask(r, S) ==
    /\ want' = [want EXCEPT ![r] = S \ Held(r)]
    /\ UNCHANGED lock

\* The statement of r has all the rows it found when it started.
Granted(r) == want[r] = {}

AcquireRow(r) ==
    \E x \in want[r] :
        /\ lock[x] = None
        /\ lock' = [lock EXCEPT ![x] = r]
        /\ want' = [want EXCEPT ![r] = @ \ {x}]

\* COMMIT and ROLLBACK both end the transaction's locks.
Release(r) ==
    /\ lock' = [x \in Row |-> IF lock[x] = r THEN None ELSE lock[x]]
    /\ want' = [want EXCEPT ![r] = {}]

WaitsFor(r, q) == \E x \in want[r] : lock[x] = q

Ring(S) == S # {} /\ \A r \in S : \E q \in S : WaitsFor(r, q)

\* The rings that contain no smaller ring: the cycles of the wait-for graph.
DeadlockRings ==
    {S \in SUBSET Request : Ring(S) /\ \A T \in SUBSET S : Ring(T) => T = S}
=============================================================================
