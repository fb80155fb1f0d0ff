----------------------------- MODULE SeedProofs -----------------------------
(***************************************************************************)
(* Theorems about Seed, for any number of containers and any baseline.     *)
(***************************************************************************)
EXTENDS Seed, TLAPS

\* A row is about to be inserted only when the rows it refers to were passed:
\* with it, what a row in the tables refers to is in the tables.
PendingIsReady ==
    \A c \in Container, row \in Row : pending[c] = {row} => Refers(row) \subseteq passed[c]

SeedInv == TypeOK /\ PassedIsThere /\ PendingIsReady

LEMMA RefersInRow == \A row \in Row : Refers(row) \subseteq Row /\ Refers(row) \subseteq Earlier(row)
  BY DEF Refers, Row, Earlier

LEMMA SeedInit == Init => SeedInv
<1> SUFFICES ASSUME Init PROVE SeedInv
  OBVIOUS
<1>1. TypeOK
  BY SeedAssumption DEF Init, TypeOK, None
<1>2. PassedIsThere
  BY DEF Init, PassedIsThere
<1>3. PendingIsReady
  BY DEF Init, PendingIsReady, None
<1>4. QED
  BY <1>1, <1>2, <1>3 DEF SeedInv

LEMMA StartStep == ASSUME SeedInv, NEW c \in Container, Start(c) PROVE SeedInv'
<1>1. TypeOK'
  BY DEF SeedInv, TypeOK, Start, None
<1>2. PassedIsThere'
  BY DEF SeedInv, TypeOK, PassedIsThere, Start
<1>3. PendingIsReady'
  BY DEF SeedInv, TypeOK, PendingIsReady, Start, None
<1>4. QED
  BY <1>1, <1>2, <1>3 DEF SeedInv

LEMMA FindStep ==
  ASSUME SeedInv, NEW c \in Container, NEW row \in Row, Find(c, row) PROVE SeedInv'
<1>1. TypeOK'
  BY DEF SeedInv, TypeOK, Find, Look, Pass
<1>2. PassedIsThere'
  BY DEF SeedInv, TypeOK, PassedIsThere, Find, Look, Pass, Present
<1>3. PendingIsReady'
  BY RefersInRow DEF SeedInv, TypeOK, PendingIsReady, Find, Look, Pass, None
<1>4. QED
  BY <1>1, <1>2, <1>3 DEF SeedInv

LEMMA InsertStep ==
  ASSUME SeedInv, NEW c \in Container, NEW row \in Row, Insert(c, row) PROVE SeedInv'
<1>1. CASE Save(c, row)
  <2>1. ~ Orphan(c, row) => Refers(row) \subseteq rows
    BY RefersInRow DEF SeedInv, PassedIsThere, PendingIsReady, Insert, Orphan
  <2>2. \A r \in rows' : Refers(r) \subseteq rows'
    BY <1>1, <2>1 DEF SeedInv, TypeOK, Save
  <2>3. TypeOK'
    BY <1>1, <2>2 DEF SeedInv, TypeOK, Insert, Save, Pass, None
  <2>4. PassedIsThere'
    BY <1>1 DEF SeedInv, TypeOK, PassedIsThere, Save, Pass
  <2>5. PendingIsReady'
    BY <1>1 DEF SeedInv, TypeOK, PendingIsReady, Insert, Save, Pass, None
  <2>6. QED
    BY <2>3, <2>4, <2>5 DEF SeedInv
<1>2. CASE ExitRefused(c, row) /\ UNCHANGED <<rows, gone, password>>
  <2>1. TypeOK'
    BY <1>2 DEF SeedInv, TypeOK, Insert, ExitRefused, None
  <2>2. PassedIsThere'
    BY <1>2 DEF SeedInv, PassedIsThere, ExitRefused
  <2>3. PendingIsReady'
    BY <1>2 DEF SeedInv, TypeOK, PendingIsReady, Insert, ExitRefused, None
  <2>4. QED
    BY <2>1, <2>2, <2>3 DEF SeedInv
<1>3. QED
  BY <1>1, <1>2 DEF Insert

LEMMA PhaseStep ==
  ASSUME SeedInv, NEW c \in Container, Serve(c) \/ Crash(c) PROVE SeedInv'
<1>1. TypeOK'
  BY SeedAssumption DEF SeedInv, TypeOK, Serve, Crash
<1>2. (PassedIsThere /\ PendingIsReady)'
  BY DEF SeedInv, PassedIsThere, PendingIsReady, Serve, Crash
<1>3. QED
  BY <1>1, <1>2 DEF SeedInv

LEMMA DropStep ==
  ASSUME SeedInv, NEW R \in SUBSET Row, Change, Drop(R), UNCHANGED password PROVE SeedInv'
<1>1. TypeOK'
  <2>1. \A row \in rows' : Refers(row) \subseteq rows'
    <3> SUFFICES ASSUME NEW row \in rows', NEW x \in Refers(row) PROVE x \in rows'
      OBVIOUS
    <3>1. row \in rows /\ x \in rows /\ row \in Row /\ Both(row) \cap R = {}
      BY DEF SeedInv, TypeOK, Drop
    <3>2. Refers(x) = {}
      BY SeedAssumption DEF Refers
    <3>3. QED
      BY <3>1, <3>2 DEF Drop, Both, SeedInv, TypeOK
  <2>2. rows' \subseteq Row /\ gone' \in [Container -> SUBSET Row]
    BY DEF SeedInv, TypeOK, Drop
  <2>3. changes' \in 0..MaxChanges
    BY SeedAssumption DEF SeedInv, TypeOK, Change
  <2>4. QED
    BY <2>1, <2>2, <2>3 DEF SeedInv, TypeOK, Drop
<1>2. PassedIsThere'
  BY DEF SeedInv, TypeOK, PassedIsThere, Drop
<1>3. PendingIsReady'
  BY DEF SeedInv, PendingIsReady, Drop
<1>4. QED
  BY <1>1, <1>2, <1>3 DEF SeedInv

LEMMA ResetStep == ASSUME SeedInv, ResetPassword PROVE SeedInv'
<1>1. TypeOK'
  BY SeedAssumption DEF SeedInv, TypeOK, Change, ResetPassword
<1>2. (PassedIsThere /\ PendingIsReady)'
  BY DEF SeedInv, PassedIsThere, PendingIsReady, ResetPassword
<1>3. QED
  BY <1>1, <1>2 DEF SeedInv

LEMMA SeedStep == SeedInv /\ [Next]_vars => SeedInv'
<1> SUFFICES ASSUME SeedInv, [Next]_vars PROVE SeedInv'
  OBVIOUS
<1>1. ASSUME NEW c \in Container, Start(c) PROVE SeedInv'
  BY <1>1, StartStep
<1>2. ASSUME NEW c \in Container, Serve(c) \/ Crash(c) PROVE SeedInv'
  BY <1>2, PhaseStep
<1>3. ASSUME NEW c \in Container, NEW row \in Row, Find(c, row) PROVE SeedInv'
  BY <1>3, FindStep
<1>4. ASSUME NEW c \in Container, NEW row \in Row, Insert(c, row) PROVE SeedInv'
  BY <1>4, InsertStep
<1>5. ASSUME NEW p \in Permission, RemovePermission(p) PROVE SeedInv'
  BY <1>5, DropStep DEF RemovePermission, Row
<1>6. CASE SoftDelete
  BY <1>6, DropStep DEF SoftDelete, Row
<1>7. CASE ResetPassword
  BY <1>7, ResetStep
<1>8. CASE UNCHANGED vars
  BY <1>8 DEF vars, SeedInv, TypeOK, PassedIsThere, PendingIsReady
<1>9. QED
  BY <1>1, <1>2, <1>3, <1>4, <1>5, <1>6, <1>7, <1>8 DEF Next

\* seed-roles-permissions.ts:47-174: an instance that serves after its seed has
\* every baseline row that users did not remove meanwhile.
THEOREM ServesWithBaseline == Spec => []PassedIsThere
<1>1. SeedInv => PassedIsThere
  BY DEF SeedInv
<1>2. QED
  BY <1>1, SeedInit, SeedStep, PTL DEF Spec

\* The join rows of the baseline refer to rows that exist.
THEOREM SeedTypeCorrect == Spec => []TypeOK
<1>1. SeedInv => TypeOK
  BY DEF SeedInv
<1>2. QED
  BY <1>1, SeedInit, SeedStep, PTL DEF Spec

\* seed-roles-permissions.ts:140-157: no re-seed, however it overlaps others,
\* restores the configured password of an account that exists.
THEOREM OwnersPasswordSurvives == Spec => PasswordSurvives
<1>1. [Next]_vars => [password = "owner" /\ password' # "owner" => Account \notin rows]_vars
  <2> SUFFICES ASSUME Next, password' # password, password = "owner"
               PROVE  Account \notin rows
    BY DEF vars
  <2>1. ASSUME NEW c \in Container, NEW row \in Row, Insert(c, row) PROVE Account \notin rows
    BY <2>1, SeedAssumption DEF Insert, Save, Accepted
  <2>2. QED
    BY <2>1 DEF Next, Start, Serve, Crash, Find, Look, RemovePermission, SoftDelete, ResetPassword
<1>2. QED
  BY <1>1, PTL DEF Spec, PasswordSurvives
=============================================================================
