---------------------------- MODULE TablesProofs ----------------------------
(***************************************************************************)
(* Theorems about the tables of users, roles and permissions: Accounts,    *)
(* for any sets of requests, addresses and roles; the catalogue C, for any *)
(* requests and names; and the join rows J of one owner, for any requests  *)
(* and rows.                                                               *)
(***************************************************************************)
EXTENDS MCTables, TLAPS

\* Where a request stands says what it is about.
PlacedAt(r) ==
    /\ pc[r] = "idle" => emailOf[r] = None
    /\ pc[r] \in {"insert", "assign", "link", "commit"} =>
          Creates(r) /\ email[r] \in Address /\ emailOf[r] = None
    /\ pc[r] = "reply" => Creates(r)
    /\ pc[r] \in {"link", "commit"} => asked[r] # {}
    /\ pc[r] = "commit" => asked[r] \subseteq roles
    /\ pc[r] \in {"delete", "deleting", "save", "write"} =>
          arg[r] \in Account /\ emailOf[arg[r]] # None
    /\ pc[r] \in {"delete", "deleting"} => kind[r] = "delete"
    /\ pc[r] \in {"save", "write"} => kind[r] = "update"
    /\ pc[r] = "reread" => kind[r] \in {"update", "setRoles"} /\ arg[r] \in Account

Placed == \A r \in Request : PlacedAt(r)

\* A creation whose insert is not committed has its address for itself: the
\* index keeps other inserts, and accounts that come back, waiting.
KeyHeld ==
    \A r \in Request : pc[r] \in {"assign", "link", "commit"} =>
        /\ ~ Live(email[r])
        /\ \A q \in Request \ {r} : ~ Inserted(q, email[r])

AccountsInv == TypeOK /\ Placed /\ KeyHeld /\ OneLiveAccountPerAddress

-----------------------------------------------------------------------------
LEMMA AccountsInit == Init => AccountsInv
<1> SUFFICES ASSUME Init PROVE AccountsInv
  OBVIOUS
<1>1. TypeOK
  BY AccountsAssumption DEF Init, TypeOK, Account, Steps, Answers, Statuses, AllKinds
<1>2. Placed
  BY AccountsAssumption DEF Init, Placed, PlacedAt, Account
<1>3. KeyHeld
  BY DEF Init, KeyHeld
<1>4. OneLiveAccountPerAddress
  BY DEF Init, OneLiveAccountPerAddress, Found
<1>5. QED
  BY <1>1, <1>2, <1>3, <1>4 DEF AccountsInv

\* The steps of a request that leave the tables alone, and the keys it holds as
\* they were or less.
LEMMA LocalStep ==
  ASSUME AccountsInv, NEW r \in Request, UNCHANGED <<table, roles>>,
         TypeOK', PlacedAt(r)',
         \A q \in Request \ {r} : /\ pc'[q] = pc[q] /\ kind'[q] = kind[q]
                                  /\ arg'[q] = arg[q] /\ email'[q] = email[q]
                                  /\ asked'[q] = asked[q],
         pc'[r] \in {"assign", "link", "commit"} =>
             pc[r] \in {"assign", "link", "commit"} /\ email'[r] = email[r]
  PROVE  AccountsInv'
<1>1. Placed'
  BY DEF AccountsInv, Placed, PlacedAt, Creates, table
<1>2. \A a : Live(a)' <=> Live(a)
  BY DEF Live, table
<1>3. \A q \in Request : \A a : Inserted(q, a)' => Inserted(q, a)
  BY DEF Inserted
<1>4. KeyHeld'
  BY <1>2, <1>3 DEF AccountsInv, KeyHeld
<1>5. OneLiveAccountPerAddress'
  BY DEF AccountsInv, OneLiveAccountPerAddress, Found, table
<1>6. QED
  BY <1>1, <1>4, <1>5 DEF AccountsInv

LEMMA LookUpStep ==
  ASSUME AccountsInv, NEW r \in Request, NEW a \in Address, LookUp(r, a)
  PROVE  AccountsInv'
<1>1. TypeOK'
  BY DEF AccountsInv, TypeOK, LookUp, Finish, Go, Account, Steps, Answers, Statuses, table
<1>2. PlacedAt(r)'
  BY DEF AccountsInv, TypeOK, Placed, PlacedAt, LookUp, Finish, Go, Creates, table
<1>3. QED
  BY <1>1, <1>2, LocalStep DEF AccountsInv, TypeOK, LookUp, Finish, Go

LEMMA RefuseStep ==
  ASSUME AccountsInv, NEW r \in Request, pc[r] # "idle",
         NEW how \in Answers, Refuse(r, how), UNCHANGED locals
  PROVE  AccountsInv'
<1>1. TypeOK'
  BY DEF AccountsInv, TypeOK, Refuse, Finish, Steps, table, locals
<1>2. PlacedAt(r)'
  BY DEF AccountsInv, TypeOK, PlacedAt, Refuse, Finish
<1>3. QED
  BY <1>1, <1>2, LocalStep DEF AccountsInv, TypeOK, Refuse, Finish, locals

LEMMA InsertStep ==
  ASSUME AccountsInv, NEW r \in Request, InsertUser(r) PROVE AccountsInv'
<1>1. TypeOK'
  BY DEF AccountsInv, TypeOK, InsertUser, Go, Steps, table, locals
<1>2. Placed'
  BY DEF AccountsInv, TypeOK, Placed, PlacedAt, InsertUser, Go, Creates, table, locals
<1>3. \A b : Live(b)' <=> Live(b)
  BY DEF Live, InsertUser, table
<1>4. \A q \in Request \ {r} : \A b : Inserted(q, b)' <=> Inserted(q, b)
  BY DEF AccountsInv, TypeOK, Inserted, InsertUser, Go, locals
<1>5. ~ Live(email[r]) /\ \A q \in Request \ {r} : ~ Inserted(q, email[r])
  BY DEF InsertUser, InIndex, KeyIsFree
<1>6. ASSUME NEW q \in Request, pc'[q] \in {"assign", "link", "commit"}
      PROVE  (/\ ~ Live(email[q])
              /\ \A p \in Request \ {q} : ~ Inserted(p, email[q]))'
  <2>1. email' = email
    BY DEF InsertUser, locals
  <2>2. CASE q = r
    BY <1>3, <1>4, <1>5, <2>1, <2>2
  <2>3. CASE q # r
    <3>1. pc[q] = pc'[q] /\ Inserted(q, email[q])
      BY <1>6, <2>3 DEF AccountsInv, TypeOK, InsertUser, Go, Inserted
    <3>2. email[q] # email[r]
      BY <1>5, <2>3, <3>1
    <3>3. ~ Live(email[q]) /\ \A p \in Request \ {q} : ~ Inserted(p, email[q])
      BY <1>6, <3>1 DEF AccountsInv, KeyHeld
    <3>4. ~ Inserted(r, email[q])'
      BY <2>1, <3>2 DEF Inserted
    <3>5. QED
      BY <1>3, <1>4, <2>1, <3>3, <3>4
  <2>4. QED
    BY <2>2, <2>3
<1>7. KeyHeld'
  BY <1>6 DEF KeyHeld
<1>8. OneLiveAccountPerAddress'
  BY DEF AccountsInv, OneLiveAccountPerAddress, Found, InsertUser, table
<1>9. QED
  BY <1>1, <1>2, <1>7, <1>8 DEF AccountsInv

\* The other steps inside a creation's transaction, and the first and the middle
\* ones of softDelete and update.
LEMMA InnerStep ==
  ASSUME AccountsInv, NEW r \in Request,
         \/ AssignRoles(r) \/ LinkRoles(r) \/ DeleteRow(r) \/ Save(r)
         \/ \E i \in Account : SoftDelete(r, i) \/ Update(r, i)
  PROVE  AccountsInv'
<1>1. CASE AssignRoles(r)
  <2>1. TypeOK'
    BY <1>1, AccountsAssumption DEF AccountsInv, TypeOK, AssignRoles, Go, Steps, table
  <2>2. PlacedAt(r)'
    BY <1>1 DEF AccountsInv, TypeOK, Placed, PlacedAt, AssignRoles, Go, Creates, table
  <2>3. QED
    BY <1>1, <2>1, <2>2, LocalStep DEF AccountsInv, TypeOK, AssignRoles, Go
<1>2. CASE LinkRoles(r)
  <2>1. TypeOK'
    BY <1>2 DEF AccountsInv, TypeOK, LinkRoles, Go, Steps, table, locals
  <2>2. PlacedAt(r)'
    BY <1>2 DEF AccountsInv, TypeOK, Placed, PlacedAt, LinkRoles, Go, Creates, table, locals
  <2>3. QED
    BY <1>2, <2>1, <2>2, LocalStep DEF AccountsInv, TypeOK, LinkRoles, Go, locals
<1>3. CASE DeleteRow(r)
  <2>1. TypeOK'
    BY <1>3 DEF AccountsInv, TypeOK, DeleteRow, Go, Steps, table, locals
  <2>2. PlacedAt(r)'
    BY <1>3 DEF AccountsInv, TypeOK, Placed, PlacedAt, DeleteRow, Go, table, locals
  <2>3. QED
    BY <1>3, <2>1, <2>2, LocalStep DEF AccountsInv, TypeOK, DeleteRow, Go, locals
<1>4. CASE Save(r)
  <2>1. PICK body \in SUBSET {"name"} :
          /\ diff' = [diff EXCEPT ![r] = Differing(r) \cup body]
          /\ Go(r, IF diff'[r] = {} THEN "reread" ELSE "write")
    BY <1>4 DEF Save
  <2>2. Differing(r) \cup body \in SUBSET {"name", "status", "deletedAt"}
    BY DEF Differing
  <2>3. TypeOK'
    BY <1>4, <2>1, <2>2 DEF AccountsInv, TypeOK, Save, Go, Steps, table
  <2>4. PlacedAt(r)'
    BY <1>4, <2>1 DEF AccountsInv, TypeOK, Placed, PlacedAt, Save, Go, table
  <2>5. QED
    BY <1>4, <2>1, <2>3, <2>4, LocalStep DEF AccountsInv, TypeOK, Save, Go
<1>5. ASSUME NEW i \in Account, SoftDelete(r, i) PROVE AccountsInv'
  <2>1. TypeOK'
    BY <1>5 DEF AccountsInv, TypeOK, SoftDelete, Finish, Go, Steps, Answers, Statuses, table
  <2>2. PlacedAt(r)'
    BY <1>5 DEF AccountsInv, TypeOK, Placed, PlacedAt, SoftDelete, Begin, Finish, Go,
                Found, table
  <2>3. QED
    BY <1>5, <2>1, <2>2, LocalStep DEF AccountsInv, TypeOK, SoftDelete, Finish, Go
<1>6. ASSUME NEW i \in Account, Update(r, i) PROVE AccountsInv'
  <2>1. TypeOK'
    BY <1>6 DEF AccountsInv, TypeOK, Update, Finish, Go, Steps, Answers, Statuses, table
  <2>2. PlacedAt(r)'
    BY <1>6 DEF AccountsInv, TypeOK, Placed, PlacedAt, Update, Begin, Finish, Go,
                FoundByUpdate, Found, table
  <2>3. QED
    BY <1>6, <2>1, <2>2, LocalStep DEF AccountsInv, TypeOK, Update, Finish, Go
<1>7. QED
  BY <1>1, <1>2, <1>3, <1>4, <1>5, <1>6

\* The address of a committed creation is the only one that becomes live, and
\* no other creation holds it.
LEMMA CommitStep ==
  ASSUME AccountsInv, NEW r \in Request, CommitUser(r) PROVE AccountsInv'
<1>1. Inserted(r, email[r]) /\ email[r] \in Address /\ emailOf[r] = None /\ email[r] # None
  BY AccountsAssumption DEF AccountsInv, Placed, PlacedAt, CommitUser, Inserted
<1>2. ~ Live(email[r]) /\ \A q \in Request \ {r} : ~ Inserted(q, email[r])
  BY DEF AccountsInv, KeyHeld, CommitUser
<1>3. r \in Account /\ r \notin deleted
  BY <1>1 DEF AccountsInv, TypeOK, Account
<1>4. TypeOK'
  BY <1>1, <1>3 DEF AccountsInv, TypeOK, Placed, PlacedAt, CommitUser, Go, Appears, Steps,
                    locals
<1>5. Placed'
  BY <1>1 DEF AccountsInv, TypeOK, Placed, PlacedAt, CommitUser, Go, Creates, locals
<1>6. \A b : Live(b)' => Live(b) \/ b = email[r]
  BY DEF AccountsInv, TypeOK, Live, CommitUser, Account
<1>7. \A q \in Request : \A b : Inserted(q, b)' => q # r /\ Inserted(q, b)
  BY DEF AccountsInv, TypeOK, Inserted, CommitUser, Go, locals
<1>8. KeyHeld'
  <2>1. SUFFICES ASSUME NEW q \in Request, Inserted(q, email[q])'
                 PROVE  (/\ ~ Live(email[q])
                         /\ \A p \in Request \ {q} : ~ Inserted(p, email[q]))'
    BY DEF KeyHeld, Inserted
  <2>2. email' = email /\ q # r /\ Inserted(q, email[q])
    BY <1>7, <2>1 DEF CommitUser, locals
  <2>3. email[q] # email[r]
    BY <1>2, <2>2
  <2>4. ~ Live(email[q]) /\ \A p \in Request \ {q} : ~ Inserted(p, email[q])
    BY <2>2 DEF AccountsInv, KeyHeld, Inserted
  <2>5. QED
    BY <1>6, <1>7, <2>2, <2>3, <2>4
<1>9. OneLiveAccountPerAddress'
  BY <1>2, <1>3 DEF AccountsInv, TypeOK, OneLiveAccountPerAddress, Found, Live, CommitUser
<1>10. QED
  BY <1>4, <1>5, <1>8, <1>9 DEF AccountsInv

LEMMA DeleteStep ==
  ASSUME AccountsInv, NEW r \in Request, DeleteCommit(r) PROVE AccountsInv'
<1>1. TypeOK'
  BY DEF AccountsInv, TypeOK, Placed, PlacedAt, DeleteCommit, Finish, Outdates, Steps,
         Answers, Statuses, locals
<1>2. Placed'
  BY DEF AccountsInv, TypeOK, Placed, PlacedAt, DeleteCommit, Finish, Creates, locals
<1>3. \A b : Live(b)' => Live(b)
  BY DEF Live, DeleteCommit
<1>4. \A q \in Request : \A b : Inserted(q, b)' => Inserted(q, b)
  BY DEF AccountsInv, TypeOK, Inserted, DeleteCommit, Finish, locals
<1>5. email' = email
  BY DEF DeleteCommit, locals
<1>6. KeyHeld'
  BY <1>3, <1>4, <1>5 DEF AccountsInv, KeyHeld, Inserted
<1>7. OneLiveAccountPerAddress'
  BY DEF AccountsInv, OneLiveAccountPerAddress, Found, DeleteCommit
<1>8. QED
  BY <1>1, <1>2, <1>6, <1>7 DEF AccountsInv

\* A write revives an account only when its address is in nobody's hands.
LEMMA WriteStep ==
  ASSUME AccountsInv, NEW r \in Request, Write(r) PROVE AccountsInv'
<1>1. pc[r] = "write" /\ arg[r] \in Account /\ emailOf[arg[r]] # None
  BY DEF AccountsInv, Placed, PlacedAt, Write, Writable
<1>2. TypeOK'
  BY <1>1 DEF AccountsInv, TypeOK, Write, Go, Appears, Outdates, Steps, locals
<1>3. Placed'
  <2>1. /\ pc' = [pc EXCEPT ![r] = "reread"] /\ pc \in [Request -> Steps]
        /\ UNCHANGED <<emailOf, roles, kind, arg, email, asked>>
        /\ Placed
    BY DEF Write, Go, locals, AccountsInv, TypeOK
  <2>2. QED
    BY <1>1, <2>1 DEF Placed, PlacedAt, Creates
<1>4. \A q \in Request : \A b : Inserted(q, b)' <=> Inserted(q, b)
  BY <1>1 DEF AccountsInv, TypeOK, Inserted, Write, Go, locals
<1>5. email' = email
  BY DEF Write, locals
<1>6. CASE ~ Revives(r)
  <2>1. \A b : Live(b)' <=> Live(b)
    BY <1>6 DEF Live, Write
  <2>2. KeyHeld'
    BY <1>4, <1>5, <2>1 DEF AccountsInv, KeyHeld, Inserted
  <2>3. OneLiveAccountPerAddress'
    BY <1>6 DEF AccountsInv, OneLiveAccountPerAddress, Found, Write
  <2>4. QED
    BY <1>2, <1>3, <2>2, <2>3 DEF AccountsInv
<1>7. CASE Revives(r)
  <2>1. ~ Live(emailOf[arg[r]]) /\ \A q \in Request \ {r} : ~ Inserted(q, emailOf[arg[r]])
    BY <1>7 DEF Write, Writable, KeyIsFree, InIndex
  <2>2. \A q \in Request : ~ Inserted(q, emailOf[arg[r]])
    BY <1>1, <2>1 DEF Inserted
  <2>3. \A b : Live(b)' => Live(b) \/ b = emailOf[arg[r]]
    BY <1>7 DEF Live, Write
  <2>4. KeyHeld'
    <3>1. SUFFICES ASSUME NEW q \in Request, Inserted(q, email[q])'
                   PROVE  (/\ ~ Live(email[q])
                           /\ \A p \in Request \ {q} : ~ Inserted(p, email[q]))'
      BY DEF KeyHeld, Inserted
    <3>2. Inserted(q, email[q])
      BY <1>4, <1>5, <3>1
    <3>3. ~ Live(email[q]) /\ \A p \in Request \ {q} : ~ Inserted(p, email[q])
      BY <3>2 DEF AccountsInv, KeyHeld, Inserted
    <3>4. email[q] # emailOf[arg[r]]
      BY <2>2, <3>2
    <3>5. QED
      BY <1>4, <1>5, <2>3, <3>3, <3>4
  <2>5. OneLiveAccountPerAddress'
    BY <1>1, <1>7, <2>1 DEF AccountsInv, TypeOK, OneLiveAccountPerAddress, Found, Live, Write
  <2>6. QED
    BY <1>2, <1>3, <2>4, <2>5 DEF AccountsInv
<1>8. QED
  BY <1>6, <1>7

LEMMA SetRolesStep ==
  ASSUME AccountsInv, NEW r \in Request, NEW i \in Account, NEW S \in SUBSET Role,
         SetRoles(r, i, S)
  PROVE  AccountsInv'
<1>1. TypeOK'
  BY DEF AccountsInv, TypeOK, SetRoles, Finish, Go, Steps, Answers, Statuses
<1>2. Placed'
  BY DEF AccountsInv, TypeOK, Placed, PlacedAt, SetRoles, Begin, Finish, Go, Creates
<1>3. \A b : Live(b)' <=> Live(b)
  BY DEF Live, SetRoles
<1>4. \A q \in Request : \A b : Inserted(q, b)' => Inserted(q, b)
  BY DEF AccountsInv, TypeOK, Inserted, SetRoles, Finish, Go
<1>5. KeyHeld'
  BY <1>3, <1>4 DEF AccountsInv, KeyHeld, Inserted, SetRoles
<1>6. OneLiveAccountPerAddress'
  BY DEF AccountsInv, OneLiveAccountPerAddress, Found, SetRoles
<1>7. QED
  BY <1>1, <1>2, <1>5, <1>6 DEF AccountsInv

\* A role that an uncommitted row refers to is locked.
LEMMA RemoveStep ==
  ASSUME AccountsInv, NEW x \in Role, RemoveRole(x) PROVE AccountsInv'
<1>1. TypeOK'
  BY DEF AccountsInv, TypeOK, RemoveRole, locals
<1>2. Placed'
  BY DEF AccountsInv, TypeOK, Placed, PlacedAt, RemoveRole, RoleIsFree, Creates, locals
<1>3. KeyHeld'
  BY DEF AccountsInv, KeyHeld, Live, Inserted, RemoveRole, locals
<1>4. OneLiveAccountPerAddress'
  BY DEF AccountsInv, OneLiveAccountPerAddress, Found, RemoveRole
<1>5. QED
  BY <1>1, <1>2, <1>3, <1>4 DEF AccountsInv

LEMMA RefusedStep ==
  ASSUME AccountsInv, NEW r \in Request,
         \/ InsertRefused(r) \/ AssignRefused(r) \/ LinkRefused(r) \/ Reply(r)
         \/ WriteRefused(r) \/ ReadBack(r) \/ Drop(r)
  PROVE  AccountsInv'
<1>1. PICK how \in Answers : pc[r] # "idle" /\ Refuse(r, how) /\ UNCHANGED locals
  BY DEF InsertRefused, AssignRefused, LinkRefused, Reply, WriteRefused, ReadBack, Drop,
         OnUniqueViolation, RollBack, Writable, Answers,
         Statuses
<1>2. QED
  BY <1>1, RefuseStep

LEMMA AccountsStep == AccountsInv /\ [Next]_vars => AccountsInv'
<1> SUFFICES ASSUME AccountsInv, [Next]_vars PROVE AccountsInv'
  OBVIOUS
<1>1. ASSUME NEW r \in Request, NEW a \in Address, LookUp(r, a) PROVE AccountsInv'
  BY <1>1, LookUpStep
<1>2. ASSUME NEW r \in Request, NEW i \in Account, SoftDelete(r, i) \/ Update(r, i)
      PROVE  AccountsInv'
  BY <1>2, InnerStep
<1>3. ASSUME NEW r \in Request, NEW i \in Account, NEW S \in SUBSET Role,
             SetRoles(r, i, S)
      PROVE  AccountsInv'
  BY <1>3, SetRolesStep
<1>4. ASSUME NEW r \in Request, Proceed(r) PROVE AccountsInv'
  BY <1>4, InsertStep, InnerStep, CommitStep, DeleteStep, WriteStep, RefusedStep DEF Proceed
<1>5. ASSUME NEW r \in Request, Drop(r) PROVE AccountsInv'
  BY <1>5, RefusedStep
<1>6. ASSUME NEW x \in Role, RemoveRole(x) PROVE AccountsInv'
  BY <1>6, RemoveStep
<1>7. CASE UNCHANGED vars
  BY <1>7 DEF vars, table, locals, AccountsInv, TypeOK, Placed, PlacedAt, Creates, KeyHeld,
              Live, Inserted, OneLiveAccountPerAddress, Found
<1>8. QED
  BY <1>1, <1>2, <1>3, <1>4, <1>5, <1>6, <1>7 DEF Next

LEMMA AccountsAlways == Spec => []AccountsInv
  BY AccountsInit, AccountsStep, PTL DEF Spec

\* TypeOK: the tables keep their references - roles granted exist, deleted rows
\* are rows - for every number of requests.
THEOREM TypeCorrect == Spec => []TypeOK
<1>1. AccountsInv => TypeOK
  BY DEF AccountsInv
<1>2. QED
  BY <1>1, AccountsAlways, PTL

\* Two accounts that are not deleted never have one address: a creation between
\* its insert and its commit holds the key alone, and so does a write that
\* brings a deleted account back.
THEOREM OneAccountPerAddress == Spec => []OneLiveAccountPerAddress
<1>1. AccountsInv => OneLiveAccountPerAddress
  BY DEF AccountsInv
<1>2. QED
  BY <1>1, AccountsAlways, PTL

-----------------------------------------------------------------------------
\* A request without an answer is not done, and a creation whose address is
\* live when its insert comes has seen it taken.
Answered == \A r \in Request : pc[r] # "done" => answer[r] = None

TakenBeforeInsert ==
    \A r \in Request : pc[r] = "insert" /\ Live(email[r]) => r \in taken

HistoryInv ==
    /\ Answered /\ TakenBeforeInsert
    /\ ConflictsAreReal /\ LosersGetConflict /\ RefusalsLeaveNothing

\* The steps of one request.
Step(r) ==
    \/ \E a \in Address : LookUp(r, a)
    \/ \E i \in Account : SoftDelete(r, i) \/ Update(r, i)
    \/ \E i \in Account, S \in SUBSET Role : SetRoles(r, i, S)
    \/ Proceed(r)
    \/ Drop(r)

\* What a step of r leaves of the other requests.
OthersKept(r) ==
    /\ UNCHANGED <<kind, roles>> /\ taken \subseteq taken' /\ pc[r] # "done"
    /\ \A q \in Request \ {r} :
          UNCHANGED <<pc[q], email[q], asked[q], answer[q], emailOf[q], arg[q], entity[q],
                      sets[q], diff[q]>>

\* A step of r gives no answer, or one that the claims about answers allow.
Truthful(r) ==
    \/ pc'[r] # "done" /\ answer'[r] = answer[r]
    \/ /\ pc'[r] = "done"
       /\ answer'[r] = "conflict" => r \in taken'
       /\ Creates(r) /\ answer'[r] = "error" => ~ (asked'[r] \subseteq roles')
       /\ Creates(r) /\ answer'[r] \in {"conflict", "badRequest", "error"} =>
             emailOf'[r] = None

\* An address that becomes live is noted for the creations waiting to insert it.
Noted(r) ==
    \A q \in Request : pc'[q] = "insert" /\ Live(email[q])' =>
        q \in taken' \/ (pc[q] = "insert" /\ email'[q] = email[q] /\ Live(email[q]))

LEMMA HistoryInit == Init => HistoryInv
  BY AccountsAssumption DEF Init, Statuses, HistoryInv, Answered, TakenBeforeInsert, ConflictsAreReal,
     LosersGetConflict, RefusalsLeaveNothing

LEMMA StartsTruthful ==
  ASSUME AccountsInv, HistoryInv, NEW r \in Request,
         \/ \E a \in Address : LookUp(r, a)
         \/ \E i \in Account : SoftDelete(r, i) \/ Update(r, i)
         \/ \E i \in Account, S \in SUBSET Role : SetRoles(r, i, S)
  PROVE  OthersKept(r) /\ Truthful(r) /\ Noted(r)
<1>1. ASSUME NEW a \in Address, LookUp(r, a) PROVE OthersKept(r) /\ Truthful(r) /\ Noted(r)
  <2>1. OthersKept(r)
    BY <1>1 DEF AccountsInv, TypeOK, OthersKept, LookUp, Go, Finish, table
  <2>2. Truthful(r)
    BY <1>1 DEF AccountsInv, TypeOK, Placed, PlacedAt, Truthful, LookUp, Go, Finish, table
  <2>3. Noted(r)
    BY <1>1 DEF AccountsInv, TypeOK, Noted, Live, LookUp, Go, Finish, table
  <2>4. QED
    BY <2>1, <2>2, <2>3
<1>2. ASSUME NEW i \in Account, SoftDelete(r, i) \/ Update(r, i)
      PROVE  OthersKept(r) /\ Truthful(r) /\ Noted(r)
  <2>1. OthersKept(r)
    BY <1>2 DEF AccountsInv, TypeOK, OthersKept, SoftDelete, Update, Begin, Go, Finish, table
  <2>2. Truthful(r)
    BY <1>2 DEF AccountsInv, TypeOK, Truthful, Creates, SoftDelete, Update, Begin, Go, Finish
  <2>3. Noted(r)
    BY <1>2 DEF AccountsInv, TypeOK, Noted, Live, SoftDelete, Update, Go, Finish, table
  <2>4. QED
    BY <2>1, <2>2, <2>3
<1>3. ASSUME NEW i \in Account, NEW S \in SUBSET Role, SetRoles(r, i, S)
      PROVE  OthersKept(r) /\ Truthful(r) /\ Noted(r)
  <2>1. OthersKept(r)
    BY <1>3 DEF AccountsInv, TypeOK, OthersKept, SetRoles, Begin, Go, Finish
  <2>2. Truthful(r)
    BY <1>3 DEF AccountsInv, TypeOK, Truthful, Creates, SetRoles, Begin, Go, Finish
  <2>3. Noted(r)
    BY <1>3 DEF AccountsInv, TypeOK, Noted, Live, SetRoles, Go, Finish
  <2>4. QED
    BY <2>1, <2>2, <2>3
<1>4. QED
  BY <1>1, <1>2, <1>3

\* The steps that go on without an answer.
LEMMA GoingOnTruthful ==
  ASSUME AccountsInv, HistoryInv, NEW r \in Request,
         \/ InsertUser(r) \/ AssignRoles(r) \/ LinkRoles(r) \/ CommitUser(r)
         \/ DeleteRow(r) \/ Save(r) \/ Write(r)
  PROVE  OthersKept(r) /\ Truthful(r) /\ Noted(r)
<1>1. /\ OthersKept(r) /\ Truthful(r)
      /\ email' = email /\ pc'[r] # "insert"
      /\ pc[r] \notin {"idle", "done"}
  <2> USE DEF AccountsInv, TypeOK, OthersKept, Truthful, Go, table, locals
  <2>1. CASE InsertUser(r) \/ AssignRoles(r) \/ LinkRoles(r) \/ DeleteRow(r)
    BY <2>1 DEF InsertUser, AssignRoles, LinkRoles, DeleteRow
  <2>2. CASE CommitUser(r)
    BY <2>2 DEF CommitUser, Appears
  <2>3. CASE Save(r)
    BY <2>3 DEF Save
  <2>4. CASE Write(r)
    BY <2>4 DEF Write, Writable, Appears
  <2>5. QED
    BY <2>1, <2>2, <2>3, <2>4
<1>2. CASE CommitUser(r)
  <2>1. \A b : Live(b)' => Live(b) \/ b = email[r]
    BY <1>2 DEF AccountsInv, TypeOK, Live, CommitUser, Account
  <2>2. \A q \in Request : pc[q] = "insert" /\ email[q] = email[r] => q \in taken'
    BY <1>2 DEF AccountsInv, Placed, PlacedAt, CommitUser, Appears
  <2>3. QED
    BY <1>1, <2>1, <2>2 DEF Noted, OthersKept
<1>3. CASE Write(r)
  <2>1. \A b : Live(b)' => Live(b) \/ (Revives(r) /\ b = emailOf[arg[r]])
    BY <1>3 DEF Live, Write
  <2>2. Revives(r) =>
            \A q \in Request : pc[q] = "insert" /\ email[q] = emailOf[arg[r]] => q \in taken'
    BY <1>3 DEF AccountsInv, Placed, PlacedAt, Write, Writable, Appears
  <2>3. QED
    BY <1>1, <2>1, <2>2 DEF Noted, OthersKept
<1>4. CASE ~ CommitUser(r) /\ ~ Write(r)
  <2>1. \A b : Live(b)' <=> Live(b)
    BY <1>4 DEF Live, InsertUser, AssignRoles, LinkRoles, DeleteRow, Save, table
  <2>2. QED
    BY <1>1, <2>1 DEF Noted, OthersKept
<1>5. QED
  BY <1>2, <1>3, <1>4

\* The steps that answer.
LEMMA AnswersTruthful ==
  ASSUME AccountsInv, HistoryInv, NEW r \in Request,
         \/ InsertRefused(r) \/ AssignRefused(r) \/ LinkRefused(r) \/ Reply(r)
         \/ DeleteCommit(r) \/ WriteRefused(r) \/ ReadBack(r) \/ Drop(r)
  PROVE  OthersKept(r) /\ Truthful(r) /\ Noted(r)
<1>1. OthersKept(r) /\ email' = email /\ pc'[r] = "done"
  BY DEF AccountsInv, TypeOK, OthersKept, InsertRefused, AssignRefused, LinkRefused, Reply,
         DeleteCommit, WriteRefused, Writable, ReadBack, Drop, RollBack, Refuse, Finish,
         table, locals
<1>2. \A b : Live(b)' => Live(b)
  BY DEF Live, InsertRefused, AssignRefused, LinkRefused, Reply, DeleteCommit, WriteRefused,
         ReadBack, Drop, RollBack, Refuse, table
<1>3. Noted(r)
  BY <1>1, <1>2 DEF Noted, OthersKept
<1>4. Truthful(r)
  <2> USE DEF AccountsInv, TypeOK, Truthful, Placed, PlacedAt, Creates, Refuse, Finish,
              table, locals
  <2>1. CASE InsertRefused(r)
    BY <1>1, <2>1 DEF HistoryInv, TakenBeforeInsert, InsertRefused, InIndex, OnUniqueViolation
  <2>2. CASE AssignRefused(r) \/ LinkRefused(r)
    BY <1>1, <2>2 DEF AssignRefused, LinkRefused, RollBack
  <2>3. CASE Reply(r) \/ DeleteCommit(r) \/ Drop(r)
    BY <1>1, <2>3 DEF Reply, DeleteCommit, Drop
  <2>4. CASE WriteRefused(r) \/ ReadBack(r)
    BY <1>1, <2>4 DEF WriteRefused, Writable, ReadBack
  <2>5. QED
    BY <2>1, <2>2, <2>3, <2>4
<1>5. QED
  BY <1>1, <1>3, <1>4

LEMMA HistoryStep == AccountsInv /\ HistoryInv /\ [Next]_vars => HistoryInv'
<1> SUFFICES ASSUME AccountsInv, HistoryInv, [Next]_vars PROVE HistoryInv'
  OBVIOUS
<1>1. ASSUME NEW r \in Request, Step(r) PROVE HistoryInv'
  <2>1. OthersKept(r) /\ Truthful(r) /\ Noted(r)
    BY <1>1, StartsTruthful, GoingOnTruthful, AnswersTruthful DEF Step, Proceed
  <2>2. Answered'
    BY <2>1 DEF HistoryInv, Answered, OthersKept, Truthful
  <2>3. TakenBeforeInsert'
    BY <2>1 DEF HistoryInv, TakenBeforeInsert, OthersKept, Noted
  <2>4. ConflictsAreReal'
    BY <2>1 DEF HistoryInv, Answered, ConflictsAreReal, OthersKept, Truthful
  <2>5. LosersGetConflict'
    BY <2>1, AccountsAssumption DEF HistoryInv, Answered, LosersGetConflict, OthersKept, Truthful,
                Creates, Statuses
  <2>6. RefusalsLeaveNothing'
    BY <2>1, AccountsAssumption DEF HistoryInv, Answered, RefusalsLeaveNothing, OthersKept, Truthful,
                Creates, Statuses
  <2>7. QED
    BY <2>2, <2>3, <2>4, <2>5, <2>6 DEF HistoryInv
<1>2. ASSUME NEW x \in Role, RemoveRole(x) PROVE HistoryInv'
  BY <1>2 DEF HistoryInv, Answered, TakenBeforeInsert, ConflictsAreReal, LosersGetConflict,
              RefusalsLeaveNothing, Live, Creates, RemoveRole, locals
<1>3. CASE UNCHANGED vars
  BY <1>3 DEF HistoryInv, Answered, TakenBeforeInsert, ConflictsAreReal, LosersGetConflict,
              RefusalsLeaveNothing, Live, Creates, vars, table, locals
<1>4. QED
  BY <1>1, <1>2, <1>3 DEF Next, Step

LEMMA HistoryAlways == Spec => []HistoryInv
<1>1. Init => HistoryInv
  BY HistoryInit
<1>2. QED
  BY <1>1, HistoryStep, AccountsAlways, PTL DEF Spec

\* "Email is already registered" is told only to a creation during which an
\* account that was not deleted had the address.
THEOREM ConflictsReal == Spec => []ConflictsAreReal
<1>1. HistoryInv => ConflictsAreReal
  BY DEF HistoryInv
<1>2. QED
  BY <1>1, HistoryAlways, PTL

\* A creation that loses the race for its address is told so: an internal error
\* comes only of a role that was removed meanwhile.
THEOREM LosersTold == Spec => []LosersGetConflict
<1>1. HistoryInv => LosersGetConflict
  BY DEF HistoryInv
<1>2. QED
  BY <1>1, HistoryAlways, PTL

\* A refused creation leaves no account, however far its transaction got.
THEOREM NothingLeft == Spec => []RefusalsLeaveNothing
<1>1. HistoryInv => RefusalsLeaveNothing
  BY DEF HistoryInv
<1>2. QED
  BY <1>1, HistoryAlways, PTL

-----------------------------------------------------------------------------
\* An account appears with the roles it was created with, all of them existing:
\* the key of an uncommitted row keeps its role from being removed.
THEOREM RolesFromTheStart == Spec => NewAccountsHaveRoles
<1>1. ASSUME AccountsInv, [Next]_vars, NEW i \in Account,
             emailOf[i] = None, emailOf'[i] # None
      PROVE  granted'[i] # {} /\ granted'[i] \subseteq roles'
  <2>1. PICK r \in Request : CommitUser(r)
    BY <1>1 DEF Next, Proceed, LookUp, SoftDelete, Update, SetRoles, Drop, RemoveRole,
                InsertUser, InsertRefused, AssignRoles, AssignRefused, LinkRoles,
                LinkRefused, Reply, DeleteRow, DeleteCommit, Save, Write, WriteRefused,
                ReadBack, RollBack, Refuse, vars, table
  <2>2. i = r
    BY <1>1, <2>1 DEF AccountsInv, TypeOK, CommitUser
  <2>3. granted'[i] = asked[r] /\ roles' = roles
    BY <1>1, <2>1, <2>2 DEF AccountsInv, TypeOK, CommitUser
  <2>4. QED
    BY <1>1, <2>1, <2>3 DEF AccountsInv, Placed, PlacedAt, CommitUser
<1>2. AccountsInv /\ [Next]_vars =>
          [\A i \in Account : emailOf[i] = None /\ emailOf'[i] # None =>
               granted'[i] # {} /\ granted'[i] \subseteq roles']_vars
  BY <1>1
<1>3. QED
  BY <1>2, AccountsAlways, PTL DEF Spec, NewAccountsHaveRoles

\* What an update that nobody overtook holds agrees with the table, but for
\* what its body names.
Current ==
    \A r \in Request \ stale : pc[r] \in {"save", "write"} =>
        /\ arg[r] \notin deleted
        /\ sets[r] \/ (entity[r] <=> arg[r] \in suspended)

LEMMA CurrentStep == AccountsInv /\ Current /\ HistoryInv /\ [Next]_vars => Current'
<1> SUFFICES ASSUME AccountsInv, Current, HistoryInv, [Next]_vars PROVE Current'
  OBVIOUS
<1>1. ASSUME NEW r \in Request, NEW i \in Account, Update(r, i) PROVE Current'
  <2>1. PICK named \in BOOLEAN, status \in BOOLEAN :
          /\ ~ named => status = (i \in suspended)
          /\ sets' = [sets EXCEPT ![r] = named]
          /\ entity' = [entity EXCEPT ![r] = status]
          /\ \/ named /\ Finish(r, "badRequest")
             \/ ~ FoundByUpdate(i) /\ Finish(r, "notFound")
             \/ FoundByUpdate(i) /\ Go(r, "save")
    BY <1>1 DEF Update
  <2>2. /\ deleted' = deleted /\ suspended' = suspended /\ stale' = stale
        /\ arg' = [arg EXCEPT ![r] = i]
    BY <1>1 DEF Update, table
  <2>3. sets'[r] = named /\ entity'[r] = status /\ arg'[r] = i
    BY <2>1, <2>2 DEF AccountsInv, TypeOK
  <2>4. pc'[r] \in {"save", "write"} =>
            arg'[r] \notin deleted' /\ (sets'[r] \/ (entity'[r] <=> arg'[r] \in suspended'))
    BY <2>1, <2>2, <2>3 DEF FoundByUpdate, Found, Finish, Go, AccountsInv, TypeOK
  <2>5. OthersKept(r)
    BY <1>1, StartsTruthful
  <2>6. QED
    BY <2>2, <2>4, <2>5 DEF Current, OthersKept
<1>2. ASSUME NEW r \in Request, DeleteCommit(r) \/ Write(r) PROVE Current'
  <2>1. OthersKept(r) /\ pc'[r] \notin {"save", "write"}
    BY <1>2, GoingOnTruthful, AnswersTruthful
       DEF AccountsInv, TypeOK, DeleteCommit, Write, Go, Finish
  <2>2. ASSUME NEW q \in Request \ {r}, q \notin stale', pc'[q] \in {"save", "write"}
        PROVE  (arg[q] \in deleted)' = (arg[q] \in deleted)
               /\ (arg[q] \in suspended)' = (arg[q] \in suspended) /\ q \notin stale
    BY <1>2, <2>1, <2>2 DEF OthersKept, DeleteCommit, Write, Outdates
  <2>3. QED
    BY <2>1, <2>2 DEF Current, OthersKept
<1>3. ASSUME NEW r \in Request, Save(r) PROVE Current'
  BY <1>3 DEF AccountsInv, TypeOK, Current, Save, Go, table
<1>4. ASSUME NEW r \in Request, Step(r), ~ Save(r), ~ DeleteCommit(r), ~ Write(r),
             \A i \in Account : ~ Update(r, i)
      PROVE  Current'
  <2>1. OthersKept(r)
    BY <1>4, StartsTruthful, GoingOnTruthful, AnswersTruthful DEF Step, Proceed
  <2>2. deleted' = deleted /\ suspended' = suspended /\ stale' = stale
    BY <1>4 DEF Step, Proceed, LookUp, SoftDelete, SetRoles, Drop, InsertUser, InsertRefused,
                AssignRoles, AssignRefused, LinkRoles, LinkRefused, CommitUser, Reply,
                DeleteRow, WriteRefused, ReadBack, RollBack, Refuse, table
  <2>3. pc'[r] \notin {"save", "write"}
    BY <1>4 DEF AccountsInv, TypeOK, Step, Proceed, LookUp, SoftDelete, SetRoles, Drop,
                InsertUser, InsertRefused, AssignRoles, AssignRefused, LinkRoles,
                LinkRefused, CommitUser, Reply, DeleteRow, WriteRefused, ReadBack, RollBack,
                Refuse, Go, Finish
  <2>4. QED
    BY <2>1, <2>2, <2>3 DEF Current, OthersKept
<1>5. ASSUME NEW x \in Role, RemoveRole(x) PROVE Current'
  BY <1>5 DEF Current, RemoveRole, locals
<1>6. CASE UNCHANGED vars
  BY <1>6 DEF Current, vars, table, locals
<1>7. QED
  BY <1>1, <1>2, <1>3, <1>4, <1>5, <1>6 DEF Next, Step

LEMMA CurrentInit == Init => Current
  BY DEF Init, Current

LEMMA CurrentAlways == Spec => []Current
  BY CurrentInit, CurrentStep, HistoryAlways, AccountsAlways, PTL DEF Spec

\* An update whose account nobody changed since it was read undeletes nothing
\* and changes the status only when its body named it.
THEOREM UpdatesOverwriteOnlyWhenStale == Spec => OnlyStaleUpdatesOverwrite
<1>1. ASSUME AccountsInv, Current, NEW r \in Request \ stale, Write(r)
      PROVE  deleted' = deleted /\ (sets[r] \/ suspended' = suspended)
  <2>1. arg[r] \notin deleted /\ (sets[r] \/ (entity[r] <=> arg[r] \in suspended))
    BY <1>1 DEF Current, Write, Writable
  <2>2. deleted' = deleted
    BY <1>1, <2>1 DEF Write, Revives
  <2>3. ~ sets[r] => suspended' = suspended
    BY <1>1, <2>1 DEF Write
  <2>4. QED
    BY <2>2, <2>3
<1>2. AccountsInv /\ Current /\ [Next]_vars =>
          [\A r \in Request \ stale : Write(r) =>
               /\ deleted' = deleted
               /\ sets[r] \/ suspended' = suspended]_vars
  BY <1>1
<1>3. QED
  BY <1>2, AccountsAlways, CurrentAlways, PTL DEF Spec, OnlyStaleUpdatesOverwrite

-----------------------------------------------------------------------------
\* The items there ever were: of the requests, those that created one.
Born(p) ==
    /\ C!Creates(p)
    /\ \/ itemPc[p] = "reply"
       \/ itemPc[p] = "done" /\ itemAnswer[p] \notin {"conflict", "error"}

Working(r) == itemPc[r] \in {"check", "save", "write", "affected", "reply"}
Races(r)   == itemPc[r] \in {"check", "save", "write"}

\* Where a request of the catalogue stands says what it is about, whom it raced for
\* its name, and what an update that nobody overtook still finds.
ItemAt(r) ==
    LET i == itemArg[r] IN
    /\ Working(r) => i \in C!Item \ {SystemRole}
    /\ Working(r) /\ i \in Request \ {r} => Born(i)
    /\ C!Exists(r) => Born(r)
    /\ itemPc[r] \in {"check", "save"} => C!Updates(r)
    /\ itemPc[r] = "check" => C!OfRoles(r)
    /\ itemPc[r] = "write" => C!Updates(r) \/ C!Creates(r)
    /\ Working(r) /\ C!Creates(r) => itemPc[r] \in {"write", "reply"}
    /\ Working(r) => (C!Creates(r) <=> i = r)
    /\ itemPc[r] # "done" => itemAnswer[r] = None
    /\ Races(r) => wanted[r] \in C!Name
    /\ Races(r) /\ C!TakenBy(wanted[r]) \ {i} # {} => r \in rivalled
    /\ C!Updates(r) /\ Races(r) /\ r \notin itemStale =>
          /\ C!Exists(i)
          /\ itemPc[r] = "check" => name[i] # wanted[r]
          /\ itemPc[r] = "save" /\ itemKind[r] = "updatePermission" => name[i] = wanted[r]
          /\ itemPc[r] = "write" => ~ insert[r] /\ itemKind[r] # "updatePermission"

\* NameConflictsAreReal, of one request.
ToldAt(r) ==
    /\ itemAnswer[r] = "conflict" => r \in rivalled \/ (C!Updates(r) /\ r \in itemStale)
    /\ itemAnswer[r] = "error" => itemKind[r] = "updatePermission" /\ r \in itemStale

CatalogueInv == C!TypeOK /\ \A r \in Request : ItemAt(r) /\ ToldAt(r)

LEMMA CatalogueInit == C!Init => CatalogueInv
<1> SUFFICES ASSUME C!Init PROVE CatalogueInv
  OBVIOUS
<1> USE TablesAssumption DEF C!Init, C!CatalogueAssumption, C!Given, C!Item, C!Name, C!Answers
<1>1. C!TypeOK
  BY DEF C!TypeOK
<1>2. \A r \in Request : ItemAt(r) /\ ToldAt(r)
  BY DEF ItemAt, ToldAt, Working, Races, C!Exists
<1>3. QED
  BY <1>1, <1>2 DEF CatalogueInv

\* What the steps of r leave to the others.
ItemsKept(r) ==
    \A q \in Request \ {r} :
        UNCHANGED <<itemPc[q], itemKind[q], itemArg[q], wanted[q], insert[q], itemAnswer[q]>>

\* Who has created an item has created it for good.
LEMMA BornKept ==
  ASSUME CatalogueInv, NEW r \in Request, ItemsKept(r), Born(r) => Born(r)',
         NEW p \in Request, Born(p)
  PROVE  Born(p)'
  BY DEF Born, ItemsKept, C!Creates

\* The steps that change no row.
LEMMA ItemLocalStep ==
  ASSUME CatalogueInv, NEW r \in Request, UNCHANGED <<name, itemStale>>, ItemsKept(r),
         \A q \in Request \ {r} : q \in rivalled' <=> q \in rivalled,
         Born(r) => Born(r)', C!TypeOK', ItemAt(r)', ToldAt(r)'
  PROVE  CatalogueInv'
<1>1. ASSUME NEW q \in Request, q # r PROVE ItemAt(q)' /\ ToldAt(q)'
  <2>1. ItemAt(q) /\ ToldAt(q)
    BY DEF CatalogueInv
  <2>2. Working(q)' /\ itemArg'[q] \in Request \ {q} => Born(itemArg[q])'
    BY <1>1, <2>1, BornKept DEF ItemAt, ItemsKept, Working
  <2>3. UNCHANGED <<C!Updates(q), C!OfRoles(q), C!Creates(q), C!Exists(q), Working(q), Races(q),
                    C!TakenBy(wanted[q]), C!Exists(itemArg[q]), Born(q), itemArg[q]>>
    BY <1>1 DEF ItemsKept, C!Updates, C!OfRoles, C!Creates, C!Exists, C!TakenBy, Working, Races,
                Born
  <2>4. ItemAt(q)'
    BY <1>1, <2>1, <2>2, <2>3 DEF ItemAt, ItemsKept
  <2>5. ToldAt(q)'
    BY <1>1, <2>1, <2>3 DEF ToldAt, ItemsKept
  <2>6. QED
    BY <2>4, <2>5
<1>2. QED
  BY <1>1 DEF CatalogueInv

\* The row of arg[r] gets a name, or goes: who raced for the name is rivalled, and who
\* had read the row is overtaken.
LEMMA SetNameStep ==
  ASSUME CatalogueInv, NEW r \in Request, NEW n \in C!Name \cup {None},
         C!SetName(r, itemArg[r], n), itemArg[r] \in C!Item \ {SystemRole},
         ItemsKept(r), Born(r) => Born(r)', C!TypeOK', Working(r),
         itemPc'[r] \in {"reply", "done"}, UNCHANGED <<itemArg[r], itemKind[r]>>,
         itemArg[r] = r => Born(r)',
         itemAnswer'[r] \notin {"conflict", "error"},
         itemPc'[r] = "reply" => itemAnswer'[r] = None
  PROVE  CatalogueInv'
<1> DEFINE i == itemArg[r]
<1>1. /\ name' = [name EXCEPT ![i] = n] /\ name \in [C!Item -> C!Name \cup {None}]
      /\ itemStale' = IF n = name[i] THEN itemStale
                      ELSE itemStale \cup {q \in C!Racing \ {r} : itemArg[q] = i}
      /\ rivalled' = rivalled \cup {q \in C!Racing : itemArg[q] # i /\ wanted[q] = n}
  BY DEF C!SetName, CatalogueInv, C!TypeOK
<1>2. i \in Request => Born(i)'
  <2>1. i \in Request \ {r} => Born(i)
    BY DEF CatalogueInv, ItemAt
  <2>2. QED
    BY <2>1, BornKept
<1>3. ASSUME NEW q \in Request, q # r PROVE ItemAt(q)' /\ ToldAt(q)'
  <2>1. ItemAt(q) /\ ToldAt(q)
    BY DEF CatalogueInv
  <2>2. /\ UNCHANGED <<itemPc[q], itemKind[q], itemArg[q], wanted[q], insert[q], itemAnswer[q]>>
        /\ UNCHANGED <<C!Updates(q), C!OfRoles(q), C!Creates(q), Working(q), Races(q)>>
        /\ q \in C!Racing <=> Races(q)
    BY <1>3 DEF ItemsKept, C!Updates, C!OfRoles, C!Creates, Working, Races, C!Racing
  <2>3. (Working(q) /\ itemArg[q] \in Request \ {q} => Born(itemArg[q])')
        /\ (C!Exists(q)' => Born(q)')
    <3>1. Working(q) /\ itemArg[q] \in Request \ {q} => Born(itemArg[q])'
      <4>1. \A p \in Request : Born(p) => Born(p)'
        BY BornKept
      <4>2. Working(q) /\ itemArg[q] \in Request \ {q} => Born(itemArg[q])
        BY <2>1 DEF ItemAt
      <4>3. QED
        BY <2>2, <4>1, <4>2
    <3>2. q = i => Born(q)'
      BY <1>2
    <3>3. q # i => UNCHANGED name[q]
      BY <1>1
    <3>4. C!Exists(q) => Born(q)'
      BY <2>1, BornKept DEF ItemAt
    <3>5. QED
      BY <3>1, <3>2, <3>3, <3>4 DEF C!Exists
  <2>4. Races(q) /\ (C!TakenBy(wanted[q]) \ {itemArg[q]})' # {} => q \in rivalled'
    BY <1>1, <2>1, <2>2 DEF ItemAt, C!TakenBy
  <2>5. Races(q) /\ q \notin itemStale' => q \notin itemStale /\ name'[itemArg[q]] = name[itemArg[q]]
    BY <1>1, <1>3, <2>1, <2>2 DEF ItemAt, Races, Working
  <2>6. ItemAt(q)'
    BY <2>1, <2>2, <2>3, <2>4, <2>5 DEF ItemAt, C!Exists
  <2>7. ToldAt(q)'
    BY <1>1, <2>1, <2>2 DEF ToldAt
  <2>8. QED
    BY <2>6, <2>7
<1>4. ItemAt(r)'
  <2>1. Working(r) /\ i \in Request \ {r} => Born(i)'
    BY <1>2
  <2>2. C!Exists(r)' => Born(r)'
    <3>1. i # r => UNCHANGED name[r]
      BY <1>1
    <3>2. QED
      BY <3>1, <1>1 DEF C!Exists, CatalogueInv, ItemAt
  <2>3. C!Creates(r)' <=> C!Creates(r)
    BY DEF C!Creates
  <2>4. C!Creates(r) <=> i = r
    BY DEF CatalogueInv, ItemAt
  <2>5. QED
    BY <2>1, <2>2, <2>3, <2>4 DEF ItemAt, Working, Races
<1>5. ToldAt(r)'
  BY DEF ToldAt
<1>6. QED
  BY <1>3, <1>4, <1>5 DEF CatalogueInv

\* The start of a request: a creation, an update, a removal, or a refusal.
LEMMA ItemStartStep ==
  ASSUME CatalogueInv, NEW r \in Request,
         \/ \E n \in C!Name : C!Create(r, n)
         \/ \E i \in C!Item : \/ C!Refused(r, i) \/ C!Remove(r, i)
                              \/ \E n \in C!Name : C!Update(r, i, n)
  PROVE  CatalogueInv'
<1> USE DEF C!Go, C!Answer, C!Untouched, C!Ask, C!history
<1>0. itemPc[r] = "idle" /\ ~ Born(r) /\ ~ C!Exists(r) /\ itemAnswer[r] = None
  BY DEF C!Create, C!Refused, C!Remove, C!Update, Born, CatalogueInv, ItemAt
<1>1. ASSUME NEW n \in C!Name, C!Create(r, n) PROVE CatalogueInv'
  <2> USE <1>1, TablesAssumption DEF C!Create, C!CatalogueAssumption
  <2>1. ItemsKept(r) /\ UNCHANGED <<name, itemStale>>
        /\ \A q \in Request \ {r} : q \in rivalled' <=> q \in rivalled
    BY DEF CatalogueInv, C!TypeOK, ItemsKept
  <2>2. C!TypeOK'
    BY DEF CatalogueInv, C!TypeOK, C!Item, C!Answers
  <2>3. /\ itemArg'[r] = r /\ wanted'[r] = n /\ itemKind'[r] = itemKind[r] /\ C!Creates(r)
        /\ r \in C!Item \ {SystemRole} /\ ~ C!Exists(r)'
        /\ \/ itemPc'[r] = "write" /\ C!TakenBy(n) = {} /\ itemAnswer'[r] = itemAnswer[r]
           \/ itemPc'[r] = "done" /\ C!TakenBy(n) # {} /\ itemAnswer'[r] = "conflict"
    BY <1>0 DEF CatalogueInv, C!TypeOK, C!Item, C!Given, C!Exists
  <2>4. ItemAt(r)'
    BY <1>0, <2>1, <2>3 DEF ItemAt, Working, Races, C!Creates, C!Updates, C!TakenBy, C!Exists
  <2>5. ToldAt(r)'
    <3>1. C!TakenBy(n) # {} => r \in rivalled'
      BY <1>0 DEF C!TakenBy, C!Exists, CatalogueInv, C!TypeOK
    <3>2. ToldAt(r)
      BY DEF CatalogueInv
    <3>3. QED
      BY <2>1, <2>3, <3>1, <3>2 DEF ToldAt, C!Updates
  <2>6. QED
    BY <1>0, <2>1, <2>2, <2>4, <2>5, ItemLocalStep
<1>2. ASSUME NEW i \in C!Item, C!Refused(r, i) PROVE CatalogueInv'
  <2> USE <1>2 DEF C!Refused, C!Missing, C!Answers
  <2>1. ItemsKept(r) /\ UNCHANGED <<name, itemStale, rivalled>>
    BY DEF CatalogueInv, C!TypeOK, ItemsKept
  <2>2. C!TypeOK'
    BY DEF CatalogueInv, C!TypeOK
  <2>3. ItemAt(r)' /\ ToldAt(r)'
    BY <1>0 DEF CatalogueInv, C!TypeOK, ItemAt, ToldAt, Working, Races, C!Exists
  <2>4. QED
    BY <1>0, <2>1, <2>2, <2>3, ItemLocalStep
\* The row that was found is of an item that was created.
<1>3. ASSUME NEW i \in C!Item, C!Exists(i), i # SystemRole
      PROVE  (i \in Request => i # r /\ Born(i)) /\ i \in C!Item \ {SystemRole}
  BY <1>0, <1>3 DEF CatalogueInv, ItemAt
<1>4. ASSUME NEW i \in C!Item, C!Remove(r, i) PROVE CatalogueInv'
  <2> USE <1>4 DEF C!Remove, C!Mutable, C!Removes, C!Found
  <2>1. ItemsKept(r) /\ UNCHANGED <<name, itemStale, rivalled, itemAnswer>>
    BY DEF CatalogueInv, C!TypeOK, ItemsKept
  <2>2. C!TypeOK'
    BY DEF CatalogueInv, C!TypeOK
  <2>3. ItemAt(r)' /\ ToldAt(r)'
    <3>1. itemPc'[r] = "affected" /\ itemArg'[r] = i /\ ~ C!Updates(r)' /\ ~ C!Creates(r)'
      BY DEF CatalogueInv, C!TypeOK, C!Updates, C!Creates
    <3>2. i \in Request \ {r} => Born(i)'
      BY <1>0, <1>3, <2>1, BornKept
    <3>3. QED
      BY <1>0, <1>3, <2>1, <3>1, <3>2
         DEF CatalogueInv, ItemAt, ToldAt, Working, Races, C!Exists, C!Updates
  <2>4. QED
    BY <1>0, <2>1, <2>2, <2>3, ItemLocalStep
<1>5. ASSUME NEW i \in C!Item, NEW n \in C!Name, C!Update(r, i, n) PROVE CatalogueInv'
  <2> USE <1>5 DEF C!Update, C!Mutable, C!Found
  <2>1. ItemsKept(r) /\ UNCHANGED <<name, itemStale, itemAnswer>>
        /\ \A q \in Request \ {r} : q \in rivalled' <=> q \in rivalled
    BY DEF CatalogueInv, C!TypeOK, ItemsKept
  <2>2. C!TypeOK'
    BY DEF CatalogueInv, C!TypeOK
  <2>3. /\ itemPc'[r] = IF C!LooksForName(r, i, n) THEN "check" ELSE "save"
        /\ itemArg'[r] = i /\ wanted'[r] = n /\ C!Updates(r) /\ UNCHANGED itemKind
        /\ ~ C!Creates(r)
    BY DEF CatalogueInv, C!TypeOK, C!Updates, C!Creates
  <2>4. i \in Request \ {r} => Born(i)'
    BY <1>0, <1>3, <2>1, BornKept
  <2>5. ItemAt(r)'
    <3>1. C!OfRoles(r) => itemKind[r] # "updatePermission"
      BY DEF C!OfRoles, C!RoleKinds
    <3>2. (C!TakenBy(wanted[r]) \ {itemArg[r]})' # {} => r \in rivalled'
      BY <2>1, <2>3 DEF C!TakenBy
    <3>3. C!LooksForName(r, i, n) <=> n # name[i]
      BY DEF C!LooksForName
    <3>4. UNCHANGED <<C!Updates(r), C!OfRoles(r), C!Creates(r), C!Exists(r), C!Exists(i)>>
      BY <2>1, <2>3 DEF C!Updates, C!OfRoles, C!Creates, C!Exists
    <3>5. QED
      BY <1>0, <1>3, <2>1, <2>3, <2>4, <3>1, <3>2, <3>3, <3>4
         DEF ItemAt, Working, Races, C!Exists
  <2>6. ToldAt(r)'
    BY <2>1, <2>3 DEF CatalogueInv, ToldAt, C!Updates
  <2>7. QED
    BY <1>0, <2>1, <2>2, <2>5, <2>6, ItemLocalStep
<1>6. QED
  BY <1>1, <1>2, <1>4, <1>5

\* The look-ups and answers in between.
LEMMA ItemStep ==
  ASSUME CatalogueInv, NEW r \in Request,
         C!CheckName(r) \/ C!Save(r) \/ C!WriteRefused(r) \/ C!Reply(r) \/ C!Drop(r)
  PROVE  CatalogueInv'
<1> USE DEF C!Go, C!Answer, C!Untouched, C!history, C!CheckName, C!Save, C!WriteRefused,
            C!Reply, C!Drop
<1>1. ItemsKept(r) /\ UNCHANGED <<name, itemStale, rivalled, itemKind, itemArg, wanted>>
  BY DEF CatalogueInv, C!TypeOK, ItemsKept
<1>2. C!TypeOK'
  BY DEF CatalogueInv, C!TypeOK, C!Exists, C!OnUniqueViolation, C!Answers
<1>3. ItemAt(r) /\ ToldAt(r)
  BY DEF CatalogueInv
<1>4. UNCHANGED <<C!Updates(r), C!OfRoles(r), C!Creates(r), C!Exists(r),
                  C!TakenBy(wanted[r]), C!Exists(itemArg[r])>>
  BY <1>1 DEF C!Updates, C!OfRoles, C!Creates, C!Exists, C!TakenBy
<1>5. Born(r) => Born(r)'
  BY <1>1 DEF Born, C!Creates, CatalogueInv, C!TypeOK, C!OnUniqueViolation
<1>6. itemArg[r] \in Request \ {r} => (Born(itemArg[r]) => Born(itemArg[r])')
  BY <1>1, <1>5, BornKept
<1>7. C!Exists(r) => Born(r)'
  BY <1>3, <1>5 DEF ItemAt
<1>8. ItemAt(r)' /\ ToldAt(r)'
  <2>1. CASE C!CheckName(r)
    <3>1. \/ itemPc'[r] = "save" /\ itemAnswer'[r] = itemAnswer[r]
          \/ itemPc'[r] = "done" /\ itemAnswer'[r] = "conflict"
                /\ C!TakenBy(wanted[r]) # {}
      BY <2>1 DEF CatalogueInv, C!TypeOK
    <3>2. C!TakenBy(wanted[r]) # {} => r \in rivalled \/ r \in itemStale
      BY <1>3, <2>1 DEF ItemAt, Races, C!TakenBy
    <3>3. itemKind[r] # "updatePermission"
      BY <1>3, <2>1 DEF ItemAt, C!OfRoles, C!RoleKinds
    <3>4. QED
      BY <1>1, <1>3, <1>4, <1>6, <1>7, <2>1, <3>1, <3>2, <3>3
         DEF ItemAt, ToldAt, Working, Races
  <2>2. CASE C!Save(r)
    <3>1. itemPc'[r] = (IF name[itemArg[r]] = wanted[r] THEN "reply" ELSE "write")
          /\ insert'[r] = ~ C!Exists(itemArg[r]) /\ itemAnswer' = itemAnswer
      BY <2>2 DEF CatalogueInv, C!TypeOK
    <3>2. C!Updates(r) /\ ~ C!Creates(r) /\ Races(r) /\ Working(r) /\ itemAnswer[r] = None
      BY <1>3, <2>2 DEF ItemAt, Races, Working, C!Updates, C!Creates
    <3>3. r \notin itemStale /\ itemPc'[r] = "write" =>
              C!Exists(itemArg[r]) /\ ~ insert'[r] /\ itemKind[r] # "updatePermission"
      <4>1. itemPc[r] = "save"
        BY <2>2
      <4>2. r \notin itemStale =>
                /\ C!Exists(itemArg[r])
                /\ itemKind[r] = "updatePermission" => name[itemArg[r]] = wanted[r]
        BY <1>3, <3>2, <4>1 DEF ItemAt
      <4>3. QED
        BY <3>1, <4>2
    <3>4. Working(r)' /\ (Races(r)' => itemPc'[r] = "write")
      BY <3>1 DEF Working, Races
    <3>5. ItemAt(r)'
      BY <1>1, <1>3, <1>4, <1>6, <1>7, <3>1, <3>2, <3>3, <3>4 DEF ItemAt
    <3>6. QED
      BY <1>1, <1>3, <1>4, <3>1, <3>5 DEF ToldAt
  <2>3. CASE C!WriteRefused(r)
    <3>1. itemPc'[r] = "done" /\ itemAnswer'[r] = C!OnUniqueViolation(r)
      BY <2>3 DEF CatalogueInv, C!TypeOK
    <3>2. \/ r \in rivalled
          \/ insert[r] /\ C!Exists(itemArg[r])
      BY <1>3, <2>3 DEF C!Clashes, ItemAt, Races
    <3>3. insert[r] /\ C!Exists(itemArg[r]) => C!Updates(r) /\ r \in itemStale
      BY <1>3, <2>3 DEF ItemAt, Races, Working, Born
    <3>4. itemKind[r] = "updatePermission" => r \in itemStale
      BY <1>3, <2>3 DEF ItemAt, Races, C!Updates
    <3>5. QED
      BY <1>1, <1>3, <1>4, <1>7, <3>1, <3>2, <3>3, <3>4
         DEF ItemAt, ToldAt, Working, Races, C!OnUniqueViolation
  <2>4. CASE C!Reply(r) \/ C!Drop(r)
    <3>1. itemPc'[r] = "done" /\ itemAnswer'[r] \in {"ok", "notFound", "dropped"}
      BY <2>4 DEF CatalogueInv, C!TypeOK
    <3>2. QED
      BY <1>1, <1>3, <1>4, <1>7, <3>1 DEF ItemAt, ToldAt, Working, Races
  <2>5. QED
    BY <2>1, <2>2, <2>3, <2>4
<1>9. QED
  BY <1>1, <1>2, <1>5, <1>8, ItemLocalStep

LEMMA ItemWriteStep ==
  ASSUME CatalogueInv, NEW r \in Request, C!Write(r) \/ C!Delete(r) PROVE CatalogueInv'
<1> USE DEF C!Go, C!Answer, C!Untouched, C!history
<1>1. CASE C!Write(r)
  <2> USE <1>1 DEF C!Write
  <2>1. ItemsKept(r) /\ itemPc'[r] = "reply" /\ UNCHANGED <<itemArg, itemKind, itemAnswer>>
    BY DEF CatalogueInv, C!TypeOK, ItemsKept
  <2>2. /\ itemArg[r] \in C!Item \ {SystemRole} /\ wanted[r] \in C!Name /\ Working(r)
        /\ C!Creates(r) <=> C!Creates(r)'
        /\ C!Updates(r) \/ C!Creates(r)
        /\ ~ Born(r)
    BY <2>1 DEF CatalogueInv, ItemAt, Working, Races, C!Creates, Born
  <2>3. itemArg[r] = r => Born(r)'
    <3>1. itemArg[r] = r => C!Creates(r)'
      BY <2>2 DEF CatalogueInv, ItemAt
    <3>2. QED
      BY <2>1, <3>1 DEF Born
  <2>4. C!TypeOK'
    <3>1. /\ name' \in [C!Item -> C!Name \cup {None}] /\ itemStale' \subseteq Request
          /\ rivalled' \subseteq Request /\ name'[SystemRole] = name[SystemRole]
      <4>1. CASE C!SetName(r, itemArg[r], wanted[r])
        BY <2>2, <4>1 DEF CatalogueInv, C!TypeOK, C!SetName, C!Racing
      <4>2. CASE C!Untouched
        BY <4>2 DEF CatalogueInv, C!TypeOK
      <4>3. QED
        BY <4>1, <4>2
    <3>2. QED
      BY <3>1 DEF CatalogueInv, C!TypeOK
  <2>5. itemAnswer[r] = None /\ itemAnswer[r] \notin {"conflict", "error"}
    BY TablesAssumption DEF CatalogueInv, ItemAt, C!CatalogueAssumption, C!Answers
  <2>6. CASE insert[r] \/ C!Exists(itemArg[r])
    BY <2>1, <2>2, <2>3, <2>4, <2>5, <2>6, SetNameStep
  <2>7. CASE ~ (insert[r] \/ C!Exists(itemArg[r]))
    <3>1. UNCHANGED <<name, itemStale, rivalled, itemArg[r], itemKind[r], C!Creates(r)>>
      BY <2>1, <2>7 DEF C!Creates
    <3>2. ItemAt(r) /\ ToldAt(r) /\ ~ C!Exists(r)
      BY <2>2 DEF CatalogueInv, ItemAt, ToldAt
    <3>3. UNCHANGED C!Exists(r) /\ (itemArg[r] \in Request \ {r} => Born(itemArg[r])')
      BY <2>1, <2>2, <3>1, <3>2, BornKept DEF C!Exists, ItemAt
    <3>4. ItemAt(r)' /\ ToldAt(r)'
      BY <2>1, <2>2, <2>5, <3>1, <3>2, <3>3 DEF ItemAt, ToldAt, Working, Races
    <3>5. QED
      BY <2>1, <2>2, <2>4, <2>7, <3>4, ItemLocalStep
  <2>8. QED
    BY <2>6, <2>7
<1>2. CASE C!Delete(r)
  <2> USE <1>2 DEF C!Delete
  <2>1. ItemsKept(r) /\ itemPc'[r] = "done" /\ itemAnswer'[r] = "ok"
        /\ UNCHANGED <<itemArg, itemKind>>
    BY DEF CatalogueInv, C!TypeOK, ItemsKept
  <2>2. itemArg[r] \in C!Item \ {SystemRole} /\ Working(r) /\ itemArg[r] # r
    BY DEF CatalogueInv, ItemAt, Working
  <2>3. C!TypeOK'
    BY <2>2 DEF CatalogueInv, C!TypeOK, C!SetName, C!Racing, C!Answers
  <2>4. QED
    BY <2>1, <2>2, <2>3, SetNameStep DEF Born
<1>3. QED
  BY <1>1, <1>2

LEMMA CatalogueStep == CatalogueInv /\ [C!Next]_(C!vars) => CatalogueInv'
<1> SUFFICES ASSUME CatalogueInv, [C!Next]_(C!vars) PROVE CatalogueInv'
  OBVIOUS
<1>1. CASE UNCHANGED C!vars
  BY <1>1 DEF C!vars, C!history, CatalogueInv, C!TypeOK, ItemAt, ToldAt, Working, Races, Born,
              C!Exists, C!Updates, C!Creates, C!OfRoles, C!TakenBy
<1>2. CASE C!Next
  BY <1>2, ItemStartStep, ItemStep, ItemWriteStep DEF C!Next
<1>3. QED
  BY <1>1, <1>2

LEMMA CatalogueAlways == C!Spec => []CatalogueInv
  BY CatalogueInit, CatalogueStep, PTL DEF C!Spec

\* A conflict of names is answered to who lost one, to an update that was overtaken,
\* and to nobody else; it is answered as an error only in the update of a permission
\* that others removed; and a creation refused has left no item.
THEOREM NameConflictsReal == C!Spec => []NameConflictsAreReal
<1>1. CatalogueInv => NameConflictsAreReal
  <2> SUFFICES ASSUME CatalogueInv, NEW r \in Request, C!Creates(r),
                      itemAnswer[r] \in {"conflict", "error"}
               PROVE  ~ C!Exists(r)
    BY DEF CatalogueInv, ToldAt, NameConflictsAreReal, C!NameConflictsAreReal
  <2>1. itemPc[r] = "done"
    BY TablesAssumption DEF CatalogueInv, ItemAt, C!CatalogueAssumption, C!Answers
  <2>2. QED
    BY <2>1 DEF CatalogueInv, ItemAt, Born
<1>2. QED
  BY <1>1, CatalogueAlways, PTL

\* An update whose row nobody removed or renamed since it was read inserts nothing.
THEOREM StaleUpdatesRevive == C!Spec => OnlyStaleUpdatesRevive
<1>1. CatalogueInv =>
          \A r \in Request \ itemStale : C!Updates(r) /\ C!Write(r) => C!Exists(itemArg[r])
  BY DEF CatalogueInv, ItemAt, Races, C!Write
<1>2. CatalogueInv =>
          [\A r \in Request \ itemStale :
               C!Updates(r) /\ C!Write(r) => C!Exists(itemArg[r])]_(C!vars)
  BY <1>1
<1>3. QED
  BY <1>2, CatalogueAlways, PTL DEF OnlyStaleUpdatesRevive, C!OnlyStaleUpdatesRevive

-----------------------------------------------------------------------------
\* The rows a transaction has locked or waits for are there until it ends.  A row
\* of the owner that it will not delete was asked for by a request beside it.
ReplacementAt(r) ==
    /\ rowPc[r] = "idle" => ids[r] = {}
    /\ rowPc[r] \in {"idle", "delete"} => J!Held(r) = {} /\ want[r] = {}
    /\ rowPc[r] = "deleting" =>
          /\ J!Held(r) \cup want[r] \subseteq rows
          /\ rows \subseteq J!Held(r) \cup want[r] \cup overlap[r]
    /\ rowPc[r] = "inserting" =>
          /\ doomed[r] \subseteq rows \cap J!Held(r)
          /\ rows \subseteq doomed[r] \cup overlap[r]
          /\ added[r] \subseteq ids[r] \cap (J!Held(r) \cup want[r])
          /\ r \in alone => added[r] = ids[r]

\* Who runs alone has no other beside it, and of two that overlap each knows
\* what the other was asked for.
Overlapping ==
    /\ \A r \in alone : J!Busy = {r} /\ overlap[r] = {}
    /\ \A r, q \in J!Busy : r # q => ids[q] \subseteq overlap[r]

ReplaceInv ==
    J!TypeOK /\ (\A r \in Replacement : ReplacementAt(r)) /\ Overlapping

LEMMA ReplaceInit == J!Init => ReplaceInv
<1> SUFFICES ASSUME J!Init PROVE ReplaceInv
  OBVIOUS
<1> USE TablesAssumption DEF J!Init, J!LockInit, J!KeyAssumption
<1>1. J!TypeOK
  BY DEF J!TypeOK, J!LockTypeOK, J!Steps
<1>2. \A r \in Replacement : ReplacementAt(r)
  BY DEF ReplacementAt, J!Held
<1>3. Overlapping
  BY DEF Overlapping, J!Busy
<1>4. QED
  BY <1>1, <1>2, <1>3 DEF ReplaceInv

LEMMA ReplaceStep ==
  ASSUME ReplaceInv, NEW r \in Replacement, NEW S \in SUBSET Row, J!Replace(r, S)
  PROVE  ReplaceInv'
<1> USE DEF J!Replace, J!lockVars
<1>1. J!TypeOK'
  <2>1. rowPc' \in [Replacement -> J!Steps] /\ ids' \in [Replacement -> SUBSET Row]
    BY DEF ReplaceInv, J!TypeOK, J!Steps
  <2>2. overlap' \in [Replacement -> SUBSET Row]
    <3>1. \A q \in Replacement : ids[q] \subseteq Row /\ overlap[q] \subseteq Row
      BY DEF ReplaceInv, J!TypeOK
    <3>2. UNION {ids[b] : b \in J!Busy} \subseteq Row
      BY <3>1 DEF J!Busy
    <3>3. QED
      BY <3>1, <3>2
  <2>3. QED
    BY <2>1, <2>2 DEF ReplaceInv, J!TypeOK, J!LockTypeOK
<1>2. ReplacementAt(r)'
  BY DEF ReplaceInv, J!TypeOK, ReplacementAt, J!Held
<1>3. ASSUME NEW q \in Replacement, q # r PROVE ReplacementAt(q)'
  <2>1. /\ rowPc'[q] = rowPc[q] /\ ids'[q] = ids[q]
        /\ q \in alone' => rowPc[q] = "idle"
        /\ rowPc[q] # "idle" => overlap[q] \subseteq overlap'[q]
    BY <1>3 DEF ReplaceInv, J!TypeOK, J!Busy
  <2>2. QED
    BY <2>1 DEF ReplaceInv, ReplacementAt, J!Held
<1>4. Overlapping'
  <2>1. \A q \in Replacement : /\ rowPc'[q] = IF q = r THEN "delete" ELSE rowPc[q]
                               /\ ids'[q] = IF q = r THEN S ELSE ids[q]
    BY DEF ReplaceInv, J!TypeOK
  <2>2. J!Busy' = J!Busy \cup {r} /\ r \notin J!Busy
    BY <2>1 DEF J!Busy
  <2>3. \A q \in alone' : J!Busy' = {q} /\ overlap'[q] = {}
    BY <2>2
  <2>4. \A p, q \in J!Busy' : p # q => ids'[q] \subseteq overlap'[p]
    <3>1. J!Busy \subseteq Replacement
      BY DEF J!Busy
    <3>2. QED
      BY <2>1, <2>2, <3>1 DEF ReplaceInv, Overlapping
  <2>5. QED
    BY <2>3, <2>4 DEF Overlapping
<1>5. QED
  BY <1>1, <1>2, <1>3, <1>4 DEF ReplaceInv

LEMMA DeleteRowsStep ==
  ASSUME ReplaceInv, NEW r \in Replacement, J!DeleteRows(r) PROVE ReplaceInv'
<1> USE DEF J!DeleteRows, J!At, J!Ask, J!CurrentRows
<1>1. J!TypeOK'
  BY DEF ReplaceInv, J!TypeOK, J!LockTypeOK, J!Steps
<1>2. ReplacementAt(r)'
  BY DEF ReplaceInv, J!TypeOK, J!LockTypeOK, ReplacementAt, J!Held
<1>3. ASSUME NEW q \in Replacement, q # r PROVE ReplacementAt(q)'
  BY <1>3 DEF ReplaceInv, J!TypeOK, J!LockTypeOK, ReplacementAt, J!Held
<1>4. Overlapping'
  BY DEF ReplaceInv, J!TypeOK, Overlapping, J!Busy
<1>5. QED
  BY <1>1, <1>2, <1>3, <1>4 DEF ReplaceInv

LEMMA SaveRowsStep ==
  ASSUME ReplaceInv, NEW r \in Replacement, J!SaveRows(r) PROVE ReplaceInv'
<1> USE DEF J!SaveRows, J!At, J!Ask, J!Granted, J!Missing
<1>1. J!TypeOK'
  BY DEF ReplaceInv, J!TypeOK, J!LockTypeOK, J!Steps, J!Held
<1>2. ReplacementAt(r)'
  <2>1. /\ rowPc[r] = "deleting" /\ want[r] = {} /\ rowPc'[r] = "inserting"
        /\ doomed'[r] = J!Held(r) /\ added'[r] = ids[r] \ (rows \ J!Held(r))
        /\ want'[r] = added'[r] \ J!Held(r)
        /\ UNCHANGED <<lock, rows, ids, overlap, alone>>
    BY DEF ReplaceInv, J!TypeOK, J!LockTypeOK
  <2>2. J!Held(r) \subseteq rows /\ rows \subseteq J!Held(r) \cup overlap[r]
    BY <2>1 DEF ReplaceInv, ReplacementAt
  <2>3. r \in alone => added'[r] = ids[r]
    BY <2>1, <2>2 DEF ReplaceInv, Overlapping
  <2>4. J!Held(r)' = J!Held(r)
    BY <2>1 DEF J!Held
  <2> HIDE DEF J!SaveRows, J!At, J!Ask, J!Granted, J!Missing
  <2>5. QED
    BY <2>1, <2>2, <2>3, <2>4 DEF ReplacementAt
<1>3. ASSUME NEW q \in Replacement, q # r PROVE ReplacementAt(q)'
  BY <1>3 DEF ReplaceInv, J!TypeOK, J!LockTypeOK, ReplacementAt, J!Held
<1>4. Overlapping'
  BY DEF ReplaceInv, J!TypeOK, Overlapping, J!Busy
<1>5. QED
  BY <1>1, <1>2, <1>3, <1>4 DEF ReplaceInv

LEMMA AcquireStep ==
  ASSUME ReplaceInv, NEW r \in Replacement, J!Acquire(r) PROVE ReplaceInv'
<1>1. PICK x \in want[r] : /\ lock[x] = None
                           /\ lock' = [lock EXCEPT ![x] = r]
                           /\ want' = [want EXCEPT ![r] = @ \ {x}]
  BY DEF J!Acquire, J!AcquireRow
<1>2. /\ UNCHANGED <<referenced, rows, rowPc, ids, doomed, added, alone, overlap>>
      /\ x \in Row
  BY <1>1 DEF J!Acquire, J!txVars, ReplaceInv, J!TypeOK, J!LockTypeOK
<1>3. J!TypeOK'
  BY <1>1, <1>2 DEF ReplaceInv, J!TypeOK, J!LockTypeOK
<1>4. /\ J!Held(r)' = J!Held(r) \cup {x} /\ want'[r] = want[r] \ {x}
      /\ \A q \in Replacement \ {r} : J!Held(q)' = J!Held(q) /\ want'[q] = want[q]
  BY <1>1, <1>2, TablesAssumption
     DEF ReplaceInv, J!TypeOK, J!LockTypeOK, J!Held, J!KeyAssumption
<1>5. ASSUME NEW q \in Replacement PROVE ReplacementAt(q)'
  BY <1>1, <1>2, <1>4 DEF ReplaceInv, ReplacementAt
<1>6. Overlapping'
  BY <1>2 DEF ReplaceInv, Overlapping, J!Busy
<1>7. QED
  BY <1>3, <1>5, <1>6 DEF ReplaceInv

\* What the end of a transaction leaves of its own and to the others.
LEMMA EndEffect ==
  ASSUME J!TypeOK, NEW r \in Replacement, NEW gone \in SUBSET Row, J!End(r, gone),
         rows' \subseteq referenced, UNCHANGED referenced
  PROVE  /\ J!TypeOK'
         /\ rowPc'[r] = "idle" /\ ids'[r] = {} /\ J!Held(r)' = {} /\ want'[r] = {}
         /\ \A q \in Replacement \ {r} :
               /\ rowPc'[q] = rowPc[q] /\ ids'[q] = ids[q] /\ doomed'[q] = doomed[q]
               /\ added'[q] = added[q] /\ overlap'[q] = overlap[q]
               /\ J!Held(q)' = J!Held(q)
               /\ want'[q] = IF rowPc[q] = "deleting" THEN want[q] \ gone ELSE want[q]
         /\ alone' = alone \ {r} /\ J!Busy' = J!Busy \ {r}
<1> USE TablesAssumption DEF J!End, J!TypeOK, J!LockTypeOK, J!KeyAssumption
<1>1. lock' \in [Row -> Replacement \cup {None}]
  OBVIOUS
<1>2. want' \in [Replacement -> SUBSET Row]
  OBVIOUS
<1>3. J!TypeOK'
  BY <1>1, <1>2 DEF J!Steps
<1>4. J!Held(r)' = {} /\ \A q \in Replacement \ {r} : J!Held(q)' = J!Held(q)
  BY DEF J!Held
<1>5. J!Busy' = J!Busy \ {r}
  BY DEF J!Busy
<1>6. QED
  BY <1>3, <1>4, <1>5

\* A roll back leaves the rows as they were.
LEMMA RollBackStep ==
  ASSUME ReplaceInv, NEW r \in Replacement, J!End(r, {}), UNCHANGED <<referenced, rows>>
  PROVE  ReplaceInv'
<1>1. J!TypeOK /\ rows' \subseteq referenced
  BY DEF ReplaceInv, J!TypeOK
<1>2. J!TypeOK'
  BY <1>1, EndEffect
<1>3. ReplacementAt(r)'
  BY <1>1, EndEffect DEF ReplacementAt
<1>4. ASSUME NEW q \in Replacement, q # r PROVE ReplacementAt(q)'
  <2>1. ReplacementAt(q)
    BY DEF ReplaceInv
  <2>2. /\ rowPc'[q] = rowPc[q] /\ ids'[q] = ids[q] /\ doomed'[q] = doomed[q]
        /\ added'[q] = added[q] /\ overlap'[q] = overlap[q]
        /\ J!Held(q)' = J!Held(q) /\ want'[q] = want[q] /\ (q \in alone' <=> q \in alone)
    BY <1>1, <1>4, EndEffect
  <2>3. QED
    BY <2>1, <2>2 DEF ReplacementAt
<1>5. Overlapping'
  <2>1. /\ J!Busy' = J!Busy \ {r} /\ alone' = alone \ {r}
        /\ \A q \in Replacement \ {r} : ids'[q] = ids[q] /\ overlap'[q] = overlap[q]
    BY <1>1, EndEffect
  <2>2. J!Busy \subseteq Replacement /\ alone \subseteq Replacement
    BY <1>1 DEF J!Busy, J!TypeOK
  <2>3. QED
    BY <2>1, <2>2 DEF ReplaceInv, Overlapping
<1>6. QED
  BY <1>2, <1>3, <1>4, <1>5 DEF ReplaceInv

\* What r inserts has its lock and its id; what it deletes is locked by nobody else.
LEMMA CommitRows ==
  ASSUME ReplaceInv, NEW r \in Replacement, J!Commit(r)
  PROVE  /\ rows' = (rows \ doomed[r]) \cup added[r]
         /\ rowPc[r] = "inserting" /\ rows' \subseteq referenced
         /\ doomed[r] \subseteq J!Held(r) /\ added[r] \subseteq J!Held(r) \cap ids[r]
         /\ rows \subseteq doomed[r] \cup overlap[r]
<1>1. /\ rowPc[r] = "inserting" /\ want[r] = {} /\ ~ J!Refused(r)
      /\ rows' = (rows \ doomed[r]) \cup added[r]
  BY DEF J!Commit, J!At, J!Granted
<1>2. /\ doomed[r] \subseteq rows \cap J!Held(r) /\ added[r] \subseteq J!Held(r) \cap ids[r]
      /\ rows \subseteq doomed[r] \cup overlap[r]
  BY <1>1 DEF ReplaceInv, ReplacementAt
<1>3. rows \subseteq referenced
  BY DEF ReplaceInv, J!TypeOK
<1>4. added[r] \subseteq referenced
  BY <1>1, <1>2, <1>3 DEF J!Refused
<1>5. QED
  BY <1>1, <1>2, <1>3, <1>4

LEMMA JoinCommitStep ==
  ASSUME ReplaceInv, NEW r \in Replacement, J!Commit(r) PROVE ReplaceInv'
<1>1. J!TypeOK /\ J!End(r, doomed[r]) /\ UNCHANGED referenced /\ doomed[r] \in SUBSET Row
  BY DEF J!Commit, ReplaceInv, J!TypeOK
<1>2. rows' \subseteq referenced
  BY CommitRows
<1>3. J!TypeOK' /\ ReplacementAt(r)'
  BY <1>1, <1>2, EndEffect DEF ReplacementAt
<1>4. ASSUME NEW q \in Replacement, q # r PROVE ReplacementAt(q)'
  <2>1. ReplacementAt(q)
    BY DEF ReplaceInv
  <2>2. /\ rowPc'[q] = rowPc[q] /\ ids'[q] = ids[q] /\ doomed'[q] = doomed[q]
        /\ added'[q] = added[q] /\ overlap'[q] = overlap[q]
        /\ J!Held(q)' = J!Held(q) /\ (q \in alone' <=> q \in alone)
        /\ want'[q] = IF rowPc[q] = "deleting" THEN want[q] \ doomed[r] ELSE want[q]
    BY <1>1, <1>2, <1>4, EndEffect
  <2>3. /\ rows' = (rows \ doomed[r]) \cup added[r] /\ rowPc[r] = "inserting"
        /\ doomed[r] \subseteq J!Held(r) /\ added[r] \subseteq ids[r]
    BY CommitRows
  <2>4. J!Held(q) \cap J!Held(r) = {}
    BY <1>4 DEF J!Held
  <2>5. rowPc[q] # "idle" => added[r] \subseteq overlap[q]
    BY <1>4, <2>3 DEF ReplaceInv, Overlapping, J!Busy
  <2>6. QED
    BY <2>1, <2>2, <2>3, <2>4, <2>5 DEF ReplacementAt
<1>5. Overlapping'
  <2>1. /\ J!Busy' = J!Busy \ {r} /\ alone' = alone \ {r}
        /\ \A q \in Replacement \ {r} : ids'[q] = ids[q] /\ overlap'[q] = overlap[q]
    BY <1>1, <1>2, EndEffect
  <2>2. J!Busy \subseteq Replacement /\ alone \subseteq Replacement
    BY <1>1 DEF J!Busy, J!TypeOK
  <2>3. QED
    BY <2>1, <2>2 DEF ReplaceInv, Overlapping
<1>6. QED
  BY <1>3, <1>4, <1>5 DEF ReplaceInv

\* A row that a transaction holds cannot be removed.
LEMMA JoinRemoveStep ==
  ASSUME ReplaceInv, NEW x \in Row, J!Remove(x) PROVE ReplaceInv'
<1> USE DEF J!Remove, J!txVars
<1>1. J!TypeOK'
  BY DEF ReplaceInv, J!TypeOK, J!LockTypeOK
<1>2. \A r \in Replacement : J!Held(r)' = J!Held(r) /\ x \notin J!Held(r)
  BY TablesAssumption DEF J!Held, J!KeyAssumption
<1>3. ASSUME NEW r \in Replacement PROVE ReplacementAt(r)'
  <2>1. want'[r] = IF rowPc[r] = "deleting" THEN want[r] \ {x} ELSE want[r]
    OBVIOUS
  <2>2. QED
    BY <1>2, <2>1 DEF ReplaceInv, ReplacementAt
<1>4. Overlapping'
  BY DEF ReplaceInv, Overlapping, J!Busy
<1>5. QED
  BY <1>1, <1>3, <1>4 DEF ReplaceInv

LEMMA ReplaceInvStep == ReplaceInv /\ [J!Next]_(J!vars) => ReplaceInv'
<1> SUFFICES ASSUME ReplaceInv, [J!Next]_(J!vars) PROVE ReplaceInv'
  OBVIOUS
<1>1. CASE UNCHANGED J!vars
  BY <1>1 DEF J!vars, J!txVars, J!lockVars, ReplaceInv, J!TypeOK, J!LockTypeOK,
              ReplacementAt, J!Held, Overlapping, J!Busy
<1>2. CASE J!Next
  <2>1. ASSUME NEW r \in Replacement,
               J!InsertRefused(r) \/ J!Crash(r) \/ J!DeadlockAbort(r)
        PROVE  ReplaceInv'
    BY <2>1, RollBackStep DEF J!InsertRefused, J!Crash, J!DeadlockAbort
  <2>2. QED
    BY <1>2, <2>1, ReplaceStep, DeleteRowsStep, SaveRowsStep, AcquireStep, JoinCommitStep,
       JoinRemoveStep DEF J!Next, J!Proceed
<1>3. QED
  BY <1>1, <1>2

LEMMA ReplaceAlways == J!Spec => []ReplaceInv
  BY ReplaceInit, ReplaceInvStep, PTL DEF J!Spec

\* What is there after a replacement was asked for by it or by one that overlapped
\* it, and by it alone when it ran alone.
LEMMA CommitLeaves ==
  ASSUME ReplaceInv, NEW r \in Replacement, J!Commit(r)
  PROVE  /\ rows' \subseteq ids[r] \cup overlap[r]
         /\ r \in alone => rows' = ids[r]
<1>1. /\ rows' = (rows \ doomed[r]) \cup added[r] /\ rowPc[r] = "inserting"
      /\ added[r] \subseteq ids[r] /\ rows \subseteq doomed[r] \cup overlap[r]
  BY CommitRows
<1>2. r \in alone => added[r] = ids[r] /\ overlap[r] = {}
  BY <1>1 DEF ReplaceInv, ReplacementAt, Overlapping
<1>3. QED
  BY <1>1, <1>2

\* Nothing of the old set survives a replacement, and one that nobody overlapped
\* leaves exactly the set it was asked for, for any number of requests and rows.
THEOREM OldRowsReplaced == J!Spec => ReplacementsLeaveTheirOwn
<1>1. ReplaceInv => J!TypeOK
  BY DEF ReplaceInv
<1>2. ReplaceInv /\ [J!Next]_(J!vars) =>
          [\A r \in Replacement : J!Commit(r) => rows' \subseteq ids[r] \cup overlap[r]]_(J!vars)
  BY CommitLeaves
<1>3. ReplaceInv /\ [J!Next]_(J!vars) =>
          [\A r \in alone : J!Commit(r) => rows' = ids[r]]_(J!vars)
  BY CommitLeaves DEF ReplaceInv, J!TypeOK
<1>4. QED
  BY <1>1, <1>2, <1>3, ReplaceAlways, PTL
     DEF J!Spec, ReplacementsLeaveTheirOwn, J!OldRowsAreReplaced, J!ReplacesWhenAlone
=============================================================================
