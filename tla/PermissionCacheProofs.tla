----------------------- MODULE PermissionCacheProofs -----------------------
(***************************************************************************)
(* Theorems about PermissionCache, for every value of the constants.       *)
(***************************************************************************)
EXTENDS PermissionCache, TLAPS

\* The tables start as the seed of an earlier version left them, the cache empty.
LEMMA CacheTypeInit == Init => TypeOK
  BY CacheAssumption DEF Init, TypeOK, Steps

\* Each step writes values of the right kind.
LEMMA CacheTypeStep == TypeOK /\ [Next]_vars => TypeOK'
<1> SUFFICES ASSUME TypeOK, [Next]_vars PROVE TypeOK'
  OBVIOUS
<1> USE CacheAssumption
    DEF TypeOK, Steps, Begin, Goto, Finish, Write, Rights, UsersWithRole,
        UsersWithPermission, Neglect, Gain, tables, entries, history
<1>1. ASSUME NEW r \in Request, NEW u \in User,
             Check(r, u)
      PROVE  TypeOK'
  BY <1>1 DEF Check
<1>2. ASSUME NEW r \in Request, Hit(r)
      PROVE  TypeOK'
  BY <1>2 DEF Hit
<1>3. ASSUME NEW r \in Request, MissOrError(r)
      PROVE  TypeOK'
  BY <1>3 DEF MissOrError
<1>4. ASSUME NEW r \in Request, Load(r)
      PROVE  TypeOK'
  BY <1>4 DEF Load
<1>5. ASSUME NEW r \in Request, Store(r)
      PROVE  TypeOK'
  BY <1>5 DEF Store, WithTtl
<1>6. ASSUME NEW r \in Request, StoreFails(r)
      PROVE  TypeOK'
  BY <1>6 DEF StoreFails
<1>7. ASSUME NEW r \in Request, NEW u \in User, NEW granted \in SUBSET Role,
             SetRoles(r, u, granted)
      PROVE  TypeOK'
  BY <1>7 DEF SetRoles, Only
<1>8. ASSUME NEW r \in Request, NEW role \in Role, NEW granted \in SUBSET Permission,
             SetPermissions(r, role, granted)
      PROVE  TypeOK'
  BY <1>8 DEF SetPermissions
<1>9. ASSUME NEW r \in Request, FindAffected(r)
      PROVE  TypeOK'
  BY <1>9 DEF FindAffected
<1>10. ASSUME NEW r \in Request, NEW role \in Role,
             RemoveRole(r, role)
      PROVE  TypeOK'
  BY <1>10 DEF RemoveRole
<1>11. ASSUME NEW r \in Request, NEW p \in Permission,
             RemovePermission(r, p)
      PROVE  TypeOK'
  BY <1>11 DEF RemovePermission
<1>12. ASSUME NEW r \in Request, Delete(r)
      PROVE  TypeOK'
  BY <1>12 DEF Delete, Missed
<1>13. ASSUME NEW r \in Request, NEW u \in User,
             Invalidate(r, u)
      PROVE  TypeOK'
  BY <1>13 DEF Invalidate, Attempt, Dropped
<1>14. ASSUME NEW r \in Request, NEW u \in User,
             InvalidateFails(r, u)
      PROVE  TypeOK'
  BY <1>14 DEF InvalidateFails, Attempt
<1>15. ASSUME NEW r \in Request, Answer(r)
      PROVE  TypeOK'
  BY <1>15 DEF Answer
<1>16. ASSUME NEW r \in Request, Crash(r)
      PROVE  TypeOK'
  BY <1>16 DEF Crash, Pending
<1>17. ASSUME NEW u \in User, Expire(u) PROVE TypeOK'
  BY <1>17 DEF Expire, Dropped
<1>18. ASSUME NEW r \in Request, NEW u \in User, SoftDelete(r, u)
      PROVE  TypeOK'
  BY <1>18 DEF SoftDelete, Only
<1>19. CASE UNCHANGED vars
  BY <1>19 DEF vars
<1>20. ASSUME NEW p \in Permission, InsertPermission(p) PROVE TypeOK'
  BY <1>20 DEF InsertPermission
<1>21. ASSUME NEW role \in Role, InsertRole(role) PROVE TypeOK'
  BY <1>21 DEF InsertRole
<1>22. ASSUME NEW role \in SystemRole, NEW p \in Permission, SeedGrant(role, p) PROVE TypeOK'
  BY <1>22 DEF SeedGrant
<1>23. ASSUME NEW u \in User, NEW role \in SystemRole, SeedAdmin(u, role) PROVE TypeOK'
  BY <1>23 DEF SeedAdmin
<1>24. QED
  BY <1>1, <1>2, <1>3, <1>4, <1>5, <1>6, <1>7, <1>8, <1>9, <1>10, <1>11, <1>12,
     <1>13, <1>14, <1>15, <1>16, <1>17, <1>18, <1>19, <1>20, <1>21, <1>22, <1>23
     DEF Next, Call, Proceed, Insert

\* Every reachable state of the tables, the cache and the requests is well-typed.
THEOREM CacheTypeCorrect == Spec => []TypeOK
<1>1. Init => TypeOK
  BY CacheTypeInit
<1>2. TypeOK /\ [Next]_vars => TypeOK'
  BY CacheTypeStep
<1>3. QED
  BY <1>1, <1>2, PTL DEF Spec

\* What StaleHasCause needs to be inductive: a guard about to cache outdated
\* rules loaded them before a delete that was attempted, is still to come, or
\* will never come because a removal missed the user.
Coming(u) == \E q \in Request : u \in Pending(q)

Poorer(known, u) == known \subseteq Rights(u)

CacheInv ==
    /\ \A r \in Request : pc[r] = "set" /\ rules[r] # Rights(arg[r]) =>
          r \in overlapped \/ Coming(arg[r]) \/ (r \in outrun /\ Poorer(rules[r], arg[r]))
    /\ StaleHasCause

\* A removal changes the rules of those who have what is removed, and each of
\* them has a delete to come or was missed by the look-up.
LEMMA DeleteStep ==
  ASSUME TypeOK, CacheInv, NEW r \in Request, Delete(r)
  PROVE  CacheInv'
<1> DEFINE x == arg[r]
           H == UsersWithRole(x) \cup UsersWithPermission(x)
<1>1. ASSUME NEW u \in User \ H PROVE Rights(u)' = Rights(u)
  BY <1>1 DEF Delete, Rights, UsersWithRole, UsersWithPermission
<1>2. ASSUME NEW u \in H PROVE u \in Missed(r) \/ Coming(u)'
  <2>1. CASE u \in Missed(r)
    BY <2>1
  <2>2. CASE u \in todo[r]
    <3>1. u \in Pending(r)'
      BY <2>2 DEF Delete, Goto, Pending, TypeOK
    <3>2. QED
      BY <3>1 DEF Coming
  <2>3. QED
    BY <2>1, <2>2 DEF Missed
<1>3. ASSUME NEW u \in User, Coming(u) PROVE u \in Missed(r) \/ Coming(u)'
  <2>1. PICK q \in Request : u \in Pending(q)
    BY <1>3 DEF Coming
  <2>2. q # r /\ pc'[q] = pc[q] /\ arg'[q] = arg[q] /\ todo'[q] = todo[q]
    BY <2>1 DEF Delete, Goto, Pending, TypeOK
  <2>3. CASE pc[q] = "affected"
    <3>1. CASE arg[q] = x
      BY <2>1, <2>3, <3>1, <1>2 DEF Pending
    <3>2. CASE arg[q] # x
      <4>1. u \in Pending(q)'
        BY <2>1, <2>2, <2>3, <3>2 DEF Pending, UsersWithRole, Delete
      <4>2. QED
        BY <4>1 DEF Coming
    <3>3. QED
      BY <3>1, <3>2
  <2>4. CASE pc[q] # "affected"
    <3>1. u \in Pending(q)'
      BY <2>1, <2>2, <2>4 DEF Pending
    <3>2. QED
      BY <3>1 DEF Coming
  <2>5. QED
    BY <2>3, <2>4
<1>4. /\ excused' = excused \cup Missed(r)
      /\ \A g \in Request \ {r} :
            pc[g] = "set" /\ (g \in overlapped \/ arg[g] \in Missed(r)) => g \in overlapped'
  BY DEF Delete, Neglect
<1>5. ASSUME NEW g \in Request, NEW u \in User,
             pc'[g] = "set", arg'[g] = u, rules'[g] # Rights(u)'
      PROVE  g \in overlapped' \/ Coming(u)' \/ (g \in outrun' /\ Poorer(rules[g], u)')
  <2>1. g # r /\ pc[g] = "set" /\ arg[g] = u /\ rules'[g] = rules[g]
    BY <1>5 DEF Delete, Goto, TypeOK
  <2>2. CASE u \in H
    BY <2>1, <2>2, <1>2, <1>4
  <2>3. CASE u \notin H
    <3>1. rules[g] # Rights(u)
      BY <2>1, <2>3, <1>1, <1>5
    <3>2. g \in overlapped \/ Coming(u) \/ (g \in outrun /\ Poorer(rules[g], u))
      BY <2>1, <3>1 DEF CacheInv
    <3>3. g \in outrun /\ Poorer(rules[g], u) => g \in outrun' /\ Poorer(rules[g], u)'
      BY <2>1, <2>3, <1>1 DEF Delete, Neglect, Poorer
    <3>4. QED
      BY <2>1, <3>2, <3>3, <1>3, <1>4
  <2>4. QED
    BY <2>2, <2>3
<1>6. ASSUME NEW u \in User, ~ Fresh(u)'
      PROVE  u \in excused' \/ Coming(u)' \/ (u \in seeded' /\ Poorer(cache[u], u)')
  <2>1. CASE u \in H
    BY <2>1, <1>2, <1>4
  <2>2. CASE u \notin H
    <3>1. ~ Fresh(u)
      BY <2>2, <1>1, <1>6 DEF Fresh, Delete, entries
    <3>2. u \in excused \/ Coming(u) \/ (u \in seeded /\ Poorer(cache[u], u))
      BY <3>1 DEF CacheInv, StaleHasCause, Coming, Poorer
    <3>3. u \in seeded /\ Poorer(cache[u], u) => u \in seeded' /\ Poorer(cache[u], u)'
      BY <2>2, <1>1 DEF Delete, Neglect, Poorer, entries
    <3>4. QED
      BY <3>2, <3>3, <1>3, <1>4
  <2>3. QED
    BY <2>1, <2>2
<1>7. \A g \in Request : pc'[g] = "set" => arg'[g] \in User
  BY DEF Delete, Goto, TypeOK
<1>8. rules' = rules /\ cache' = cache
  BY DEF Delete, entries
<1>9. QED
  BY <1>5, <1>6, <1>7, <1>8 DEF CacheInv, StaleHasCause, Coming, Poorer

\* The guards' and the entries' claims, one user at a time.
GuardFine(g) ==
    pc[g] = "set" /\ rules[g] # Rights(arg[g]) =>
        g \in overlapped \/ Coming(arg[g]) \/ (g \in outrun /\ Poorer(rules[g], arg[g]))

EntryFine(u) ==
    ~ Fresh(u) => u \in excused \/ Coming(u) \/ (u \in seeded /\ Poorer(cache[u], u))

LEMMA FineIsInv ==
  CacheInv <=> (\A g \in Request : GuardFine(g)) /\ (\A u \in User : EntryFine(u))
  BY DEF CacheInv, GuardFine, EntryFine, StaleHasCause, Coming, Poorer

\* A change of the tables that leaves the entries and the guards alone, and has a
\* delete to come for whoever lost or gained rights by it.
LEMMA ChangeStep ==
  ASSUME TypeOK, CacheInv, UNCHANGED <<entries, rules, history>>,
         NEW r \in Request, pc[r] = "idle", pc'[r] # "set",
         \A q \in Request \ {r} : UNCHANGED <<pc[q], arg[q], todo[q]>>,
         \A u \in User : Rights(u)' = Rights(u) \/ Coming(u)',
         \A u \in User : Coming(u) => Coming(u)'
  PROVE  CacheInv'
<1>1. ASSUME NEW g \in Request PROVE GuardFine(g)'
  <2>1. CASE g = r
    BY <2>1 DEF GuardFine
  <2>2. CASE g # r /\ pc[g] = "set"
    <3>1. arg[g] \in User /\ arg'[g] = arg[g] /\ GuardFine(g)
      BY <2>2, FineIsInv DEF TypeOK
    <3>2. QED
      BY <2>2, <3>1 DEF GuardFine, Poorer, history
  <2>3. QED
    BY <2>1, <2>2 DEF GuardFine
<1>2. ASSUME NEW u \in User PROVE EntryFine(u)'
  <2>1. EntryFine(u)
    BY FineIsInv
  <2>2. QED
    BY <2>1 DEF EntryFine, Fresh, Poorer, history, entries
<1>3. QED
  BY <1>1, <1>2 DEF CacheInv, StaleHasCause, GuardFine, EntryFine, Coming, Poorer

\* What the seed inserts takes no right away, and Gain records whom it reaches.
LEMMA GainStep ==
  ASSUME TypeOK, CacheInv, UNCHANGED <<entries, pc, arg, rules, todo, roles, permissions>>,
         userRoles \subseteq userRoles', rolePermissions \subseteq rolePermissions', Gain
  PROVE  CacheInv'
<1>1. \A u \in User : Rights(u) \subseteq Rights(u)'
  BY DEF Rights
<1>2. \A u \in User : Coming(u) => Coming(u)'
  BY DEF Coming, Pending, UsersWithRole
<1>3. ASSUME NEW g \in Request PROVE GuardFine(g)'
  <2>1. CASE pc[g] = "set"
    <3>1. arg[g] \in User /\ GuardFine(g)
      BY <2>1, FineIsInv DEF TypeOK
    <3>2. Rights(arg[g])' # Rights(arg[g]) => g \in outrun'
      BY <2>1, <3>1 DEF Gain
    <3>3. g \in overlapped => g \in overlapped'
      BY DEF Gain
    <3>4. g \in outrun => g \in outrun'
      BY DEF Gain
    <3>5. Poorer(rules[g], arg[g]) => Poorer(rules[g], arg[g])'
      BY <1>1, <3>1 DEF Poorer
    <3>6. rules[g] = Rights(arg[g]) => Poorer(rules[g], arg[g])
      BY DEF Poorer
    <3>7. QED
      BY <1>2, <2>1, <3>1, <3>2, <3>3, <3>4, <3>5, <3>6 DEF GuardFine
  <2>2. QED
    BY <2>1 DEF GuardFine
<1>4. ASSUME NEW u \in User PROVE EntryFine(u)'
  <2>1. EntryFine(u)
    BY FineIsInv
  <2>2. CASE u \in cached
    <3>1. Rights(u)' # Rights(u) => u \in seeded'
      BY <2>2 DEF Gain
    <3>2. (u \in excused => u \in excused') /\ (u \in seeded => u \in seeded')
      BY DEF Gain
    <3>3. Poorer(cache[u], u) => Poorer(cache[u], u)'
      BY <1>1 DEF Poorer, entries
    <3>4. cache[u] = Rights(u) => Poorer(cache[u], u)
      BY DEF Poorer
    <3>5. QED
      BY <1>2, <2>1, <2>2, <3>1, <3>2, <3>3, <3>4 DEF EntryFine, Fresh, entries
  <2>3. QED
    BY <2>2 DEF EntryFine, Fresh, entries
<1>5. QED
  BY <1>3, <1>4 DEF CacheInv, StaleHasCause, GuardFine, EntryFine, Coming, Poorer

LEMMA InsertStep ==
  ASSUME TypeOK, CacheInv, Insert
  PROVE  CacheInv'
<1>1. ASSUME NEW p \in Permission, InsertPermission(p) PROVE CacheInv'
  <2>1. \A u \in User : Rights(u)' = Rights(u)
    BY <1>1 DEF InsertPermission, Rights, TypeOK
  <2>2. \A g \in Request : pc[g] # "delete" => arg'[g] = arg[g]
    BY <1>1 DEF InsertPermission
  <2>3. \A q \in Request : Pending(q)' = Pending(q)
    BY <1>1, <2>2 DEF InsertPermission, Pending, UsersWithRole
  <2>4. \A u \in User : Coming(u)' <=> Coming(u)
    BY <2>3 DEF Coming
  <2>5. ASSUME NEW g \in Request PROVE GuardFine(g)'
    <3>1. pc[g] = "set" => arg[g] \in User
      BY DEF TypeOK
    <3>2. GuardFine(g)
      BY FineIsInv
    <3>3. QED
      BY <1>1, <2>1, <2>2, <2>4, <3>1, <3>2 DEF InsertPermission, GuardFine, Poorer, history
  <2>6. ASSUME NEW u \in User PROVE EntryFine(u)'
    <3>1. EntryFine(u)
      BY FineIsInv
    <3>2. QED
      BY <1>1, <2>1, <2>4, <3>1
         DEF InsertPermission, EntryFine, Fresh, Poorer, history, entries
  <2>7. QED
    BY <2>5, <2>6 DEF CacheInv, StaleHasCause, GuardFine, EntryFine, Coming, Poorer
<1>2. ASSUME NEW role \in Role, InsertRole(role) PROVE CacheInv'
  <2>1. \A u \in User : Rights(u)' = Rights(u)
    BY <1>2 DEF InsertRole, Rights, TypeOK
  <2>2. \A u \in User : Coming(u)' <=> Coming(u)
    BY <1>2 DEF InsertRole, Coming, Pending, UsersWithRole
  <2>3. ASSUME NEW g \in Request PROVE GuardFine(g)'
    <3>1. (pc[g] = "set" => arg[g] \in User) /\ GuardFine(g)
      BY FineIsInv DEF TypeOK
    <3>2. QED
      BY <1>2, <2>1, <2>2, <3>1 DEF InsertRole, GuardFine, Poorer, history
  <2>4. ASSUME NEW u \in User PROVE EntryFine(u)'
    <3>1. EntryFine(u)
      BY FineIsInv
    <3>2. QED
      BY <1>2, <2>1, <2>2, <3>1 DEF InsertRole, EntryFine, Fresh, Poorer, history, entries
  <2>5. QED
    BY <2>3, <2>4 DEF CacheInv, StaleHasCause, GuardFine, EntryFine, Coming, Poorer
<1>3. ASSUME NEW role \in SystemRole, NEW p \in Permission, SeedGrant(role, p)
      PROVE  CacheInv'
  BY <1>3, GainStep DEF SeedGrant
<1>4. ASSUME NEW u \in User, NEW role \in SystemRole, SeedAdmin(u, role) PROVE CacheInv'
  BY <1>4, GainStep DEF SeedAdmin
<1>5. QED
  BY <1>1, <1>2, <1>3, <1>4 DEF Insert

\* A guard's entry is as its rules were: those who are still to be deleted stay so.
LEMMA StoreStep ==
  ASSUME TypeOK, CacheInv, NEW r \in Request, Store(r)
  PROVE  CacheInv'
<1>0. PICK u \in User : u = arg[r]
  BY DEF Store, TypeOK
<1>1. pc[r] = "set" /\ GuardFine(r)
  BY FineIsInv DEF Store
<1>2. /\ \A v \in User : Rights(v)' = Rights(v)
      /\ \A q \in Request : Pending(q)' = Pending(q)
  <2>1. pc'[r] = "idle" /\ todo'[r] = {}
    BY DEF Store, Finish, TypeOK
  <2>2. \A q \in Request \ {r} : UNCHANGED <<pc[q], arg[q], todo[q]>>
    BY DEF Store, Finish, TypeOK
  <2>3. QED
    BY <1>1, <2>1, <2>2 DEF Store, Rights, Pending, UsersWithRole, tables
<1>3. \A v \in User : Coming(v)' <=> Coming(v)
  BY <1>2 DEF Coming
<1>4. ASSUME NEW g \in Request PROVE GuardFine(g)'
  <2>1. CASE g = r
    BY <2>1 DEF Store, Finish, TypeOK, GuardFine
  <2>2. CASE g # r
    <3>1. /\ UNCHANGED <<pc[g], arg[g], rules[g]>>
          /\ g \in overlapped => g \in overlapped'
          /\ g \in outrun => g \in outrun'
      BY <2>2 DEF Store, Finish, TypeOK
    <3>2. GuardFine(g) /\ (pc[g] = "set" => arg[g] \in User)
      BY FineIsInv DEF TypeOK
    <3>3. QED
      BY <1>2, <1>3, <3>1, <3>2 DEF GuardFine, Poorer
  <2>3. QED
    BY <2>1, <2>2
<1>5. ASSUME NEW v \in User PROVE EntryFine(v)'
  <2>1. CASE v = u
    <3>1. cache'[u] = rules[r]
      BY <1>0 DEF Store, TypeOK
    <3>2. (r \in overlapped => u \in excused') /\ (r \in outrun => u \in seeded')
      BY <1>0 DEF Store
    <3>3. rules[r] # Rights(u) =>
             r \in overlapped \/ Coming(u) \/ (r \in outrun /\ Poorer(rules[r], u))
      BY <1>0, <1>1 DEF GuardFine
    <3>4. Poorer(rules[r], u) => Poorer(cache[u], u)'
      BY <1>1, <1>2, <3>1 DEF Poorer
    <3>5. ~ Fresh(u)' => rules[r] # Rights(u)
      BY <1>1, <1>2, <3>1 DEF Fresh
    <3>6. QED
      BY <1>3, <2>1, <3>2, <3>3, <3>4, <3>5 DEF EntryFine
  <2>2. CASE v # u
    <3>1. /\ UNCHANGED cache[v] /\ (v \in cached' <=> v \in cached)
          /\ (v \in excused' <=> v \in excused) /\ (v \in seeded' <=> v \in seeded)
      BY <1>0, <2>2 DEF Store, TypeOK
    <3>2. EntryFine(v)
      BY FineIsInv
    <3>3. QED
      BY <1>2, <1>3, <3>1, <3>2 DEF EntryFine, Fresh, Poorer
  <2>3. QED
    BY <2>1, <2>2
<1>6. QED
  BY <1>4, <1>5 DEF CacheInv, StaleHasCause, GuardFine, EntryFine, Coming, Poorer

\* The requests that change the links of a user, or of a role, delete the entries
\* of that user, or of the role's users, next.
LEMMA LinksStep ==
  ASSUME TypeOK, CacheInv, NEW r \in Request,
         \/ \E u \in User, granted \in SUBSET Role : SetRoles(r, u, granted)
         \/ \E role \in Role, granted \in SUBSET Permission : SetPermissions(r, role, granted)
  PROVE  CacheInv'
<1>1. ASSUME NEW u \in User, NEW granted \in SUBSET Role, SetRoles(r, u, granted)
      PROVE  CacheInv'
  <2>1. /\ pc[r] = "idle" /\ pc'[r] = "invalidate" /\ todo'[r] = {u}
        /\ \A q \in Request \ {r} : UNCHANGED <<pc[q], arg[q], todo[q]>>
    BY <1>1 DEF SetRoles, Begin, Only, TypeOK
  <2>2. Coming(u)'
    BY <2>1 DEF Coming, Pending
  <2>3. \A v \in User \ {u} : Rights(v)' = Rights(v)
    BY <1>1 DEF SetRoles, Rights
  <2>4. ASSUME NEW v \in User \ {u}, Coming(v) PROVE Coming(v)'
    BY <1>1, <2>1, <2>4 DEF SetRoles, Coming, Pending, UsersWithRole
  <2>5. QED
    BY <1>1, <2>1, <2>2, <2>3, <2>4, ChangeStep DEF SetRoles
<1>2. ASSUME NEW role \in Role, NEW granted \in SUBSET Permission,
             SetPermissions(r, role, granted)
      PROVE  CacheInv'
  <2>1. /\ pc[r] = "idle" /\ pc'[r] = "affected" /\ arg'[r] = role
        /\ \A q \in Request \ {r} : UNCHANGED <<pc[q], arg[q], todo[q]>>
    BY <1>2 DEF SetPermissions, Begin, TypeOK
  <2>2. ASSUME NEW u \in User, Rights(u)' # Rights(u) PROVE Coming(u)'
    <3>1. <<u, role>> \in userRoles
      BY <1>2, <2>2 DEF SetPermissions, Rights
    <3>2. QED
      BY <1>2, <2>1, <3>1 DEF SetPermissions, Coming, Pending, UsersWithRole
  <2>3. ASSUME NEW v \in User, Coming(v) PROVE Coming(v)'
    BY <1>2, <2>1, <2>3 DEF SetPermissions, Coming, Pending, UsersWithRole
  <2>4. QED
    BY <1>2, <2>1, <2>2, <2>3, ChangeStep DEF SetPermissions
<1>3. QED
  BY <1>1, <1>2

\* Every step that changes the rules of a user leaves a delete of the user's
\* entry to come, and every attempted delete marks the guards it overlaps.
LEMMA CacheStep == TypeOK /\ CacheInv /\ [Next]_vars => CacheInv'
<1> SUFFICES ASSUME TypeOK, CacheInv, [Next]_vars PROVE CacheInv'
  OBVIOUS
<1> USE CacheAssumption
    DEF CacheInv, Coming, StaleHasCause, Fresh, Pending, Rights, UsersWithRole, Poorer,
        TypeOK, Begin, Goto, Finish, Write, tables, entries, history
<1>1. ASSUME NEW r \in Request, NEW u \in User,
             Check(r, u)
      PROVE  CacheInv'
  BY <1>1 DEF Check
<1>2. ASSUME NEW r \in Request, Hit(r)
      PROVE  CacheInv'
  BY <1>2 DEF Hit
<1>3. ASSUME NEW r \in Request, MissOrError(r)
      PROVE  CacheInv'
  BY <1>3 DEF MissOrError
<1>4. ASSUME NEW r \in Request, Load(r)
      PROVE  CacheInv'
  BY <1>4 DEF Load
<1>5. ASSUME NEW r \in Request, Store(r)
      PROVE  CacheInv'
  BY <1>5, StoreStep
<1>6. ASSUME NEW r \in Request, StoreFails(r)
      PROVE  CacheInv'
  BY <1>6 DEF StoreFails
<1>7. ASSUME NEW r \in Request, NEW u \in User, NEW granted \in SUBSET Role,
             SetRoles(r, u, granted)
      PROVE  CacheInv'
  BY <1>7, LinksStep
<1>8. ASSUME NEW r \in Request, NEW role \in Role, NEW granted \in SUBSET Permission,
             SetPermissions(r, role, granted)
      PROVE  CacheInv'
  BY <1>8, LinksStep
<1>9. ASSUME NEW r \in Request, FindAffected(r)
      PROVE  CacheInv'
  BY <1>9 DEF FindAffected
<1>10. ASSUME NEW r \in Request, NEW role \in Role,
             RemoveRole(r, role)
      PROVE  CacheInv'
  BY <1>10 DEF RemoveRole
<1>11. ASSUME NEW r \in Request, NEW p \in Permission,
             RemovePermission(r, p)
      PROVE  CacheInv'
  BY <1>11 DEF RemovePermission
<1>12. ASSUME NEW r \in Request, Delete(r)
      PROVE  CacheInv'
  BY <1>12, DeleteStep
<1>13. ASSUME NEW r \in Request, NEW u \in User,
             Invalidate(r, u)
      PROVE  CacheInv'
  BY <1>13 DEF Invalidate, Attempt, Dropped
<1>14. ASSUME NEW r \in Request, NEW u \in User,
             InvalidateFails(r, u)
      PROVE  CacheInv'
  BY <1>14 DEF InvalidateFails, Attempt
<1>15. ASSUME NEW r \in Request, Answer(r)
      PROVE  CacheInv'
  BY <1>15 DEF Answer
<1>16. ASSUME NEW r \in Request, Crash(r)
      PROVE  CacheInv'
  BY <1>16 DEF Crash, Neglect
<1>17. ASSUME NEW u \in User, Expire(u) PROVE CacheInv'
  BY <1>17 DEF Expire, Dropped
<1>18. ASSUME NEW r \in Request, NEW u \in User, SoftDelete(r, u)
      PROVE  CacheInv'
  BY <1>18 DEF SoftDelete, Only
<1>19. CASE UNCHANGED vars
  BY <1>19 DEF vars
<1>20. CASE Insert
  BY <1>20, InsertStep
<1>21. QED
  BY <1>1, <1>2, <1>3, <1>4, <1>5, <1>6, <1>7, <1>8, <1>9, <1>10, <1>11, <1>12,
     <1>13, <1>14, <1>15, <1>16, <1>17, <1>18, <1>19, <1>20 DEF Next, Call, Proceed

\* The changes of roles and permissions keep the cache coherent up to
\* overlapping guards, failed deletes, crashes and users a removal missed, for
\* any number of users, roles, permissions and requests
\* (permissions.service.ts:48-67 and 135-147, users.service.ts:189-197,
\* roles.service.ts:92-123).
THEOREM StaleEntriesHaveCause == Spec => []StaleHasCause
<1>1. Init => CacheInv
  BY DEF Init, CacheInv, StaleHasCause, Fresh
<1>2. TypeOK /\ CacheInv /\ [Next]_vars => CacheInv'
  BY CacheStep
<1>3. CacheInv => StaleHasCause
  BY DEF CacheInv
<1>4. QED
  BY <1>1, <1>2, <1>3, CacheTypeCorrect, PTL DEF Spec

-----------------------------------------------------------------------------
\* The mapping to RulesCache, by name.
Permitted == {u \in User : Needed \subseteq Rights(u)}
Says      == {u \in cached : Needed \subseteq cache[u]}
Loading   == [r \in Request |-> IF pc[r] = "set" THEN arg[r] ELSE None]
Saw       == {r \in Request : pc[r] = "set" /\ Needed \subseteq rules[r]}

LEMMA RulesInit == Init => Cache!CacheInit
<1> SUFFICES ASSUME Init PROVE Cache!CacheInit
  OBVIOUS
<1> QED
  BY DEF Init, Cache!CacheInit

\* A step that moves no guard to or from its caching leaves what is loaded.
LEMMA LoadsKept ==
  ASSUME \A g \in Request : /\ pc'[g] = "set" <=> pc[g] = "set"
                            /\ pc[g] = "set" => UNCHANGED <<arg[g], rules[g]>>
  PROVE  Loading' = Loading /\ Saw' = Saw
  BY DEF Loading, Saw

\* Loading, caching and giving up are those of RulesCache; an invalidation or an
\* expiry drops an entry, if there is one; the rest changes the tables at most.
LEMMA RulesStep ==
  ASSUME TypeOK, TypeOK', [Next]_vars
  PROVE  [Cache!CacheNext]_(Cache!cacheVars)
<1> DEFINE Kept == UNCHANGED <<cached, Says, Loading, Saw>>
<1>1. ASSUME Kept PROVE [Cache!CacheNext]_(Cache!cacheVars)
  <2>1. Permitted' \in SUBSET User
    BY DEF Permitted
  <2>2. Cache!Change
    BY <1>1, <2>1
       DEF Cache!Change, Cache!entryVars, Cache!loadVars, Permitted, Says, Loading, Saw
  <2>3. QED
    BY <2>2 DEF Cache!CacheNext
<1>2. ASSUME NEW r \in Request, Load(r) PROVE \E u \in User : Cache!Load(r, u)
  <2>1. PICK u \in User : u = arg[r]
    BY <1>2 DEF Load, TypeOK
  <2>2. Loading[r] = None /\ Loading' = [Loading EXCEPT ![r] = u]
    BY <1>2, <2>1 DEF Load, Goto, Loading, TypeOK
  <2>3. Saw' = IF u \in Permitted THEN Saw \cup {r} ELSE Saw
    BY <1>2, <2>1 DEF Load, Goto, Saw, Permitted, TypeOK
  <2>4. UNCHANGED <<Permitted, cached, Says>>
    BY <1>2 DEF Load, Permitted, Says, Rights, tables, entries
  <2>5. QED
    BY <2>2, <2>3, <2>4 DEF Cache!Load, Cache!entryVars, Permitted, Says, Loading, Saw
<1>3. ASSUME NEW r \in Request, pc[r] = "set", pc'[r] = "idle", UNCHANGED tables,
             \A g \in Request \ {r} : UNCHANGED <<pc[g], arg[g], rules[g]>>
      PROVE  Cache!Loaded(r)
  <2>1. Loading[r] # None
    BY <1>3, CacheAssumption DEF Loading, TypeOK
  <2>2. Loading' = [Loading EXCEPT ![r] = None]
    BY <1>3 DEF Loading, TypeOK
  <2>3. Saw' = Saw \ {r}
    BY <1>3 DEF Saw
  <2>4. UNCHANGED Permitted
    BY <1>3 DEF Permitted, Rights, tables
  <2>5. QED
    BY <2>1, <2>2, <2>3, <2>4 DEF Cache!Loaded, Permitted, Loading, Saw
<1>4. ASSUME NEW r \in Request, Store(r) PROVE Cache!Put(r)
  <2>1. Cache!Loaded(r)
    BY <1>3, <1>4 DEF Store, Finish, TypeOK
  <2>2. PICK u \in User : u = arg[r] /\ u = Loading[r] /\ pc[r] = "set"
    BY <1>4 DEF Store, Loading, TypeOK
  <2>3. cached' = cached \cup {u} /\ cache' = [cache EXCEPT ![u] = rules[r]]
    BY <1>4, <2>2 DEF Store
  <2>4. Says' = IF r \in Saw THEN Says \cup {u} ELSE Says \ {u}
    BY <2>2, <2>3 DEF Says, Saw, TypeOK
  <2>5. QED
    BY <2>1, <2>2, <2>3, <2>4 DEF Cache!Put, Says, Saw, Loading
<1>5. ASSUME NEW r \in Request, pc[r] = "set", StoreFails(r) \/ Crash(r)
      PROVE  Cache!PutFails(r)
  <2>1. Cache!Loaded(r)
    BY <1>3, <1>5 DEF StoreFails, Crash, Finish, TypeOK
  <2>2. UNCHANGED <<cached, Says>>
    BY <1>5 DEF StoreFails, Crash, Says, entries
  <2>3. QED
    BY <2>1, <2>2 DEF Cache!PutFails, Cache!entryVars, Says
<1>6. ASSUME NEW u \in User, Dropped(u), UNCHANGED <<tables, pc, arg, rules>>
      PROVE  [Cache!CacheNext]_(Cache!cacheVars)
  <2>1. UNCHANGED <<Permitted, Loading, Saw>>
    BY <1>6 DEF Permitted, Loading, Saw, Rights, tables
  <2>2. cached' = cached \ {u} /\ Says' = Says \ {u}
    BY <1>6 DEF Dropped, Says, TypeOK
  <2>3. CASE u \in cached
    <3>1. Cache!Drop(u)
      BY <2>1, <2>2, <2>3 DEF Cache!Drop, Cache!loadVars, Permitted, Says, Loading, Saw
    <3>2. QED
      BY <3>1 DEF Cache!CacheNext
  <2>4. CASE u \notin cached
    BY <1>1, <2>1, <2>2, <2>4 DEF Says
  <2>5. QED
    BY <2>3, <2>4
<1>7. ASSUME UNCHANGED entries, Loading' = Loading, Saw' = Saw PROVE Kept
  BY <1>7 DEF Says, entries
<1>8. ASSUME NEW r \in Request, Call(r) PROVE Kept
  <2>1. /\ pc[r] = "idle" /\ pc'[r] # "set"
        /\ \A g \in Request \ {r} : UNCHANGED <<pc[g], arg[g], rules[g]>>
        /\ UNCHANGED entries
    BY <1>8 DEF Call, Check, SoftDelete, SetRoles, SetPermissions, RemoveRole,
       RemovePermission, Begin, TypeOK
  <2>2. QED
    BY <1>7, <2>1, LoadsKept
<1>9. ASSUME NEW r \in Request,
             \/ Hit(r) \/ MissOrError(r) \/ FindAffected(r) \/ Delete(r) \/ Answer(r)
             \/ (Crash(r) /\ pc[r] # "set")
      PROVE  Kept
  <2>1. /\ pc[r] # "set" /\ pc'[r] # "set"
        /\ \A g \in Request \ {r} : UNCHANGED <<pc[g], arg[g], rules[g]>>
        /\ UNCHANGED entries
    BY <1>9 DEF Hit, MissOrError, FindAffected, Delete, Answer, Crash, Goto, Finish, TypeOK
  <2>2. QED
    BY <1>7, <2>1, LoadsKept
<1>10. ASSUME NEW r \in Request, NEW u \in User, InvalidateFails(r, u) PROVE Kept
  BY <1>7, <1>10, LoadsKept DEF InvalidateFails, Attempt
<1>11. CASE Insert
  <2>1. /\ pc' = pc /\ rules' = rules /\ UNCHANGED entries
        /\ \A g \in Request : pc[g] = "set" => arg'[g] = arg[g]
    BY <1>11 DEF Insert, InsertPermission, InsertRole, SeedGrant, SeedAdmin
  <2>2. QED
    BY <1>1, <1>7, <2>1, LoadsKept
<1>12. CASE UNCHANGED vars
  BY <1>1, <1>7, <1>12, LoadsKept DEF vars
<1>13. ASSUME NEW r \in Request, Proceed(r) \/ Crash(r)
       PROVE  [Cache!CacheNext]_(Cache!cacheVars)
  BY <1>1, <1>2, <1>4, <1>5, <1>6, <1>9, <1>10, <1>13
     DEF Proceed, StoreFails, Invalidate, Attempt, Cache!CacheNext
<1>14. ASSUME NEW u \in User, Expire(u) PROVE [Cache!CacheNext]_(Cache!cacheVars)
  BY <1>6, <1>14 DEF Expire
<1>15. QED
  BY <1>1, <1>8, <1>11, <1>12, <1>13, <1>14 DEF Next

\* What the guards of HttpPipeline and NotificationsGateway rest on is implemented
\* by the cache (permissions.service.ts:48-58 and 182-207), for any number of users
\* and requests and any set of rules asked for.
THEOREM CacheImplementsRules == Spec => ImplementsRulesCache
<1>1. Init => Cache!CacheInit
  BY RulesInit
<1>2. TypeOK /\ TypeOK' /\ [Next]_vars => [Cache!CacheNext]_(Cache!cacheVars)
  BY RulesStep
<1>3. QED
  BY <1>1, <1>2, CacheTypeCorrect, PTL DEF Spec, ImplementsRulesCache, Cache!CacheSpec
=============================================================================
