------------------------- MODULE AuthSessionsProofs -------------------------
(***************************************************************************)
(* Theorems about AuthSessions, for every set of requests, users, tokens   *)
(* and reset links, and every choice of the operations in use: its         *)
(* invariants, its refinement of SessionFamilies (each step of a request   *)
(* is a step of the abstract sessions or leaves them as they are), and,    *)
(* with the record of SessionOverlaps, what its sweeps miss.               *)
(***************************************************************************)
EXTENDS SessionOverlaps, TLAPS

\* The initial tables are empty and nobody holds a lock.
LEMMA TypeInit == Init => TypeOK
  BY RowAssumption, NoneAssumption
     DEF Init, LockInit, TypeOK, LockTypeOK, TablesOK, RequestsOK, Rows, Steps,
         TxSteps, TokenSteps, ResetSteps, UserSteps, ForgotSteps, Entity, NoEntity

\* The steps of a request only write rows of the right kind: the rows it
\* holds exist, and each kind of row has its own part of Row.
LEMMA TypeStep == TypeOK /\ [Next]_vars => TypeOK'
<1> SUFFICES ASSUME TypeOK, [Next]_vars PROVE TypeOK'
  OBVIOUS
<1> USE RowAssumption, NoneAssumption
    DEF TypeOK, LockTypeOK, TablesOK, RequestsOK, Rows, Steps, TxSteps,
        TokenSteps, ResetSteps, UserSteps, ForgotSteps, Entity, NoEntity,
        Begin, At, Goto, Granted, Ask, Finish, Release, Held, InsertToken,
        Live, LiveOf, LiveIn, UnusedOf, ForUpdate, UserRead,
        FamilyToRevoke, SessionsToRevoke, LinksToSpend, Linked, Found, Usable,
        dataVars, userVars, tokenVars, resetVars, reqVars, lockVars
<1>1. ASSUME NEW r \in Request, NEW u \in User, Register(r, u) PROVE TypeOK'
  BY <1>1 DEF Register, CreateUserInTransaction
<1>2. ASSUME NEW r \in Request, NEW u \in User, Login(r, u) PROVE TypeOK'
  BY <1>2 DEF Login
<1>3. ASSUME NEW r \in Request, NEW u \in User, ForgotPassword(r, u) PROVE TypeOK'
  BY <1>3 DEF ForgotPassword
<1>4. ASSUME NEW r \in Request, NEW u \in User, SoftDelete(r, u) PROVE TypeOK'
  BY <1>4 DEF SoftDelete
<1>5. ASSUME NEW r \in Request, NEW u \in User, UpdateUser(r, u) PROVE TypeOK'
  BY <1>5 DEF UpdateUser
<1>6. ASSUME NEW r \in Request, NEW t \in Token, Refresh(r, t) PROVE TypeOK'
  BY <1>6 DEF Refresh
<1>7. ASSUME NEW r \in Request, NEW t \in Token, Logout(r, t) PROVE TypeOK'
  BY <1>7 DEF Logout
<1>8. ASSUME NEW r \in Request, NEW p \in ResetToken, ResetPassword(r, p) PROVE TypeOK'
  BY <1>8 DEF ResetPassword
<1>9. ASSUME NEW r \in Request, CreateSession(r) PROVE TypeOK'
  BY <1>9 DEF CreateSession
<1>10. ASSUME NEW r \in Request, RefreshReplayed(r) PROVE TypeOK'
  BY <1>10 DEF RefreshReplayed
<1>11. ASSUME NEW r \in Request, RefreshTheft(r) PROVE TypeOK'
  BY <1>11 DEF RefreshTheft, RevokedBy
<1>12. ASSUME NEW r \in Request, RefreshExpired(r) PROVE TypeOK'
  BY <1>12 DEF RefreshExpired
<1>13. ASSUME NEW r \in Request, RefreshInactive(r) PROVE TypeOK'
  BY <1>13 DEF RefreshInactive
<1>14. ASSUME NEW r \in Request, RefreshAccepted(r) PROVE TypeOK'
  BY <1>14 DEF RefreshAccepted
<1>15. ASSUME NEW r \in Request, RefreshRotate(r) PROVE TypeOK'
  BY <1>15 DEF RefreshRotate
<1>16. ASSUME NEW r \in Request, LogoutRevoke(r) PROVE TypeOK'
  BY <1>16 DEF LogoutRevoke
<1>17. ASSUME NEW r \in Request, ForgotScan(r) PROVE TypeOK'
  BY <1>17 DEF ForgotScan
<1>18. ASSUME NEW r \in Request, ForgotInvalidate(r) PROVE TypeOK'
  BY <1>18 DEF ForgotInvalidate
<1>19. ASSUME NEW r \in Request, ForgotInsert(r) PROVE TypeOK'
  BY <1>19 DEF ForgotInsert
<1>20. ASSUME NEW r \in Request, ResetRefused(r) PROVE TypeOK'
  BY <1>20 DEF ResetRefused, ValidLink
<1>21. ASSUME NEW r \in Request, ResetAccepted(r) PROVE TypeOK'
  BY <1>21 DEF ResetAccepted, ValidLink
<1>22. ASSUME NEW r \in Request, ResetScanTokens(r) PROVE TypeOK'
  BY <1>22 DEF ResetScanTokens
<1>23. ASSUME NEW r \in Request, ResetCommit(r) PROVE TypeOK'
  BY <1>23 DEF ResetCommit
<1>24. ASSUME NEW r \in Request, DeleteScanTokens(r) PROVE TypeOK'
  BY <1>24 DEF DeleteScanTokens
<1>25. ASSUME NEW r \in Request, DeleteScanResets(r) PROVE TypeOK'
  BY <1>25 DEF DeleteScanResets
<1>26. ASSUME NEW r \in Request, DeleteCommit(r) PROVE TypeOK'
  BY <1>26 DEF DeleteCommit
<1>27. ASSUME NEW r \in Request, UpdateNothing(r) PROVE TypeOK'
  BY <1>27 DEF UpdateNothing
<1>28. ASSUME NEW r \in Request, UpdateSave(r) PROVE TypeOK'
  BY <1>28 DEF UpdateSave, Differing
<1>29. ASSUME NEW r \in Request, UpdateWrite(r) PROVE TypeOK'
  BY <1>29 DEF UpdateWrite
<1>30. ASSUME NEW r \in Request, Acquire(r) PROVE TypeOK'
  BY <1>30 DEF Acquire, AcquireRow
<1>31. ASSUME NEW r \in Request, DeadlockAbort(r) PROVE TypeOK'
  BY <1>31 DEF DeadlockAbort
<1>32. ASSUME NEW r \in Request, Crash(r) PROVE TypeOK'
  BY <1>32 DEF Crash
<1>33. ASSUME NEW x \in Token \cup ResetToken, Expire(x) PROVE TypeOK'
  BY <1>33 DEF Expire
<1>34. CASE UNCHANGED vars
  BY <1>34 DEF vars
<1>35. QED
  BY <1>1, <1>2, <1>3, <1>4, <1>5, <1>6, <1>7, <1>8, <1>9, <1>10, <1>11, <1>12, <1>13, <1>14,
     <1>15, <1>16, <1>17, <1>18, <1>19, <1>20, <1>21, <1>22, <1>23, <1>24, <1>25, <1>26,
     <1>27, <1>28, <1>29, <1>30, <1>31, <1>32, <1>33, <1>34
     DEF Next, Call, Proceed

\* Every reachable state is well-formed: the tables refer to existing rows
\* and every request is about a row of the kind its handler works on.
THEOREM TypeCorrect == Spec => []TypeOK
<1>1. Init => TypeOK
  BY TypeInit
<1>2. TypeOK /\ [Next]_vars => TypeOK'
  BY TypeStep
<1>3. QED
  BY <1>1, <1>2, PTL DEF Spec

\* Initially every request is idle.
LEMMA LocksInit == Init => LockInv
  BY DEF Init, LockInit, LockInv, TxSteps, Steps, TokenSteps, ResetSteps, UserSteps,
     ForgotSteps,
         Granted, Live

\* A row a request holds is written by that request only: every statement
\* that changes a column the other requests decide upon locks its rows first.
LEMMA LocksStep == TypeOK /\ LockInv /\ [Next]_vars => LockInv'
<1> SUFFICES ASSUME TypeOK, LockInv, [Next]_vars PROVE LockInv'
  OBVIOUS
<1> USE RowAssumption, NoneAssumption
    DEF TypeOK, LockTypeOK, TablesOK, RequestsOK, Rows, Steps, TxSteps,
        TokenSteps, ResetSteps, UserSteps, ForgotSteps, LockInv,
        Begin, At, Goto, Granted, Ask, Finish, Release, Held, InsertToken,
        Live, LiveOf, LiveIn, UnusedOf, ForUpdate, UserRead,
        FamilyToRevoke, SessionsToRevoke, LinksToSpend, Linked,
        dataVars, userVars, tokenVars, resetVars, reqVars, lockVars
<1>1. ASSUME NEW r \in Request, NEW u \in User, Register(r, u) PROVE LockInv'
  BY <1>1 DEF Register, CreateUserInTransaction
<1>2. ASSUME NEW r \in Request, NEW u \in User, Login(r, u) PROVE LockInv'
  BY <1>2 DEF Login
<1>3. ASSUME NEW r \in Request, NEW u \in User, ForgotPassword(r, u) PROVE LockInv'
  BY <1>3 DEF ForgotPassword
<1>4. ASSUME NEW r \in Request, NEW u \in User, SoftDelete(r, u) PROVE LockInv'
  BY <1>4 DEF SoftDelete
<1>5. ASSUME NEW r \in Request, NEW u \in User, UpdateUser(r, u) PROVE LockInv'
  BY <1>5 DEF UpdateUser
<1>6. ASSUME NEW r \in Request, NEW t \in Token, Refresh(r, t) PROVE LockInv'
  BY <1>6 DEF Refresh
<1>7. ASSUME NEW r \in Request, NEW t \in Token, Logout(r, t) PROVE LockInv'
  BY <1>7 DEF Logout
<1>8. ASSUME NEW r \in Request, NEW p \in ResetToken, ResetPassword(r, p) PROVE LockInv'
  BY <1>8 DEF ResetPassword
<1>9. ASSUME NEW r \in Request, CreateSession(r) PROVE LockInv'
  BY <1>9 DEF CreateSession
<1>10. ASSUME NEW r \in Request, RefreshReplayed(r) PROVE LockInv'
  BY <1>10 DEF RefreshReplayed
<1>11. ASSUME NEW r \in Request, RefreshTheft(r) PROVE LockInv'
  BY <1>11 DEF RefreshTheft, RevokedBy
<1>12. ASSUME NEW r \in Request, RefreshExpired(r) PROVE LockInv'
  BY <1>12 DEF RefreshExpired
<1>13. ASSUME NEW r \in Request, RefreshInactive(r) PROVE LockInv'
  BY <1>13 DEF RefreshInactive
<1>14. ASSUME NEW r \in Request, RefreshAccepted(r) PROVE LockInv'
  BY <1>14 DEF RefreshAccepted
<1>15. ASSUME NEW r \in Request, RefreshRotate(r) PROVE LockInv'
  BY <1>15 DEF RefreshRotate
<1>16. ASSUME NEW r \in Request, LogoutRevoke(r) PROVE LockInv'
  BY <1>16 DEF LogoutRevoke
<1>17. ASSUME NEW r \in Request, ForgotScan(r) PROVE LockInv'
  BY <1>17 DEF ForgotScan
<1>18. ASSUME NEW r \in Request, ForgotInvalidate(r) PROVE LockInv'
  BY <1>18 DEF ForgotInvalidate
<1>19. ASSUME NEW r \in Request, ForgotInsert(r) PROVE LockInv'
  BY <1>19 DEF ForgotInsert
<1>20. ASSUME NEW r \in Request, ResetRefused(r) PROVE LockInv'
  BY <1>20 DEF ResetRefused, ValidLink
<1>21. ASSUME NEW r \in Request, ResetAccepted(r) PROVE LockInv'
  BY <1>21 DEF ResetAccepted, ValidLink
<1>22. ASSUME NEW r \in Request, ResetScanTokens(r) PROVE LockInv'
  BY <1>22 DEF ResetScanTokens
<1>23. ASSUME NEW r \in Request, ResetCommit(r) PROVE LockInv'
  BY <1>23 DEF ResetCommit
<1>24. ASSUME NEW r \in Request, DeleteScanTokens(r) PROVE LockInv'
  BY <1>24 DEF DeleteScanTokens
<1>25. ASSUME NEW r \in Request, DeleteScanResets(r) PROVE LockInv'
  BY <1>25 DEF DeleteScanResets
<1>26. ASSUME NEW r \in Request, DeleteCommit(r) PROVE LockInv'
  BY <1>26 DEF DeleteCommit
<1>27. ASSUME NEW r \in Request, UpdateNothing(r) PROVE LockInv'
  BY <1>27 DEF UpdateNothing
<1>28. ASSUME NEW r \in Request, UpdateSave(r) PROVE LockInv'
  BY <1>28 DEF UpdateSave, Differing
<1>29. ASSUME NEW r \in Request, UpdateWrite(r) PROVE LockInv'
  BY <1>29 DEF UpdateWrite
<1>30. ASSUME NEW r \in Request, Acquire(r) PROVE LockInv'
  BY <1>30 DEF Acquire, AcquireRow
<1>31. ASSUME NEW r \in Request, DeadlockAbort(r) PROVE LockInv'
  BY <1>31 DEF DeadlockAbort
<1>32. ASSUME NEW r \in Request, Crash(r) PROVE LockInv'
  BY <1>32 DEF Crash
<1>33. ASSUME NEW x \in Token \cup ResetToken, Expire(x) PROVE LockInv'
  BY <1>33 DEF Expire
<1>34. CASE UNCHANGED vars
  BY <1>34 DEF vars
<1>35. QED
  BY <1>1, <1>2, <1>3, <1>4, <1>5, <1>6, <1>7, <1>8, <1>9, <1>10, <1>11, <1>12, <1>13, <1>14,
     <1>15, <1>16, <1>17, <1>18, <1>19, <1>20, <1>21, <1>22, <1>23, <1>24, <1>25, <1>26,
     <1>27, <1>28, <1>29, <1>30, <1>31, <1>32, <1>33, <1>34
     DEF Next, Call, Proceed

\* No request works on a row another one holds: what refresh and
\* resetPassword checked under the row lock still holds when they commit.
THEOREM LocksHeld == Spec => []LockInv
<1>1. Init => LockInv
  BY LocksInit
<1>2. TypeOK /\ LockInv /\ [Next]_vars => LockInv'
  BY LocksStep
<1>3. QED
  BY <1>1, <1>2, TypeCorrect, PTL DEF Spec

\* No token, no family.
LEMMA OneLiveInit == Init => AtMostOneLive
  BY DEF Init, AtMostOneLive, Live

\* Rotation revokes the token it replaces, which it holds and found live; a
\* new family cannot clash because a family bears the name of an issued row.
LEMMA OneLiveStep == TypeOK /\ LockInv /\ AtMostOneLive /\ [Next]_vars => AtMostOneLive'
<1> SUFFICES ASSUME TypeOK, LockInv, AtMostOneLive, [Next]_vars PROVE AtMostOneLive'
  OBVIOUS
<1> USE RowAssumption, NoneAssumption
    DEF TypeOK, LockTypeOK, TablesOK, RequestsOK, Rows, TokenSteps, LockInv,
        AtMostOneLive, At, Finish, Held, InsertToken, Linked, Live,
        dataVars, userVars, tokenVars, resetVars, reqVars, lockVars
<1>1. ASSUME NEW r \in Request, NEW u \in User, Register(r, u) PROVE AtMostOneLive'
  BY <1>1 DEF Register, CreateUserInTransaction
<1>2. ASSUME NEW r \in Request, NEW u \in User, Login(r, u) PROVE AtMostOneLive'
  BY <1>2 DEF Login
<1>3. ASSUME NEW r \in Request, NEW u \in User, ForgotPassword(r, u) PROVE AtMostOneLive'
  BY <1>3 DEF ForgotPassword
<1>4. ASSUME NEW r \in Request, NEW u \in User, SoftDelete(r, u) PROVE AtMostOneLive'
  BY <1>4 DEF SoftDelete
<1>5. ASSUME NEW r \in Request, NEW u \in User, UpdateUser(r, u) PROVE AtMostOneLive'
  BY <1>5 DEF UpdateUser
<1>6. ASSUME NEW r \in Request, NEW t \in Token, Refresh(r, t) PROVE AtMostOneLive'
  BY <1>6 DEF Refresh
<1>7. ASSUME NEW r \in Request, NEW t \in Token, Logout(r, t) PROVE AtMostOneLive'
  BY <1>7 DEF Logout
<1>8. ASSUME NEW r \in Request, NEW p \in ResetToken, ResetPassword(r, p) PROVE AtMostOneLive'
  BY <1>8 DEF ResetPassword
<1>9. ASSUME NEW r \in Request, CreateSession(r) PROVE AtMostOneLive'
  BY <1>9 DEF CreateSession
<1>10. ASSUME NEW r \in Request, RefreshReplayed(r) PROVE AtMostOneLive'
  BY <1>10 DEF RefreshReplayed
<1>11. ASSUME NEW r \in Request, RefreshTheft(r) PROVE AtMostOneLive'
  BY <1>11 DEF RefreshTheft, RevokedBy
<1>12. ASSUME NEW r \in Request, RefreshExpired(r) PROVE AtMostOneLive'
  BY <1>12 DEF RefreshExpired
<1>13. ASSUME NEW r \in Request, RefreshInactive(r) PROVE AtMostOneLive'
  BY <1>13 DEF RefreshInactive
<1>14. ASSUME NEW r \in Request, RefreshAccepted(r) PROVE AtMostOneLive'
  BY <1>14 DEF RefreshAccepted
<1>15. ASSUME NEW r \in Request, RefreshRotate(r) PROVE AtMostOneLive'
  BY <1>15 DEF RefreshRotate
<1>16. ASSUME NEW r \in Request, LogoutRevoke(r) PROVE AtMostOneLive'
  BY <1>16 DEF LogoutRevoke
<1>17. ASSUME NEW r \in Request, ForgotScan(r) PROVE AtMostOneLive'
  BY <1>17 DEF ForgotScan
<1>18. ASSUME NEW r \in Request, ForgotInvalidate(r) PROVE AtMostOneLive'
  BY <1>18 DEF ForgotInvalidate
<1>19. ASSUME NEW r \in Request, ForgotInsert(r) PROVE AtMostOneLive'
  BY <1>19 DEF ForgotInsert
<1>20. ASSUME NEW r \in Request, ResetRefused(r) PROVE AtMostOneLive'
  BY <1>20 DEF ResetRefused, ValidLink
<1>21. ASSUME NEW r \in Request, ResetAccepted(r) PROVE AtMostOneLive'
  BY <1>21 DEF ResetAccepted, ValidLink
<1>22. ASSUME NEW r \in Request, ResetScanTokens(r) PROVE AtMostOneLive'
  BY <1>22 DEF ResetScanTokens
<1>23. ASSUME NEW r \in Request, ResetCommit(r) PROVE AtMostOneLive'
  BY <1>23 DEF ResetCommit
<1>24. ASSUME NEW r \in Request, DeleteScanTokens(r) PROVE AtMostOneLive'
  BY <1>24 DEF DeleteScanTokens
<1>25. ASSUME NEW r \in Request, DeleteScanResets(r) PROVE AtMostOneLive'
  BY <1>25 DEF DeleteScanResets
<1>26. ASSUME NEW r \in Request, DeleteCommit(r) PROVE AtMostOneLive'
  BY <1>26 DEF DeleteCommit
<1>27. ASSUME NEW r \in Request, UpdateNothing(r) PROVE AtMostOneLive'
  BY <1>27 DEF UpdateNothing
<1>28. ASSUME NEW r \in Request, UpdateSave(r) PROVE AtMostOneLive'
  BY <1>28 DEF UpdateSave, Differing
<1>29. ASSUME NEW r \in Request, UpdateWrite(r) PROVE AtMostOneLive'
  BY <1>29 DEF UpdateWrite
<1>30. ASSUME NEW r \in Request, Acquire(r) PROVE AtMostOneLive'
  BY <1>30 DEF Acquire, AcquireRow
<1>31. ASSUME NEW r \in Request, DeadlockAbort(r) PROVE AtMostOneLive'
  BY <1>31 DEF DeadlockAbort
<1>32. ASSUME NEW r \in Request, Crash(r) PROVE AtMostOneLive'
  BY <1>32 DEF Crash
<1>33. ASSUME NEW x \in Token \cup ResetToken, Expire(x) PROVE AtMostOneLive'
  BY <1>33 DEF Expire
<1>34. CASE UNCHANGED vars
  BY <1>34 DEF vars
<1>35. QED
  BY <1>1, <1>2, <1>3, <1>4, <1>5, <1>6, <1>7, <1>8, <1>9, <1>10, <1>11, <1>12, <1>13, <1>14,
     <1>15, <1>16, <1>17, <1>18, <1>19, <1>20, <1>21, <1>22, <1>23, <1>24, <1>25, <1>26,
     <1>27, <1>28, <1>29, <1>30, <1>31, <1>32, <1>33, <1>34
     DEF Next, Call, Proceed

\* A session never forks: two requests that refresh the same family at the
\* same time cannot both leave with a usable token (auth.service.ts:128-183).
THEOREM OneLiveToken == Spec => []AtMostOneLive
<1>1. Init => AtMostOneLive
  BY OneLiveInit
<1>2. TypeOK /\ LockInv /\ AtMostOneLive /\ [Next]_vars => AtMostOneLive'
  BY OneLiveStep
<1>3. QED
  BY <1>1, <1>2, TypeCorrect, LocksHeld, PTL DEF Spec

\* No token, no chain.
LEMMA ChainInit == Init => RotationChain
  BY DEF Init, RotationChain, Live

\* Only rotation marks a token used, and it names the row it has just inserted.
LEMMA ChainStep == TypeOK /\ LockInv /\ RotationChain /\ [Next]_vars => RotationChain'
<1> SUFFICES ASSUME TypeOK, LockInv, RotationChain, [Next]_vars PROVE RotationChain'
  OBVIOUS
<1> USE RowAssumption, NoneAssumption
    DEF TypeOK, LockTypeOK, TablesOK, RequestsOK, Rows, TokenSteps, LockInv,
        RotationChain, At, Finish, Held, InsertToken, Linked, Live,
        dataVars, userVars, tokenVars, resetVars, reqVars, lockVars
<1>1. ASSUME NEW r \in Request, NEW u \in User, Register(r, u) PROVE RotationChain'
  BY <1>1 DEF Register, CreateUserInTransaction
<1>2. ASSUME NEW r \in Request, NEW u \in User, Login(r, u) PROVE RotationChain'
  BY <1>2 DEF Login
<1>3. ASSUME NEW r \in Request, NEW u \in User, ForgotPassword(r, u) PROVE RotationChain'
  BY <1>3 DEF ForgotPassword
<1>4. ASSUME NEW r \in Request, NEW u \in User, SoftDelete(r, u) PROVE RotationChain'
  BY <1>4 DEF SoftDelete
<1>5. ASSUME NEW r \in Request, NEW u \in User, UpdateUser(r, u) PROVE RotationChain'
  BY <1>5 DEF UpdateUser
<1>6. ASSUME NEW r \in Request, NEW t \in Token, Refresh(r, t) PROVE RotationChain'
  BY <1>6 DEF Refresh
<1>7. ASSUME NEW r \in Request, NEW t \in Token, Logout(r, t) PROVE RotationChain'
  BY <1>7 DEF Logout
<1>8. ASSUME NEW r \in Request, NEW p \in ResetToken, ResetPassword(r, p) PROVE RotationChain'
  BY <1>8 DEF ResetPassword
<1>9. ASSUME NEW r \in Request, CreateSession(r) PROVE RotationChain'
  BY <1>9 DEF CreateSession
<1>10. ASSUME NEW r \in Request, RefreshReplayed(r) PROVE RotationChain'
  BY <1>10 DEF RefreshReplayed
<1>11. ASSUME NEW r \in Request, RefreshTheft(r) PROVE RotationChain'
  BY <1>11 DEF RefreshTheft, RevokedBy
<1>12. ASSUME NEW r \in Request, RefreshExpired(r) PROVE RotationChain'
  BY <1>12 DEF RefreshExpired
<1>13. ASSUME NEW r \in Request, RefreshInactive(r) PROVE RotationChain'
  BY <1>13 DEF RefreshInactive
<1>14. ASSUME NEW r \in Request, RefreshAccepted(r) PROVE RotationChain'
  BY <1>14 DEF RefreshAccepted
<1>15. ASSUME NEW r \in Request, RefreshRotate(r) PROVE RotationChain'
  BY <1>15 DEF RefreshRotate
<1>16. ASSUME NEW r \in Request, LogoutRevoke(r) PROVE RotationChain'
  BY <1>16 DEF LogoutRevoke
<1>17. ASSUME NEW r \in Request, ForgotScan(r) PROVE RotationChain'
  BY <1>17 DEF ForgotScan
<1>18. ASSUME NEW r \in Request, ForgotInvalidate(r) PROVE RotationChain'
  BY <1>18 DEF ForgotInvalidate
<1>19. ASSUME NEW r \in Request, ForgotInsert(r) PROVE RotationChain'
  BY <1>19 DEF ForgotInsert
<1>20. ASSUME NEW r \in Request, ResetRefused(r) PROVE RotationChain'
  BY <1>20 DEF ResetRefused, ValidLink
<1>21. ASSUME NEW r \in Request, ResetAccepted(r) PROVE RotationChain'
  BY <1>21 DEF ResetAccepted, ValidLink
<1>22. ASSUME NEW r \in Request, ResetScanTokens(r) PROVE RotationChain'
  BY <1>22 DEF ResetScanTokens
<1>23. ASSUME NEW r \in Request, ResetCommit(r) PROVE RotationChain'
  BY <1>23 DEF ResetCommit
<1>24. ASSUME NEW r \in Request, DeleteScanTokens(r) PROVE RotationChain'
  BY <1>24 DEF DeleteScanTokens
<1>25. ASSUME NEW r \in Request, DeleteScanResets(r) PROVE RotationChain'
  BY <1>25 DEF DeleteScanResets
<1>26. ASSUME NEW r \in Request, DeleteCommit(r) PROVE RotationChain'
  BY <1>26 DEF DeleteCommit
<1>27. ASSUME NEW r \in Request, UpdateNothing(r) PROVE RotationChain'
  BY <1>27 DEF UpdateNothing
<1>28. ASSUME NEW r \in Request, UpdateSave(r) PROVE RotationChain'
  BY <1>28 DEF UpdateSave, Differing
<1>29. ASSUME NEW r \in Request, UpdateWrite(r) PROVE RotationChain'
  BY <1>29 DEF UpdateWrite
<1>30. ASSUME NEW r \in Request, Acquire(r) PROVE RotationChain'
  BY <1>30 DEF Acquire, AcquireRow
<1>31. ASSUME NEW r \in Request, DeadlockAbort(r) PROVE RotationChain'
  BY <1>31 DEF DeadlockAbort
<1>32. ASSUME NEW r \in Request, Crash(r) PROVE RotationChain'
  BY <1>32 DEF Crash
<1>33. ASSUME NEW x \in Token \cup ResetToken, Expire(x) PROVE RotationChain'
  BY <1>33 DEF Expire
<1>34. CASE UNCHANGED vars
  BY <1>34 DEF vars
<1>35. QED
  BY <1>1, <1>2, <1>3, <1>4, <1>5, <1>6, <1>7, <1>8, <1>9, <1>10, <1>11, <1>12, <1>13, <1>14,
     <1>15, <1>16, <1>17, <1>18, <1>19, <1>20, <1>21, <1>22, <1>23, <1>24, <1>25, <1>26,
     <1>27, <1>28, <1>29, <1>30, <1>31, <1>32, <1>33, <1>34
     DEF Next, Call, Proceed

\* A family is one chain (refresh, auth.service.ts:167-184): each used token has one
\* successor, of its own, in the same family and of the same user, and every token
\* but the first is somebody's successor: no rotation was done twice, for the first
\* of two successors would be left without a predecessor.
THEOREM ChainHolds == Spec => []RotationChain
<1>1. Init => RotationChain
  BY ChainInit
<1>2. TypeOK /\ LockInv /\ RotationChain /\ [Next]_vars => RotationChain'
  BY ChainStep
<1>3. QED
  BY <1>1, <1>2, TypeCorrect, LocksHeld, PTL DEF Spec

\* The step that changes a password is the write of an update of that user, or
\* the commit of a reset, whose link was locked and found unused.
LEMMA PasswordStep ==
  ASSUME TypeOK, LockInv, [Next]_vars
  PROVE  \A u \in User : password'[u] # password[u] /\ ~ UpdateOf(u) =>
            /\ password'[u] \in resetUsed' \ resetUsed
            /\ resetOwner[password'[u]] = u
<1>1. ASSUME NEW r \in Request, ResetCommit(r) PROVE
         \A u \in User : password'[u] # password[u] =>
            /\ password'[u] \in resetUsed' \ resetUsed
            /\ resetOwner[password'[u]] = u
  <2>1. arg[r] \in resets \ resetUsed
    BY <1>1 DEF ResetCommit, At, LockInv
  <2>2. QED
    BY <1>1, <2>1 DEF ResetCommit, TypeOK, TablesOK
<1>2. ASSUME NEW r \in Request, UpdateWrite(r), NEW u \in User, password'[u] # password[u]
      PROVE  UpdateOf(u)
  <2>1. arg[r] = u
    BY <1>2 DEF UpdateWrite, TypeOK, TablesOK
  <2>2. pc[r] = "updateWrite" /\ pc'[r] = "idle"
    BY <1>2 DEF UpdateWrite, At, Finish, TypeOK, RequestsOK
  <2>3. QED
    BY <2>1, <2>2 DEF UpdateOf
<1>3. ASSUME NEW r \in Request, ~ ResetCommit(r), ~ UpdateWrite(r),
             Call(r) \/ Proceed(r) \/ Acquire(r) \/ DeadlockAbort(r) \/ Crash(r)
      PROVE  password' = password
  BY <1>3 DEF Call, Proceed, Register, CreateUserInTransaction, Login, ForgotPassword,
     SoftDelete,
     UpdateUser, Refresh, Logout, ResetPassword, CreateSession, RefreshReplayed,
     RefreshTheft, RevokedBy, RefreshExpired, RefreshInactive, RefreshAccepted, RefreshRotate,
     LogoutRevoke, ForgotScan, ForgotInvalidate, ForgotInsert, ResetRefused,
     ResetAccepted, ResetScanTokens, DeleteScanTokens,
     DeleteScanResets, DeleteCommit, UpdateNothing, UpdateSave, Acquire, DeadlockAbort,
     Crash, dataVars, userVars
<1>4. ASSUME NEW x \in Token \cup ResetToken, Expire(x) PROVE password' = password
  BY <1>4 DEF Expire, userVars
<1>5. CASE UNCHANGED vars
  BY <1>5 DEF vars, dataVars, userVars
<1>6. QED
  BY <1>1, <1>2, <1>3, <1>4, <1>5 DEF Next

\* A reset link changes a password once, and nothing but it and the write of an
\* administrator's update (save() can bring an earlier password back) changes
\* one, however many requests, links and users there are.
THEOREM ResetLinkSpentOnce == Spec => PasswordChangedByFreshLink
<1>1. TypeOK /\ LockInv /\ [Next]_vars =>
        [\A u \in User : password'[u] # password[u] /\ ~ UpdateOf(u) =>
            /\ password'[u] \in resetUsed' \ resetUsed
            /\ resetOwner[password'[u]] = u]_vars
  BY PasswordStep
<1>2. QED
  BY <1>1, TypeCorrect, LocksHeld, PTL DEF Spec, PasswordChangedByFreshLink

-----------------------------------------------------------------------------
\* The rows the transaction of a request holds, and those its current statement
\* found and still waits for.
Claims(r) == want[r] \cup Held(r)

\* The user a row belongs to.
RowUser(x) == IF x \in User THEN x ELSE IF x \in Token THEN owner[x] ELSE resetOwner[x]

OnePerFamily(T) == \A t, n \in T : family[t] = family[n] => t = n

FamilyHasOneUser ==
    \A t, n \in issued : family[t] = family[n] => owner[t] = owner[n]

\* What each step may hold and wait for: rows of its own user, the row it was
\* called for alone until that row is checked, and of one table afterwards.
ClaimsInv ==
    \A r \in Request :
       /\ \A x \in Claims(r) : RowUser(x) = UserOf(r)
       /\ \A x \in want[r] : lock[x] # r
       /\ pc[r] \in {"refresh", "logout", "reset", "delete", "updateWrite"}
             => Claims(r) \subseteq {arg[r]}
       /\ pc[r] = "rotate" => want[r] = {}
       /\ pc[r] = "theft" =>
             /\ arg[r] \in revoked
             /\ Claims(r) \subseteq {t \in issued : family[t] = family[arg[r]]}
             /\ OnePerFamily(Claims(r) \ {arg[r]})
       /\ pc[r] = "forgotLock" => Claims(r) \subseteq resets
       /\ pc[r] = "resetUser" => /\ Claims(r) \subseteq {arg[r], resetOwner[arg[r]]}
                                 /\ resetOwner[arg[r]] \in Claims(r)
       /\ pc[r] = "resetTokens" => lock[resetOwner[arg[r]]] = r
       /\ pc[r] \in {"resetTokens", "deleteTokens"} =>
             want[r] \subseteq Token /\ OnePerFamily(Claims(r) \cap Token)
       /\ pc[r] = "deleteResets" => want[r] \subseteq ResetToken

\* Requests that answer replays never wait for each other in a ring.
NoTheftRing == \A S \in SUBSET AtSteps({"theft"}) : ~ Ring(S)

\* Nobody holds a row, or waits.
LEMMA ClaimsInit == Init => ClaimsInv /\ FamilyHasOneUser /\ NoTheftRing
  BY NoneAssumption DEF Init, LockInit, ClaimsInv, FamilyHasOneUser, NoTheftRing, Claims,
     Held, AtSteps, Ring

\* A statement claims what it finds: the rows of its user, or of the family of
\* the replayed token; the usable tokens it finds are one per family.
LEMMA ClaimsStep ==
  ASSUME TypeOK, TypeOK', LockInv, AtMostOneLive, RotationChain, FamilyHasOneUser,
         ClaimsInv, [Next]_vars
  PROVE  ClaimsInv' /\ FamilyHasOneUser'
<1> USE RowAssumption, NoneAssumption
    DEF TypeOK, LockTypeOK, TablesOK, RequestsOK, Rows, Steps, TxSteps,
        TokenSteps, ResetSteps, UserSteps, ForgotSteps, LockInv, AtMostOneLive,
        FamilyHasOneUser,
        ClaimsInv, Claims, RowUser, UserOf, OnePerFamily,
        Begin, At, Goto, Granted, Ask, Finish, Release, Held, InsertToken,
        Live, LiveOf, LiveIn, UnusedOf, ForUpdate, UserRead,
        FamilyToRevoke, SessionsToRevoke, LinksToSpend, Linked,
        dataVars, userVars, tokenVars, resetVars, reqVars, lockVars
<1>1. ASSUME NEW r \in Request, NEW u \in User, Register(r, u)
      PROVE  ClaimsInv' /\ FamilyHasOneUser'
  BY <1>1 DEF Register, CreateUserInTransaction
<1>2. ASSUME NEW r \in Request, NEW u \in User, Login(r, u)
      PROVE  ClaimsInv' /\ FamilyHasOneUser'
  BY <1>2 DEF Login
<1>3. ASSUME NEW r \in Request, NEW u \in User, ForgotPassword(r, u)
      PROVE  ClaimsInv' /\ FamilyHasOneUser'
  BY <1>3 DEF ForgotPassword
<1>4. ASSUME NEW r \in Request, NEW u \in User, SoftDelete(r, u)
      PROVE  ClaimsInv' /\ FamilyHasOneUser'
  BY <1>4 DEF SoftDelete
<1>5. ASSUME NEW r \in Request, NEW u \in User, UpdateUser(r, u)
      PROVE  ClaimsInv' /\ FamilyHasOneUser'
  BY <1>5 DEF UpdateUser
<1>6. ASSUME NEW r \in Request, NEW t \in Token, Refresh(r, t)
      PROVE  ClaimsInv' /\ FamilyHasOneUser'
  BY <1>6 DEF Refresh
<1>7. ASSUME NEW r \in Request, NEW t \in Token, Logout(r, t)
      PROVE  ClaimsInv' /\ FamilyHasOneUser'
  BY <1>7 DEF Logout
<1>8. ASSUME NEW r \in Request, NEW p \in ResetToken, ResetPassword(r, p)
      PROVE  ClaimsInv' /\ FamilyHasOneUser'
  BY <1>8 DEF ResetPassword
<1>9. ASSUME NEW r \in Request, CreateSession(r) PROVE ClaimsInv' /\ FamilyHasOneUser'
  BY <1>9 DEF CreateSession
<1>10. ASSUME NEW r \in Request, RefreshReplayed(r) PROVE ClaimsInv' /\ FamilyHasOneUser'
  <2>1. arg[r] \in revoked /\ Held(r) \subseteq {arg[r]}
    BY <1>10 DEF RefreshReplayed, RotationChain
  <2>2. \A x \in Claims(r)' : x = arg[r] \/ x \in LiveIn(family[arg[r]])
    BY <1>10, <2>1 DEF RefreshReplayed
  <2>3. ASSUME NEW q \in Request \ {r} PROVE UNCHANGED <<Claims(q), UserOf(q), pc[q], arg[q], want[q]>>
    BY <1>10 DEF RefreshReplayed
  <2>4. UNCHANGED <<dataVars, arg, lock>> /\ pc'[r] = "theft"
    BY <1>10 DEF RefreshReplayed
  <2>. QED
    BY <2>1, <2>2, <2>3, <2>4, <1>10 DEF RefreshReplayed
<1>11. ASSUME NEW r \in Request, RefreshTheft(r) PROVE ClaimsInv' /\ FamilyHasOneUser'
  BY <1>11 DEF RefreshTheft, RevokedBy
<1>12. ASSUME NEW r \in Request, RefreshExpired(r) PROVE ClaimsInv' /\ FamilyHasOneUser'
  BY <1>12 DEF RefreshExpired
<1>13. ASSUME NEW r \in Request, RefreshInactive(r) PROVE ClaimsInv' /\ FamilyHasOneUser'
  BY <1>13 DEF RefreshInactive
<1>14. ASSUME NEW r \in Request, RefreshAccepted(r) PROVE ClaimsInv' /\ FamilyHasOneUser'
  BY <1>14 DEF RefreshAccepted
<1>15. ASSUME NEW r \in Request, RefreshRotate(r) PROVE ClaimsInv' /\ FamilyHasOneUser'
  BY <1>15 DEF RefreshRotate
<1>16. ASSUME NEW r \in Request, LogoutRevoke(r) PROVE ClaimsInv' /\ FamilyHasOneUser'
  BY <1>16 DEF LogoutRevoke
<1>17. ASSUME NEW r \in Request, ForgotScan(r) PROVE ClaimsInv' /\ FamilyHasOneUser'
  BY <1>17 DEF ForgotScan
<1>18. ASSUME NEW r \in Request, ForgotInvalidate(r) PROVE ClaimsInv' /\ FamilyHasOneUser'
  BY <1>18 DEF ForgotInvalidate
<1>19. ASSUME NEW r \in Request, ForgotInsert(r) PROVE ClaimsInv' /\ FamilyHasOneUser'
  BY <1>19 DEF ForgotInsert
<1>20. ASSUME NEW r \in Request, ResetRefused(r) PROVE ClaimsInv' /\ FamilyHasOneUser'
  BY <1>20 DEF ResetRefused, ValidLink
<1>21. ASSUME NEW r \in Request, ResetAccepted(r) PROVE ClaimsInv' /\ FamilyHasOneUser'
  BY <1>21 DEF ResetAccepted, ValidLink
<1>22. ASSUME NEW r \in Request, ResetScanTokens(r) PROVE ClaimsInv' /\ FamilyHasOneUser'
  BY <1>22 DEF ResetScanTokens
<1>23. ASSUME NEW r \in Request, ResetCommit(r) PROVE ClaimsInv' /\ FamilyHasOneUser'
  BY <1>23 DEF ResetCommit
<1>24. ASSUME NEW r \in Request, DeleteScanTokens(r) PROVE ClaimsInv' /\ FamilyHasOneUser'
  BY <1>24 DEF DeleteScanTokens
<1>25. ASSUME NEW r \in Request, DeleteScanResets(r) PROVE ClaimsInv' /\ FamilyHasOneUser'
  BY <1>25 DEF DeleteScanResets
<1>26. ASSUME NEW r \in Request, DeleteCommit(r) PROVE ClaimsInv' /\ FamilyHasOneUser'
  BY <1>26 DEF DeleteCommit
<1>27. ASSUME NEW r \in Request, UpdateNothing(r) PROVE ClaimsInv' /\ FamilyHasOneUser'
  BY <1>27 DEF UpdateNothing
<1>28. ASSUME NEW r \in Request, UpdateSave(r) PROVE ClaimsInv' /\ FamilyHasOneUser'
  BY <1>28 DEF UpdateSave, Differing
<1>29. ASSUME NEW r \in Request, UpdateWrite(r) PROVE ClaimsInv' /\ FamilyHasOneUser'
  BY <1>29 DEF UpdateWrite
<1>30. ASSUME NEW r \in Request, Acquire(r) PROVE ClaimsInv' /\ FamilyHasOneUser'
  BY <1>30 DEF Acquire, AcquireRow
<1>31. ASSUME NEW r \in Request, DeadlockAbort(r) PROVE ClaimsInv' /\ FamilyHasOneUser'
  BY <1>31 DEF DeadlockAbort
<1>32. ASSUME NEW r \in Request, Crash(r) PROVE ClaimsInv' /\ FamilyHasOneUser'
  BY <1>32 DEF Crash
<1>33. ASSUME NEW x \in Token \cup ResetToken, Expire(x) PROVE ClaimsInv' /\ FamilyHasOneUser'
  BY <1>33 DEF Expire
<1>34. CASE UNCHANGED vars
  BY <1>34 DEF vars
<1> HIDE DEF ClaimsInv, FamilyHasOneUser, TypeOK, LockInv, AtMostOneLive
<1>35. QED
  BY <1>1, <1>2, <1>3, <1>4, <1>5, <1>6, <1>7, <1>8, <1>9, <1>10, <1>11, <1>12, <1>13, <1>14,
     <1>15, <1>16, <1>17, <1>18, <1>19, <1>20, <1>21, <1>22, <1>23, <1>24, <1>25, <1>26,
     <1>27, <1>28, <1>29, <1>30, <1>31, <1>32, <1>33, <1>34
     DEF Next, Call, Proceed

\* A request that answers a replay goes on waiting for whom it waited for; it
\* waits for others only when it starts to, or when they lock a row.
LEMMA WaitsKept ==
  ASSUME TypeOK, [Next]_vars,
         NEW r \in Request, ~ RefreshReplayed(r), pc'[r] = "theft",
         NEW q \in Request, ~ Acquire(q), WaitsFor(r, q)'
  PROVE  pc[r] = "theft" /\ WaitsFor(r, q)
<1> USE DEF WaitsFor, TypeOK, LockTypeOK, RequestsOK
<1>1. ASSUME NEW p \in Request, Finish(p) PROVE pc[r] = "theft" /\ WaitsFor(r, q)
  BY <1>1, NoneAssumption DEF Finish, Release
<1>2. ASSUME NEW p \in Request, NEW step \in Steps \ {"theft"}, pc' = [pc EXCEPT ![p] = step],
             \A o \in Request \ {p} : want'[o] = want[o],
             \A x \in Row : lock'[x] # None => lock'[x] = lock[x]
      PROVE  pc[r] = "theft" /\ WaitsFor(r, q)
  BY <1>2, NoneAssumption
<1>3. ASSUME UNCHANGED <<pc, lockVars>> PROVE pc[r] = "theft" /\ WaitsFor(r, q)
  BY <1>3 DEF lockVars
<1>4. ASSUME NEW p \in Request, Acquire(p) PROVE pc[r] = "theft" /\ WaitsFor(r, q)
  <2>1. PICK x \in want[p] : /\ lock' = [lock EXCEPT ![x] = p]
                            /\ want' = [want EXCEPT ![p] = want[p] \ {x}]
    BY <1>4 DEF Acquire, AcquireRow
  <2>2. \A y \in want'[r] : y \in want[r] /\ y \in Row
    BY <2>1
  <2>3. \A y \in Row : lock'[y] = q => lock[y] = q
    BY <1>4, <2>1
  <2>4. QED
    BY <1>4, <2>2, <2>3 DEF Acquire, reqVars
<1>5. ASSUME NEW p \in Request, Call(p)
      PROVE  \E step \in Steps \ {"theft"} :
                /\ pc' = [pc EXCEPT ![p] = step]
                /\ \A o \in Request \ {p} : want'[o] = want[o]
                /\ UNCHANGED lock
  BY <1>5 DEF Call, Register, Login, ForgotPassword, SoftDelete, UpdateUser, Refresh,
     Logout, ResetPassword, Begin, Ask, lockVars, Steps, TokenSteps, ResetSteps, UserSteps,
     ForgotSteps
<1>6. ASSUME NEW p \in Request, Proceed(p), ~ Finish(p), ~ RefreshReplayed(p)
      PROVE  \E step \in Steps \ {"theft"} :
                /\ pc' = [pc EXCEPT ![p] = step]
                /\ \A o \in Request \ {p} : want'[o] = want[o]
                /\ \A x \in Row : lock'[x] # None => lock'[x] = lock[x]
  <2> USE DEF Goto, Steps, TokenSteps, ResetSteps, UserSteps, ForgotSteps
  <2>1. \/ RefreshAccepted(p) \/ ForgotScan(p) \/ ForgotInvalidate(p)
        \/ ResetAccepted(p) \/ ResetScanTokens(p)
        \/ DeleteScanTokens(p) \/ DeleteScanResets(p) \/ UpdateSave(p)
    BY <1>6 DEF Proceed, CreateSession, RefreshTheft, RefreshExpired, RefreshInactive,
       RefreshRotate, LogoutRevoke, ForgotInsert, ResetRefused, ResetCommit,
       DeleteCommit, UpdateNothing, UpdateWrite
  <2>2. CASE ForgotInvalidate(p)
    BY <2>2 DEF ForgotInvalidate, Release
  <2>3. CASE ~ ForgotInvalidate(p)
    BY <2>1, <2>3 DEF RefreshAccepted, ForgotScan, ResetAccepted, ResetScanTokens,
       DeleteScanTokens, DeleteScanResets, UpdateSave, Ask
  <2>4. QED
    BY <2>2, <2>3
<1>7. ASSUME NEW p \in Request, RefreshReplayed(p) PROVE pc[r] = "theft" /\ WaitsFor(r, q)
  BY <1>7 DEF RefreshReplayed, Goto, Ask
<1>8. QED
  BY <1>1, <1>2, <1>3, <1>4, <1>5, <1>6, <1>7
     DEF Next, DeadlockAbort, Crash, Expire, vars, reqVars, lockVars

\* Answering a replay concerns one row beside the replayed one: a family has one
\* usable token.
LEMMA TheftWantsOne ==
  ASSUME TypeOK, LockInv, ClaimsInv, NEW r \in Request, pc[r] = "theft",
         NEW x \in Claims(r) \ {arg[r]}, NEW y \in want[r]
  PROVE  x = y
<1>1. lock[arg[r]] = r /\ lock[y] # r
  BY DEF LockInv, ClaimsInv
<1>2. y \in Claims(r) \ {arg[r]}
  BY <1>1 DEF Claims
<1>3. /\ Claims(r) \subseteq {t \in issued : family[t] = family[arg[r]]}
      /\ OnePerFamily(Claims(r) \ {arg[r]})
  BY DEF ClaimsInv
<1>4. QED
  BY <1>2, <1>3 DEF OnePerFamily

\* A request starts to answer a replay when its own row is not usable any more,
\* and the usable one is held by nobody who waits; whoever gets a row on the way
\* has all it wants.
LEMMA NoTheftRingStep ==
  ASSUME TypeOK, LockInv, ClaimsInv, NoTheftRing, [Next]_vars
  PROVE  NoTheftRing'
<1> SUFFICES ASSUME NEW S \in SUBSET Request, \A r \in S : pc'[r] = "theft", Ring(S)'
             PROVE  FALSE
  BY DEF NoTheftRing, AtSteps
<1>1. ASSUME NEW p \in S, Acquire(p) PROVE FALSE
  <2>1. PICK x \in want[p] : lock[x] = None /\ want'[p] = want[p] \ {x}
    BY <1>1 DEF Acquire, AcquireRow, TypeOK, LockTypeOK
  <2>2. pc[p] = "theft" /\ x \in Row
    BY <1>1 DEF Acquire, reqVars, TypeOK, LockTypeOK
  <2>3. x \in Claims(p) \ {arg[p]}
    BY <2>1, <2>2, NoneAssumption DEF LockInv, Claims
  <2>4. want'[p] = {}
    BY <2>1, <2>2, <2>3, TheftWantsOne
  <2>5. QED
    BY <2>4 DEF Ring, WaitsFor
<1>2. ASSUME NEW p \in S, RefreshReplayed(p) PROVE FALSE
  <2>1. PICK q \in S, x \in want'[p] : lock'[x] = q
    BY DEF Ring, WaitsFor
  <2>2. /\ x \in Live /\ x \notin Held(p) /\ UNCHANGED lock
        /\ \A o \in Request \ {p} : pc'[o] = pc[o] /\ want'[o] = want[o]
    BY <1>2, <2>1 DEF RefreshReplayed, Ask, Goto, FamilyToRevoke, LiveIn, TypeOK,
       LockTypeOK, RequestsOK
  <2>3. q # p /\ pc[q] = "theft" /\ x \in Claims(q)
    BY <2>1, <2>2, RowAssumption DEF Held, Claims, Live, TypeOK, TablesOK
  <2>4. x # arg[q]
    BY <2>2, <2>3 DEF ClaimsInv, Live
  <2>5. PICK y \in want[q] : lock'[y] \in S
    BY <2>2, <2>3 DEF Ring, WaitsFor
  <2>6. x = y
    BY <2>3, <2>4, TheftWantsOne
  <2>7. QED
    BY <2>1, <2>2, <2>3, <2>5, <2>6 DEF ClaimsInv
<1>3. CASE \A p \in S : ~ Acquire(p) /\ ~ RefreshReplayed(p)
  <2>1. \A r \in S : pc[r] = "theft" /\ \E q \in S : WaitsFor(r, q)
    BY <1>3, WaitsKept DEF Ring
  <2>2. Ring(S) /\ S \in SUBSET AtSteps({"theft"})
    BY <2>1 DEF Ring, AtSteps
  <2>3. QED
    BY <2>2 DEF NoTheftRing
<1>4. QED
  BY <1>1, <1>2, <1>3

\* Whoever waits and is waited for is at one of six steps.
LEMMA WaitingAndHolding ==
  ASSUME TypeOK, LockInv, ClaimsInv, NEW r \in Request,
         NEW x \in want[r], NEW y \in Row, lock[y] = r
  PROVE  pc[r] \in {"theft", "forgotLock", "resetUser", "resetTokens", "deleteTokens",
                    "deleteResets"}
<1>1. x # y /\ x \in Claims(r) /\ y \in Claims(r)
  BY DEF ClaimsInv, Claims, Held
<1>2. pc[r] \notin {"refresh", "logout", "reset", "delete", "updateWrite"}
  <2>1. pc[r] \in {"refresh", "logout", "reset", "delete", "updateWrite"}
           => Claims(r) \subseteq {arg[r]}
    BY DEF ClaimsInv
  <2>2. QED
    BY <1>1, <2>1
<1>3. pc[r] # "rotate"
  BY DEF ClaimsInv
<1>4. pc[r] \in TxSteps
  BY DEF LockInv, Granted
<1>5. QED
  BY <1>2, <1>3, <1>4 DEF TxSteps, Steps, TokenSteps, ResetSteps, UserSteps, ForgotSteps

\* Requests that wait for each other work for one user.
LEMMA WaitsForSameUser ==
  ASSUME TypeOK, ClaimsInv, NEW r \in Request, NEW q \in Request, WaitsFor(r, q)
  PROVE  q # r /\ UserOf(q) = UserOf(r)
<1>1. PICK x \in want[r] : lock[x] = q
  BY DEF WaitsFor
<1>2. x \in Claims(r) /\ x \in Claims(q)
  BY <1>1 DEF Claims, Held, TypeOK, LockTypeOK
<1>3. RowUser(x) = UserOf(r) /\ RowUser(x) = UserOf(q)
  BY <1>2 DEF ClaimsInv
<1>4. lock[x] # r
  BY DEF ClaimsInv
<1>5. QED
  BY <1>1, <1>3, <1>4

\* Who revokes the sessions or links of a user holds the user's row.
LEMMA SweeperHoldsUser ==
  ASSUME TypeOK, LockInv, ClaimsInv, NEW r \in Request,
         pc[r] \in {"resetTokens", "deleteTokens", "deleteResets"}
  PROVE  lock[UserOf(r)] = r
<1>1. CASE pc[r] = "resetTokens"
  BY <1>1 DEF ClaimsInv, UserOf, ResetSteps
<1>2. CASE pc[r] \in {"deleteTokens", "deleteResets"}
  BY <1>2 DEF LockInv, UserOf, ResetSteps, TokenSteps
<1>3. QED
  BY <1>1, <1>2

\* What is wanted and held at the six steps, by kind of row.
LEMMA KindsOfClaims ==
  ASSUME TypeOK, LockInv, ClaimsInv, NEW r \in Request
  PROVE  /\ pc[r] = "theft" => Claims(r) \subseteq Token
         /\ pc[r] \in {"forgotLock", "resetUser"} => Claims(r) \cap Token = {}
         /\ pc[r] \in {"theft", "resetTokens", "deleteTokens"} => want[r] \subseteq Token
         /\ pc[r] \in {"forgotLock", "resetUser", "deleteResets"} => want[r] \cap Token = {}
<1>1. pc[r] = "theft" => Claims(r) \subseteq Token
  BY DEF ClaimsInv, TypeOK, TablesOK
<1>2. pc[r] = "forgotLock" => Claims(r) \cap Token = {}
  <2>1. pc[r] = "forgotLock" => Claims(r) \subseteq resets
    BY DEF ClaimsInv
  <2>2. QED
    BY <2>1, RowAssumption DEF TypeOK, TablesOK
<1>3. pc[r] = "resetUser" => Claims(r) \cap Token = {}
  <2> SUFFICES ASSUME pc[r] = "resetUser" PROVE Claims(r) \cap Token = {}
    OBVIOUS
  <2>1. arg[r] \in resets
    BY DEF TypeOK, RequestsOK, ResetSteps
  <2>2. arg[r] \in ResetToken /\ resetOwner[arg[r]] \in User
    BY <2>1 DEF TypeOK, TablesOK
  <2>3. Claims(r) \subseteq {arg[r], resetOwner[arg[r]]}
    BY DEF ClaimsInv
  <2>4. QED
    BY <2>2, <2>3, RowAssumption
<1>4. pc[r] = "deleteResets" => want[r] \cap Token = {}
  BY RowAssumption DEF ClaimsInv
<1>5. pc[r] \in {"resetTokens", "deleteTokens"} => want[r] \subseteq Token
  BY DEF ClaimsInv
<1>6. QED
  BY <1>1, <1>2, <1>3, <1>4, <1>5 DEF Claims

\* A smallest ring is of one user and at most one of its members holds the row of
\* that user.  If one spends links after it revoked the sessions, the members
\* that want links or the user are a ring without the others; if none does, those
\* that want tokens are a ring without the others, and they cannot be one: a
\* member that revokes the sessions of the user has found one token per family,
\* so those it waits for within a family would be a ring of answers to replays.
LEMMA RingsAreOverLinks ==
  ASSUME TypeOK, LockInv, ClaimsInv, NoTheftRing
  PROVE  OnlyResetLinksDeadlock
<1> SUFFICES ASSUME NEW S \in DeadlockRings
             PROVE  \E u \in User : \A r \in S :
                pc[r] \in {"resetUser", "deleteResets", "forgotLock"} /\ UserOf(r) = u
  BY DEF OnlyResetLinksDeadlock
<1>1. S \in SUBSET Request /\ Ring(S) /\ \A T \in SUBSET S : Ring(T) => T = S
  BY DEF DeadlockRings
<1>2. PICK r0 : r0 \in S
  BY <1>1 DEF Ring
<1> DEFINE u == UserOf(r0)
           Thefts == {r \in S : pc[r] = "theft"}
           TokenWaiters == {r \in S : pc[r] \in {"theft", "resetTokens", "deleteTokens"}}
<1>3. \A r \in S : UserOf(r) = u
  <2> DEFINE T == {r \in S : UserOf(r) = u}
  <2>1. Ring(T)
    BY <1>1, <1>2, WaitsForSameUser DEF Ring
  <2>2. QED
    BY <1>1, <2>1
<1>4. \A r \in S : \E q \in S : WaitsFor(q, r)
  <2> SUFFICES ASSUME NEW r \in S, \A q \in S : ~ WaitsFor(q, r) PROVE FALSE
    OBVIOUS
  <2>1. Ring(S \ {r})
    BY <1>1, WaitsForSameUser DEF Ring
  <2>2. QED
    BY <1>1, <2>1
<1>5. \A r \in S : pc[r] \in {"theft", "forgotLock", "resetUser", "resetTokens",
                              "deleteTokens", "deleteResets"}
  <2> SUFFICES ASSUME NEW r \in S PROVE pc[r] \in {"theft", "forgotLock", "resetUser",
                                           "resetTokens", "deleteTokens", "deleteResets"}
    OBVIOUS
  <2>1. PICK q \in S : WaitsFor(q, r)
    BY <1>4
  <2>2. PICK y \in want[q] : lock[y] = r
    BY <2>1 DEF WaitsFor
  <2>3. PICK x : x \in want[r]
    BY <1>1 DEF Ring, WaitsFor
  <2>4. QED
    BY <1>1, <2>2, <2>3, WaitingAndHolding DEF TypeOK, LockTypeOK
<1>6. \A r, q \in S : /\ pc[r] \in {"resetTokens", "deleteTokens", "deleteResets"}
                      /\ pc[q] \in {"resetTokens", "deleteTokens", "deleteResets"}
                      => r = q
  BY <1>1, <1>3, SweeperHoldsUser
<1>7. \A r, q \in S : WaitsFor(r, q) =>
         \E x \in want[r] : x \in Row /\ lock[x] = q /\ x \in Claims(q) /\ x \in Claims(r)
  BY <1>1 DEF WaitsFor, Claims, Held, TypeOK, LockTypeOK
<1>8. \A r, q \in S : WaitsFor(r, q) /\ pc[r] \in {"theft", "resetTokens", "deleteTokens"}
         => pc[q] \notin {"forgotLock", "resetUser"}
  BY <1>1, <1>7, KindsOfClaims
<1>9. \A r, q \in S : WaitsFor(r, q) /\ pc[r] \in {"forgotLock", "resetUser", "deleteResets"}
         => pc[q] # "theft"
  BY <1>1, <1>7, KindsOfClaims
<1>10. TokenWaiters = {}
  <2>1. ASSUME NEW d \in S, pc[d] = "deleteResets" PROVE Ring(S \ TokenWaiters)
    <3>1. \A r \in S : pc[r] \notin {"resetTokens", "deleteTokens"}
      BY <1>6, <2>1
    <3>2. QED
      BY <1>1, <1>5, <1>9, <2>1, <3>1 DEF Ring
  <2>2. ASSUME \A d \in S : pc[d] # "deleteResets", TokenWaiters # {} PROVE Ring(TokenWaiters)
    BY <1>1, <1>5, <1>8, <2>2 DEF Ring
  <2>3. ASSUME TokenWaiters = S PROVE FALSE
    <3>1. ~ Ring(S) \/ \E s \in S : pc[s] # "theft"
      BY <1>1 DEF NoTheftRing, AtSteps
    <3>2. PICK s \in S : pc[s] \in {"resetTokens", "deleteTokens"}
      BY <1>1, <2>3, <3>1
    <3>3. \A r \in S \ {s} : pc[r] = "theft"
      BY <1>6, <2>3, <3>2
    <3>4. PICK q \in S : WaitsFor(s, q)
      BY <1>1 DEF Ring
    <3>5. PICK t \in want[s] : t \in Token /\ lock[t] = q /\ t \in Claims(q) /\ t \in Claims(s)
      BY <1>1, <1>7, <3>2, <3>4, KindsOfClaims
    <3>6. q # s /\ pc[q] = "theft"
      BY <1>1, <3>3, <3>4, WaitsForSameUser
    <3> DEFINE T == {r \in Thefts : family[arg[r]] = family[t]}
    <3>7. q \in T
      BY <1>1, <3>5, <3>6 DEF ClaimsInv
    <3>8. ASSUME NEW r \in T PROVE \E p \in T : WaitsFor(r, p)
      <4>1. PICK p \in S : WaitsFor(r, p)
        BY <1>1 DEF Ring
      <4>2. PICK x \in want[r] : x \in Token /\ lock[x] = p /\ x \in Claims(p) /\ x \in Claims(r)
        BY <1>1, <1>7, <4>1, KindsOfClaims
      <4>3. family[x] = family[t]
        BY <1>1, <4>2 DEF ClaimsInv
      <4>4. p # s
        <5>1. OnePerFamily(Claims(s) \cap Token)
          BY <1>1, <3>2 DEF ClaimsInv
        <5>2. QED
          BY <3>5, <3>6, <4>2, <4>3, <5>1 DEF OnePerFamily
      <4>5. pc[p] = "theft" /\ family[x] = family[arg[p]]
        BY <1>1, <3>3, <4>2, <4>4 DEF ClaimsInv
      <4>6. QED
        BY <4>1, <4>3, <4>5
    <3>9. Ring(T) /\ T \in SUBSET AtSteps({"theft"})
      BY <1>1, <3>7, <3>8 DEF Ring, AtSteps
    <3>10. QED
      BY <3>9 DEF NoTheftRing
  <2>4. QED
    BY <1>1, <2>1, <2>2, <2>3
<1>11. u \in User
  <2>1. pc[r0] \in ResetSteps \/ pc[r0] \in UserSteps
    BY <1>2, <1>5, <1>10 DEF ResetSteps, UserSteps, ForgotSteps
  <2>2. QED
    BY <1>1, <1>2, <2>1 DEF UserOf, TypeOK, TablesOK, RequestsOK, ResetSteps, TokenSteps,
       UserSteps, ForgotSteps
<1>12. QED
  BY <1>3, <1>5, <1>10, <1>11

\* The facts on which locks and replays rest, together.
SessionInv ==
    TypeOK /\ LockInv /\ AtMostOneLive /\ RotationChain /\ FamilyHasOneUser /\ ClaimsInv

LEMMA SessionInvHolds == Spec => []SessionInv
<1>1. Init => ClaimsInv /\ FamilyHasOneUser
  BY ClaimsInit
<1>2. TypeOK /\ TypeOK' /\ LockInv /\ AtMostOneLive /\ RotationChain /\ FamilyHasOneUser
        /\ ClaimsInv /\ [Next]_vars => ClaimsInv' /\ FamilyHasOneUser'
  BY ClaimsStep
<1>3. QED
  BY <1>1, <1>2, TypeCorrect, LocksHeld, OneLiveToken, ChainHolds, PTL DEF Spec, SessionInv

\* The handlers lock rows in orders that agree on users and refresh tokens
\* (auth.service.ts:121-222, 280-322; users.service.ts:172-184): a request that
\* refreshes or revokes sessions is never part of a deadlock, whatever the number
\* of requests in the ring.
THEOREM DeadlocksAreOverLinks == Spec => []OnlyResetLinksDeadlock
<1>1. Init => NoTheftRing
  BY ClaimsInit
<1>2. SessionInv /\ NoTheftRing /\ [Next]_vars => NoTheftRing'
  BY NoTheftRingStep DEF SessionInv
<1>3. SessionInv /\ NoTheftRing => OnlyResetLinksDeadlock
  BY RingsAreOverLinks DEF SessionInv
<1>4. QED
  BY <1>1, <1>2, <1>3, SessionInvHolds, PTL DEF Spec

-----------------------------------------------------------------------------
\* The steps of one request.
StepOf(p) == Call(p) \/ Proceed(p) \/ Acquire(p) \/ DeadlockAbort(p) \/ Crash(p)

\* A step of one request leaves the others, and the rows they hold, alone.
LEMMA OthersKept ==
  ASSUME TypeOK, NEW p \in Request, StepOf(p), NEW r \in Request \ {p}
  PROVE  /\ UNCHANGED <<pc[r], arg[r], entity[r], want[r]>>
         /\ \A x \in Row : lock'[x] = r <=> lock[x] = r
<1> USE NoneAssumption DEF TypeOK, LockTypeOK, RequestsOK
<1>1. CASE Finish(p)
  BY <1>1 DEF Finish, Release
<1>2. CASE Acquire(p)
  BY <1>2 DEF Acquire, AcquireRow, reqVars
<1>3. CASE Call(p)
  BY <1>3 DEF Call, Register, Login, ForgotPassword, SoftDelete, UpdateUser, Refresh,
     Logout, ResetPassword, Begin, Ask, lockVars
<1>4. CASE Proceed(p) /\ ~ Finish(p)
  <2>1. \/ RefreshReplayed(p) \/ RefreshAccepted(p) \/ ForgotScan(p) \/ ForgotInvalidate(p)
        \/ ResetAccepted(p) \/ ResetScanTokens(p)
        \/ DeleteScanTokens(p) \/ DeleteScanResets(p) \/ UpdateSave(p)
    BY <1>4 DEF Proceed, CreateSession, RefreshTheft, RevokedBy, RefreshExpired, RefreshInactive,
       RefreshRotate, LogoutRevoke, ForgotInsert, ResetRefused, ResetCommit,
       DeleteCommit, UpdateNothing, UpdateWrite
  <2>2. CASE ForgotInvalidate(p)
    BY <2>2 DEF ForgotInvalidate, Release, Goto
  <2>3. CASE UpdateSave(p)
    BY <2>3 DEF UpdateSave, Ask
  <2>4. CASE ~ ForgotInvalidate(p) /\ ~ UpdateSave(p)
    BY <2>1, <2>4 DEF RefreshReplayed, RefreshAccepted, ForgotScan, ResetAccepted,
       ResetScanTokens, DeleteScanTokens, DeleteScanResets, Ask, Goto
  <2>5. QED
    BY <2>2, <2>3, <2>4
<1>5. QED
  BY <1>1, <1>2, <1>3, <1>4 DEF StepOf, DeadlockAbort, Crash

\* A step of a request is of its next step, or it gets one of the rows it waits for.
LEMMA OwnStepMoves ==
  ASSUME TypeOK, NEW p \in Request, StepOf(p), ~ Acquire(p), pc[p] # "idle"
  PROVE  pc'[p] # pc[p]
<1> USE DEF TypeOK, RequestsOK
<1>1. CASE Finish(p)
  BY <1>1 DEF Finish
<1>2. CASE Proceed(p) /\ ~ Finish(p)
  <2>1. \/ RefreshReplayed(p) \/ RefreshAccepted(p) \/ ForgotScan(p) \/ ForgotInvalidate(p)
        \/ ResetAccepted(p) \/ ResetScanTokens(p)
        \/ DeleteScanTokens(p) \/ DeleteScanResets(p) \/ UpdateSave(p)
    BY <1>2 DEF Proceed, CreateSession, RefreshTheft, RevokedBy, RefreshExpired, RefreshInactive,
       RefreshRotate, LogoutRevoke, ForgotInsert, ResetRefused, ResetCommit,
       DeleteCommit, UpdateNothing, UpdateWrite
  <2>2. QED
    BY <2>1 DEF RefreshReplayed, RefreshAccepted, ForgotScan, ForgotInvalidate,
       ResetAccepted, ResetScanTokens, DeleteScanTokens, DeleteScanResets, UpdateSave, Goto, At
<1>3. ~ Call(p)
  BY DEF Call, Register, Login, ForgotPassword, SoftDelete, UpdateUser, Refresh,
     Logout, ResetPassword, Begin
<1>4. QED
  BY <1>1, <1>2, <1>3 DEF StepOf, DeadlockAbort, Crash

\* While a request stays at a step its statement claims the same rows: those it
\* waited for and has not got yet, and those it got.
LEMMA ClaimsKept ==
  ASSUME TypeOK, [Next]_vars, NEW r \in Request, pc[r] # "idle", pc'[r] = pc[r]
  PROVE  UNCHANGED <<Claims(r), arg[r], entity[r]>>
<1>1. ASSUME NEW p \in Request \ {r}, StepOf(p) PROVE UNCHANGED <<Claims(r), arg[r], entity[r]>>
  BY <1>1, OthersKept DEF Claims, Held
<1>2. CASE Acquire(r)
  <2>1. PICK x \in want[r] : /\ lock[x] = None /\ lock' = [lock EXCEPT ![x] = r]
                            /\ want' = [want EXCEPT ![r] = want[r] \ {x}]
    BY <1>2 DEF Acquire, AcquireRow
  <2>2. want'[r] = want[r] \ {x} /\ x \in Row
    BY <2>1 DEF TypeOK, LockTypeOK
  <2>3. Held(r)' = Held(r) \cup {x}
    BY <2>1, <2>2 DEF Held, TypeOK, LockTypeOK
  <2>4. QED
    BY <1>2, <2>2, <2>3 DEF Claims, Acquire, reqVars
<1>3. CASE StepOf(r) /\ ~ Acquire(r)
  BY <1>3, OwnStepMoves
<1>4. CASE UNCHANGED vars \/ \E x \in Token \cup ResetToken : Expire(x)
  BY <1>4 DEF Expire, vars, reqVars, lockVars, Claims, Held
<1>5. QED
  BY <1>1, <1>2, <1>3, <1>4 DEF Next, StepOf

\* Tokens are inserted by createSession and by rotations; a row keeps its owner,
\* family and password, and what is spent stays so.
LEMMA TokensKept ==
  ASSUME TypeOK, [Next]_vars
  PROVE  /\ used \subseteq used' /\ revoked \subseteq revoked'
         /\ \A t \in issued : t \in issued' /\ UNCHANGED <<owner[t], family[t], openedWith[t]>>
         /\ \A t \in issued' \ issued :
               \E q \in Request : CreateSession(q) \/ RefreshRotate(q)
<1>1. ASSUME NEW r \in Request, CreateSession(r) \/ RefreshRotate(r)
      PROVE  /\ used \subseteq used' /\ revoked \subseteq revoked'
             /\ \A t \in issued : t \in issued' /\ UNCHANGED <<owner[t], family[t], openedWith[t]>>
  BY <1>1 DEF CreateSession, RefreshRotate, InsertToken, TypeOK, TablesOK
<1>2. ASSUME NEW r \in Request, ~ CreateSession(r), ~ RefreshRotate(r), StepOf(r)
      PROVE  UNCHANGED <<issued, family, owner, openedWith, used>> /\ revoked \subseteq revoked'
  BY <1>2 DEF StepOf, Call, Proceed, Register, CreateUserInTransaction, Login, ForgotPassword,
     SoftDelete, UpdateUser,
     Refresh, Logout, ResetPassword, RefreshReplayed, RefreshTheft, RevokedBy, RefreshExpired,
     RefreshInactive, RefreshAccepted, LogoutRevoke, ForgotScan, ForgotInvalidate, ForgotInsert,
     ResetRefused, ResetAccepted,
     ResetScanTokens, ResetCommit, DeleteScanTokens, DeleteScanResets, DeleteCommit,
     UpdateNothing, UpdateSave, UpdateWrite, Acquire, DeadlockAbort, Crash, dataVars, tokenVars
<1>3. ASSUME UNCHANGED vars \/ \E x \in Token \cup ResetToken : Expire(x)
      PROVE  UNCHANGED <<issued, family, owner, openedWith, used, revoked>>
  BY <1>3 DEF Expire, tokenVars, vars, dataVars
<1>4. QED
  BY <1>1, <1>2, <1>3 DEF Next, StepOf

\* Only a replay begins an answer to a replay.
LEMMA TheftIsEntered ==
  ASSUME TypeOK, [Next]_vars, NEW r \in Request, ~ RefreshReplayed(r), pc'[r] = "theft"
  PROVE  pc[r] = "theft"
<1>1. ASSUME NEW p \in Request \ {r}, StepOf(p) PROVE pc[r] = "theft"
  BY <1>1, OthersKept
<1>2. CASE Finish(r)
  BY <1>2 DEF Finish, TypeOK, RequestsOK
<1>3. CASE StepOf(r) /\ ~ Finish(r)
  BY <1>3 DEF StepOf, Call, Register, Login, ForgotPassword, SoftDelete, UpdateUser, Refresh,
     Logout, ResetPassword, Begin, Proceed, CreateSession, RefreshTheft, RevokedBy, RefreshExpired,
     RefreshInactive, RefreshAccepted, RefreshRotate, LogoutRevoke, ForgotScan,
     ForgotInvalidate, ForgotInsert, ResetRefused, ResetAccepted, ResetScanTokens,
     ResetCommit, DeleteScanTokens, DeleteScanResets, DeleteCommit, UpdateNothing,
     UpdateSave, UpdateWrite, Goto, Acquire, DeadlockAbort, Crash, reqVars, TypeOK, RequestsOK
<1>4. CASE UNCHANGED vars \/ \E x \in Token \cup ResetToken : Expire(x)
  BY <1>4 DEF Expire, vars, reqVars
<1>5. QED
  BY <1>1, <1>2, <1>3, <1>4 DEF Next, StepOf

\* What the answer to a replay revoked stays so: the statement commits before the
\* exception is thrown, and nothing makes a revoked row usable again.
LEMMA CondemnedStay ==
  ASSUME TypeOK, condemned \cap Live = {}, [Next]_vars
  PROVE  (condemned \cap Live = {})'
<1> SUFFICES condemned' \subseteq revoked'
  BY DEF Live
<1>1. condemned \subseteq revoked'
  BY TokensKept DEF Live, TypeOK, TablesOK
<1>2. ASSUME NEW r \in Request, RefreshTheft(r) PROVE condemned' \subseteq revoked'
  BY <1>1, <1>2 DEF RefreshTheft, RevokedBy
<1>3. ASSUME NEW r \in Request, ~ RefreshTheft(r), StepOf(r) PROVE condemned' = condemned
  BY <1>3 DEF StepOf, Call, Proceed, Register, CreateUserInTransaction, Login, ForgotPassword,
     SoftDelete, UpdateUser, Refresh, Logout, ResetPassword, CreateSession, RefreshReplayed,
     RefreshExpired, RefreshInactive, RefreshAccepted, RefreshRotate, LogoutRevoke, ForgotScan,
     ForgotInvalidate, ForgotInsert, ResetRefused, ResetAccepted, ResetScanTokens, ResetCommit,
     DeleteScanTokens, DeleteScanResets, DeleteCommit, UpdateNothing, UpdateSave, UpdateWrite,
     Acquire, DeadlockAbort, Crash, dataVars
<1>4. ASSUME UNCHANGED vars \/ \E x \in Token \cup ResetToken : Expire(x)
      PROVE  condemned' = condemned
  BY <1>4 DEF Expire, vars, dataVars
<1>5. QED
  BY <1>1, <1>2, <1>3, <1>4 DEF Next, StepOf

\* Answering a replay misses only what a rotation inserted in the meantime: the
\* usable token the statement found is still usable, or was rotated.
LEMMA TheftMissesStep ==
  ASSUME SessionInv, TypeOK', TheftMissesOnlyRotations, [Next]_vars
  PROVE  TheftMissesOnlyRotations'
<1> USE DEF SessionInv
<1>0. (condemned \cap Live = {})'
  BY CondemnedStay DEF TheftMissesOnlyRotations
<1> SUFFICES ASSUME NEW r \in Request, pc'[r] = "theft", NEW t \in LiveIn(family[arg[r]])'
             PROVE  t \in Claims(r)' \/ \E y \in Claims(r)' \ {arg'[r]} : y \in used'
  BY <1>0 DEF TheftMissesOnlyRotations, AtSteps, Claims
<1>1. CASE RefreshReplayed(r)
  BY <1>1 DEF RefreshReplayed, Ask, Goto, FamilyToRevoke, Claims, LiveIn, Live, Held,
     dataVars, tokenVars, TypeOK, LockTypeOK
<1>2. CASE ~ RefreshReplayed(r)
  <2>1. pc[r] = "theft"
    BY <1>2, TheftIsEntered
  <2>2. UNCHANGED <<Claims(r), arg[r]>>
    BY <2>1, ClaimsKept
  <2>3. arg[r] \in issued /\ arg[r] \in revoked /\ family[arg[r]] \in issued
    BY <2>1 DEF ClaimsInv, TypeOK, TablesOK, RequestsOK, TokenSteps
  <2>4. family'[arg'[r]] = family[arg[r]]
    BY <2>2, <2>3, TokensKept
  <2>5. \A y \in LiveIn(family[arg[r]]) :
           y \in Claims(r) \/ \E z \in Claims(r) \ {arg[r]} : z \in used
    BY <2>1 DEF TheftMissesOnlyRotations, AtSteps, Claims
  <2>6. CASE t \in issued
    <3>1. t \in LiveIn(family[arg[r]])
      BY <2>4, <2>6, TokensKept DEF LiveIn, Live
    <3>2. QED
      BY <2>2, <2>5, <3>1, TokensKept
  <2>7. ASSUME t \notin issued, NEW q \in Request, CreateSession(q) PROVE FALSE
    <3>1. family'[t] = t
      BY <2>7 DEF CreateSession, InsertToken, LiveIn, Live, TypeOK, TablesOK
    <3>2. QED
      BY <2>3, <2>4, <2>7, <3>1 DEF LiveIn
  <2>8. ASSUME t \notin issued, NEW q \in Request, RefreshRotate(q)
        PROVE  \E y \in Claims(r) \ {arg[r]} : y \in used'
    <3>1. arg[q] \in Live /\ arg[q] \in used'
      BY <2>8 DEF RefreshRotate, LockInv, At
    <3>2. family'[t] = family[arg[q]]
      BY <2>8 DEF RefreshRotate, InsertToken, LiveIn, Live, TypeOK, TablesOK
    <3>3. arg[q] \in LiveIn(family[arg[r]]) /\ arg[q] # arg[r]
      BY <2>3, <2>4, <3>1, <3>2 DEF LiveIn, Live
    <3>4. QED
      BY <2>5, <3>1, <3>3, TokensKept
  <2>9. QED
    BY <2>2, <2>6, <2>7, <2>8, TokensKept DEF LiveIn, Live
<1>3. QED
  BY <1>1, <1>2

\* "Kill the whole session family" (auth.service.ts:140-146): a usable token that
\* the answer to a replay leaves behind was inserted by a rotation of a row the
\* answer had found, while it waited for that row; and the rows it found stay
\* revoked although it answers with an exception.
THEOREM TheftsMissRotations == Spec => []TheftMissesOnlyRotations
<1>1. Init => TheftMissesOnlyRotations
  BY DEF Init, TheftMissesOnlyRotations, AtSteps, Live
<1>2. SessionInv /\ SessionInv' /\ TheftMissesOnlyRotations /\ [Next]_vars
        => TheftMissesOnlyRotations'
  BY TheftMissesStep DEF SessionInv
<1>3. QED
  BY <1>1, <1>2, SessionInvHolds, PTL DEF Spec

-----------------------------------------------------------------------------

\* The facts about the tables that the mapping rests on.
MapInv == TypeOK /\ LockInv /\ AtMostOneLive

\* The mapping picks the one live row of the family, if there is one.
LEMMA CurrentIsLive ==
  ASSUME TypeOK, AtMostOneLive
  PROVE  /\ Current \in [Token -> Token \cup {None}]
         /\ \A t \in Live : family[t] \in Token /\ Current[family[t]] = t
         /\ \A f \in Token : Current[f] # None =>
               Current[f] \in Live /\ family[Current[f]] = f
<1>1. ASSUME NEW f \in Token, LiveIn(f) # {}
      PROVE  CurrentOf(f) \in LiveIn(f)
  BY <1>1 DEF CurrentOf
<1>2. ASSUME NEW f \in Token, LiveIn(f) = {}
      PROVE  CurrentOf(f) = None
  BY <1>2 DEF CurrentOf
<1>3. None \notin Token
  BY RowAssumption
<1>4. QED
  BY <1>1, <1>2, <1>3 DEF Current, LiveIn, Live, TypeOK, TablesOK, AtMostOneLive

\* The same in the state after a step.
LEMMA CurrentIsLiveNext ==
  ASSUME TypeOK', AtMostOneLive'
  PROVE  /\ Current' \in [Token -> Token \cup {None}]
         /\ \A t \in Live' : family'[t] \in Token /\ Current'[family'[t]] = t
         /\ \A f \in Token : Current'[f] # None =>
               Current'[f] \in Live' /\ family'[Current'[f]] = f
<1>1. ASSUME NEW f \in Token, LiveIn(f)' # {}
      PROVE  CurrentOf(f)' \in LiveIn(f)'
  BY <1>1 DEF CurrentOf
<1>2. ASSUME NEW f \in Token, LiveIn(f)' = {}
      PROVE  CurrentOf(f)' = None
  BY <1>2 DEF CurrentOf
<1>3. None \notin Token
  BY RowAssumption
<1>4. QED
  BY <1>1, <1>2, <1>3 DEF Current, LiveIn, Live, TypeOK, TablesOK, AtMostOneLive

\* A statement that only revokes rows closes the families of the rows that
\* were live.
LEMMA RevokingCloses ==
  ASSUME MapInv, MapInv', UNCHANGED <<issued, family>>, revoked \subseteq revoked'
  PROVE  Families!Close({family[t] : t \in Live \ Live'})
<1> DEFINE closed == {family[t] : t \in Live \ Live'}
<1>1. \A f \in closed : Current[f] \in Live \ Live' /\ family[Current[f]] = f
  BY CurrentIsLive DEF MapInv
<1>2. \A f \in closed : Current[f] # None
  BY <1>1, RowAssumption DEF MapInv, TypeOK, TablesOK, Live
<1>3. revoked' = revoked \cup {Current[f] : f \in closed}
  <2>1. revoked' \ revoked = Live \ Live'
    BY DEF Live, MapInv, TypeOK, TablesOK
  <2>2. {Current[f] : f \in closed} = Live \ Live'
    BY <1>1, CurrentIsLive DEF MapInv
  <2>3. QED
    BY <2>1, <2>2
<1>4. \A f \in Token : Current'[f] = IF f \in closed THEN None ELSE Current[f]
  <2>1. Live' \subseteq Live
    BY DEF Live
  <2>2. ASSUME NEW f \in closed PROVE Current'[f] = None
    BY <1>1, <2>1, CurrentIsLive, CurrentIsLiveNext DEF MapInv
  <2>3. ASSUME NEW f \in Token \ closed PROVE Current'[f] = Current[f]
    BY <2>1, CurrentIsLive, CurrentIsLiveNext, RowAssumption DEF MapInv
  <2>4. QED
    BY <2>2, <2>3
<1>5. Current' = [f \in Token |-> IF f \in closed THEN None ELSE Current[f]]
  BY <1>4, CurrentIsLiveNext DEF MapInv
<1>6. QED
  BY <1>2, <1>3, <1>5 DEF Families!Close

\* A step that leaves the live rows and their families alone leaves the
\* abstract sessions alone.
LEMMA SameRows ==
  ASSUME UNCHANGED <<issued, family, revoked>>
  PROVE  UNCHANGED <<Current, revoked>>
  BY DEF Current, CurrentOf, LiveIn, Live

\* The tokens the abstract specification has seen are issued rows.
LEMMA FreshRow ==
  ASSUME TypeOK, AtMostOneLive, NEW t \in Token \ issued
  PROVE  Families!Fresh(t)
  BY CurrentIsLive DEF Families!Fresh, Families!Usable, TypeOK, TablesOK, Live

\* createSession opens the family of the token it inserts.
LEMMA CreateOpens ==
  ASSUME MapInv, MapInv', NEW r \in Request, CreateSession(r)
  PROVE  \E t \in Token : Families!Open(t)
<1>1. PICK t \in Token : InsertToken(t, arg[r], t, entity[r].password)
  BY DEF CreateSession
<1>2. /\ t \notin issued /\ revoked' = revoked
      /\ Live' = Live \cup {t}
      /\ family' = [family EXCEPT ![t] = t]
  <2>1. /\ t \notin issued /\ revoked' = revoked /\ issued' = issued \cup {t}
        /\ family' = [family EXCEPT ![t] = t]
    BY <1>1 DEF CreateSession, InsertToken
  <2>2. Live' = Live \cup {t}
    BY <2>1 DEF Live, MapInv, TypeOK, TablesOK
  <2>3. QED
    BY <2>1, <2>2
<1>3. ASSUME NEW f \in Token PROVE Current'[f] = IF f = t THEN t ELSE Current[f]
  <2>1. family'[t] = t
    BY <1>2 DEF MapInv, TypeOK, TablesOK
  <2>2. \A y \in Live : family'[y] = family[y]
    BY <1>2 DEF MapInv, TypeOK, TablesOK, Live
  <2>3. CASE f = t
    BY <1>2, <2>1, <2>3, CurrentIsLiveNext DEF MapInv
  <2>4. CASE f # t /\ Current[f] # None
    BY <1>2, <2>2, <2>4, CurrentIsLive, CurrentIsLiveNext DEF MapInv
  <2>5. CASE f # t /\ Current[f] = None
    BY <1>2, <2>1, <2>2, <2>5, CurrentIsLive, CurrentIsLiveNext DEF MapInv
  <2>6. QED
    BY <2>3, <2>4, <2>5
<1>4. Current' = [Current EXCEPT ![t] = t]
  BY <1>3, CurrentIsLive, CurrentIsLiveNext DEF MapInv
<1>5. QED
  BY <1>2, <1>4, FreshRow DEF Families!Open, MapInv

\* refresh puts the row it inserts in the place of the row it was shown.
LEMMA RotateRotates ==
  ASSUME MapInv, MapInv', NEW r \in Request, RefreshRotate(r)
  PROVE  \E f, n \in Token : Families!Rotate(f, n)
<1> DEFINE t == arg[r]
           f == family[t]
<1>1. PICK n \in Token : InsertToken(n, owner[t], f, openedWith[t])
  BY DEF RefreshRotate
<1>2. t \in Live /\ f \in Token
  BY CurrentIsLive DEF RefreshRotate, At, MapInv, LockInv
<1>3. /\ n \notin issued /\ revoked' = revoked \cup {t}
      /\ Live' = (Live \cup {n}) \ {t}
      /\ family' = [family EXCEPT ![n] = f]
  <2>1. /\ n \notin issued /\ revoked' = revoked \cup {t} /\ issued' = issued \cup {n}
        /\ family' = [family EXCEPT ![n] = f]
    BY <1>1 DEF RefreshRotate, InsertToken
  <2>2. Live' = (Live \cup {n}) \ {t}
    BY <1>2, <2>1 DEF Live, MapInv, TypeOK, TablesOK
  <2>3. QED
    BY <2>1, <2>2
<1>4. Current[f] = t
  BY <1>2, CurrentIsLive DEF MapInv
<1>5. ASSUME NEW g \in Token PROVE Current'[g] = IF g = f THEN n ELSE Current[g]
  <2>1. family'[n] = f
    BY <1>3 DEF MapInv, TypeOK, TablesOK
  <2>2. \A y \in Live : family'[y] = family[y]
    BY <1>3 DEF MapInv, TypeOK, TablesOK, Live
  <2>3. CASE g = f
    BY <1>2, <1>3, <2>1, <2>3, CurrentIsLiveNext DEF MapInv, Live
  <2>4. CASE g # f /\ Current[g] # None
    BY <1>2, <1>3, <1>4, <2>2, <2>4, CurrentIsLive, CurrentIsLiveNext DEF MapInv
  <2>5. CASE g # f /\ Current[g] = None
    BY <1>2, <1>3, <2>1, <2>2, <2>5, CurrentIsLive, CurrentIsLiveNext DEF MapInv
  <2>6. QED
    BY <2>3, <2>4, <2>5
<1>6. Current' = [Current EXCEPT ![f] = n]
  BY <1>2, <1>5, CurrentIsLive, CurrentIsLiveNext DEF MapInv
<1>7. Families!Fresh(n)
  BY <1>3, FreshRow DEF MapInv
<1>8. QED
  BY <1>2, <1>3, <1>4, <1>6, <1>7, RowAssumption DEF Families!Rotate, Live, MapInv, TypeOK,
     TablesOK

\* Every step of a request is a step of the abstract sessions or none.
LEMMA StepRefines ==
  MapInv /\ MapInv' /\ [Next]_vars => [Families!Next]_<<Current, revoked>>
<1> SUFFICES ASSUME MapInv, MapInv', [Next]_vars
             PROVE  [Families!Next]_<<Current, revoked>>
  OBVIOUS
<1>1. ASSUME NEW r \in Request, CreateSession(r) PROVE Families!Next
  BY <1>1, CreateOpens DEF Families!Next
<1>2. ASSUME NEW r \in Request, RefreshRotate(r) PROVE Families!Next
  BY <1>2, RotateRotates DEF Families!Next
<1>3. ASSUME UNCHANGED <<issued, family>>, revoked \subseteq revoked' PROVE Families!Next
  <2>1. {family[t] : t \in Live \ Live'} \in SUBSET Token
    BY DEF MapInv, TypeOK, TablesOK, Live
  <2>2. QED
    BY <1>3, <2>1, RevokingCloses DEF Families!Next
<1>4. ASSUME NEW r \in Request, ~ CreateSession(r), ~ RefreshRotate(r),
             Call(r) \/ Proceed(r) \/ Acquire(r) \/ DeadlockAbort(r) \/ Crash(r)
      PROVE  UNCHANGED <<issued, family>> /\ revoked \subseteq revoked'
  BY <1>4 DEF Call, Proceed, Register, CreateUserInTransaction, Login, ForgotPassword,
     SoftDelete, UpdateUser,
     Refresh, Logout, ResetPassword, RefreshReplayed, RefreshTheft, RevokedBy, RefreshExpired,
     RefreshInactive, RefreshAccepted, LogoutRevoke, ForgotScan, ForgotInvalidate, ForgotInsert,
     ResetRefused, ResetAccepted,
     ResetScanTokens, ResetCommit, DeleteScanTokens, DeleteScanResets, DeleteCommit,
     UpdateNothing, UpdateSave, UpdateWrite, Acquire, DeadlockAbort, Crash, dataVars, tokenVars
<1>5. ASSUME NEW x \in Token \cup ResetToken, Expire(x)
      PROVE  UNCHANGED <<issued, family>> /\ revoked \subseteq revoked'
  BY <1>5 DEF Expire, tokenVars
<1>6. CASE UNCHANGED vars
  BY <1>6, SameRows DEF vars, dataVars, tokenVars
<1>7. QED
  BY <1>1, <1>2, <1>3, <1>4, <1>5, <1>6 DEF Next

\* The refresh tokens of AuthSessions keep the promise of SessionFamilies
\* (auth.service.ts:114-222, 303-321; users.service.ts:172-184): one usable
\* token per session, replaced by rotation; what is spent or closed stays so.
THEOREM RefinesFamilies == Spec => ImplementsFamilies
<1>1. Init => Families!Init
  BY DEF Init, Families!Init, Current, CurrentOf, LiveIn, Live
<1>2. MapInv /\ MapInv' /\ [Next]_vars => [Families!Next]_<<Current, revoked>>
  BY StepRefines
<1>3. Spec => []MapInv
  BY TypeCorrect, LocksHeld, OneLiveToken, PTL DEF MapInv
<1>4. QED
  BY <1>1, <1>2, <1>3, PTL DEF Spec, ImplementsFamilies, Families!Spec

-----------------------------------------------------------------------------
\* With the record of SessionOverlaps.

\* Every open request that may insert a row and has a rival is recorded.
BesideInv == \A q \in Inserting : HasRival(q) => q \in beside

\* Without updates: an idle request knows nothing, a user starts with the password
\* of the registration, a request that is about to open a session read the current
\* password unless it overlapped a sweep, and a sweep has found every usable token
\* except those that requests beside it inserted.
SweepInv ==
    /\ \A r \in Request : pc[r] \notin {"updateSave", "updateWrite"}
    /\ \A r \in Request : pc[r] = "idle" => entity[r] = NoEntity
    /\ \A u \in User \ registered : password[u] = Initial
    /\ \A q \in AtSteps({"session"}) :
          q \in beside \/ (entity[q].password = password[arg[q]] /\ arg[q] \notin deleted)
    /\ \A r \in AtSteps({"resetTokens", "deleteTokens", "deleteResets"}) :
          \A t \in LiveOf(UserOf(r)) : t \in Claims(r) \/ family[t] \in missed

\* A forgotPassword has found every unused link of the user except those that
\* forgotPasswords beside it inserted.
LinkInv ==
    /\ \A r \in AtSteps({"forgotLock"}) : \A p \in UnusedOf(arg[r]) :
          p \in Claims(r) \/ (p \in missed /\ r \in beside)
    /\ \A r \in AtSteps({"forgotInsert"}) : \A p \in UnusedOf(arg[r]) :
          p \in missed /\ r \in beside

\* What the record keeps: whoever had a rival until it is done, and what those
\* inserted until it can no longer be used.
LEMMA RecordKept ==
  ASSUME Watch
  PROVE  /\ BesideInv'
         /\ \A q \in Inserting' : q \in beside => q \in beside'
         /\ \A f \in Usables' : f \in missed => f \in missed'
         /\ \A q \in beside : pc'[q] = "idle" =>
               /\ (resets' \ resets) \cap Usables' \subseteq missed'
               /\ \A t \in issued' \ issued : family'[t] \in Usables' => family'[t] \in missed'
  BY DEF Watch, BesideInv

\* Who inserts a usable token of a user whose tokens are being swept is recorded.
LEMMA InsertBesideSweep ==
  ASSUME SessionInv, BesideInv, Watch,
         NEW q \in Request, CreateSession(q) \/ RefreshRotate(q),
         NEW t \in Live' \ issued,
         NEW r \in Request, pc[r] \in SweepSteps, UserOf(r) = owner'[t]
  PROVE  family'[t] \in missed'
<1> USE DEF SessionInv
<1>1. r # q
  BY DEF CreateSession, RefreshRotate, At, SweepSteps
<1>2. UserOf(q) = owner'[t] /\ t \in issued'
  BY DEF CreateSession, RefreshRotate, At, InsertToken, UserOf, ResetSteps, TokenSteps,
     Live, TypeOK, TablesOK
<1>3. q \in Inserting /\ pc[q] \notin ForgotSteps
  BY DEF Inserting, CreateSession, RefreshRotate, At, ForgotSteps
<1>4. q \in beside
  BY <1>1, <1>2, <1>3 DEF BesideInv, HasRival, RivalSteps
<1>5. pc'[q] = "idle"
  BY DEF CreateSession, RefreshRotate, Finish, TypeOK, RequestsOK
<1>6. family'[t] \in Usables'
  BY DEF Usables
<1>7. QED
  BY <1>2, <1>4, <1>5, <1>6, RecordKept

\* Without updates a password and the mark of a deletion change in the commits of
\* the sweeps only.
LEMMA SweepsChangeUsers ==
  ASSUME TypeOK, "update" \notin Ops, SweepInv, [Next]_vars
  PROVE  /\ registered \subseteq registered'
         /\ \A u \in User : password'[u] # password[u] =>
               \E r \in Request : ResetCommit(r) /\ UserOf(r) = u
         /\ \A u \in deleted' \ deleted : \E r \in Request : DeleteCommit(r) /\ UserOf(r) = u
<1>1. ASSUME NEW r \in Request, ResetCommit(r)
      PROVE  /\ UNCHANGED <<registered, deleted>>
             /\ \A u \in User : password'[u] # password[u] => UserOf(r) = u
  BY <1>1 DEF ResetCommit, At, UserOf, ResetSteps, TypeOK, TablesOK
<1>2. ASSUME NEW r \in Request, DeleteCommit(r)
      PROVE  /\ UNCHANGED <<registered, password>>
             /\ \A u \in deleted' \ deleted : UserOf(r) = u
  BY <1>2 DEF DeleteCommit, At, UserOf, ResetSteps, TokenSteps
<1>3. ASSUME NEW r \in Request, ~ ResetCommit(r), ~ DeleteCommit(r), StepOf(r)
      PROVE  UNCHANGED <<password, deleted>> /\ registered \subseteq registered'
  <2>1. ~ UpdateWrite(r)
    BY DEF SweepInv, UpdateWrite, At
  <2>2. QED
    BY <1>3, <2>1 DEF StepOf, Call, Proceed, Register, CreateUserInTransaction, Login,
       ForgotPassword, SoftDelete, UpdateUser,
     Refresh, Logout, ResetPassword, CreateSession, RefreshReplayed, RefreshTheft, RevokedBy,
     RefreshExpired,
     RefreshInactive, RefreshAccepted, RefreshRotate, LogoutRevoke, ForgotScan,
     ForgotInvalidate, ForgotInsert, ResetRefused, ResetAccepted,
     ResetScanTokens, DeleteScanTokens, DeleteScanResets,
     UpdateNothing, UpdateSave, Acquire, DeadlockAbort, Crash, dataVars, userVars
<1>4. ASSUME UNCHANGED vars \/ \E x \in Token \cup ResetToken : Expire(x)
      PROVE  UNCHANGED userVars
  BY <1>4 DEF Expire, vars, dataVars
<1>5. QED
  BY <1>1, <1>2, <1>3, <1>4 DEF Next, StepOf, userVars


\* A request changes its step by a step of its own.
LEMMA OwnMove ==
  ASSUME TypeOK, [Next]_vars, NEW r \in Request, pc'[r] # pc[r]
  PROVE  StepOf(r)
<1>1. ASSUME NEW p \in Request \ {r}, StepOf(p) PROVE FALSE
  BY <1>1, OthersKept
<1>2. CASE UNCHANGED vars \/ \E x \in Token \cup ResetToken : Expire(x)
  BY <1>2 DEF Expire, vars, reqVars
<1>3. QED
  BY <1>1, <1>2 DEF Next, StepOf

\* Where the requests that sweep, or insert, come from.
LEMMA EntersStep ==
  ASSUME TypeOK, NEW r \in Request, StepOf(r), pc'[r] # pc[r]
  PROVE  /\ pc'[r] = "idle" => Finish(r)
         /\ pc'[r] = "session" => \E u \in User : Register(r, u) \/ Login(r, u)
         /\ pc'[r] = "resetTokens" => ResetScanTokens(r)
         /\ pc'[r] = "deleteTokens" => DeleteScanTokens(r)
         /\ pc'[r] = "deleteResets" => DeleteScanResets(r)
         /\ pc'[r] = "forgotLock" => ForgotScan(r)
         /\ pc'[r] = "forgotInsert" => ForgotInvalidate(r)
         /\ pc'[r] = "updateSave" => \E u \in User : UpdateUser(r, u)
         /\ pc'[r] = "updateWrite" => UpdateSave(r)
<1> USE DEF TypeOK, RequestsOK
<1>1. CASE Finish(r)
  BY <1>1 DEF Finish
<1>2. CASE Call(r)
  <2>1. CASE \E u \in User : Register(r, u) \/ Login(r, u) \/ UpdateUser(r, u)
    BY <2>1 DEF Register, Login, UpdateUser, Begin
  <2>2. CASE ~ \E u \in User : Register(r, u) \/ Login(r, u) \/ UpdateUser(r, u)
    BY <1>2, <2>2 DEF Call, ForgotPassword, SoftDelete, Refresh, Logout, ResetPassword, Begin
  <2>3. QED
    BY <2>1, <2>2
<1>3. CASE Acquire(r)
  BY <1>3 DEF Acquire, reqVars
<1>4. CASE Proceed(r) /\ ~ Finish(r)
  <2>1. \/ RefreshReplayed(r) \/ RefreshAccepted(r) \/ ForgotScan(r) \/ ForgotInvalidate(r)
        \/ ResetAccepted(r) \/ ResetScanTokens(r)
        \/ DeleteScanTokens(r) \/ DeleteScanResets(r) \/ UpdateSave(r)
    BY <1>4 DEF Proceed, CreateSession, RefreshTheft, RevokedBy, RefreshExpired, RefreshInactive,
       RefreshRotate, LogoutRevoke, ForgotInsert, ResetRefused, ResetCommit,
       DeleteCommit, UpdateNothing, UpdateWrite
  <2>2. QED
    BY <2>1 DEF RefreshReplayed, RefreshAccepted, ForgotScan, ForgotInvalidate, ResetAccepted,
       ResetScanTokens, DeleteScanTokens, DeleteScanResets, UpdateSave, Goto
<1>5. QED
  BY <1>1, <1>2, <1>3, <1>4 DEF StepOf, DeadlockAbort, Crash

\* A reset link stays its user's; what is used stays so.
LEMMA ResetOwnersKept ==
  ASSUME TypeOK, [Next]_vars
  PROVE  /\ resetUsed \subseteq resetUsed'
         /\ \A p \in resets : p \in resets' /\ resetOwner'[p] = resetOwner[p]
         /\ \A p \in resets' \ resets : \E q \in Request : ForgotInsert(q)
<1>1. ASSUME NEW r \in Request, ForgotInsert(r)
      PROVE  /\ resetUsed' = resetUsed
             /\ \A p \in resets : p \in resets' /\ resetOwner'[p] = resetOwner[p]
  BY <1>1 DEF ForgotInsert, TypeOK, TablesOK
<1>2. ASSUME NEW r \in Request, ~ ForgotInsert(r), StepOf(r)
      PROVE  UNCHANGED <<resets, resetOwner>> /\ resetUsed \subseteq resetUsed'
  BY <1>2 DEF StepOf, Call, Proceed, Register, CreateUserInTransaction, Login, ForgotPassword,
     SoftDelete, UpdateUser,
     Refresh, Logout, ResetPassword, CreateSession, RefreshReplayed, RefreshTheft, RevokedBy,
     RefreshExpired,
     RefreshInactive, RefreshAccepted, RefreshRotate, LogoutRevoke, ForgotScan,
     ForgotInvalidate, ResetRefused, ResetAccepted,
     ResetScanTokens, ResetCommit, DeleteScanTokens, DeleteScanResets, DeleteCommit,
     UpdateNothing, UpdateSave, UpdateWrite, Acquire, DeadlockAbort, Crash, dataVars, resetVars
<1>3. ASSUME UNCHANGED vars \/ \E x \in Token \cup ResetToken : Expire(x)
      PROVE  UNCHANGED resetVars
  BY <1>3 DEF Expire, vars, dataVars
<1>4. QED
  BY <1>1, <1>2, <1>3 DEF Next, StepOf, resetVars

\* A sweep finds the usable tokens of the user when it starts, so it misses only
\* those inserted later, beside it; the password or the deletion it commits makes
\* no other session stale.
LEMMA SweepStep ==
  ASSUME SessionInv, SessionInv', "update" \notin Ops, BesideInv, SweepInv,
         [Next]_vars, Watch
  PROVE  SweepInv'
<1> USE DEF SessionInv
<1>1. ASSUME NEW r \in Request PROVE pc'[r] \notin {"updateSave", "updateWrite"}
  BY <1>1, OwnMove, EntersStep DEF SweepInv, UpdateUser, Begin, UpdateSave, At
<1>2. ASSUME NEW r \in Request, pc'[r] = "idle" PROVE entity'[r] = NoEntity
  <2>1. CASE pc[r] # "idle"
    BY <1>2, <2>1, OwnMove, EntersStep DEF Finish, TypeOK, RequestsOK
  <2>2. CASE pc[r] = "idle"
    <3>1. entity[r] = NoEntity
      BY <2>2 DEF SweepInv
    <3>2. ASSUME NEW p \in Request \ {r}, StepOf(p) PROVE entity'[r] = entity[r]
      BY <3>2, OthersKept
    <3>3. CASE StepOf(r)
      <4>1. ~ Call(r)
        BY <1>2 DEF Call, Register, Login, ForgotPassword, SoftDelete, UpdateUser, Refresh,
           Logout, ResetPassword, Begin, TypeOK, RequestsOK
      <4>2. ~ Proceed(r)
        BY <2>2 DEF Proceed, CreateSession, RefreshReplayed, RefreshTheft, RevokedBy, RefreshExpired,
           RefreshInactive, RefreshAccepted, RefreshRotate, LogoutRevoke, ForgotScan,
           ForgotInvalidate, ForgotInsert, ResetRefused, ResetAccepted, ResetScanTokens,
           ResetCommit, DeleteScanTokens, DeleteScanResets, DeleteCommit, UpdateNothing,
           UpdateSave, UpdateWrite, At
      <4>3. QED
        BY <3>1, <3>3, <4>1, <4>2 DEF StepOf, Acquire, reqVars, DeadlockAbort, Crash, Finish,
           TypeOK, RequestsOK
    <3>4. CASE UNCHANGED vars \/ \E x \in Token \cup ResetToken : Expire(x)
      BY <3>1, <3>4 DEF Expire, vars, reqVars
    <3>5. QED
      BY <3>1, <3>2, <3>3, <3>4 DEF Next, StepOf
  <2>3. QED
    BY <2>1, <2>2
<1>3. ASSUME NEW u \in User \ registered' PROVE password'[u] = Initial
  <2>1. u \notin registered /\ password[u] = Initial
    BY <1>3, SweepsChangeUsers DEF SweepInv
  <2>2. ASSUME NEW r \in Request, ResetCommit(r) PROVE UserOf(r) \in registered
    BY <2>2 DEF ResetCommit, At, UserOf, ResetSteps, TypeOK, TablesOK, RequestsOK
  <2>3. QED
    BY <2>1, <2>2, SweepsChangeUsers
<1>4. ASSUME NEW q \in Request, pc'[q] = "session", q \notin beside'
      PROVE  entity'[q].password = password'[arg'[q]] /\ arg'[q] \notin deleted'
  <2>1. q \in Inserting' /\ q \notin beside
    BY <1>4, RecordKept DEF Inserting
  <2>2. CASE pc[q] = "session"
    <3>1. UNCHANGED <<arg[q], entity[q]>>
      BY <1>4, <2>2, ClaimsKept
    <3>2. entity[q].password = password[arg[q]] /\ arg[q] \notin deleted
      BY <2>1, <2>2 DEF SweepInv, AtSteps
    <3>3. q \in Inserting /\ RivalSteps(q) = SweepSteps /\ UserOf(q) = arg[q] /\ arg[q] \in User
      BY <2>2 DEF Inserting, RivalSteps, ForgotSteps, UserOf, ResetSteps, TokenSteps, UserSteps,
         TypeOK, TablesOK, RequestsOK
    <3>4. ASSUME NEW r \in Request, ResetCommit(r) \/ DeleteCommit(r), UserOf(r) = arg[q]
          PROVE  FALSE
      <4>1. pc[r] \in SweepSteps /\ r # q
        BY <2>2, <3>4 DEF ResetCommit, DeleteCommit, At, SweepSteps
      <4>2. HasRival(q)
        BY <3>3, <3>4, <4>1 DEF HasRival
      <4>3. QED
        BY <2>1, <3>3, <4>2 DEF BesideInv
    <3>5. QED
      BY <3>1, <3>2, <3>3, <3>4, SweepsChangeUsers
  <2>3. CASE pc[q] # "session"
    <3>1. PICK u \in User : Register(q, u) \/ Login(q, u)
      BY <1>4, <2>3, OwnMove, EntersStep
    <3>2. pc[q] = "idle" /\ arg'[q] = u /\ UNCHANGED <<password, deleted>>
      BY <3>1 DEF Register, CreateUserInTransaction, Login, Begin, dataVars, userVars, TypeOK,
         RequestsOK
    <3>3. CASE Register(q, u)
      BY <3>2, <3>3 DEF Register, SweepInv, NoEntity, TypeOK, TablesOK
    <3>4. CASE Login(q, u)
      BY <3>2, <3>4 DEF Login, Usable, Found, TypeOK, TablesOK, RequestsOK
    <3>5. QED
      BY <3>1, <3>3, <3>4
  <2>4. QED
    BY <2>2, <2>3
<1>5. ASSUME NEW r \in Request, pc'[r] \in {"resetTokens", "deleteTokens", "deleteResets"},
             NEW t \in LiveOf(UserOf(r))', t \notin Claims(r)'
      PROVE  family'[t] \in missed'
  <2>1. CASE pc'[r] = pc[r]
    <3>1. UNCHANGED <<Claims(r), arg[r]>>
      BY <1>5, <2>1, ClaimsKept
    <3>2. UNCHANGED UserOf(r)
      BY <1>5, <2>1, <3>1, ResetOwnersKept DEF UserOf, ResetSteps, TokenSteps, TypeOK,
         RequestsOK
    <3>3. CASE t \in issued
      <4>1. t \in LiveOf(UserOf(r)) /\ family'[t] = family[t]
        BY <1>5, <3>2, <3>3, TokensKept DEF LiveOf, Live
      <4>2. family[t] \in missed
        BY <1>5, <2>1, <3>1, <4>1 DEF SweepInv, AtSteps
      <4>3. family'[t] \in Usables'
        BY <1>5 DEF Usables, LiveOf
      <4>4. QED
        BY <4>1, <4>2, <4>3, RecordKept
    <3>4. CASE t \notin issued
      <4>1. PICK q \in Request : CreateSession(q) \/ RefreshRotate(q)
        BY <1>5, <3>4, TokensKept DEF LiveOf, Live
      <4>2. t \in Live' \ issued /\ pc[r] \in SweepSteps /\ UserOf(r) = owner'[t]
        BY <1>5, <2>1, <3>2, <3>4 DEF LiveOf, SweepSteps
      <4>3. QED
        BY <4>1, <4>2, InsertBesideSweep
    <3>5. QED
      BY <3>3, <3>4
  <2>2. CASE pc'[r] # pc[r]
    <3>1. ResetScanTokens(r) \/ DeleteScanTokens(r) \/ DeleteScanResets(r)
      BY <1>5, <2>2, OwnMove, EntersStep
    <3>2. /\ UNCHANGED <<LiveOf(UserOf(r)), Held(r)>> /\ UNCHANGED family
          /\ pc[r] \in {"resetUser", "delete", "deleteTokens"}
      BY <3>1 DEF ResetScanTokens, DeleteScanTokens, DeleteScanResets, Ask, Goto, At, Held,
         dataVars, tokenVars, resetVars, LiveOf, Live, UserOf, ResetSteps, TokenSteps, TypeOK,
         RequestsOK
    <3>3. CASE ResetScanTokens(r) \/ DeleteScanTokens(r)
      <4>1. LiveOf(UserOf(r)) \subseteq Claims(r)'
        BY <3>2, <3>3 DEF ResetScanTokens, DeleteScanTokens, Ask, At, Claims, SessionsToRevoke,
           UserOf, ResetSteps, TokenSteps, TypeOK, LockTypeOK
      <4>2. QED
        BY <1>5, <3>2, <4>1
    <3>4. CASE DeleteScanResets(r)
      <4>1. Claims(r) \subseteq Claims(r)' /\ pc[r] = "deleteTokens"
        BY <3>2, <3>4 DEF DeleteScanResets, At, Granted, Claims
      <4>2. family[t] \in missed
        BY <1>5, <3>2, <4>1 DEF SweepInv, AtSteps
      <4>3. family'[t] \in Usables' /\ family'[t] = family[t]
        BY <1>5, <3>2 DEF Usables, LiveOf
      <4>4. QED
        BY <4>2, <4>3, RecordKept
    <3>5. QED
      BY <3>1, <3>3, <3>4
  <2>3. QED
    BY <2>1, <2>2
<1>6. QED
  BY <1>1, <1>2, <1>3, <1>4, <1>5 DEF SweepInv, AtSteps


\* A usable session becomes stale by the commit of a sweep, which revokes what the
\* sweep found; a new one is stale if the request that opens it read an old
\* password or the rotated one was stale.
LEMMA SweepsMissStep ==
  ASSUME SessionInv, SessionInv', "update" \notin Ops, BesideInv, SweepInv,
         SweepsMissOnlyOverlaps, [Next]_vars, Watch
  PROVE  SweepsMissOnlyOverlaps'
<1> SUFFICES ASSUME NEW t \in Live',
                    openedWith'[t] # password'[owner'[t]] \/ owner'[t] \in deleted'
             PROVE  family'[t] \in missed'
  BY DEF SweepsMissOnlyOverlaps
<1> USE DEF SessionInv
<1>1. family'[t] \in Usables'
  BY DEF Usables
<1>2. CASE t \in issued
  <2>1. t \in Live /\ owner[t] \in User /\ UNCHANGED <<owner[t], family[t], openedWith[t]>>
    BY <1>2, TokensKept DEF Live, TypeOK, TablesOK
  <2>2. CASE openedWith[t] # password[owner[t]] \/ owner[t] \in deleted
    BY <1>1, <2>1, <2>2, RecordKept DEF SweepsMissOnlyOverlaps
  <2>3. ASSUME NEW r \in Request, ResetCommit(r) \/ DeleteCommit(r), UserOf(r) = owner[t]
        PROVE  family'[t] \in missed'
    <3>1. pc[r] \in {"resetTokens", "deleteResets"} /\ want[r] = {} /\ t \notin Held(r)
      BY <2>1, <2>3 DEF ResetCommit, DeleteCommit, At, Granted, Live, TypeOK, TablesOK
    <3>2. t \notin Claims(r) /\ t \in LiveOf(UserOf(r))
      BY <2>1, <2>3, <3>1 DEF Claims, LiveOf
    <3>3. family[t] \in missed
      BY <3>1, <3>2 DEF SweepInv, AtSteps
    <3>4. QED
      BY <1>1, <2>1, <3>3, RecordKept
  <2>4. QED
    BY <2>1, <2>2, <2>3, SweepsChangeUsers
<1>3. CASE t \notin issued
  <2>1. PICK q \in Request : CreateSession(q) \/ RefreshRotate(q)
    BY <1>3, TokensKept DEF Live
  <2>2. UNCHANGED <<password, deleted>>
    BY <2>1 DEF CreateSession, RefreshRotate, userVars
  <2>3. CASE CreateSession(q)
    <3>1. /\ pc[q] = "session" /\ pc'[q] = "idle" /\ t \in issued' \ issued
          /\ owner'[t] = arg[q] /\ openedWith'[t] = entity[q].password
      BY <1>3, <2>3 DEF CreateSession, At, Finish, InsertToken, Live, TypeOK, TablesOK,
         RequestsOK
    <3>2. q \in beside
      BY <2>2, <3>1 DEF SweepInv, AtSteps
    <3>3. QED
      BY <1>1, <3>1, <3>2, RecordKept
  <2>4. CASE RefreshRotate(q)
    <3>1. /\ arg[q] \in Live /\ owner'[t] = owner[arg[q]] /\ family'[t] = family[arg[q]]
          /\ openedWith'[t] = openedWith[arg[q]]
      BY <1>3, <2>4 DEF RefreshRotate, LockInv, At, InsertToken, Live, TypeOK, TablesOK
    <3>2. family[arg[q]] \in missed
      BY <2>2, <3>1 DEF SweepsMissOnlyOverlaps
    <3>3. QED
      BY <1>1, <3>1, <3>2, RecordKept
  <2>5. QED
    BY <2>1, <2>3, <2>4
<1>4. QED
  BY <1>2, <1>3

\* Who inserts a link beside another forgotPassword of the user is recorded, and
\* so are the others.
LEMMA InsertBesideForgot ==
  ASSUME TypeOK, BesideInv, Watch, NEW q \in Request, ForgotInsert(q), NEW p \in resets' \ resets,
         NEW r \in Request \ {q}, pc[r] \in ForgotSteps, arg[r] = resetOwner'[p]
  PROVE  p \in missed' /\ r \in beside
<1>1. /\ pc[q] \in ForgotSteps /\ pc'[q] = "idle" /\ arg[q] = arg[r]
      /\ resetUsed' = resetUsed
  BY DEF ForgotInsert, At, ForgotSteps, Finish, TypeOK, TablesOK, RequestsOK
<1>2. UserOf(q) = arg[q] /\ UserOf(r) = arg[r] /\ q \in Inserting /\ r \in Inserting
  BY <1>1 DEF UserOf, ForgotSteps, ResetSteps, TokenSteps, Inserting
<1>3. q \in beside /\ r \in beside
  BY <1>1, <1>2 DEF BesideInv, HasRival, RivalSteps
<1>4. p \in Usables'
  BY <1>1 DEF Usables, TypeOK, TablesOK
<1>5. QED
  BY <1>1, <1>3, <1>4, RecordKept

LEMMA LinkStep ==
  ASSUME TypeOK, TypeOK', BesideInv, LinkInv, [Next]_vars, Watch
  PROVE  LinkInv'
<1>1. ASSUME NEW r \in Request, pc'[r] \in {"forgotLock", "forgotInsert"},
             NEW p \in UnusedOf(arg[r])', pc'[r] = "forgotLock" => p \notin Claims(r)'
      PROVE  p \in missed' /\ r \in beside'
  <2>1. r \in Inserting' /\ p \in Usables'
    BY <1>1 DEF Inserting, ForgotSteps, Usables, UnusedOf
  <2>2. CASE pc'[r] = pc[r]
    <3>1. UNCHANGED <<Claims(r), arg[r]>>
      BY <1>1, <2>2, ClaimsKept
    <3>2. CASE p \in resets
      <4>1. p \in UnusedOf(arg[r])
        BY <1>1, <3>1, <3>2, ResetOwnersKept DEF UnusedOf
      <4>2. p \in missed /\ r \in beside
        BY <1>1, <2>2, <3>1, <4>1 DEF LinkInv, AtSteps
      <4>3. QED
        BY <2>1, <4>2, RecordKept
    <3>3. CASE p \notin resets
      <4>1. PICK q \in Request : ForgotInsert(q)
        BY <1>1, <3>3, ResetOwnersKept DEF UnusedOf
      <4>2. q # r
        BY <1>1, <4>1 DEF ForgotInsert, Finish, TypeOK, RequestsOK
      <4>3. p \in missed' /\ r \in beside
        BY <1>1, <2>2, <3>1, <3>3, <4>1, <4>2, InsertBesideForgot DEF UnusedOf, ForgotSteps
      <4>4. QED
        BY <2>1, <4>3, RecordKept
    <3>4. QED
      BY <3>2, <3>3
  <2>3. CASE pc'[r] = "forgotLock" /\ pc[r] # "forgotLock"
    <3>1. ForgotScan(r)
      BY <2>3, OwnMove, EntersStep
    <3>2. UnusedOf(arg[r])' = UnusedOf(arg[r]) /\ UnusedOf(arg[r]) \subseteq Claims(r)'
      BY <3>1 DEF ForgotScan, Ask, Goto, Claims, Held, LinksToSpend, UnusedOf, dataVars,
         resetVars,
         TypeOK, LockTypeOK
    <3>3. QED
      BY <1>1, <2>3, <3>2
  <2>4. CASE pc'[r] = "forgotInsert" /\ pc[r] # "forgotInsert"
    <3>1. ForgotInvalidate(r)
      BY <2>4, OwnMove, EntersStep
    <3>2. /\ pc[r] = "forgotLock" /\ want[r] = {} /\ UNCHANGED <<arg, resets, resetOwner>>
          /\ resetUsed' = resetUsed \cup (Held(r) \cap ResetToken)
      BY <3>1 DEF ForgotInvalidate, At, Granted, Goto
    <3>3. p \in UnusedOf(arg[r]) /\ p \notin Claims(r)
      BY <1>1, <3>2 DEF UnusedOf, Claims, TypeOK, TablesOK
    <3>4. p \in missed /\ r \in beside
      BY <3>2, <3>3 DEF LinkInv, AtSteps
    <3>5. QED
      BY <2>1, <3>4, RecordKept
  <2>5. QED
    BY <1>1, <2>2, <2>3, <2>4
<1>2. QED
  BY <1>1 DEF LinkInv, AtSteps

LEMMA LinksMissStep ==
  ASSUME TypeOK, TypeOK', BesideInv, LinkInv, LinksMissOnlyOverlaps, [Next]_vars, Watch
  PROVE  LinksMissOnlyOverlaps'
<1> SUFFICES ASSUME NEW p \in resets' \ resetUsed', NEW q \in resets' \ resetUsed', p # q,
                    resetOwner'[p] = resetOwner'[q]
             PROVE  p \in missed'
  BY DEF LinksMissOnlyOverlaps
<1>1. p \in Usables'
  BY DEF Usables
<1>2. ASSUME NEW r \in Request, ForgotInsert(r),
             NEW n \in ResetToken, resets' = resets \cup {n}, n \notin resets, resetOwner'[n] = arg[r]
      PROVE  p \in missed'
  <2>1. /\ pc[r] = "forgotInsert" /\ pc'[r] = "idle" /\ resetUsed' = resetUsed
        /\ n \notin resetUsed
    BY <1>2 DEF ForgotInsert, At, Finish, TypeOK, TablesOK, RequestsOK
  <2>2. ASSUME NEW o \in resets' \ resetUsed', o # n, resetOwner'[o] = arg[r]
        PROVE  o \in missed /\ r \in beside
    <3>1. o \in UnusedOf(arg[r])
      BY <1>2, <2>1, <2>2, ResetOwnersKept DEF UnusedOf
    <3>2. QED
      BY <2>1, <3>1 DEF LinkInv, AtSteps
  <2>3. CASE p = n
    <3>1. q # n /\ resetOwner'[q] = arg[r]
      BY <1>2, <2>3
    <3>2. QED
      BY <1>1, <1>2, <2>1, <2>2, <2>3, <3>1, RecordKept
  <2>4. CASE q = n
    BY <1>1, <1>2, <2>2, <2>4, RecordKept
  <2>5. CASE p # n /\ q # n
    BY <1>1, <1>2, <2>1, <2>5, ResetOwnersKept, RecordKept DEF LinksMissOnlyOverlaps
  <2>6. QED
    BY <2>3, <2>4, <2>5
<1>3. ASSUME NEW r \in Request, ForgotInsert(r) PROVE p \in missed'
  <2>1. PICK n \in ResetToken \ resets :
           resets' = resets \cup {n} /\ resetOwner' = [resetOwner EXCEPT ![n] = arg[r]]
    BY <1>3 DEF ForgotInsert
  <2>2. resetOwner'[n] = arg[r]
    BY <2>1 DEF TypeOK, TablesOK
  <2>3. QED
    BY <1>2, <1>3, <2>1, <2>2
<1>4. CASE \A r \in Request : ~ ForgotInsert(r)
  BY <1>1, <1>4, ResetOwnersKept, RecordKept DEF LinksMissOnlyOverlaps
<1>5. QED
  BY <1>3, <1>4

\* The record only watches: its behaviours are behaviours of AuthSessions.
LEMMA WatchedIsSpec == WatchSpec => Spec
<1>1. WatchInit => Init
  BY DEF WatchInit
<1>2. [Next /\ Watch]_<<vars, overlaps>> => [Next]_vars
  OBVIOUS
<1>3. QED
  BY <1>1, <1>2, PTL DEF WatchSpec, Spec

LEMMA RivalsAreRecorded == WatchSpec => []BesideInv
<1>1. WatchInit => BesideInv
  BY DEF WatchInit, Init, BesideInv, Inserting, ForgotSteps
<1>2. BesideInv /\ [Next /\ Watch]_<<vars, overlaps>> => BesideInv'
  <2>1. Watch => BesideInv'
    BY RecordKept
  <2>2. BesideInv /\ UNCHANGED <<vars, overlaps>> => BesideInv'
    BY DEF vars, overlaps, reqVars, dataVars, tokenVars, resetVars, BesideInv, Inserting,
       HasRival,
       RivalSteps, UserOf, Live
  <2>3. QED
    BY <2>1, <2>2
<1>3. QED
  BY <1>1, <1>2, PTL DEF WatchSpec

\* Nothing but a step changes what the invariants below speak of.
LEMMA WatchStutters ==
  ASSUME UNCHANGED <<vars, overlaps>>
  PROVE  /\ SweepInv => SweepInv'
         /\ SweepsMissOnlyOverlaps => SweepsMissOnlyOverlaps'
         /\ LinkInv => LinkInv'
         /\ LinksMissOnlyOverlaps => LinksMissOnlyOverlaps'
  BY DEF vars, overlaps, reqVars, dataVars, userVars, tokenVars, resetVars, lockVars, SweepInv,
     SweepsMissOnlyOverlaps, LinkInv, LinksMissOnlyOverlaps, AtSteps, LiveOf, Live, UnusedOf,
     UserOf, Claims, Held

\* "Force re-login everywhere", "revokes their sessions" (auth.service.ts:303-321,
\* users.service.ts:172-184): a reset and a deletion miss no session but those
\* that a login, registration or refresh running beside them inserts.
THEOREM SweepsMissOverlapsOnly ==
  ASSUME "update" \notin Ops PROVE WatchSpec => []SweepsMissOnlyOverlaps
<1> DEFINE Inv == SweepInv /\ SweepsMissOnlyOverlaps
<1>1. WatchInit => Inv
  BY NoneAssumption DEF WatchInit, Init, SweepInv, SweepsMissOnlyOverlaps, AtSteps, Live
<1>2. SessionInv /\ SessionInv' /\ BesideInv /\ Inv /\ [Next /\ Watch]_<<vars, overlaps>> => Inv'
  BY SweepStep, SweepsMissStep, WatchStutters
<1>3. WatchSpec => []SessionInv
  BY WatchedIsSpec, SessionInvHolds, PTL
<1>4. WatchSpec => []Inv
  BY <1>1, <1>2, <1>3, RivalsAreRecorded, PTL DEF WatchSpec
<1>5. QED
  BY <1>4, PTL

\* "Invalidate any previously issued, still-unused reset tokens"
\* (auth.service.ts:238-262): a user has two usable links only if two
\* forgotPasswords of the user ran side by side.
THEOREM LinksMissOverlapsOnly == WatchSpec => []LinksMissOnlyOverlaps
<1> DEFINE Inv == LinkInv /\ LinksMissOnlyOverlaps
<1>1. WatchInit => Inv
  BY DEF WatchInit, Init, LinkInv, LinksMissOnlyOverlaps, AtSteps
<1>2. TypeOK /\ TypeOK' /\ BesideInv /\ Inv /\ [Next /\ Watch]_<<vars, overlaps>> => Inv'
  BY LinkStep, LinksMissStep, WatchStutters
<1>3. WatchSpec => []TypeOK
  BY WatchedIsSpec, TypeCorrect, PTL
<1>4. WatchSpec => []Inv
  BY <1>1, <1>2, <1>3, RivalsAreRecorded, PTL DEF WatchSpec
<1>5. QED
  BY <1>4, PTL

=============================================================================
