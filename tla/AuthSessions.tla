---------------------------- MODULE AuthSessions ----------------------------
(***************************************************************************)
(* The sessions of the API: user rows, refresh tokens (rotated in          *)
(* families) and password reset tokens, as AuthService and UsersService    *)
(* change them from concurrent requests.                                   *)
(*                                                                         *)
(* One action is one database statement together with the code around it.  *)
(* What a transaction writes becomes visible when it commits, so its       *)
(* writes appear in its last action; the reads and the lock waits before   *)
(* that are actions of their own.  A request is idle, or at the step pc    *)
(* names.  The data is reduced to identities: a token is its row, a        *)
(* password is the reset token that set it (Initial: the one given at      *)
(* registration).                                                          *)
(***************************************************************************)
EXTENDS PgLocks, Naturals, FiniteSets

CONSTANTS User,         \* rows of users
          Token,        \* rows of refresh_tokens (bounds the sessions issued)
          ResetToken,   \* rows of password_reset_tokens (bounds the resets)
          Initial,      \* the password a user registered with
          Ops           \* the operations clients call in this instance

ASSUME RowAssumption ==
    /\ Row = User \cup Token \cup ResetToken
    /\ User \cap Token = {} /\ User \cap ResetToken = {} /\ Token \cap ResetToken = {}
    /\ None \notin Row
    /\ Initial \notin ResetToken

VARIABLES
    \* users
    registered, deleted, active, password,
    \* refresh_tokens: the rows, and their columns
    issued, owner, family, used, revoked, replacedBy,
    \* password_reset_tokens
    resets, resetOwner, resetUsed,
    \* expires_at < now, for the rows of both token tables
    expired,
    \* the requests: next step, the row it is about, the User entity it read,
    \* and the columns a save found to differ
    pc, arg, entity, diff,
    \* history: the password a session was opened with, and the tokens that the
    \* answers to replays found usable and revoked
    openedWith, condemned

userVars  == <<registered, deleted, active, password>>
tokenVars == <<issued, owner, family, used, revoked, replacedBy, openedWith>>
resetVars == <<resets, resetOwner, resetUsed>>
dataVars  == <<userVars, tokenVars, resetVars, expired, condemned>>
reqVars   == <<pc, arg, entity, diff>>
vars      == <<dataVars, reqVars, lockVars>>

AllOps == {"register", "login", "refresh", "logout", "forgot", "reset",
           "delete", "update"}

\* The steps of the requests about a refresh token, a reset token, a user.
TokenSteps  == {"refresh", "rotate", "theft", "logout"}
ResetSteps  == {"reset", "resetUser", "resetTokens"}
ForgotSteps == {"forgot", "forgotLock", "forgotInsert"}
UserSteps   == {"session", "delete", "deleteTokens", "deleteResets", "updateSave",
                "updateWrite"} \cup ForgotSteps
Steps == {"idle"} \cup TokenSteps \cup ResetSteps \cup UserSteps

\* The steps at which a request holds or awaits the locks of a transaction.
TxSteps == Steps \ {"idle", "session", "forgot", "forgotInsert", "updateSave"}

Entity   == [password : ResetToken \cup {Initial}, active : BOOLEAN]
NoEntity == [password |-> Initial, active |-> TRUE]

Rows == registered \cup issued \cup resets

\* The tables: a row refers to existing rows only (the foreign keys, and the
\* two references that are not declared as such: family and replacedBy).
TablesOK ==
    /\ registered \subseteq User
    /\ deleted \subseteq registered /\ active \subseteq registered
    /\ password \in [User -> ResetToken \cup {Initial}]
    /\ issued \subseteq Token
    /\ used \subseteq issued /\ revoked \subseteq issued
    /\ owner \in [Token -> User \cup {None}]
    /\ family \in [Token -> Token \cup {None}]
    /\ replacedBy \in [Token -> Token \cup {None}]
    /\ \A t \in issued : owner[t] \in registered /\ family[t] \in issued
    /\ \A t \in Token \ issued : replacedBy[t] = None
    /\ resets \subseteq ResetToken /\ resetUsed \subseteq resets
    /\ resetOwner \in [ResetToken -> User \cup {None}]
    /\ \A p \in resets : resetOwner[p] \in registered
    /\ expired \subseteq issued \cup resets
    /\ openedWith \in [Token -> ResetToken \cup {Initial}]
    /\ condemned \subseteq issued

\* The requests: each is about a row of the kind its step needs.
RequestsOK ==
    /\ pc \in [Request -> Steps]
    /\ arg \in [Request -> Row \cup {None}]
    /\ \A r \in Request :
          /\ pc[r] \in TokenSteps => arg[r] \in issued
          /\ pc[r] \in ResetSteps => arg[r] \in resets
          /\ pc[r] \in UserSteps => arg[r] \in registered
    /\ entity \in [Request -> Entity]
    /\ diff \in [Request -> SUBSET {"password", "status", "deletedAt"}]
    /\ \A r \in Request : want[r] \subseteq Rows
    /\ \A x \in Row : lock[x] # None => x \in Rows

TypeOK == LockTypeOK /\ TablesOK /\ RequestsOK

Init ==
    /\ LockInit
    /\ registered = {} /\ deleted = {} /\ active = {}
    /\ password = [u \in User |-> Initial]
    /\ issued = {} /\ used = {} /\ revoked = {}
    /\ owner = [t \in Token |-> None]
    /\ family = [t \in Token |-> None]
    /\ replacedBy = [t \in Token |-> None]
    /\ openedWith = [t \in Token |-> Initial]
    /\ resets = {} /\ resetUsed = {}
    /\ resetOwner = [p \in ResetToken |-> None]
    /\ expired = {} /\ condemned = {}
    /\ pc = [r \in Request |-> "idle"]
    /\ arg = [r \in Request |-> None]
    /\ entity = [r \in Request |-> NoEntity]
    /\ diff = [r \in Request |-> {}]

-----------------------------------------------------------------------------
\* What a User query returns: soft-deleted rows are filtered out.
Found(u) == u \in registered \ deleted
Usable(u) == Found(u) /\ u \in active

Live == issued \ revoked
LiveOf(u) == {t \in Live : owner[t] = u}
LiveIn(f) == {t \in Live : family[t] = f}
UnusedOf(u) == {p \in resets \ resetUsed : resetOwner[p] = u}

\* The rows each read or sweep locks; each has a mutant before it that locks
\* or finds the wrong ones.
PlainRead(x) == {}
NotSwept(u) == {}
ForUpdate(x) == {x}
UserForUpdate(u) == {u}
UserRead(u) == {}
RowsNamed(t) == LiveIn(t)
FamilyToRevoke(t) == LiveIn(family[t])
SessionsToRevoke(u) == LiveOf(u)
LinksToSpend(u) == UnusedOf(u)

\* Bounds: a request that may insert a row starts only while one is left for
\* it after the requests already on their way to insert one.
AtSteps(S) == {r \in Request : pc[r] \in S}
SpareToken == Cardinality(Token \ issued)
                > Cardinality(AtSteps({"session", "refresh", "rotate"}))
SpareReset == Cardinality(ResetToken \ resets)
                > Cardinality(AtSteps(ForgotSteps))

\* The requests that may yet insert a row.
Inserting == {q \in Request : \/ pc[q] \in {"session", "rotate"} \cup ForgotSteps
                              \/ pc[q] = "refresh" /\ arg[q] \in Live}

Begin(r, op, step, x) ==
    /\ op \in Ops
    /\ pc[r] = "idle"
    /\ pc' = [pc EXCEPT ![r] = step]
    /\ arg' = [arg EXCEPT ![r] = x]

At(r, step) == pc[r] = step /\ Granted(r)

Goto(r, step) ==
    /\ pc' = [pc EXCEPT ![r] = step]
    /\ UNCHANGED <<arg, entity, diff>>

\* The answer is sent; whatever transaction was open has ended.
Finish(r) ==
    /\ Release(r)
    /\ pc' = [pc EXCEPT ![r] = "idle"]
    /\ arg' = [arg EXCEPT ![r] = None]
    /\ entity' = [entity EXCEPT ![r] = NoEntity]
    /\ diff' = [diff EXCEPT ![r] = {}]

-----------------------------------------------------------------------------
\* The user row and its roles, in one transaction.
CreateUserInTransaction(u) ==
    /\ registered' = registered \cup {u}
    /\ active' = active \cup {u}

\* register: the session is inserted after the user was committed.
Register(r, u) ==
    /\ Begin(r, "register", "session", u)
    /\ u \notin registered /\ SpareToken
    /\ CreateUserInTransaction(u)
    /\ UNCHANGED <<deleted, password, tokenVars, resetVars, expired, condemned,
                   entity, diff, lockVars>>

\* login, up to the password check against the row it read; a wrong
\* password, an unknown or a suspended user end the request here.
Login(r, u) ==
    /\ Begin(r, "login", "session", u)
    /\ Usable(u) /\ SpareToken
    /\ entity' = [entity EXCEPT ![r] = [password |-> password[u], active |-> TRUE]]
    /\ UNCHANGED <<dataVars, diff, lockVars>>

\* A row of refresh_tokens with the given family; the row's other columns.
InsertToken(t, u, f, pw) ==
    /\ t \notin issued
    /\ issued' = issued \cup {t}
    /\ owner' = [owner EXCEPT ![t] = u]
    /\ family' = [family EXCEPT ![t] = f]
    /\ openedWith' = [openedWith EXCEPT ![t] = pw]

\* A new family: the random family id is named by the family's first token.
CreateSession(r) ==
    /\ At(r, "session")
    /\ \E t \in Token : InsertToken(t, arg[r], t, entity[r].password)
    /\ Finish(r)
    /\ UNCHANGED <<userVars, used, revoked, replacedBy, resetVars, expired,
                   condemned>>

-----------------------------------------------------------------------------
Refresh(r, t) ==
    /\ Begin(r, "refresh", "refresh", t)
    /\ t \in issued
    /\ t \in Live => SpareToken
    /\ Ask(r, ForUpdate(t))
    /\ UNCHANGED <<dataVars, entity, diff>>

\* The four outcomes once the presented row is locked.  A row that is used or
\* already revoked is a replay: the live rows of its family are revoked next.
RefreshReplayed(r) ==
    /\ At(r, "refresh")
    /\ arg[r] \in revoked \cup used
    /\ Ask(r, FamilyToRevoke(arg[r]))
    /\ Goto(r, "theft")
    /\ UNCHANGED dataVars

RefreshExpired(r) ==
    /\ At(r, "refresh")
    /\ arg[r] \in expired \ (revoked \cup used)
    /\ revoked' = revoked \cup {arg[r]}
    /\ Finish(r)
    /\ UNCHANGED <<userVars, issued, owner, family, used, replacedBy,
                   openedWith, resetVars, expired, condemned>>

RefreshInactive(r) ==
    /\ At(r, "refresh")
    /\ arg[r] \notin revoked \cup used \cup expired
    /\ ~ Usable(owner[arg[r]])
    /\ Finish(r)
    /\ UNCHANGED dataVars

RefreshAccepted(r) ==
    /\ At(r, "refresh")
    /\ arg[r] \notin revoked \cup used \cup expired
    /\ Usable(owner[arg[r]])
    /\ Ask(r, UserRead(owner[arg[r]]))
    /\ Goto(r, "rotate")
    /\ UNCHANGED dataVars

Linked(t, n) == [replacedBy EXCEPT ![t] = n]

\* The new row is inserted, the presented one marked and linked to it.
RefreshRotate(r) ==
    LET t == arg[r] IN
    /\ At(r, "rotate")
    /\ \E n \in Token :
          /\ InsertToken(n, owner[t], family[t], openedWith[t])
          /\ replacedBy' = Linked(t, n)
    /\ used' = used \cup {t}
    /\ revoked' = revoked \cup {t}
    /\ Finish(r)
    /\ UNCHANGED <<userVars, resetVars, expired, condemned>>

\* Mutant: the 401 is thrown inside the transaction, which rolls back.
RolledBack(r) == revoked
RevokedBy(r) == revoked \cup (Held(r) \cap Token)

RefreshTheft(r) ==
    /\ At(r, "theft")
    /\ revoked' = RevokedBy(r)
    /\ condemned' = condemned \cup ((Held(r) \cap Token) \ {arg[r]})
    /\ Finish(r)
    /\ UNCHANGED <<userVars, issued, owner, family, used, replacedBy,
                   openedWith, resetVars, expired>>

\* logout reads the row without a lock and returns if it is already revoked.
Logout(r, t) ==
    /\ Begin(r, "logout", "logout", t)
    /\ t \in Live
    /\ Ask(r, {t})
    /\ UNCHANGED <<dataVars, entity, diff>>

LogoutRevoke(r) ==
    /\ At(r, "logout")
    /\ revoked' = revoked \cup {arg[r]}
    /\ Finish(r)
    /\ UNCHANGED <<userVars, issued, owner, family, used, replacedBy,
                   openedWith, resetVars, expired, condemned>>

-----------------------------------------------------------------------------
ForgotPassword(r, u) ==
    /\ Begin(r, "forgot", "forgot", u)
    /\ Usable(u) /\ SpareReset
    /\ UNCHANGED <<dataVars, entity, diff, lockVars>>

ForgotScan(r) ==
    /\ At(r, "forgot")
    /\ Ask(r, LinksToSpend(arg[r]))
    /\ Goto(r, "forgotLock")
    /\ UNCHANGED dataVars

\* The statement commits by itself: the insert is not in its transaction.
ForgotInvalidate(r) ==
    /\ At(r, "forgotLock")
    /\ resetUsed' = resetUsed \cup (Held(r) \cap ResetToken)
    /\ Release(r)
    /\ Goto(r, "forgotInsert")
    /\ UNCHANGED <<userVars, tokenVars, resets, resetOwner, expired, condemned>>

ForgotInsert(r) ==
    /\ At(r, "forgotInsert")
    /\ \E p \in ResetToken \ resets :
          /\ resets' = resets \cup {p}
          /\ resetOwner' = [resetOwner EXCEPT ![p] = arg[r]]
    /\ Finish(r)
    /\ UNCHANGED <<userVars, tokenVars, resetUsed, expired, condemned>>

ResetPassword(r, p) ==
    /\ Begin(r, "reset", "reset", p)
    /\ p \in resets
    /\ Ask(r, ForUpdate(p))
    /\ UNCHANGED <<dataVars, entity, diff>>

\* Mutant: the used mark is not looked at.
UnexpiredLink(p) == p \in resets \ expired /\ Usable(resetOwner[p])

\* The reset row is locked: the link of a used or expired row, or of a user who
\* is gone or not active, is refused; otherwise the user row is updated next.
ValidLink(p) == p \in resets \ (resetUsed \cup expired) /\ Usable(resetOwner[p])

\* Mutant: the refusal is returned without ending the transaction.
RefusedKeepsLocks(r) ==
    /\ At(r, "reset")
    /\ ~ ValidLink(arg[r])
    /\ Goto(r, "idle")
    /\ UNCHANGED <<dataVars, lockVars>>

ResetRefused(r) ==
    /\ At(r, "reset")
    /\ ~ ValidLink(arg[r])
    /\ Finish(r)
    /\ UNCHANGED dataVars

ResetAccepted(r) ==
    /\ At(r, "reset")
    /\ ValidLink(arg[r])
    /\ Ask(r, {resetOwner[arg[r]]})
    /\ Goto(r, "resetUser")
    /\ UNCHANGED dataVars

ResetScanTokens(r) ==
    /\ At(r, "resetUser")
    /\ Ask(r, SessionsToRevoke(resetOwner[arg[r]]))
    /\ Goto(r, "resetTokens")
    /\ UNCHANGED dataVars

ResetCommit(r) ==
    /\ At(r, "resetTokens")
    /\ password' = [password EXCEPT ![resetOwner[arg[r]]] = arg[r]]
    /\ resetUsed' = resetUsed \cup {arg[r]}
    /\ revoked' = revoked \cup (Held(r) \cap Token)
    /\ Finish(r)
    /\ UNCHANGED <<registered, deleted, active, issued, owner, family, used,
                   replacedBy, openedWith, resets, resetOwner, expired, condemned>>

-----------------------------------------------------------------------------
SoftDelete(r, u) ==
    /\ Begin(r, "delete", "delete", u)
    /\ Found(u)
    /\ Ask(r, {u})
    /\ UNCHANGED <<dataVars, entity, diff>>

DeleteScanTokens(r) ==
    /\ At(r, "delete")
    /\ Ask(r, SessionsToRevoke(arg[r]))
    /\ Goto(r, "deleteTokens")
    /\ UNCHANGED dataVars

DeleteScanResets(r) ==
    /\ At(r, "deleteTokens")
    /\ Ask(r, LinksToSpend(arg[r]))
    /\ Goto(r, "deleteResets")
    /\ UNCHANGED dataVars

DeleteCommit(r) ==
    /\ At(r, "deleteResets")
    /\ deleted' = deleted \cup {arg[r]}
    /\ revoked' = revoked \cup (Held(r) \cap Token)
    /\ resetUsed' = resetUsed \cup (Held(r) \cap ResetToken)
    /\ Finish(r)
    /\ UNCHANGED <<registered, active, password, issued, owner, family, used,
                   replacedBy, openedWith, resets, resetOwner, expired, condemned>>

\* An administrator's update: the entity is read, and its
\* status set or (one of the two values) kept.
UpdateUser(r, u) ==
    /\ Begin(r, "update", "updateSave", u)
    /\ Found(u)
    /\ \E status \in BOOLEAN :
          entity' = [entity EXCEPT ![r] = [password |-> password[u], active |-> status]]
    /\ UNCHANGED <<dataVars, diff, lockVars>>

\* save() reads the row again, soft-deleted or not, and will write every
\* column in which the entity differs from it.
Differing(r) ==
    {c \in {"password", "status", "deletedAt"} :
        \/ c = "password" /\ entity[r].password # password[arg[r]]
        \/ c = "status" /\ entity[r].active # (arg[r] \in active)
        \/ c = "deletedAt" /\ arg[r] \in deleted}

UpdateNothing(r) ==
    /\ At(r, "updateSave")
    /\ Differing(r) = {}
    /\ Finish(r)
    /\ UNCHANGED dataVars

UpdateSave(r) ==
    /\ At(r, "updateSave")
    /\ Differing(r) # {}
    /\ Ask(r, {arg[r]})
    /\ diff' = [diff EXCEPT ![r] = Differing(r)]
    /\ pc' = [pc EXCEPT ![r] = "updateWrite"]
    /\ UNCHANGED <<dataVars, arg, entity>>

UpdateWrite(r) ==
    LET u == arg[r] IN
    /\ At(r, "updateWrite")
    /\ password' = IF "password" \in diff[r]
                   THEN [password EXCEPT ![u] = entity[r].password] ELSE password
    /\ active' = IF "status" \notin diff[r] THEN active
                 ELSE IF entity[r].active THEN active \cup {u} ELSE active \ {u}
    /\ deleted' = IF "deletedAt" \in diff[r] THEN deleted \ {u} ELSE deleted
    /\ Finish(r)
    /\ UNCHANGED <<registered, tokenVars, resetVars, expired, condemned>>

-----------------------------------------------------------------------------
\* Time passes for a row of one of the token tables.
Expire(x) ==
    /\ x \in (issued \cup resets) \ expired
    /\ expired' = expired \cup {x}
    /\ UNCHANGED <<userVars, tokenVars, resetVars, condemned, reqVars, lockVars>>

\* The deadlock detector aborts one transaction of a ring: it rolls back and
\* the request ends in an error.
DeadlockAbort(r) ==
    /\ \E S \in DeadlockRings : r \in S
    /\ Finish(r)
    /\ UNCHANGED dataVars

\* The instance or its connection dies: the open transaction rolls back, the
\* statements already committed stay.
Crash(r) ==
    /\ pc[r] # "idle"
    /\ Finish(r)
    /\ UNCHANGED dataVars

Acquire(r) == AcquireRow(r) /\ UNCHANGED <<dataVars, reqVars>>

Call(r) ==
    \/ \E u \in User : \/ Register(r, u) \/ Login(r, u) \/ ForgotPassword(r, u)
                       \/ SoftDelete(r, u) \/ UpdateUser(r, u)
    \/ \E t \in Token : Refresh(r, t) \/ Logout(r, t)
    \/ \E p \in ResetToken : ResetPassword(r, p)

Proceed(r) ==
    \/ CreateSession(r)
    \/ RefreshReplayed(r) \/ RefreshTheft(r)
    \/ RefreshExpired(r) \/ RefreshInactive(r)
    \/ RefreshAccepted(r) \/ RefreshRotate(r)
    \/ LogoutRevoke(r)
    \/ ForgotScan(r) \/ ForgotInvalidate(r) \/ ForgotInsert(r)
    \/ ResetRefused(r) \/ ResetAccepted(r) \/ ResetScanTokens(r) \/ ResetCommit(r)
    \/ DeleteScanTokens(r) \/ DeleteScanResets(r) \/ DeleteCommit(r)
    \/ UpdateNothing(r) \/ UpdateSave(r) \/ UpdateWrite(r)

Next ==
    \/ \E r \in Request : Call(r) \/ Proceed(r) \/ Acquire(r)
                          \/ DeadlockAbort(r) \/ Crash(r)
    \/ \E x \in Token \cup ResetToken : Expire(x)

Spec == Init /\ [][Next]_vars

\* The event loop and the database go on with what they have begun; lock
\* queues are first-in first-out, hence strong fairness of Acquire; the
\* deadlock detector runs.  Nothing is assumed of clients, time or crashes.
Fairness ==
    \A r \in Request : /\ WF_vars(Proceed(r))
                       /\ SF_vars(Acquire(r))
                       /\ WF_vars(DeadlockAbort(r))

FairSpec == Spec /\ Fairness

-----------------------------------------------------------------------------
\* A row lock is held only by a request inside a transaction, and a request
\* that has locked the row it was called for still holds it at every later
\* step, so nobody changes that row between the check and the commit.
LockInv ==
    /\ \A x \in Row : lock[x] # None => pc[lock[x]] \in TxSteps
    /\ \A r \in Request : pc[r] \notin TxSteps => Granted(r)
    /\ \A r \in Request :
          /\ pc[r] \in {"refresh", "logout", "reset", "delete", "updateWrite"}
                => arg[r] \in want[r] \/ lock[arg[r]] = r
          /\ pc[r] \in {"rotate", "theft", "resetUser", "resetTokens",
                        "deleteTokens", "deleteResets"}
                => lock[arg[r]] = r
    /\ \A r \in Request :
          /\ pc[r] = "rotate" => arg[r] \in Live
          /\ pc[r] \in {"resetUser", "resetTokens"} => arg[r] \in resets \ resetUsed

\* Rotation never forks a session: however refresh, logout and the sweeps of
\* theft, reset and delete interleave, a family has one usable token at most.
AtMostOneLive ==
    \A t, n \in Live : family[t] = family[n] => t = n

\* The rows of a family form one chain that starts at the family's first token:
\* each other token was issued in place of exactly one token, which was used up,
\* of the same family and user and opened with the same password.  A token that
\* was rotated twice would have one of its two successors without a place.
RotationChain ==
    /\ used \subseteq revoked
    /\ \A t \in issued : t \in used <=> replacedBy[t] # None
    /\ \A t \in used : LET n == replacedBy[t] IN
          /\ n \in issued \ {t, family[t]}
          /\ family[n] = family[t] /\ owner[n] = owner[t]
          /\ openedWith[n] = openedWith[t]
    /\ \A t, n \in used : replacedBy[t] = replacedBy[n] => t = n
    /\ \A n \in issued : n # family[n] => \E t \in used : replacedBy[t] = n

\* While refresh answers a replay, every usable token of the family is among
\* the rows it is about to revoke, unless one of those rows was rotated after
\* the statement took its snapshot; and what it found stays revoked, although
\* the answer is an exception.
TheftMissesOnlyRotations ==
    /\ \A r \in AtSteps({"theft"}) :
          LET swept == want[r] \cup Held(r) IN
          \A t \in LiveIn(family[arg[r]]) :
              t \in swept \/ \E y \in swept \ {arg[r]} : y \in used
    /\ condemned \cap Live = {}

\* What comments of the source promise and overlapping requests break: a run
\* shows how for NoRotationOutlivesReset, the README tells it for the others.

\* "Kill the whole session family": once a replay was answered, no token of
\* that family can be refreshed.
TheftKillsFamily == \A t \in Live, y \in condemned : family[t] # family[y]

\* "Revokes all active sessions for the user": a usable session was opened
\* with the user's current password.
NoSessionOutlivesReset == \A t \in Live : openedWith[t] = password[owner[t]]

\* "Force re-login everywhere", of the sessions that were rotated at least once.
NoRotationOutlivesReset ==
    \A t \in used : replacedBy[t] \in Live => openedWith[t] = password[owner[t]]

\* "Soft-delete a user (admin). Revokes their sessions".
DeletedUserHasNoSession == \A u \in deleted : LiveOf(u) = {} /\ UnusedOf(u) = {}

\* "Invalidate any previously issued, still-unused reset tokens": a user has
\* one usable reset link at most.
AtMostOneResetLink ==
    \A p, q \in resets \ resetUsed : resetOwner[p] = resetOwner[q] => p = q

\* Apart from the write of an administrator's update, a password only ever
\* changes to the one a reset link sets, and only by the step that spends that
\* link: links are single-use, however many requests present them.
UpdateOf(u) == \E r \in Request : pc[r] = "updateWrite" /\ arg[r] = u /\ pc'[r] = "idle"

PasswordChangedByFreshLink ==
    [][\A u \in User : password'[u] # password[u] /\ ~ UpdateOf(u) =>
          /\ password'[u] \in resetUsed' \ resetUsed
          /\ resetOwner[password'[u]] = u]_vars

\* The lock orders of the handlers agree on users and refresh tokens: a request
\* about a refresh token, or a statement that revokes refresh tokens, is never
\* part of a deadlock.  What can deadlock, over the reset links of one user: a
\* resetPassword (it holds a link and wants the user), a softDelete (it holds
\* the user and wants the links) and forgotPasswords (each wants all links).
UserOf(r) == IF pc[r] \in ResetSteps THEN resetOwner[arg[r]]
             ELSE IF pc[r] \in TokenSteps THEN owner[arg[r]] ELSE arg[r]

OnlyResetLinksDeadlock ==
    \A S \in DeadlockRings : \E u \in User : \A r \in S :
        pc[r] \in {"resetUser", "deleteResets", "forgotLock"} /\ UserOf(r) = u

\* Every request is answered: no lock is leaked and no wait lasts for ever.
EveryRequestEnds == \A r \in Request : pc[r] # "idle" ~> pc[r] = "idle"
=============================================================================
