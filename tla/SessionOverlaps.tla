-------------------------- MODULE SessionOverlaps --------------------------
(***************************************************************************)
(* AuthSessions with a record of which requests overlapped: resets and     *)
(* deletions revoke the sessions they find, and forgotPassword the links,  *)
(* so what they miss was inserted by a request beside them.                *)
(***************************************************************************)
EXTENDS AuthRefinement

VARIABLES beside,   \* open requests that ran at the same time as a rival
          missed    \* families and reset links that such requests inserted into

overlaps == <<beside, missed>>

SweepSteps  == {"resetUser", "resetTokens", "delete", "deleteTokens", "deleteResets"}

\* For an insert of a link the rivals are the other forgotPasswords of the user,
\* for an insert of a token what revokes tokens of the user.
RivalSteps(q) == IF pc[q] \in ForgotSteps THEN ForgotSteps ELSE SweepSteps

HasRival(q) == \E r \in Request \ {q} : pc[r] \in RivalSteps(q) /\ UserOf(r) = UserOf(q)

\* The rows that count: the families and links that can still be used.
Usables == {family[t] : t \in Live} \cup (resets \ resetUsed)

Watch ==
    LET rowsIn == (resets' \ resets) \cup {family'[t] : t \in issued' \ issued}
    IN
    /\ beside' = {q \in Inserting' : q \in beside \/ HasRival(q)'}
    /\ missed' = Usables' \cap
          (missed \cup IF \E q \in beside : pc'[q] = "idle" THEN rowsIn ELSE {})

WatchInit == Init /\ beside = {} /\ missed = {}

WatchSpec == WatchInit /\ [][Next /\ Watch]_<<vars, overlaps>>

-----------------------------------------------------------------------------
\* A usable session that was opened with another password than the user's, or
\* whose user is deleted, goes back to a login, registration or rotation that
\* overlapped the reset or the deletion (without administrators' updates, which
\* can bring back an earlier password).
SweepsMissOnlyOverlaps ==
    \A t \in Live :
        openedWith[t] # password[owner[t]] \/ owner[t] \in deleted => family[t] \in missed

\* Two usable reset links of one user come from forgotPasswords that overlapped.
LinksMissOnlyOverlaps ==
    \A p, q \in resets \ resetUsed :
        p # q /\ resetOwner[p] = resetOwner[q] => {p, q} \subseteq missed
=============================================================================
