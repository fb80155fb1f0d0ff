--------------------------- MODULE MCAuthSessions ---------------------------
(***************************************************************************)
(* Instances of AuthSessions for TLC.                                      *)
(***************************************************************************)
EXTENDS AuthRefinement, TLC

MCRow == User \cup Token \cup ResetToken

RotationOps   == AllOps \ {"update"}
RotateVsReset == {"register", "refresh", "forgot", "reset"}

\* Bound of the run about rotations: sessions are opened before anything else runs.
SessionsFirst ==
    AtSteps({"session"})' # {} => \A r, q \in Request : "idle" \in {pc'[r], pc'[q]} \/ r = q

Symmetry == Permutations(Request) \cup Permutations(Token)
                \cup Permutations(ResetToken) \cup Permutations(User)

\* Bound of the run with liveness: two rows in the token tables, those that the
\* open requests may yet insert included, so that it stops calls and no insert.
\* The rows of a table are alike and inserted in one order.
TwoRows ==
    /\ Cardinality(issued' \cup resets') + Cardinality(Inserting') <= 2
    /\ issued' # {} => (CHOOSE t \in Token : TRUE) \in issued'
    /\ resets' # {} => (CHOOSE p \in ResetToken : TRUE) \in resets'
=============================================================================
