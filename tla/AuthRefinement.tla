--------------------------- MODULE AuthRefinement ---------------------------
(***************************************************************************)
(* AuthSessions implements SessionFamilies: the usable token of a family   *)
(* is its one unrevoked row, the spent tokens are the revoked rows.        *)
(***************************************************************************)
EXTENDS AuthSessions

CurrentOf(f) == IF LiveIn(f) = {} THEN None ELSE CHOOSE t \in LiveIn(f) : TRUE

Current == [f \in Token |-> CurrentOf(f)]

Families == INSTANCE SessionFamilies WITH current <- Current, spent <- revoked

\* Whatever the requests do to the tables, a session has one usable token,
\* which rotation replaces, and what was closed or spent stays so.
ImplementsFamilies == Families!Spec
=============================================================================
