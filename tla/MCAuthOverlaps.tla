--------------------------- MODULE MCAuthOverlaps ---------------------------
(***************************************************************************)
(* The instance of SessionOverlaps for TLC.                                *)
(***************************************************************************)
EXTENDS SessionOverlaps, MCAuthSessions

\* Bound: the rows in the two token tables, those that the open requests may yet
\* insert included, so that no insert is ever held back; fewer when the user has a
\* second session.
Sessions == {family[t] : t \in issued} \cup AtSteps({"session"})
MaxRows  == IF Cardinality(Sessions) > 1 THEN 3 ELSE 4

RowsBounded == Cardinality(issued \cup resets) + Cardinality(Inserting) <= MaxRows

OverlapSpec == WatchInit /\ [][Next /\ Watch /\ RowsBounded']_<<vars, overlaps>>
=============================================================================
