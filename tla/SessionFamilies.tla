-------------------------- MODULE SessionFamilies --------------------------
(***************************************************************************)
(* What the refresh tokens promise, without requests, locks or tables: a   *)
(* session is a family with at most one usable token.  Rotation spends     *)
(* that token and puts a token never seen before in its place; closing     *)
(* sessions (logout, expiry, replay, password reset, deletion) spends      *)
(* their tokens for good.  A spent token never becomes usable again and a  *)
(* closed session never resumes.                                           *)
(***************************************************************************)
CONSTANTS Token,   \* refresh tokens; a family bears the name of its first token
          None

VARIABLES current, \* the usable token of each family, or None
          spent    \* the tokens that can no longer be refreshed

Usable == {current[f] : f \in Token} \ {None}

Init ==
    /\ current = [f \in Token |-> None]
    /\ spent = {}

Fresh(t) == t \in Token \ (Usable \cup spent)

Open(f) ==
    /\ Fresh(f)
    /\ current' = [current EXCEPT ![f] = f]
    /\ UNCHANGED spent

Rotate(f, n) ==
    /\ current[f] # None
    /\ Fresh(n)
    /\ current' = [current EXCEPT ![f] = n]
    /\ spent' = spent \cup {current[f]}

Close(closed) ==
    /\ \A f \in closed : current[f] # None
    /\ current' = [f \in Token |-> IF f \in closed THEN None ELSE current[f]]
    /\ spent' = spent \cup {current[f] : f \in closed}

Next ==
    \/ \E f \in Token : Open(f)
    \/ \E f, n \in Token : Rotate(f, n)
    \/ \E closed \in SUBSET Token : Close(closed)

Spec == Init /\ [][Next]_<<current, spent>>
=============================================================================
