-------------------------- MODULE ConnectRateLimit --------------------------
(***************************************************************************)
(* RedisIoAdapter.checkConnectRateLimit: the middleware of every instance  *)
(* that counts the socket handshakes of one address in a Redis key which   *)
(* expires after a window.  INCR is atomic; the EXPIRE that follows it is  *)
(* a command of its own.                                                   *)
(***************************************************************************)
EXTENDS Naturals, FiniteSets

CONSTANTS Socket,        \* the sockets of one client address
          Limit,         \* WS_CONNECT_RATE_LIMIT
          MaxCount,      \* bounds the counter: larger counts are all past the limit
          MaxFailures    \* bounds the failures of Redis calls and of instances

LimitAssumption ==
    /\ Limit \in Nat \ {0} /\ MaxFailures \in Nat
    /\ MaxCount \in Nat /\ MaxCount > Limit + 1
    /\ IsFiniteSet(Socket)

VARIABLES
    count,      \* the value of ws:connect:<address>, 0 when there is no key
    expires,    \* the key has a time to live
    pc,         \* what the middleware does for each socket
    current,    \* the result of its INCR
    failures,
    \* history: handshakes admitted by the check in this life of the key, and
    \* the sockets whose INCR was in an earlier one
    admitted, late

vars == <<count, expires, pc, current, failures, admitted, late>>

TypeOK ==
    /\ count \in 0..MaxCount
    /\ expires \in BOOLEAN
    /\ expires => count > 0
    /\ pc \in [Socket -> {"away", "expire", "decide", "open"}]
    /\ current \in [Socket -> 0..MaxCount]
    /\ failures \in 0..MaxFailures
    /\ admitted \in Nat /\ late \subseteq Socket

Init ==
    /\ count = 0 /\ expires = FALSE
    /\ pc = [s \in Socket |-> "away"] /\ current = [s \in Socket |-> 0]
    /\ failures = 0 /\ admitted = 0 /\ late = {}

Goto(s, p) == pc' = [pc EXCEPT ![s] = p]

\* Mutant: the expiry is asked for when the limit is passed.
FirstPastLimit(n) == n = Limit + 1
First(n) == n = 1

Incremented == IF count < MaxCount THEN count + 1 ELSE count

Incr(s) ==
    /\ pc[s] = "away"
    /\ count' = Incremented
    /\ current' = [current EXCEPT ![s] = count']
    /\ Goto(s, IF First(count') THEN "expire" ELSE "decide")
    /\ late' = late \ {s}
    /\ UNCHANGED <<expires, failures, admitted>>

SetExpiry == expires' = (count > 0) /\ UNCHANGED count

Expire(s) ==
    /\ pc[s] = "expire"
    /\ SetExpiry
    /\ Goto(s, "decide")
    /\ UNCHANGED <<current, failures, admitted, late>>

Decide(s) ==
    /\ pc[s] = "decide"
    /\ IF current[s] > Limit
       THEN Goto(s, "away") /\ UNCHANGED admitted
       ELSE /\ Goto(s, "open")
            /\ admitted' = IF s \in late THEN admitted ELSE admitted + 1
    /\ UNCHANGED <<count, expires, current, failures, late>>

\* The catch block lets the socket in.  A command whose reply is lost may have
\* been executed.
IncrFails(s) ==
    /\ pc[s] = "away" /\ failures < MaxFailures
    /\ failures' = failures + 1
    /\ count' \in {count, Incremented}
    /\ Goto(s, "open")
    /\ UNCHANGED <<expires, current, admitted, late>>

ExpireFails(s) ==
    /\ pc[s] = "expire" /\ failures < MaxFailures
    /\ failures' = failures + 1
    /\ expires' \in {expires, count > 0}
    /\ Goto(s, "open")
    /\ UNCHANGED <<count, current, admitted, late>>

Leave(s) ==
    /\ pc[s] = "open"
    /\ Goto(s, "away")
    /\ UNCHANGED <<count, expires, current, failures, admitted, late>>

\* The instance that serves the sockets D dies.
Crash(D) ==
    /\ failures < MaxFailures
    /\ failures' = failures + 1
    /\ pc' = [s \in Socket |-> IF s \in D THEN "away" ELSE pc[s]]
    /\ UNCHANGED <<count, expires, current, admitted, late>>

WindowEnds ==
    /\ expires
    /\ expires' = FALSE /\ count' = 0 /\ admitted' = 0
    /\ late' = Socket
    /\ UNCHANGED <<pc, current, failures>>

Next ==
    \/ \E s \in Socket : \/ Incr(s) \/ Expire(s) \/ Decide(s) \/ Leave(s)
                         \/ IncrFails(s) \/ ExpireFails(s)
    \/ \E D \in SUBSET Socket \ {{}} : Crash(D)
    \/ WindowEnds

Spec == Init /\ [][Next]_vars

\* Commands in flight are executed, and Redis removes a key that expires.
Fairness ==
    /\ \A s \in Socket : WF_vars(Expire(s)) /\ WF_vars(Decide(s))
    /\ WF_vars(WindowEnds)

FairSpec == Spec /\ Fairness

-----------------------------------------------------------------------------
\* However the handshakes of many instances interleave, the check lets at most
\* Limit of those counted in one window in.
AdmitsAtMostLimit == admitted <= Limit

\* "Max socket connections per IP per 60s window": a count ends with its
\* window, so no address stays refused.
EveryWindowEnds == count > 0 ~> count = 0

\* The same until the first failed command or crash: what is left of the claim.
WindowsEndUntilFailure == count > 0 ~> count = 0 \/ failures > 0
=============================================================================
