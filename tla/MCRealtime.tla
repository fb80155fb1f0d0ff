----------------------------- MODULE MCRealtime -----------------------------
(***************************************************************************)
(* The two duties of RedisIoAdapter for TLC: the adapter of an instance    *)
(* with the health checks beside it, and the limit on handshakes.  Nothing *)
(* that one of them reads is written by the other, so a behaviour of both  *)
(* is one of each side by side; here one moves and the other rests, which  *)
(* is the sum of their states and not the product.                         *)
(***************************************************************************)
EXTENDS HealthProbe

CONSTANTS Socket, Limit, MaxCount, MaxFailures   \* of ConnectRateLimit

VARIABLES moves, count, expires, pc, current, failures, admitted, late

limitVars == <<count, expires, pc, current, failures, admitted, late>>
allVars   == <<moves, healthVars, limitVars>>

L == INSTANCE ConnectRateLimit

ASSUME RealtimeAssumption == L!LimitAssumption

MCInit ==
    /\ moves \in {"health", "limit"}
    /\ HealthInit /\ L!Init
    /\ moves # "health" => up /\ dbUp

MCNext ==
    \/ moves = "health" /\ HealthNext /\ UNCHANGED <<moves, limitVars>>
    \/ moves = "limit"  /\ L!Next     /\ UNCHANGED <<moves, healthVars>>

MCSpec ==
    /\ MCInit /\ [][MCNext]_allVars
    /\ moves = "health" => HealthFairness
    /\ moves = "limit"  => L!Fairness

-----------------------------------------------------------------------------
\* Properties of HealthProbe: recoveries, and a client that gave up for ever, are
\* reported by /health.
RecoveryShows == moves = "health" => RecoveryIsReported
GivenUpShows  == moves = "health" => GivenUpIsReported

\* Properties of ConnectRateLimit: a window admits no more than the limit, and
\* ends, as long as no command failed and no instance died.
WindowsLimitAndEnd ==
    [](L!TypeOK /\ L!AdmitsAtMostLimit) /\ L!WindowsEndUntilFailure
=============================================================================
