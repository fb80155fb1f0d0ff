-------------------------- MODULE RealtimeAdapter --------------------------
(***************************************************************************)
(* RedisIoAdapter: how one instance attaches the Redis adapter to its      *)
(* Socket.IO server, falls back to the in-memory one while Redis does not  *)
(* answer, and tries again, beside the shared ioredis client (RedisModule) *)
(* whose state decides how it waits.                                       *)
(***************************************************************************)
EXTENDS Naturals

CONSTANT MaxTries    \* REDIS_MAX_RECONNECT_ATTEMPTS

ASSUME TriesAssumption == MaxTries \in Nat \ {0}

VARIABLES
    up,             \* Redis can be reached
    status, tries,  \* the shared client: state and reconnections tried in a row
    readyEvent,     \* its 'ready' event is queued for the next tick
    attempts,       \* calls of attachRedisAdapter waiting for their pings
    timers,         \* retries scheduled after RETRY_DELAY_MS
    listeners,      \* retries waiting for the client's 'ready'
    redisAttached,
    adapterStatus,  \* RealtimeAdapterStatus, which /health reports
    kept,           \* pairs kept in pubClient and subClient for dispose
    pairs,          \* pairs of duplicated clients that are open
    phase           \* of the instance's shutdown

client  == <<status, tries, readyEvent>>
adapter == <<attempts, timers, listeners, redisAttached, adapterStatus, kept, pairs>>
vars    == <<up, client, adapter, phase>>

TypeOK ==
    /\ up \in BOOLEAN
    /\ status \in {"connecting", "ready", "end"} /\ tries \in 0..MaxTries
    /\ readyEvent \in BOOLEAN /\ redisAttached \in BOOLEAN /\ kept \in 0..1
    /\ attempts \in Nat /\ timers \in Nat /\ listeners \in Nat
    /\ adapterStatus \in {"pending", "attached", "degraded"}
    /\ redisAttached <=> adapterStatus = "attached"
    /\ pairs \in Nat
    /\ phase \in {"running", "disposed", "closed"}

\* createIOServer has just called attachRedisAdapter for the first time.
Init ==
    /\ up \in BOOLEAN
    /\ status = "connecting" /\ tries = 0 /\ readyEvent = FALSE
    /\ attempts = 1 /\ timers = 0 /\ listeners = 0
    /\ redisAttached = FALSE /\ adapterStatus = "pending"
    /\ kept = 0 /\ pairs = 1
    /\ phase = "running"

-----------------------------------------------------------------------------
\* The network between the instance and Redis.
UpOrDown == up' = ~ up /\ UNCHANGED <<client, adapter, phase>>

\* The client connects; 'ready' is emitted on the next tick.
ClientReady ==
    /\ status = "connecting" /\ up
    /\ status' = "ready" /\ tries' = 0 /\ readyEvent' = TRUE
    /\ UNCHANGED <<up, adapter, phase>>

\* retryStrategy: the connection is lost or was not made; it is tried again
\* after a delay until the attempts are used up.
ClientRetries ==
    /\ ~ up /\ status \in {"ready", "connecting"}
    /\ IF tries < MaxTries THEN status' = "connecting" /\ tries' = tries + 1
                           ELSE status' = "end" /\ UNCHANGED tries
    /\ UNCHANGED <<up, readyEvent, adapter, phase>>

-----------------------------------------------------------------------------
\* n calls of attachRedisAdapter, up to their await: once attached it does nothing.
Attach(n) ==
    IF redisAttached THEN UNCHANGED <<attempts, pairs>>
    ELSE attempts' = attempts + n /\ pairs' = pairs + n

ReadyEmitted ==
    /\ readyEvent
    /\ readyEvent' = FALSE
    /\ listeners' = 0
    /\ Attach(listeners)
    /\ UNCHANGED <<up, status, tries, timers, redisAttached, adapterStatus, kept, phase>>

TimerFires ==
    /\ timers > 0
    /\ timers' = timers - 1
    /\ Attach(1)
    /\ UNCHANGED <<up, client, listeners, redisAttached, adapterStatus, kept, phase>>

\* markAttached, markDegraded
Mark(s) == adapterStatus' = s

PingsAnswered ==
    /\ attempts > 0 /\ up
    /\ attempts' = attempts - 1
    /\ kept' = 1 /\ redisAttached' = TRUE /\ Mark("attached")
    /\ UNCHANGED <<up, client, timers, listeners, pairs, phase>>

\* Mutants: degrade waits for 'ready' even when it was emitted before; or it
\* waits for both.
WaitForReady == listeners' = listeners + 1 /\ UNCHANGED timers
WaitForBoth  == listeners' = listeners + 1 /\ timers' = timers + 1

Degrade ==
    IF status = "ready" THEN timers' = timers + 1 /\ UNCHANGED listeners
                        ELSE listeners' = listeners + 1 /\ UNCHANGED timers

\* Mutant: the clients of the failed attempt are not disconnected.
KeptOpen == pairs
Disconnected == pairs - 1

\* A ping fails, or the two seconds for both are over.
PingsFail ==
    /\ attempts > 0
    /\ attempts' = attempts - 1
    /\ pairs' = Disconnected
    /\ Mark("degraded")
    /\ Degrade
    /\ UNCHANGED <<up, client, redisAttached, kept, phase>>

-----------------------------------------------------------------------------
Dispose ==
    /\ phase = "running"
    /\ phase' = "disposed"
    /\ kept' = 0
    /\ pairs' = pairs - kept
    /\ UNCHANGED <<up, client, attempts, timers, listeners, redisAttached, adapterStatus>>

\* The shared client quits, or is disconnected when it is not ready or does not
\* answer in time.
RedisShutdown ==
    /\ phase = "disposed"
    /\ phase' = "closed"
    /\ status' = "end"
    /\ UNCHANGED <<up, tries, readyEvent, adapter>>

Next == \/ UpOrDown \/ ClientReady \/ ClientRetries \/ ReadyEmitted \/ TimerFires
        \/ PingsAnswered \/ PingsFail \/ Dispose \/ RedisShutdown

Spec == Init /\ [][Next]_vars

-----------------------------------------------------------------------------
\* Until the adapter is attached exactly one thing will bring the next attempt,
\* and afterwards nothing: no retry is lost and no two chains of retries run,
\* whatever order pings, timers, 'ready' events and outages come in.
OneContinuation ==
    attempts + timers + listeners = IF redisAttached THEN 0 ELSE 1

\* The open clients are those of the attempt under way and those kept for
\* dispose: retries during a long outage leak no connections.
ClientsAccounted ==
    pairs = attempts + kept

=============================================================================
