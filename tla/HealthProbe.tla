---------------------------- MODULE HealthProbe ----------------------------
(***************************************************************************)
(* GET /health beside the adapter and the shared Redis client of its       *)
(* instance (RealtimeAdapter): a query of the database, a ping of Redis,   *)
(* each awaited, and then the status the adapter has reported.             *)
(***************************************************************************)
EXTENDS RealtimeAdapter

VARIABLES
    dbUp,        \* the database answers
    mailFailed,  \* MailQueueStatus has seen a permanent failure
    probe,       \* what the request waits for
    dbSeen,      \* what its first probe found
    reported,    \* the overall status of the last answer
    fault        \* history: something was wrong at some moment of the request

health     == <<dbUp, mailFailed, probe, dbSeen, reported, fault>>
healthVars == <<vars, health>>

HealthTypeOK ==
    /\ TypeOK
    /\ dbUp \in BOOLEAN /\ mailFailed \in BOOLEAN
    /\ probe \in {"idle", "db", "redis"}
    /\ dbSeen \in BOOLEAN /\ fault \in BOOLEAN
    /\ reported \in {"none", "ok", "degraded"}
    /\ reported = "ok" => redisAttached

HealthInit ==
    /\ Init
    /\ dbUp \in BOOLEAN /\ mailFailed = FALSE
    /\ probe = "idle" /\ dbSeen = FALSE /\ reported = "none" /\ fault = FALSE

-----------------------------------------------------------------------------
Wrong == ~ dbUp \/ ~ up \/ status = "end" \/ ~ redisAttached

Watch == fault' = (probe' # "idle" /\ (fault \/ Wrong'))

\* A step of the adapter, of the client or of Redis.
AdapterStep ==
    /\ Next
    /\ UNCHANGED <<dbUp, mailFailed, probe, dbSeen, reported>>
    /\ Watch

DbUpOrDown ==
    /\ dbUp' = ~ dbUp
    /\ UNCHANGED <<vars, mailFailed, probe, dbSeen, reported>>
    /\ Watch

\* A job of the mail queue is exhausted (MailQueue).
MailFails ==
    /\ ~ mailFailed /\ mailFailed' = TRUE
    /\ UNCHANGED <<vars, dbUp, probe, dbSeen, reported, fault>>

Poll ==
    /\ probe = "idle" /\ phase = "running"
    /\ probe' = "db"
    /\ fault' = Wrong
    /\ UNCHANGED <<vars, dbUp, mailFailed, dbSeen, reported>>

AskDb ==
    /\ probe = "db"
    /\ dbSeen' = dbUp
    /\ probe' = "redis"
    /\ UNCHANGED <<vars, dbUp, mailFailed, reported, fault>>

\* The shared client sends the ping as soon as it is connected; it fails when
\* the retries of the command are used up or the client has ended.
RedisAnswers == up /\ status # "end"

\* Mutants: the sticky flag of the mail queue counts; the adapter's status
\* stands for Redis.
DegradedByMail(redisSeen)    == ~ dbSeen \/ ~ redisSeen \/ adapterStatus # "attached" \/ mailFailed
DegradedByAdapter(redisSeen) == ~ dbSeen \/ adapterStatus # "attached"

Degraded(redisSeen) == ~ dbSeen \/ ~ redisSeen \/ adapterStatus # "attached"

\* The answer is put together when the ping is answered.
AskRedis ==
    /\ probe = "redis"
    /\ reported' = IF Degraded(RedisAnswers) THEN "degraded" ELSE "ok"
    /\ probe' = "idle"
    /\ UNCHANGED <<vars, dbUp, mailFailed, dbSeen, fault>>

HealthNext == \/ AdapterStep \/ DbUpOrDown \/ MailFails \/ Poll \/ AskDb \/ AskRedis

\* A monitor polls again and again, and the event loop goes on.
HealthFairness ==
    /\ WF_vars(ClientReady) /\ WF_vars(ReadyEmitted) /\ WF_vars(TimerFires)
    /\ WF_vars(PingsFail) /\ SF_vars(PingsAnswered)
    /\ WF_healthVars(Poll) /\ WF_healthVars(AskDb) /\ WF_healthVars(AskRedis)

HealthSpec == HealthInit /\ [][HealthNext]_healthVars /\ HealthFairness

-----------------------------------------------------------------------------
\* "degraded" is answered only when the database, Redis, the client or the
\* adapter was not in order at some moment of the request: an e-mail that
\* failed for good, or an outage that is over, alarms nobody.
DegradedIsReal ==
    [][AskRedis /\ reported' = "degraded" => fault]_healthVars

\* Once the database and Redis stay up, every answer from some time on is "ok",
\* unless the shared client had given up.
RecoveryIsReported ==
    <>[](up /\ dbUp /\ phase = "running") => <>[](reported = "ok" \/ status = "end")

\* A shared client that has given up, which no event of the adapter tells, is
\* reported from some answer on, for ever.
GivenUpIsReported ==
    <>[](phase = "running") => (status = "end" ~> [](reported = "degraded"))
=============================================================================
