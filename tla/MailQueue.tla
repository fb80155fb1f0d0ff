----------------------------- MODULE MailQueue -----------------------------
(***************************************************************************)
(* The e-mail with the link of a password reset, from forgotPassword to    *)
(* the relay: MailService adds a job to a BullMQ queue in Redis, and the   *)
(* MailProcessor of any instance takes it, sends it by SMTP and lets       *)
(* BullMQ retry it when that fails.                                        *)
(*                                                                         *)
(* The queue, its retries and its recovery of stalled jobs are BullMQ's,   *)
(* modelled as MailModule configures them: three attempts with a delay     *)
(* between them, completed jobs removed at once, failed jobs kept.         *)
(***************************************************************************)
EXTENDS Naturals, FiniteSets

CONSTANTS Mail,         \* the reset links, each with the job id made of its token
          Instance,     \* the instances of the application
          None,
          MaxAttempts,  \* MAIL_JOB_ATTEMPTS
          MaxStalls,    \* how often BullMQ gives a stalled job back
          MaxCrashes,   \* bounds the crashes of instances
          MaxResends    \* bounds the commands repeated after a lost connection

ASSUME MailAssumption ==
    /\ None \notin Instance \cup Mail
    /\ MaxAttempts \in Nat \ {0}
    /\ {MaxStalls, MaxCrashes, MaxResends} \subseteq Nat

VARIABLES
    call,       \* sendPasswordReset of each mail: before, during or after
    job,        \* the job of each mail in the queue
    attempts,   \* the attempts it has used, and the times it has stalled
    stalls,
    up,         \* the instances whose worker takes jobs
    closing,    \* those that drain their worker before they exit
    step,       \* what each instance's worker does, for which mail,
    work,
    made,       \* and the attempts the worker has seen the mail use
    crashes, resends,
    \* history: jobs created and e-mails accepted by the relay per mail; the
    \* mails for which an answer was lost or an instance died on the way; those
    \* marked in MailQueueStatus and alerted about, and those whose instance
    \* died before it could do that
    created, delivered, doubt, reported, unreported

queue   == <<job, attempts, stalls>>
worker  == <<up, closing, step, work, made>>
history == <<created, delivered, doubt, reported, unreported>>
vars    == <<call, queue, worker, crashes, resends, history>>

\* The steps at which a worker holds the lock of its job.
Sending == {"send", "sent", "failed"}

TypeOK ==
    /\ call \in [Mail -> {"none", "adding", "added", "done"}]
    /\ job \in [Mail -> {"none", "waiting", "active", "delayed", "failed"}]
    /\ attempts \in [Mail -> 0..MaxAttempts] /\ stalls \in [Mail -> 0..MaxStalls]
    /\ up \subseteq Instance /\ closing \subseteq up
    /\ step \in [Instance -> {"idle", "send", "sent", "failed", "report"}]
    /\ work \in [Instance -> Mail \cup {None}]
    /\ \A i \in Instance : step[i] = "idle" <=> work[i] = None
    /\ \A i \in Instance \ up : step[i] = "idle"
    /\ made \in [Instance -> 0..MaxAttempts]
    \* a worker's job is active, and no other worker's
    /\ \A i \in Instance : step[i] \in Sending => job[work[i]] = "active"
    /\ \A i, k \in Instance : step[i] \in Sending /\ step[k] \in Sending
                                 /\ work[i] = work[k] => i = k
    /\ doubt \cup reported \cup unreported \subseteq Mail

Init ==
    /\ call = [m \in Mail |-> "none"] /\ job = [m \in Mail |-> "none"]
    /\ attempts = [m \in Mail |-> 0] /\ stalls = [m \in Mail |-> 0]
    /\ up = Instance /\ closing = {}
    /\ step = [i \in Instance |-> "idle"] /\ work = [i \in Instance |-> None]
    /\ made = [i \in Instance |-> 0]
    /\ crashes = 0 /\ resends = 0
    /\ created = [m \in Mail |-> 0] /\ delivered = [m \in Mail |-> 0]
    /\ doubt = {} /\ reported = {} /\ unreported = {}

-----------------------------------------------------------------------------
\* MailService.sendPasswordReset, called once for each link.
SendPasswordReset(m) ==
    /\ call[m] = "none"
    /\ call' = [call EXCEPT ![m] = "adding"]
    /\ UNCHANGED <<queue, worker, crashes, resends, history>>

\* Redis adds the job, unless there is one with its id.
Add(m) ==
    /\ call[m] = "adding"
    /\ call' = [call EXCEPT ![m] = "added"]
    /\ IF job[m] # "none" THEN UNCHANGED <<queue, created>>
       ELSE /\ job' = [job EXCEPT ![m] = "waiting"]
            /\ attempts' = [attempts EXCEPT ![m] = 0]
            /\ stalls' = [stalls EXCEPT ![m] = 0]
            /\ created' = [created EXCEPT ![m] = @ + 1]
    /\ UNCHANGED <<worker, crashes, resends, delivered, doubt, reported, unreported>>

\* The connection is lost before the reply: the client sends the command again.
Resend(m) ==
    /\ call[m] = "added" /\ resends < MaxResends
    /\ resends' = resends + 1
    /\ call' = [call EXCEPT ![m] = "adding"]
    /\ doubt' = doubt \cup {m}
    /\ UNCHANGED <<queue, worker, crashes, created, delivered, reported, unreported>>

\* The caller gets its reply, or an error that is logged and swallowed.
Answer(m) ==
    /\ call[m] \in {"adding", "added"}
    /\ call' = [call EXCEPT ![m] = "done"]
    /\ UNCHANGED <<queue, worker, crashes, resends, history>>

-----------------------------------------------------------------------------
At(i, s) == i \in up /\ step[i] = s

Goto(i, s, m) ==
    /\ step' = [step EXCEPT ![i] = s]
    /\ work' = [work EXCEPT ![i] = m]
    /\ UNCHANGED <<up, closing, made>>

\* concurrency 1: the worker takes one job at a time.
Take(i, m) ==
    /\ At(i, "idle") /\ i \notin closing
    /\ job[m] = "waiting"
    /\ job' = [job EXCEPT ![m] = "active"]
    /\ Goto(i, "send", m)
    /\ UNCHANGED <<call, attempts, stalls, crashes, resends, history>>

Delivered(m) == delivered' = [delivered EXCEPT ![m] = @ + 1]

SendAccepted(i) ==
    /\ At(i, "send")
    /\ Delivered(work[i])
    /\ Goto(i, "sent", work[i])
    /\ UNCHANGED <<call, queue, crashes, resends, created, doubt, reported, unreported>>

\* Mutant: the error of the relay is swallowed, so the job completes.
SendSwallowed(i) ==
    /\ At(i, "send")
    /\ Goto(i, "sent", work[i])
    /\ UNCHANGED <<call, queue, crashes, resends, history>>

SendRejected(i) ==
    /\ At(i, "send")
    /\ Goto(i, "failed", work[i])
    /\ UNCHANGED <<call, queue, crashes, resends, history>>

\* The socket times out although the relay accepted the e-mail.
SendTimesOut(i) ==
    /\ At(i, "send")
    /\ Delivered(work[i])
    /\ doubt' = doubt \cup {work[i]}
    /\ Goto(i, "failed", work[i])
    /\ UNCHANGED <<call, queue, crashes, resends, created, reported, unreported>>

Complete(i) ==
    /\ At(i, "sent")
    /\ job' = [job EXCEPT ![work[i]] = "none"]
    /\ Goto(i, "idle", None)
    /\ UNCHANGED <<call, attempts, stalls, crashes, resends, history>>

\* BullMQ counts the attempt and delays or fails the job, then emits 'failed'.
Fail(i) ==
    LET m == work[i] IN
    /\ At(i, "failed")
    /\ attempts' = [attempts EXCEPT ![m] = @ + 1]
    /\ job' = [job EXCEPT ![m] = IF attempts'[m] < MaxAttempts THEN "delayed" ELSE "failed"]
    /\ made' = [made EXCEPT ![i] = attempts'[m]]
    /\ step' = [step EXCEPT ![i] = "report"]
    /\ UNCHANGED <<call, stalls, up, closing, work, crashes, resends, history>>

\* Mutant: one attempt too many is waited for.
ExhaustedLater(i) == made[i] > MaxAttempts
IsFinalFailure(i) == made[i] >= MaxAttempts

MarkPermanentFailure(m) == reported' = reported \cup {m}

\* handleFailure, synchronous within the event.
HandleFailure(i) ==
    /\ At(i, "report")
    /\ IF IsFinalFailure(i) THEN MarkPermanentFailure(work[i]) ELSE UNCHANGED reported
    /\ Goto(i, "idle", None)
    /\ UNCHANGED <<call, queue, crashes, resends, created, delivered, doubt, unreported>>

Promote(m) ==
    /\ job[m] = "delayed"
    /\ job' = [job EXCEPT ![m] = "waiting"]
    /\ UNCHANGED <<call, attempts, stalls, worker, crashes, resends, history>>

-----------------------------------------------------------------------------
\* SIGTERM: no further job is taken; the instance exits once the active job is
\* done.
Shutdown(i) ==
    /\ i \in up \ closing
    /\ closing' = closing \cup {i}
    /\ UNCHANGED <<call, queue, up, step, work, made, crashes, resends, history>>

\* Mutant: the queue is closed before the worker is drained.
ExitAtOnce(i) ==
    /\ i \in closing
    /\ closing' = closing \ {i} /\ up' = up \ {i}
    /\ step' = [step EXCEPT ![i] = "idle"] /\ work' = [work EXCEPT ![i] = None]
    /\ UNCHANGED <<call, queue, made, crashes, resends, history>>

Exit(i) ==
    /\ i \in closing /\ step[i] = "idle"
    /\ closing' = closing \ {i} /\ up' = up \ {i}
    /\ UNCHANGED <<call, queue, step, work, made, crashes, resends, history>>

Start(i) ==
    /\ i \notin up
    /\ up' = up \cup {i}
    /\ UNCHANGED <<call, queue, closing, step, work, made, crashes, resends, history>>

Crash(i) ==
    /\ i \in up /\ crashes < MaxCrashes
    /\ crashes' = crashes + 1
    /\ up' = up \ {i} /\ closing' = closing \ {i}
    /\ step' = [step EXCEPT ![i] = "idle"] /\ work' = [work EXCEPT ![i] = None]
    /\ doubt' = doubt \cup ({work[i]} \ {None})
    /\ unreported' = IF step[i] = "report" /\ made[i] = MaxAttempts THEN unreported \cup {work[i]}
                     ELSE unreported
    /\ UNCHANGED <<call, queue, made, resends, created, delivered, reported>>

\* The lock of an active job that nobody works on runs out.
Stall(m) ==
    /\ job[m] = "active" /\ \A i \in Instance : work[i] # m
    /\ IF stalls[m] < MaxStalls
       THEN /\ stalls' = [stalls EXCEPT ![m] = @ + 1]
            /\ job' = [job EXCEPT ![m] = "waiting"]
       ELSE /\ job' = [job EXCEPT ![m] = "failed"]
            /\ UNCHANGED stalls
    /\ UNCHANGED <<call, attempts, worker, crashes, resends, history>>

Work(i) == SendAccepted(i) \/ SendRejected(i) \/ SendTimesOut(i) \/ Complete(i)
              \/ Fail(i) \/ HandleFailure(i)
Takes == \E i \in Instance, m \in Mail : Take(i, m)

Next ==
    \/ \E m \in Mail : \/ SendPasswordReset(m) \/ Add(m) \/ Resend(m) \/ Answer(m)
                       \/ Promote(m) \/ Stall(m)
    \/ \E i \in Instance : Work(i) \/ Shutdown(i) \/ Exit(i) \/ Start(i) \/ Crash(i)
    \/ Takes

Spec == Init /\ [][Next]_vars

\* Calls are answered; a supervisor restarts instances; workers go on; BullMQ
\* promotes delayed jobs and looks for stalled ones.  An instance that is shut
\* down again and again still takes a waiting job now and then.
FairSpec ==
    /\ Spec
    /\ \A m \in Mail : /\ WF_vars(Answer(m)) /\ WF_vars(Promote(m)) /\ WF_vars(Stall(m))
                       /\ SF_vars(\E i \in Instance : Take(i, m))
    /\ \A i \in Instance : WF_vars(Work(i)) /\ WF_vars(Exit(i)) /\ WF_vars(Start(i))

-----------------------------------------------------------------------------
\* A user gets one e-mail per link unless the relay's or Redis' answer was lost
\* or an instance died: retries alone never send a link twice.
DuplicatesHaveCause == \A m \in Mail : delivered[m] > 1 => m \in doubt

\* A graceful shutdown drains its active job: an active job without a worker is
\* the trace of a crash.
OnlyCrashesStall ==
    \A m \in Mail : job[m] = "active" /\ (\A i \in Instance : work[i] # m) => m \in doubt

\* "Token ... re-enqueueing the same token within its TTL window collapses into
\* one job instead of sending duplicate emails."
OneJobPerToken == \A m \in Mail : created[m] <= 1

\* The jobs marked in MailQueueStatus are those that used their last attempt,
\* except one whose instance is about to mark it or died before it could.
ExhaustionIsReported ==
    \A m \in Mail : attempts[m] = MaxAttempts <=>
        \/ m \in reported \cup unreported
        \/ \E i \in Instance : step[i] = "report" /\ work[i] = m /\ made[i] = MaxAttempts

\* Every mail whose job was added is accepted by the relay or ends among the
\* failed jobs; crashes, stalls and shutdowns lose none.
EveryMailSettles ==
    \A m \in Mail : job[m] # "none" ~> delivered[m] > 0 \/ job[m] = "failed"
=============================================================================
