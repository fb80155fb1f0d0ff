--------------------------- MODULE MailQueueProofs ---------------------------
(***************************************************************************)
(* Theorems about MailQueue, for any number of mails and instances and     *)
(* every limit of attempts, stalls, crashes and resent commands.           *)
(***************************************************************************)
EXTENDS MailQueue, TLAPS

\* A job that is not finished has an attempt left.
AttemptsLeft ==
    \A m \in Mail : job[m] \in {"waiting", "active", "delayed"} => attempts[m] < MaxAttempts

\* A job that used its attempts is failed and stays, so that its mail is never
\* queued again; the worker about to mark it has seen its last attempt.
ExhaustedStay ==
    /\ \A m \in Mail : attempts[m] = MaxAttempts => job[m] = "failed"
    /\ \A i \in Instance :
          step[i] = "report" /\ made[i] = MaxAttempts => attempts[work[i]] = MaxAttempts

\* Where an e-mail without a lost answer is: not delivered as long as its job may
\* still be tried, and delivered once at most when the job is gone.
DeliveryInv ==
    /\ delivered \in [Mail -> Nat]
    /\ \A m \in Mail \ doubt :
          /\ call[m] \in {"none", "adding"} => job[m] = "none" /\ delivered[m] = 0
          /\ job[m] \in {"waiting", "delayed", "failed"} => delivered[m] = 0
          /\ job[m] = "active" => \E i \in Instance : work[i] = m /\ step[i] \in Sending
          /\ \A i \in Instance :
                work[i] = m /\ step[i] \in {"send", "failed"} => delivered[m] = 0
          /\ delivered[m] <= 1

\* Every queue is empty and every instance idle.
LEMMA MailInit ==
  Init => TypeOK /\ AttemptsLeft /\ ExhaustedStay /\ DeliveryInv /\ ExhaustionIsReported
  BY MailAssumption DEF Init, TypeOK, AttemptsLeft, ExhaustedStay, DeliveryInv,
     ExhaustionIsReported, Sending

\* An attempt is counted only for the active job of the worker, which has one
\* left; a job is given to one worker at a time.
LEMMA MailTypeStep ==
  ASSUME TypeOK, AttemptsLeft, [Next]_vars
  PROVE  TypeOK' /\ AttemptsLeft'
<1> USE MailAssumption
    DEF TypeOK, AttemptsLeft, Sending, At, Goto, queue, worker, history
<1>1. ASSUME NEW m \in Mail, SendPasswordReset(m) PROVE TypeOK' /\ AttemptsLeft'
  BY <1>1 DEF SendPasswordReset
<1>2. ASSUME NEW m \in Mail, Add(m) PROVE TypeOK' /\ AttemptsLeft'
  BY <1>2 DEF Add
<1>3. ASSUME NEW m \in Mail, Resend(m) PROVE TypeOK' /\ AttemptsLeft'
  BY <1>3 DEF Resend
<1>4. ASSUME NEW m \in Mail, Answer(m) PROVE TypeOK' /\ AttemptsLeft'
  BY <1>4 DEF Answer
<1>5. ASSUME NEW m \in Mail, Promote(m) PROVE TypeOK' /\ AttemptsLeft'
  BY <1>5 DEF Promote
<1>6. ASSUME NEW m \in Mail, Stall(m) PROVE TypeOK' /\ AttemptsLeft'
  BY <1>6 DEF Stall
<1>7. ASSUME NEW i \in Instance, SendAccepted(i) PROVE TypeOK' /\ AttemptsLeft'
  BY <1>7 DEF SendAccepted, Delivered
<1>8. ASSUME NEW i \in Instance, SendRejected(i) PROVE TypeOK' /\ AttemptsLeft'
  BY <1>8 DEF SendRejected
<1>9. ASSUME NEW i \in Instance, SendTimesOut(i) PROVE TypeOK' /\ AttemptsLeft'
  BY <1>9 DEF SendTimesOut, Delivered
<1>10. ASSUME NEW i \in Instance, Complete(i) PROVE TypeOK' /\ AttemptsLeft'
  BY <1>10 DEF Complete
<1>11. ASSUME NEW i \in Instance, Fail(i) PROVE TypeOK' /\ AttemptsLeft'
  BY <1>11 DEF Fail
<1>12. ASSUME NEW i \in Instance, HandleFailure(i) PROVE TypeOK' /\ AttemptsLeft'
  BY <1>12 DEF HandleFailure, IsFinalFailure, MarkPermanentFailure
<1>13. ASSUME NEW i \in Instance, Shutdown(i) PROVE TypeOK' /\ AttemptsLeft'
  BY <1>13 DEF Shutdown
<1>14. ASSUME NEW i \in Instance, Exit(i) PROVE TypeOK' /\ AttemptsLeft'
  BY <1>14 DEF Exit
<1>15. ASSUME NEW i \in Instance, Start(i) PROVE TypeOK' /\ AttemptsLeft'
  BY <1>15 DEF Start
<1>16. ASSUME NEW i \in Instance, Crash(i) PROVE TypeOK' /\ AttemptsLeft'
  BY <1>16 DEF Crash
<1>17. ASSUME NEW i \in Instance, NEW m \in Mail, Take(i, m) PROVE TypeOK' /\ AttemptsLeft'
  BY <1>17 DEF Take
<1>18. CASE UNCHANGED vars
  BY <1>18 DEF vars
<1>19. QED
  BY <1>1, <1>2, <1>3, <1>4, <1>5, <1>6, <1>7, <1>8, <1>9,
     <1>10, <1>11, <1>12, <1>13, <1>14, <1>15, <1>16, <1>17, <1>18 DEF Next, Work, Takes

\* What the worker saw at its attempt is still so when it reports it: nothing
\* takes a failed job out of the queue.
LEMMA ExhaustedStep ==
  ASSUME TypeOK, AttemptsLeft, ExhaustedStay, [Next]_vars
  PROVE  ExhaustedStay'
<1> USE MailAssumption
    DEF TypeOK, AttemptsLeft, ExhaustedStay, Sending, At, Goto, queue, worker, history
<1>1. ASSUME NEW m \in Mail, SendPasswordReset(m) PROVE ExhaustedStay'
  BY <1>1 DEF SendPasswordReset
<1>2. ASSUME NEW m \in Mail, Add(m) PROVE ExhaustedStay'
  BY <1>2 DEF Add
<1>3. ASSUME NEW m \in Mail, Resend(m) PROVE ExhaustedStay'
  BY <1>3 DEF Resend
<1>4. ASSUME NEW m \in Mail, Answer(m) PROVE ExhaustedStay'
  BY <1>4 DEF Answer
<1>5. ASSUME NEW m \in Mail, Promote(m) PROVE ExhaustedStay'
  BY <1>5 DEF Promote
<1>6. ASSUME NEW m \in Mail, Stall(m) PROVE ExhaustedStay'
  BY <1>6 DEF Stall
<1>7. ASSUME NEW i \in Instance, SendAccepted(i) PROVE ExhaustedStay'
  BY <1>7 DEF SendAccepted, Delivered
<1>8. ASSUME NEW i \in Instance, SendRejected(i) PROVE ExhaustedStay'
  BY <1>8 DEF SendRejected
<1>9. ASSUME NEW i \in Instance, SendTimesOut(i) PROVE ExhaustedStay'
  BY <1>9 DEF SendTimesOut, Delivered
<1>10. ASSUME NEW i \in Instance, Complete(i) PROVE ExhaustedStay'
  BY <1>10 DEF Complete
<1>11. ASSUME NEW i \in Instance, Fail(i) PROVE ExhaustedStay'
  BY <1>11 DEF Fail
<1>12. ASSUME NEW i \in Instance, HandleFailure(i) PROVE ExhaustedStay'
  BY <1>12 DEF HandleFailure, IsFinalFailure, MarkPermanentFailure
<1>13. ASSUME NEW i \in Instance, Shutdown(i) PROVE ExhaustedStay'
  BY <1>13 DEF Shutdown
<1>14. ASSUME NEW i \in Instance, Exit(i) PROVE ExhaustedStay'
  BY <1>14 DEF Exit
<1>15. ASSUME NEW i \in Instance, Start(i) PROVE ExhaustedStay'
  BY <1>15 DEF Start
<1>16. ASSUME NEW i \in Instance, Crash(i) PROVE ExhaustedStay'
  BY <1>16 DEF Crash
<1>17. ASSUME NEW i \in Instance, NEW m \in Mail, Take(i, m) PROVE ExhaustedStay'
  BY <1>17 DEF Take
<1>18. CASE UNCHANGED vars
  BY <1>18 DEF vars
<1>19. QED
  BY <1>1, <1>2, <1>3, <1>4, <1>5, <1>6, <1>7, <1>8, <1>9,
     <1>10, <1>11, <1>12, <1>13, <1>14, <1>15, <1>16, <1>17, <1>18 DEF Next, Work, Takes

\* A job is tried again only when the relay refused the e-mail; a timeout, a crash
\* and a lost reply of Redis leave their mark.
LEMMA DeliveryStep ==
  ASSUME TypeOK, DeliveryInv, [Next]_vars
  PROVE  DeliveryInv'
<1> USE MailAssumption
    DEF TypeOK, DeliveryInv, Sending, At, Goto, queue, worker, history
<1>1. ASSUME NEW m \in Mail, SendPasswordReset(m) PROVE DeliveryInv'
  BY <1>1 DEF SendPasswordReset
<1>2. ASSUME NEW m \in Mail, Add(m) PROVE DeliveryInv'
  BY <1>2 DEF Add
<1>3. ASSUME NEW m \in Mail, Resend(m) PROVE DeliveryInv'
  BY <1>3 DEF Resend
<1>4. ASSUME NEW m \in Mail, Answer(m) PROVE DeliveryInv'
  BY <1>4 DEF Answer
<1>5. ASSUME NEW m \in Mail, Promote(m) PROVE DeliveryInv'
  BY <1>5 DEF Promote
<1>6. ASSUME NEW m \in Mail, Stall(m) PROVE DeliveryInv'
  BY <1>6 DEF Stall
<1>7. ASSUME NEW i \in Instance, SendAccepted(i) PROVE DeliveryInv'
  BY <1>7 DEF SendAccepted, Delivered
<1>8. ASSUME NEW i \in Instance, SendRejected(i) PROVE DeliveryInv'
  BY <1>8 DEF SendRejected
<1>9. ASSUME NEW i \in Instance, SendTimesOut(i) PROVE DeliveryInv'
  BY <1>9 DEF SendTimesOut, Delivered
<1>10. ASSUME NEW i \in Instance, Complete(i) PROVE DeliveryInv'
  BY <1>10 DEF Complete
<1>11. ASSUME NEW i \in Instance, Fail(i) PROVE DeliveryInv'
  BY <1>11 DEF Fail
<1>12. ASSUME NEW i \in Instance, HandleFailure(i) PROVE DeliveryInv'
  BY <1>12 DEF HandleFailure, IsFinalFailure, MarkPermanentFailure
<1>13. ASSUME NEW i \in Instance, Shutdown(i) PROVE DeliveryInv'
  BY <1>13 DEF Shutdown
<1>14. ASSUME NEW i \in Instance, Exit(i) PROVE DeliveryInv'
  BY <1>14 DEF Exit
<1>15. ASSUME NEW i \in Instance, Start(i) PROVE DeliveryInv'
  BY <1>15 DEF Start
<1>16. ASSUME NEW i \in Instance, Crash(i) PROVE DeliveryInv'
  BY <1>16 DEF Crash
<1>17. ASSUME NEW i \in Instance, NEW m \in Mail, Take(i, m) PROVE DeliveryInv'
  BY <1>17 DEF Take
<1>18. CASE UNCHANGED vars
  BY <1>18 DEF vars
<1>19. QED
  BY <1>1, <1>2, <1>3, <1>4, <1>5, <1>6, <1>7, <1>8, <1>9,
     <1>10, <1>11, <1>12, <1>13, <1>14, <1>15, <1>16, <1>17, <1>18 DEF Next, Work, Takes

\* The last attempt puts the mail in the hands of the worker that marks it, and
\* only a crash takes it away unmarked.
LEMMA ReportStep ==
  ASSUME TypeOK, TypeOK', AttemptsLeft, ExhaustedStay, ExhaustionIsReported, [Next]_vars
  PROVE  ExhaustionIsReported'
<1> USE MailAssumption
    DEF TypeOK, AttemptsLeft, ExhaustedStay, ExhaustionIsReported, Sending, At, Goto, queue, worker, history
<1>1. ASSUME NEW m \in Mail, SendPasswordReset(m) PROVE ExhaustionIsReported'
  BY <1>1 DEF SendPasswordReset
<1>2. ASSUME NEW m \in Mail, Add(m) PROVE ExhaustionIsReported'
  BY <1>2 DEF Add
<1>3. ASSUME NEW m \in Mail, Resend(m) PROVE ExhaustionIsReported'
  BY <1>3 DEF Resend
<1>4. ASSUME NEW m \in Mail, Answer(m) PROVE ExhaustionIsReported'
  BY <1>4 DEF Answer
<1>5. ASSUME NEW m \in Mail, Promote(m) PROVE ExhaustionIsReported'
  BY <1>5 DEF Promote
<1>6. ASSUME NEW m \in Mail, Stall(m) PROVE ExhaustionIsReported'
  BY <1>6 DEF Stall
<1>7. ASSUME NEW i \in Instance, SendAccepted(i) PROVE ExhaustionIsReported'
  BY <1>7 DEF SendAccepted, Delivered
<1>8. ASSUME NEW i \in Instance, SendRejected(i) PROVE ExhaustionIsReported'
  BY <1>8 DEF SendRejected
<1>9. ASSUME NEW i \in Instance, SendTimesOut(i) PROVE ExhaustionIsReported'
  BY <1>9 DEF SendTimesOut, Delivered
<1>10. ASSUME NEW i \in Instance, Complete(i) PROVE ExhaustionIsReported'
  BY <1>10 DEF Complete
<1>11. ASSUME NEW i \in Instance, Fail(i) PROVE ExhaustionIsReported'
  BY <1>11 DEF Fail
<1>12. ASSUME NEW i \in Instance, HandleFailure(i) PROVE ExhaustionIsReported'
  BY <1>12 DEF HandleFailure, IsFinalFailure, MarkPermanentFailure
<1>13. ASSUME NEW i \in Instance, Shutdown(i) PROVE ExhaustionIsReported'
  BY <1>13 DEF Shutdown
<1>14. ASSUME NEW i \in Instance, Exit(i) PROVE ExhaustionIsReported'
  BY <1>14 DEF Exit
<1>15. ASSUME NEW i \in Instance, Start(i) PROVE ExhaustionIsReported'
  BY <1>15 DEF Start
<1>16. ASSUME NEW i \in Instance, Crash(i) PROVE ExhaustionIsReported'
  BY <1>16 DEF Crash
<1>17. ASSUME NEW i \in Instance, NEW m \in Mail, Take(i, m) PROVE ExhaustionIsReported'
  BY <1>17 DEF Take
<1>18. CASE UNCHANGED vars
  BY <1>18 DEF vars
<1>19. QED
  BY <1>1, <1>2, <1>3, <1>4, <1>5, <1>6, <1>7, <1>8, <1>9,
     <1>10, <1>11, <1>12, <1>13, <1>14, <1>15, <1>16, <1>17, <1>18 DEF Next, Work, Takes

\* The queue, the attempts and the workers agree: an active job is the job of
\* one worker at most, and no job uses more attempts than the limit.
THEOREM MailTypeCorrect == Spec => [](TypeOK /\ AttemptsLeft)
<1>1. TypeOK /\ AttemptsLeft /\ [Next]_vars => TypeOK' /\ AttemptsLeft'
  BY MailTypeStep
<1>2. QED
  BY <1>1, MailInit, PTL DEF Spec

\* Retries alone never send a link twice (mail.processor.ts, mail.module.ts): a
\* second e-mail needs an answer that was lost or an instance that died.
THEOREM DuplicatesCaused == Spec => []DuplicatesHaveCause
<1>1. TypeOK /\ DeliveryInv /\ [Next]_vars => DeliveryInv'
  BY DeliveryStep
<1>2. DeliveryInv => DuplicatesHaveCause
  BY DEF DeliveryInv, DuplicatesHaveCause
<1>3. QED
  BY <1>1, <1>2, MailInit, MailTypeCorrect, PTL DEF Spec

\* A shutdown leaves no active job behind; only the death of an instance does.
THEOREM StallsAreCrashes == Spec => []OnlyCrashesStall
<1>1. TypeOK /\ DeliveryInv /\ [Next]_vars => DeliveryInv'
  BY DeliveryStep
<1>2. DeliveryInv => OnlyCrashesStall
  BY DEF DeliveryInv, OnlyCrashesStall
<1>3. QED
  BY <1>1, <1>2, MailInit, MailTypeCorrect, PTL DEF Spec

\* The permanent failures marked are the mails that used their last attempt, all
\* of them but those whose instance died before it could mark them.
THEOREM FailuresReported == Spec => []ExhaustionIsReported
<1>1. TypeOK /\ AttemptsLeft /\ ExhaustedStay /\ [Next]_vars => ExhaustedStay'
  BY ExhaustedStep
<1>2. TypeOK /\ TypeOK' /\ AttemptsLeft /\ ExhaustedStay /\ ExhaustionIsReported /\ [Next]_vars
        => ExhaustionIsReported'
  BY ReportStep
<1>3. QED
  BY <1>1, <1>2, MailInit, MailTypeCorrect, PTL DEF Spec
=============================================================================
