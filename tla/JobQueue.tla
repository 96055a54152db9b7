------------------------------- MODULE JobQueue -------------------------------
(***************************************************************************)
(* The PostgreSQL job queue and the workers that drain it                  *)
(* (worker/src/growthos_worker): expire_exhausted, claim, the handler of a *)
(* notification or identity e-mail, and the guarded update that finishes a *)
(* job.  Every repository call is one transaction, hence one action; the   *)
(* handler's look-up, its audit row and the SMTP hand-over are separate    *)
(* steps, and a worker may crash between any two of them.                  *)
(*                                                                         *)
(* Time is abstracted to two facts per job: whether the lease taken at     *)
(* locked_at has run out, and whether available_at has come.  A batch is   *)
(* claimed with one locked_at and then processed one job at a time, so a   *)
(* lease may run out before its job is even started.                       *)
(***************************************************************************)
EXTENDS Naturals, FiniteSets

CONSTANTS
  Jobs,          \* ids of rows of jobs
  Audited,       \* the notification e-mails: their handler records each attempt
  Workers,       \* worker processes; settings.py gives each a WORKER_ID of its own
  MaxAttempts,   \* jobs.max_attempts
  BatchSize,     \* JOB_BATCH_SIZE
  MaxCrashes,    \* bound: crashes over all workers
  None           \* SQL NULL, no job

ASSUME JobQueueAssumption ==
  /\ Audited \subseteq Jobs
  /\ MaxAttempts \in Nat \ {0}
  /\ BatchSize \in Nat \ {0}
  /\ MaxCrashes \in Nat
  /\ None \notin Jobs \cup Workers

VARIABLES
  status,     \* jobs.status, "NONE" before the backend inserts the row
  attempts,   \* jobs.attempts
  lockedBy,   \* jobs.locked_by
  leaseOver,  \* locked_at <= NOW() - timeout
  due,        \* available_at <= NOW()
  recorded,   \* attempts with an audit row notification.email_delivery_attempted
  sent,       \* attempts in which the SMTP server took the message
  phase,      \* where each worker is
  claimed,    \* attempts of the ClaimedJobs left in a worker's batch, 0: not in it
  handling,   \* the ClaimedJob a worker's handler is running
  crashes     \* crashes so far

rowVars == <<status, attempts, lockedBy, leaseOver, due>>
effectVars == <<recorded, sent>>
workerVars == <<phase, claimed, handling>>
vars == <<rowVars, effectVars, workerVars, crashes>>

JobStatus == {"PENDING", "RUNNING", "RETRY_SCHEDULED", "SUCCEEDED", "FAILED"}
Handler == {"lookup", "record", "send"}
Verdict == {"succeeded", "retry", "permanent"}
Phases == {"idle", "claiming", "picking"} \cup Handler \cup Verdict

-----------------------------------------------------------------------------
Exhausted_OffByOne(j) == attempts[j] > MaxAttempts

\* WHERE attempts >= max_attempts
Exhausted(j) == attempts[j] >= MaxAttempts

Expirable_WaitingOnly(j) == Exhausted(j) /\ status[j] \in {"PENDING", "RETRY_SCHEDULED"}

\* The rows expire_exhausted gives up.
Expirable(j) ==
  /\ Exhausted(j)
  /\ \/ status[j] \in {"PENDING", "RETRY_SCHEDULED"}
     \/ status[j] = "RUNNING" /\ leaseOver[j]

\* The candidates of claim.
Eligible(j) ==
  /\ ~Exhausted(j)
  /\ \/ status[j] \in {"PENDING", "RETRY_SCHEDULED"} /\ due[j]
     \/ status[j] = "RUNNING" /\ leaseOver[j]

NextAttempt_TakeoverIsFree(j) ==
  IF status[j] = "RUNNING" THEN attempts[j] ELSE attempts[j] + 1

\* attempts = job.attempts + 1
NextAttempt(j) == attempts[j] + 1

HoldsLease_AnyHolder(w, j) == status[j] = "RUNNING"

HoldsLease_AnyStatus(w, j) == claimed[w][j] # 0

\* WHERE status = 'RUNNING' AND locked_by = worker of _finish.
HoldsLease(w, j) == status[j] = "RUNNING" /\ lockedBy[j] = w

-----------------------------------------------------------------------------
Init ==
  /\ status = [j \in Jobs |-> "NONE"]
  /\ attempts = [j \in Jobs |-> 0]
  /\ lockedBy = [j \in Jobs |-> None]
  /\ leaseOver = [j \in Jobs |-> FALSE]
  /\ due = [j \in Jobs |-> TRUE]
  /\ recorded = [j \in Jobs |-> {}]
  /\ sent = [j \in Jobs |-> {}]
  /\ phase = [w \in Workers |-> "idle"]
  /\ claimed = [w \in Workers |-> [j \in Jobs |-> 0]]
  /\ handling = [w \in Workers |-> None]
  /\ crashes = 0

\* A backend transaction that inserts the job commits.
Enqueue(j) ==
  /\ status[j] = "NONE"
  /\ status' = [status EXCEPT ![j] = "PENDING"]
  /\ UNCHANGED <<attempts, lockedBy, leaseOver, due, effectVars, workerVars, crashes>>

\* timeout_seconds have passed since locked_at.
LeaseExpires(j) ==
  /\ status[j] = "RUNNING" /\ ~leaseOver[j]
  /\ leaseOver' = [leaseOver EXCEPT ![j] = TRUE]
  /\ UNCHANGED <<status, attempts, lockedBy, due, effectVars, workerVars, crashes>>

\* The back-off of a retry is over.
BecomesDue(j) ==
  /\ status[j] = "RETRY_SCHEDULED" /\ ~due[j]
  /\ due' = [due EXCEPT ![j] = TRUE]
  /\ UNCHANGED <<status, attempts, lockedBy, leaseOver, effectVars, workerVars, crashes>>

\* run_once begins: expire_exhausted.
ExpireExhausted(w) ==
  /\ phase[w] = "idle"
  /\ status' = [j \in Jobs |-> IF Expirable(j) THEN "FAILED" ELSE status[j]]
  /\ lockedBy' = [j \in Jobs |-> IF Expirable(j) THEN None ELSE lockedBy[j]]
  /\ leaseOver' = [j \in Jobs |-> IF Expirable(j) THEN FALSE ELSE leaseOver[j]]
  /\ phase' = [phase EXCEPT ![w] = "claiming"]
  /\ UNCHANGED <<attempts, due, effectVars, claimed, handling, crashes>>

\* claim: as many candidates as the batch holds get a new attempt and a lease.
\* A row another transaction holds is skipped, which is the claim that comes after
\* that transaction.
Claim(w, S) ==
  /\ phase[w] = "claiming"
  /\ \A j \in S : Eligible(j)
  /\ Cardinality(S) <= BatchSize
  /\ Cardinality(S) < BatchSize => \A j \in Jobs \ S : ~Eligible(j)
  /\ status' = [j \in Jobs |-> IF j \in S THEN "RUNNING" ELSE status[j]]
  /\ attempts' = [j \in Jobs |-> IF j \in S THEN NextAttempt(j) ELSE attempts[j]]
  /\ lockedBy' = [j \in Jobs |-> IF j \in S THEN w ELSE lockedBy[j]]
  /\ leaseOver' = [j \in Jobs |-> IF j \in S THEN FALSE ELSE leaseOver[j]]
  /\ claimed' = [claimed EXCEPT ![w] = [j \in Jobs |-> IF j \in S THEN NextAttempt(j) ELSE 0]]
  /\ phase' = [phase EXCEPT ![w] = IF S = {} THEN "idle" ELSE "picking"]
  /\ UNCHANGED <<due, effectVars, handling, crashes>>

\* _process of the next job of the batch.  The lease is not looked at again.
Pick(w, j) ==
  /\ phase[w] = "picking"
  /\ claimed[w][j] # 0
  /\ handling' = [handling EXCEPT ![w] = j]
  /\ phase' = [phase EXCEPT ![w] = "lookup"]
  /\ UNCHANGED <<rowVars, effectVars, claimed, crashes>>

Unavailable_IsDone == "succeeded"

\* PermanentJobError: there is nothing to send any more, or no way to send it.
Unavailable == "permanent"

\* The handler's query finds the recipient or the token, still valid.
LookUp(w) ==
  /\ phase[w] = "lookup"
  /\ phase' = [phase EXCEPT ![w] = IF handling[w] \in Audited THEN "record" ELSE "send"]
  /\ UNCHANGED <<rowVars, effectVars, claimed, handling, crashes>>

\* The query finds nothing valid, or SmtpEmailHandler.send, which comes after the audit
\* row, does not accept the recipient, the subject, the sender or the server's address:
\* the job fails for good, whatever attempts are left.
RefuseMessage(w) ==
  /\ phase[w] \in {"lookup", "send"}
  /\ phase' = [phase EXCEPT ![w] = Unavailable]
  /\ UNCHANGED <<rowVars, effectVars, claimed, handling, crashes>>

RecordedAttempt_OfTheRow(w) == attempts[handling[w]]

\* The audit row is keyed by the attempt of the ClaimedJob.
RecordedAttempt(w) == claimed[w][handling[w]]

\* _record_notification_delivery_attempt: ON CONFLICT DO NOTHING.
Record(w) ==
  /\ phase[w] = "record"
  /\ recorded' = [recorded EXCEPT ![handling[w]] = @ \cup {RecordedAttempt(w)}]
  /\ phase' = [phase EXCEPT ![w] = "send"]
  /\ UNCHANGED <<rowVars, sent, claimed, handling, crashes>>

\* smtp.send_message: the server takes the message, and then the handler returns,
\* or the connection breaks or the alarm rings first.
Deliver(w) ==
  /\ phase[w] = "send"
  /\ sent' = [sent EXCEPT ![handling[w]] = @ \cup {claimed[w][handling[w]]}]
  /\ \E verdict \in {"succeeded", "retry"} : phase' = [phase EXCEPT ![w] = verdict]
  /\ UNCHANGED <<rowVars, recorded, claimed, handling, crashes>>

\* A RetryableJobError, any other exception or the alarm of execution_timeout,
\* before the message was taken.
HandlerFails(w) ==
  /\ phase[w] \in Handler
  /\ phase' = [phase EXCEPT ![w] = "retry"]
  /\ UNCHANGED <<rowVars, effectVars, claimed, handling, crashes>>

\* The last permitted attempt is not retried.
LastAttempt(n) == n >= MaxAttempts

\* The status a verdict leads to: _finish_retry_or_failed and _finish_failed.
Target(w) ==
  IF phase[w] = "succeeded" THEN "SUCCEEDED"
  ELSE IF phase[w] = "retry" /\ ~LastAttempt(claimed[w][handling[w]]) THEN "RETRY_SCHEDULED"
  ELSE "FAILED"

\* mark_succeeded, mark_retry or mark_failed; a worker that lost its lease writes
\* nothing.  Then the next job of the batch, or the next poll.
Finish(w) ==
  LET j == handling[w]
      target == Target(w)
  IN /\ phase[w] \in Verdict
     /\ IF HoldsLease(w, j)
        THEN /\ status' = [status EXCEPT ![j] = target]
             /\ lockedBy' = [lockedBy EXCEPT ![j] = None]
             /\ leaseOver' = [leaseOver EXCEPT ![j] = FALSE]
             /\ due' = [due EXCEPT ![j] = IF target = "RETRY_SCHEDULED" THEN FALSE ELSE @]
        ELSE UNCHANGED <<status, lockedBy, leaseOver, due>>
     /\ claimed' = [claimed EXCEPT ![w][j] = 0]
     /\ handling' = [handling EXCEPT ![w] = None]
     /\ phase' = [phase EXCEPT ![w] =
                    IF \E i \in Jobs \ {j} : claimed[w][i] # 0 THEN "picking" ELSE "idle"]
     /\ UNCHANGED <<attempts, effectVars, crashes>>

\* A kill, or a database error in a repository call, ends the process; it restarts
\* with nothing in memory.
Crash(w) ==
  /\ crashes < MaxCrashes
  /\ phase[w] # "idle"
  /\ crashes' = crashes + 1
  /\ phase' = [phase EXCEPT ![w] = "idle"]
  /\ claimed' = [claimed EXCEPT ![w] = [j \in Jobs |-> 0]]
  /\ handling' = [handling EXCEPT ![w] = None]
  /\ UNCHANGED <<rowVars, effectVars>>

-----------------------------------------------------------------------------
Handle(w) == LookUp(w) \/ RefuseMessage(w) \/ Record(w) \/ Deliver(w) \/ HandlerFails(w)

WorkerStep(w) ==
  \/ ExpireExhausted(w)
  \/ \E S \in SUBSET Jobs : Claim(w, S)
  \/ \E j \in Jobs : Pick(w, j)
  \/ Handle(w)
  \/ Finish(w)

Clock(j) == LeaseExpires(j) \/ BecomesDue(j)

Next ==
  \/ \E j \in Jobs : Enqueue(j) \/ Clock(j)
  \/ \E w \in Workers : WorkerStep(w) \/ Crash(w)

Spec == Init /\ [][Next]_vars

\* The loop of main.py polls for ever, execution_timeout bounds every handler, and
\* time passes; nothing makes the backend enqueue or a worker crash.
Fairness ==
  /\ \A w \in Workers : WF_vars(WorkerStep(w))
  /\ \A j \in Jobs : WF_vars(Clock(j))

FairSpec == Spec /\ Fairness

-----------------------------------------------------------------------------
\* The type invariant.
TypeOK ==
  /\ status \in [Jobs -> JobStatus \cup {"NONE"}]
  /\ attempts \in [Jobs -> 0..MaxAttempts]
  /\ lockedBy \in [Jobs -> Workers \cup {None}]
  /\ leaseOver \in [Jobs -> BOOLEAN]
  /\ due \in [Jobs -> BOOLEAN]
  /\ recorded \in [Jobs -> SUBSET (1..MaxAttempts)]
  /\ sent \in [Jobs -> SUBSET (1..MaxAttempts)]
  /\ phase \in [Workers -> Phases]
  /\ claimed \in [Workers -> [Jobs -> 0..MaxAttempts]]
  /\ handling \in [Workers -> Jobs \cup {None}]
  /\ crashes \in 0..MaxCrashes

\* _finish compares locked_by but not the attempt (repository.py:136-138).  It need
\* not: a worker that may finish a job is always finishing the attempt the row is
\* at, however many workers took the job over in between.
FinishIsFenced ==
  \A w \in Workers, j \in Jobs :
    HoldsLease(w, j) /\ claimed[w][j] # 0 => claimed[w][j] = attempts[j]

\* A running job whose lease has not run out belongs to one worker: every other
\* worker that has it in its batch has it from an earlier attempt.
LeaseIsExclusive ==
  \A w \in Workers, j \in Jobs :
    status[j] = "RUNNING" /\ claimed[w][j] = attempts[j] => lockedBy[j] = w

\* A job is reported SUCCEEDED only after the SMTP server took its message, also
\* when the worker that reports it is not the one that sent it.
SucceededWasSent == \A j \in Jobs : status[j] = "SUCCEEDED" => sent[j] # {}

\* No notification leaves without the audit row of that very attempt, whatever
\* crashes, retries and takeovers happen between the two (handlers.py:189-195).
EverySendIsRecorded == \A j \in Audited : sent[j] \subseteq recorded[j]

\* A job that waits for a worker has an attempt left: nothing is left over that
\* neither claim nor expire_exhausted would ever pick up at once.
WaitingHasBudget ==
  \A j \in Jobs : status[j] \in {"PENDING", "RETRY_SCHEDULED"} => attempts[j] < MaxAttempts

\* A verdict is final: no late worker, takeover or sweep changes a job that
\* SUCCEEDED or FAILED, or gives it another attempt.
VerdictIsFinal ==
  [][\A j \in Jobs : status[j] \in {"SUCCEEDED", "FAILED"} =>
       status'[j] = status[j] /\ attempts'[j] = attempts[j]]_vars

\* Every job that was enqueued gets its verdict, although workers crash, leases run
\* out behind slow batches and other workers take jobs over.
EveryJobGetsAVerdict ==
  \A j \in Jobs : status[j] = "PENDING" ~> status[j] \in {"SUCCEEDED", "FAILED"}

Unfinished(j) == status[j] \in {"PENDING", "RUNNING", "RETRY_SCHEDULED"}

\* What the liveness of the queue rests on, as a fact about every state.  A job without
\* a verdict is one that claim or expire_exhausted would take now, or that the clock
\* hands to them; and a worker in the middle of its batch has a job to go on with.
NothingIsStranded ==
  /\ \A j \in Jobs : Unfinished(j) =>
       \/ Eligible(j) \/ Expirable(j)
       \/ status[j] = "RUNNING" /\ ~leaseOver[j]
       \/ status[j] = "RETRY_SCHEDULED" /\ ~due[j]
  /\ \A w \in Workers :
       /\ phase[w] = "picking" => \E j \in Jobs : claimed[w][j] # 0
       /\ phase[w] \in Handler \cup Verdict =>
            handling[w] \in Jobs /\ claimed[w][handling[w]] # 0

\* How many more changes the row of a job can still go through, at most: five for each
\* attempt left, and what is left of the current one.
Stage(j) ==
  IF status[j] = "NONE" THEN 6
  ELSE IF status[j] = "PENDING" THEN 5
  ELSE IF status[j] = "RUNNING" THEN IF leaseOver[j] THEN 3 ELSE 4
  ELSE IF status[j] = "RETRY_SCHEDULED" THEN IF due[j] THEN 1 ELSE 2
  ELSE 0

Effort(j) == 5 * (MaxAttempts - attempts[j]) + Stage(j)

JobRow(j) == <<status[j], attempts[j], lockedBy[j], leaseOver[j], due[j]>>

\* No job goes round for ever: whatever claims, takes over, expires, retries or gives
\* up a job uses up some of an effort that is bounded from the start.
EffortOnlyFalls ==
  [][\A j \in Jobs : JobRow(j)' # JobRow(j) => Effort(j)' < Effort(j)]_vars

-----------------------------------------------------------------------------
(* The queue implements the contract of DeliveryContract.                  *)

Outcome ==
  [j \in Jobs |-> IF status[j] \in {"PENDING", "RUNNING", "RETRY_SCHEDULED"}
                  THEN "open" ELSE status[j]]

Contract == INSTANCE DeliveryContract WITH outcome <- Outcome, tries <- attempts

\* Tries are bounded and granted one at a time, each sends at most once, and the
\* verdict is honest and final.
ImplementsDeliveryContract == Contract!Spec
=============================================================================
