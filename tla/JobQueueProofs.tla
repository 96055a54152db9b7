---------------------------- MODULE JobQueueProofs ----------------------------
(***************************************************************************)
(* Proofs about JobQueue: for every number of jobs and workers, every      *)
(* batch size and every limit of attempts, leases are fenced, sends are    *)
(* recorded, verdicts are honest and final, and the queue implements       *)
(* DeliveryContract.                                                       *)
(***************************************************************************)
EXTENDS JobQueue, TLAPS

-----------------------------------------------------------------------------
(* The inductive invariant.                                                *)

\* What the rows say by themselves.
RowInv ==
  \A j \in Jobs :
    /\ status[j] \in {"NONE", "PENDING"} => attempts[j] = 0
    /\ status[j] = "RETRY_SCHEDULED" => attempts[j] < MaxAttempts
    /\ status[j] = "RUNNING" => attempts[j] > 0

\* A batch never holds an attempt the row has not reached yet.
ClaimsInv == \A w \in Workers, j \in Jobs : claimed[w][j] <= attempts[j]

\* A handler runs for a job of the batch, and what it has done so far is on record.
HandlerInv ==
  \A w \in Workers : phase[w] \in Handler \cup Verdict =>
    /\ handling[w] \in Jobs
    /\ claimed[w][handling[w]] # 0
    /\ phase[w] = "send" /\ handling[w] \in Audited =>
         claimed[w][handling[w]] \in recorded[handling[w]]
    /\ phase[w] = "succeeded" => sent[handling[w]] # {}

IInv ==
  /\ TypeOK /\ RowInv /\ ClaimsInv /\ HandlerInv
  /\ FinishIsFenced /\ LeaseIsExclusive /\ SucceededWasSent /\ EverySendIsRecorded

-----------------------------------------------------------------------------
LEMMA InitIInv == Init => IInv
<1> SUFFICES ASSUME Init PROVE IInv
  OBVIOUS
<1> USE JobQueueAssumption DEF Init
<1>1. TypeOK
  BY DEF TypeOK, Phases
<1>2. RowInv /\ ClaimsInv /\ HandlerInv
  BY DEF RowInv, ClaimsInv, HandlerInv, Handler, Verdict
<1>3. FinishIsFenced /\ LeaseIsExclusive /\ SucceededWasSent /\ EverySendIsRecorded
  BY DEF FinishIsFenced, LeaseIsExclusive, SucceededWasSent, EverySendIsRecorded, HoldsLease
<1> QED
  BY <1>1, <1>2, <1>3 DEF IInv

\* A claim is by induction what the counter allows.
LEMMA ClaimedAttempt ==
  ASSUME TypeOK, NEW j \in Jobs, Eligible(j)
  PROVE  attempts[j] \in 0..MaxAttempts - 1 /\ NextAttempt(j) \in 1..MaxAttempts
BY JobQueueAssumption DEF TypeOK, Eligible, Exhausted, NextAttempt

LEMMA TypeStep == IInv /\ [Next]_vars => TypeOK'
<1> SUFFICES ASSUME IInv, [Next]_vars PROVE TypeOK'
  OBVIOUS
<1>t. TypeOK
  BY DEF IInv
<1> USE DEF rowVars, effectVars, workerVars
<1>1. ASSUME NEW j \in Jobs, Enqueue(j) PROVE TypeOK'
  BY <1>t, <1>1 DEF TypeOK, Enqueue, JobStatus
<1>2. ASSUME NEW j \in Jobs, Clock(j) PROVE TypeOK'
  BY <1>t, <1>2 DEF TypeOK, Clock, LeaseExpires, BecomesDue
<1>3. ASSUME NEW w \in Workers, ExpireExhausted(w) PROVE TypeOK'
  BY <1>t, <1>3 DEF TypeOK, ExpireExhausted, JobStatus, Phases
<1>4. ASSUME NEW w \in Workers, NEW S \in SUBSET Jobs, Claim(w, S) PROVE TypeOK'
  <2>1. \A j \in S : NextAttempt(j) \in 0..MaxAttempts
    BY <1>t, <1>4, ClaimedAttempt, JobQueueAssumption DEF Claim
  <2>2. attempts' \in [Jobs -> 0..MaxAttempts]
    BY <1>t, <1>4, <2>1 DEF TypeOK, Claim
  <2>3. claimed' \in [Workers -> [Jobs -> 0..MaxAttempts]]
    BY <1>t, <1>4, <2>1, JobQueueAssumption DEF TypeOK, Claim
  <2> QED
    BY <1>t, <1>4, <2>2, <2>3 DEF TypeOK, Claim, JobStatus, Phases
<1>5. ASSUME NEW w \in Workers, NEW j \in Jobs, Pick(w, j) PROVE TypeOK'
  BY <1>t, <1>5 DEF TypeOK, Pick, Phases, Handler
<1>6. ASSUME NEW w \in Workers, LookUp(w) \/ RefuseMessage(w) \/ HandlerFails(w) PROVE TypeOK'
  BY <1>t, <1>6 DEF TypeOK, LookUp, RefuseMessage, HandlerFails, Unavailable, Phases, Handler,
                       Verdict
<1>7. ASSUME NEW w \in Workers, phase[w] \in Handler
      PROVE  handling[w] \in Jobs /\ claimed[w][handling[w]] \in 1..MaxAttempts
  BY <1>t, <1>7 DEF IInv, HandlerInv, TypeOK
<1>8. ASSUME NEW w \in Workers, Record(w) PROVE TypeOK'
  BY <1>t, <1>7, <1>8 DEF TypeOK, Record, RecordedAttempt, Phases, Handler
<1>9. ASSUME NEW w \in Workers, Deliver(w) PROVE TypeOK'
  BY <1>t, <1>7, <1>9 DEF TypeOK, Deliver, Phases, Handler, Verdict
<1>10. ASSUME NEW w \in Workers, Finish(w) PROVE TypeOK'
  <2>1. handling[w] \in Jobs
    BY <1>10 DEF Finish, IInv, HandlerInv
  <2>2. status' \in [Jobs -> JobStatus \cup {"NONE"}]
    <3>1. Target(w) \in JobStatus
      BY DEF Target, JobStatus
    <3>2. \/ status' = status
          \/ status' = [status EXCEPT ![handling[w]] = Target(w)]
      BY <1>10 DEF Finish
    <3> QED
      BY <1>t, <2>1, <3>1, <3>2 DEF TypeOK
  <2>3. claimed' \in [Workers -> [Jobs -> 0..MaxAttempts]]
    BY <1>t, <1>10, <2>1, JobQueueAssumption DEF TypeOK, Finish
  <2>4. lockedBy' \in [Jobs -> Workers \cup {None}] /\ leaseOver' \in [Jobs -> BOOLEAN]
    BY <1>t, <1>10, <2>1 DEF TypeOK, Finish
  <2>5. due' \in [Jobs -> BOOLEAN]
    <3>1. \/ due' = due
          \/ due' = [due EXCEPT ![handling[w]] = FALSE]
          \/ due' = [due EXCEPT ![handling[w]] = due[handling[w]]]
      BY <1>10, <2>1 DEF Finish
    <3> QED
      BY <1>t, <2>1, <3>1 DEF TypeOK
  <2>6. phase' \in [Workers -> Phases] /\ handling' \in [Workers -> Jobs \cup {None}]
    BY <1>t, <1>10 DEF TypeOK, Finish, Phases
  <2>7. UNCHANGED <<attempts, recorded, sent, crashes>>
    BY <1>10 DEF Finish
  <2> QED
    BY <1>t, <2>2, <2>3, <2>4, <2>5, <2>6, <2>7 DEF TypeOK
<1>11. ASSUME NEW w \in Workers, Crash(w) PROVE TypeOK'
  BY <1>t, <1>11, JobQueueAssumption DEF TypeOK, Crash, Phases
<1>12. CASE UNCHANGED vars
  BY <1>t, <1>12 DEF TypeOK, vars
<1> QED
  BY <1>1, <1>2, <1>3, <1>4, <1>5, <1>6, <1>8, <1>9, <1>10, <1>11, <1>12
     DEF Next, WorkerStep, Handle

-----------------------------------------------------------------------------
(* Rows and leases.                                                        *)

\* The rest of the invariant about rows and leases depends on the row and on the
\* batches only; these are the steps that touch either.
LEMMA RowStep == IInv /\ [Next]_vars => RowInv' /\ ClaimsInv' /\ FinishIsFenced' /\ LeaseIsExclusive'
<1> SUFFICES ASSUME IInv, [Next]_vars
             PROVE  RowInv' /\ ClaimsInv' /\ FinishIsFenced' /\ LeaseIsExclusive'
  OBVIOUS
<1>t. TypeOK /\ RowInv /\ ClaimsInv /\ FinishIsFenced /\ LeaseIsExclusive
  BY DEF IInv
<1> USE DEF RowInv, ClaimsInv, FinishIsFenced, LeaseIsExclusive, HoldsLease
<1>1. CASE UNCHANGED <<status, attempts, lockedBy, claimed>>
  BY <1>t, <1>1
<1>2. ASSUME NEW j \in Jobs, Enqueue(j) PROVE RowInv' /\ ClaimsInv' /\ FinishIsFenced' /\ LeaseIsExclusive'
  BY <1>t, <1>2 DEF Enqueue, workerVars, TypeOK
<1>3. ASSUME NEW w \in Workers, ExpireExhausted(w)
      PROVE  RowInv' /\ ClaimsInv' /\ FinishIsFenced' /\ LeaseIsExclusive'
  BY <1>t, <1>3, JobQueueAssumption DEF ExpireExhausted, TypeOK
<1>4. ASSUME NEW w \in Workers, NEW S \in SUBSET Jobs, Claim(w, S)
      PROVE  RowInv' /\ ClaimsInv' /\ FinishIsFenced' /\ LeaseIsExclusive'
  <2>1. \A j \in Jobs :
          /\ attempts[j] \in 0..MaxAttempts /\ \A v \in Workers : claimed[v][j] \in 0..MaxAttempts
          /\ status'[j] = IF j \in S THEN "RUNNING" ELSE status[j]
          /\ attempts'[j] = IF j \in S THEN attempts[j] + 1 ELSE attempts[j]
          /\ lockedBy'[j] = IF j \in S THEN w ELSE lockedBy[j]
          /\ claimed'[w][j] = IF j \in S THEN attempts[j] + 1 ELSE 0
          /\ \A v \in Workers \ {w} : claimed'[v][j] = claimed[v][j]
    BY <1>t, <1>4 DEF Claim, NextAttempt, TypeOK
  <2>2. RowInv'
    BY <1>t, <2>1, JobQueueAssumption
  <2>3. ClaimsInv'
    BY <1>t, <2>1, JobQueueAssumption
  <2>4. FinishIsFenced'
    BY <1>t, <2>1, JobQueueAssumption
  <2>5. LeaseIsExclusive'
    BY <1>t, <2>1, JobQueueAssumption
  <2> QED
    BY <2>2, <2>3, <2>4, <2>5
<1>5. ASSUME NEW w \in Workers, Finish(w)
      PROVE  RowInv' /\ ClaimsInv' /\ FinishIsFenced' /\ LeaseIsExclusive'
  <2> DEFINE j == handling[w]
  <2>1. j \in Jobs /\ claimed[w][j] # 0
    BY <1>5 DEF Finish, IInv, HandlerInv
  <2>2. /\ attempts' = attempts
        /\ \A i \in Jobs \ {j} : status'[i] = status[i] /\ lockedBy'[i] = lockedBy[i]
        /\ \A v \in Workers, i \in Jobs : claimed'[v][i] \in {0, claimed[v][i]}
        /\ claimed'[w][j] = 0
        /\ \A i \in Jobs : attempts[i] \in 0..MaxAttempts
    BY <1>t, <1>5, <2>1 DEF Finish, TypeOK
  <2>3. CASE HoldsLease(w, j)
    <3>1. claimed[w][j] = attempts[j]
      BY <1>t, <2>1, <2>3
    <3>2. status'[j] = Target(w)
      BY <1>t, <1>5, <2>1, <2>3 DEF Finish, TypeOK
    <3>3. /\ status'[j] \in {"SUCCEEDED", "RETRY_SCHEDULED", "FAILED"}
          /\ status'[j] = "RETRY_SCHEDULED" => attempts[j] < MaxAttempts
      BY <2>1, <2>2, <3>1, <3>2, JobQueueAssumption DEF Target, LastAttempt
    <3>4. RowInv'
      BY <1>t, <2>2, <3>3
    <3>5. ClaimsInv' /\ FinishIsFenced' /\ LeaseIsExclusive'
      BY <1>t, <2>2, <3>3
    <3> QED
      BY <3>4, <3>5
  <2>4. CASE ~HoldsLease(w, j)
    <3>1. UNCHANGED <<status, lockedBy>>
      BY <1>5, <2>4 DEF Finish
    <3> QED
      BY <1>t, <2>2, <3>1
  <2> QED
    BY <2>3, <2>4
<1>6. ASSUME NEW w \in Workers, Crash(w)
      PROVE  RowInv' /\ ClaimsInv' /\ FinishIsFenced' /\ LeaseIsExclusive'
  <2>1. /\ UNCHANGED <<status, attempts, lockedBy>>
        /\ \A v \in Workers, j \in Jobs : claimed'[v][j] \in {0, claimed[v][j]}
        /\ \A j \in Jobs : attempts[j] \in 0..MaxAttempts
    BY <1>t, <1>6 DEF Crash, rowVars, TypeOK
  <2> QED
    BY <1>t, <2>1
<1> QED
  BY <1>1, <1>2, <1>3, <1>4, <1>5, <1>6
     DEF Next, Clock, LeaseExpires, BecomesDue, WorkerStep, Handle, Pick, LookUp, Record,
         Deliver, RefuseMessage, HandlerFails, vars, rowVars, effectVars, workerVars

-----------------------------------------------------------------------------
(* Handlers and what they leave behind.                                    *)

\* A handler's job stays in its batch, its audit row stays, and so does what it sent.
LEMMA EffectStep ==
  IInv /\ [Next]_vars => HandlerInv' /\ SucceededWasSent' /\ EverySendIsRecorded'
<1> SUFFICES ASSUME IInv, [Next]_vars
             PROVE  HandlerInv' /\ SucceededWasSent' /\ EverySendIsRecorded'
  OBVIOUS
<1>t. TypeOK /\ HandlerInv /\ SucceededWasSent /\ EverySendIsRecorded
  BY DEF IInv
<1>a. Audited \subseteq Jobs
  BY JobQueueAssumption
<1> USE DEF HandlerInv, SucceededWasSent, EverySendIsRecorded
<1>1. CASE UNCHANGED <<status, recorded, sent, phase, claimed, handling>>
  BY <1>t, <1>1
<1>2. ASSUME NEW j \in Jobs, Enqueue(j)
      PROVE  HandlerInv' /\ SucceededWasSent' /\ EverySendIsRecorded'
  BY <1>t, <1>2 DEF Enqueue, effectVars, workerVars, TypeOK
<1>3. ASSUME NEW w \in Workers, ExpireExhausted(w)
      PROVE  HandlerInv' /\ SucceededWasSent' /\ EverySendIsRecorded'
  BY <1>t, <1>3 DEF ExpireExhausted, effectVars, TypeOK, Handler, Verdict
<1>4. ASSUME NEW w \in Workers, NEW S \in SUBSET Jobs, Claim(w, S)
      PROVE  HandlerInv' /\ SucceededWasSent' /\ EverySendIsRecorded'
  BY <1>t, <1>4 DEF Claim, effectVars, TypeOK, Handler, Verdict
<1>5. ASSUME NEW w \in Workers, NEW j \in Jobs, Pick(w, j)
      PROVE  HandlerInv' /\ SucceededWasSent' /\ EverySendIsRecorded'
  BY <1>t, <1>5 DEF Pick, rowVars, effectVars, TypeOK, Handler, Verdict
<1>6. ASSUME NEW w \in Workers, LookUp(w) \/ RefuseMessage(w)
      PROVE  HandlerInv' /\ SucceededWasSent' /\ EverySendIsRecorded'
  BY <1>t, <1>6 DEF LookUp, RefuseMessage, Unavailable, rowVars, effectVars, TypeOK, Handler,
                       Verdict
<1>7. ASSUME NEW w \in Workers, HandlerFails(w)
      PROVE  HandlerInv' /\ SucceededWasSent' /\ EverySendIsRecorded'
  BY <1>t, <1>7 DEF HandlerFails, rowVars, effectVars, TypeOK, Handler, Verdict
<1>8. ASSUME NEW w \in Workers, Record(w)
      PROVE  HandlerInv' /\ SucceededWasSent' /\ EverySendIsRecorded'
  BY <1>t, <1>a, <1>8 DEF Record, RecordedAttempt, rowVars, TypeOK, Handler, Verdict
<1>9. ASSUME NEW w \in Workers, Deliver(w)
      PROVE  HandlerInv' /\ SucceededWasSent' /\ EverySendIsRecorded'
  BY <1>t, <1>a, <1>9 DEF Deliver, rowVars, TypeOK, Handler, Verdict
<1>10. ASSUME NEW w \in Workers, Finish(w)
       PROVE  HandlerInv' /\ SucceededWasSent' /\ EverySendIsRecorded'
  <2>1. /\ handling[w] \in Jobs /\ phase'[w] \in {"picking", "idle"}
        /\ phase[w] = "succeeded" => sent[handling[w]] # {}
        /\ UNCHANGED <<recorded, sent>>
        /\ \A v \in Workers \ {w} :
             phase'[v] = phase[v] /\ claimed'[v] = claimed[v] /\ handling'[v] = handling[v]
    BY <1>t, <1>10 DEF Finish, effectVars, TypeOK
  <2>2. HandlerInv'
    BY <1>t, <2>1 DEF Handler, Verdict
  <2>3. \A j \in Jobs : status'[j] = "SUCCEEDED" =>
          status[j] = "SUCCEEDED" \/ (j = handling[w] /\ phase[w] = "succeeded")
    BY <1>t, <1>10, <2>1 DEF Finish, Target, TypeOK
  <2> QED
    BY <1>t, <2>1, <2>2, <2>3
<1>11. ASSUME NEW w \in Workers, Crash(w)
       PROVE  HandlerInv' /\ SucceededWasSent' /\ EverySendIsRecorded'
  BY <1>t, <1>11 DEF Crash, rowVars, effectVars, TypeOK, Handler, Verdict
<1> QED
  BY <1>1, <1>2, <1>3, <1>4, <1>5, <1>6, <1>7, <1>8, <1>9, <1>10, <1>11
     DEF Next, Clock, LeaseExpires, BecomesDue, WorkerStep, Handle, vars, rowVars,
         effectVars, workerVars

\* The invariant the theorems below rest on.
THEOREM Invariance == Spec => []IInv
<1>1. IInv /\ [Next]_vars => IInv'
  BY TypeStep, RowStep, EffectStep DEF IInv
<1> QED
  BY InitIInv, <1>1, PTL DEF Spec

-----------------------------------------------------------------------------
(* What follows from the invariant.                                        *)

\* The types of the state, for every instance.
THEOREM TypeCorrect == Spec => []TypeOK
BY Invariance, PTL DEF IInv

\* The guarded update of _finish is enough of a fence.
THEOREM FinishFenced == Spec => []FinishIsFenced
BY Invariance, PTL DEF IInv

\* One worker holds the current attempt of a running job.
THEOREM LeaseExclusive == Spec => []LeaseIsExclusive
BY Invariance, PTL DEF IInv

\* Success is reported only for what was sent.
THEOREM SuccessIsHonest == Spec => []SucceededWasSent
BY Invariance, PTL DEF IInv

\* Every send has the audit row of its attempt.
THEOREM SendsRecorded == Spec => []EverySendIsRecorded
BY Invariance, PTL DEF IInv

\* A waiting job has an attempt left.
THEOREM WaitingBudget == Spec => []WaitingHasBudget
<1>1. IInv => WaitingHasBudget
  BY JobQueueAssumption DEF IInv, RowInv, WaitingHasBudget
<1> QED
  BY Invariance, <1>1, PTL

\* No step changes a job that has its verdict.
THEOREM VerdictsFinal == Spec => VerdictIsFinal
<1> DEFINE Final == \A j \in Jobs : status[j] \in {"SUCCEEDED", "FAILED"} =>
                      status'[j] = status[j] /\ attempts'[j] = attempts[j]
<1>1. ASSUME IInv, Next PROVE Final
  <2>t. TypeOK /\ HandlerInv
    BY <1>1 DEF IInv
  <2>1. CASE UNCHANGED <<status, attempts>>
    BY <2>1
  <2>2. ASSUME NEW j \in Jobs, Enqueue(j) PROVE Final
    BY <2>t, <2>2 DEF Enqueue, TypeOK
  <2>3. ASSUME NEW w \in Workers, ExpireExhausted(w) PROVE Final
    BY <2>t, <2>3 DEF ExpireExhausted, Expirable, TypeOK
  <2>4. ASSUME NEW w \in Workers, NEW S \in SUBSET Jobs, Claim(w, S) PROVE Final
    BY <2>t, <2>4 DEF Claim, Eligible, TypeOK
  <2>5. ASSUME NEW w \in Workers, Finish(w) PROVE Final
    <3>1. handling[w] \in Jobs /\ attempts' = attempts
      BY <2>t, <2>5 DEF Finish, HandlerInv
    <3>2. CASE ~HoldsLease(w, handling[w])
      BY <2>5, <3>1, <3>2 DEF Finish
    <3>3. CASE HoldsLease(w, handling[w])
      <4>1. status[handling[w]] = "RUNNING"
        BY <3>3 DEF HoldsLease
      <4>2. \A j \in Jobs \ {handling[w]} : status'[j] = status[j]
        BY <2>t, <2>5, <3>3 DEF Finish, TypeOK
      <4> QED
        BY <3>1, <4>1, <4>2
    <3> QED
      BY <3>2, <3>3
  <2> QED
    BY <1>1, <2>1, <2>2, <2>3, <2>4, <2>5
       DEF Next, Clock, LeaseExpires, BecomesDue, WorkerStep, Handle, Pick, LookUp, Record,
           Deliver, RefuseMessage, HandlerFails, Crash, rowVars
<1>2. IInv /\ [Next]_vars => [Final]_vars
  BY <1>1
<1> QED
  BY Invariance, <1>2, PTL DEF Spec, VerdictIsFinal

-----------------------------------------------------------------------------
(* What the liveness of the queue rests on.                                *)

\* A job waits for its first claim without a back-off.
FirstClaimInv == \A j \in Jobs : status[j] \in {"NONE", "PENDING"} => due[j]

\* A worker that goes on with its batch has something left in it.
BatchInv == \A w \in Workers : phase[w] = "picking" => \E j \in Jobs : claimed[w][j] # 0

FlowInv == FirstClaimInv /\ BatchInv

LEMMA InitFlow == Init => FlowInv
BY DEF Init, FlowInv, FirstClaimInv, BatchInv

\* Only _finish takes a job out of due; only claim and _finish leave a worker picking.
LEMMA FlowStep == IInv /\ FlowInv /\ [Next]_vars => FlowInv'
<1> SUFFICES ASSUME IInv, FlowInv, [Next]_vars PROVE FlowInv'
  OBVIOUS
<1>t. TypeOK /\ RowInv /\ HandlerInv
  BY DEF IInv
<1> USE DEF FlowInv, FirstClaimInv, BatchInv
<1>1. CASE UNCHANGED <<status, due, phase, claimed>>
  BY <1>1
<1>2. ASSUME NEW j \in Jobs, Enqueue(j) PROVE FlowInv'
  BY <1>t, <1>2 DEF Enqueue, workerVars, TypeOK
<1>3. ASSUME NEW j \in Jobs, BecomesDue(j) PROVE FlowInv'
  BY <1>t, <1>3 DEF BecomesDue, workerVars, TypeOK
<1>4. ASSUME NEW w \in Workers, ExpireExhausted(w) PROVE FlowInv'
  BY <1>t, <1>4 DEF ExpireExhausted, TypeOK
<1>5. ASSUME NEW w \in Workers, NEW S \in SUBSET Jobs, Claim(w, S) PROVE FlowInv'
  <2>1. FirstClaimInv'
    BY <1>t, <1>5 DEF Claim, TypeOK
  <2>2. \A j \in S : claimed'[w][j] # 0
    BY <1>t, <1>5, ClaimedAttempt DEF Claim, TypeOK
  <2>3. BatchInv'
    BY <1>t, <1>5, <2>2 DEF Claim, TypeOK
  <2> QED
    BY <2>1, <2>3
<1>6. ASSUME NEW w \in Workers, Finish(w) PROVE FlowInv'
  <2> DEFINE j == handling[w]
  <2>1. j \in Jobs
    BY <1>t, <1>6 DEF Finish, HandlerInv
  <2>2. FirstClaimInv'
    <3>1. CASE ~HoldsLease(w, j)
      BY <1>6, <3>1 DEF Finish
    <3>2. CASE HoldsLease(w, j)
      <4>1. /\ status' = [status EXCEPT ![j] = Target(w)]
            /\ due' = [due EXCEPT ![j] = IF Target(w) = "RETRY_SCHEDULED" THEN FALSE ELSE @]
        BY <1>6, <3>2 DEF Finish
      <4>2. Target(w) \notin {"NONE", "PENDING"}
        BY DEF Target
      <4>3. status'[j] = Target(w)
        BY <1>t, <2>1, <4>1 DEF TypeOK
      <4>4. \A i \in Jobs \ {j} : status'[i] = status[i] /\ due'[i] = due[i]
        BY <1>t, <4>1 DEF TypeOK
      <4> QED
        BY <4>2, <4>3, <4>4
    <3> QED
      BY <3>1, <3>2
  <2>3. /\ \A i \in Jobs \ {j} : claimed'[w][i] = claimed[w][i]
        /\ \A v \in Workers \ {w} : phase'[v] = phase[v] /\ claimed'[v] = claimed[v]
        /\ phase'[w] = IF \E i \in Jobs \ {j} : claimed[w][i] # 0 THEN "picking" ELSE "idle"
    BY <1>t, <1>6, <2>1 DEF Finish, TypeOK
  <2> QED
    BY <2>2, <2>3
<1>7. ASSUME NEW w \in Workers, Crash(w) PROVE FlowInv'
  BY <1>t, <1>7 DEF Crash, rowVars, TypeOK
<1>8. ASSUME NEW w \in Workers, NEW j \in Jobs, Pick(w, j) PROVE FlowInv'
  BY <1>t, <1>8 DEF Pick, rowVars, TypeOK
<1>9. ASSUME NEW w \in Workers, Handle(w) PROVE FlowInv'
  <2>1. UNCHANGED <<rowVars, claimed>> /\ phase'[w] # "picking"
    BY <1>t, <1>9
       DEF Handle, LookUp, RefuseMessage, Unavailable, Record, Deliver, HandlerFails,
           rowVars, TypeOK
  <2>2. \A v \in Workers \ {w} : phase'[v] = phase[v]
    BY <1>t, <1>9 DEF Handle, LookUp, RefuseMessage, Record, Deliver, HandlerFails, TypeOK
  <2> QED
    BY <2>1, <2>2 DEF rowVars
<1> QED
  BY <1>1, <1>2, <1>3, <1>4, <1>5, <1>6, <1>7, <1>8, <1>9
     DEF Next, Clock, LeaseExpires, WorkerStep, vars, rowVars, workerVars

\* In every reachable state a job without a verdict can be taken up or is waiting for the
\* clock, and no worker is stuck in its batch.
THEOREM NothingStranded == Spec => []NothingIsStranded
<1>1. IInv /\ FlowInv => NothingIsStranded
  <2> SUFFICES ASSUME IInv, FlowInv PROVE NothingIsStranded
    OBVIOUS
  <2>1. \A j \in Jobs : Unfinished(j) =>
          \/ Eligible(j) \/ Expirable(j)
          \/ status[j] = "RUNNING" /\ ~leaseOver[j]
          \/ status[j] = "RETRY_SCHEDULED" /\ ~due[j]
    BY DEF IInv, TypeOK, FlowInv, FirstClaimInv, Unfinished, Eligible, Expirable
  <2> QED
    BY <2>1 DEF IInv, HandlerInv, FlowInv, BatchInv, NothingIsStranded
<1>2. Spec => []FlowInv
  BY Invariance, InitFlow, FlowStep, PTL DEF Spec
<1> QED
  BY Invariance, <1>1, <1>2, PTL

EffortBound == \A j \in Jobs : Effort(j) \in 0..5 * MaxAttempts + 6

\* Every change of a job's row costs effort, of which it has at most 5 * MaxAttempts + 6:
\* with the fairness of the loop and of the clock, that is why every job gets its verdict.
THEOREM EffortFalls == Spec => EffortOnlyFalls /\ []EffortBound
<1> DEFINE Falls == \A j \in Jobs : JobRow(j)' # JobRow(j) => Effort(j)' < Effort(j)
<1>1. IInv => EffortBound
  BY JobQueueAssumption DEF IInv, TypeOK, EffortBound, Effort, Stage
<1>2. ASSUME IInv, Next PROVE Falls
  <2>t. TypeOK /\ RowInv /\ HandlerInv /\ TypeOK'
    BY <1>2, TypeStep DEF IInv
  <2>e. \A j \in Jobs : /\ attempts[j] \in 0..MaxAttempts /\ attempts'[j] \in 0..MaxAttempts
                        /\ Stage(j) \in 0..6 /\ Stage(j)' \in 0..6
    BY <2>t DEF TypeOK, Stage
  <2>1. CASE UNCHANGED rowVars
    BY <2>1 DEF rowVars, JobRow
  <2>2. ASSUME NEW i \in Jobs, Enqueue(i) \/ LeaseExpires(i) \/ BecomesDue(i) PROVE Falls
    <3>1. \A j \in Jobs \ {i} : JobRow(j)' = JobRow(j)
      BY <2>t, <2>2 DEF Enqueue, LeaseExpires, BecomesDue, JobRow, TypeOK
    <3>2. Stage(i)' < Stage(i) /\ attempts' = attempts
      BY <2>t, <2>2 DEF Enqueue, LeaseExpires, BecomesDue, Stage, TypeOK
    <3> QED
      BY <2>e, <3>1, <3>2, JobQueueAssumption DEF Effort
  <2>3. ASSUME NEW w \in Workers, ExpireExhausted(w) PROVE Falls
    <3>1. \A j \in Jobs : Expirable(j) => Stage(j)' < Stage(j)
      BY <2>t, <2>3 DEF ExpireExhausted, Expirable, Stage, TypeOK
    <3>2. \A j \in Jobs : ~Expirable(j) => JobRow(j)' = JobRow(j)
      BY <2>t, <2>3 DEF ExpireExhausted, JobRow, TypeOK
    <3>3. attempts' = attempts
      BY <2>3 DEF ExpireExhausted
    <3> QED
      BY <2>e, <3>1, <3>2, <3>3, JobQueueAssumption DEF Effort
  <2>4. ASSUME NEW w \in Workers, NEW S \in SUBSET Jobs, Claim(w, S) PROVE Falls
    <3>1. \A j \in S : /\ attempts'[j] = attempts[j] + 1
                       /\ Stage(j)' = 4 /\ Stage(j) > 0
      BY <2>t, <2>4 DEF Claim, Eligible, NextAttempt, Stage, TypeOK
    <3>2. \A j \in Jobs \ S : JobRow(j)' = JobRow(j)
      BY <2>t, <2>4 DEF Claim, JobRow, TypeOK
    <3> QED
      BY <2>e, <3>1, <3>2, JobQueueAssumption DEF Effort
  <2>5. ASSUME NEW w \in Workers, Finish(w) PROVE Falls
    <3>1. PICK i \in Jobs : i = handling[w] /\ attempts' = attempts
      BY <2>t, <2>5 DEF Finish, HandlerInv
    <3>2. CASE ~HoldsLease(w, i)
      BY <2>5, <3>1, <3>2 DEF Finish, JobRow
    <3>3. CASE HoldsLease(w, i)
      <4>1. \A j \in Jobs \ {i} : JobRow(j)' = JobRow(j)
        BY <2>t, <2>5, <3>1, <3>3 DEF Finish, JobRow, TypeOK
      <4>2. /\ status'[i] = Target(w)
            /\ Target(w) = "RETRY_SCHEDULED" => due'[i] = FALSE
        BY <2>t, <2>5, <3>1, <3>3 DEF Finish, TypeOK
      <4>3. Stage(i)' \in {0, 2} /\ Stage(i) \in {3, 4}
        BY <3>3, <4>2 DEF Stage, Target, HoldsLease
      <4>4. attempts[i] \in 0..MaxAttempts /\ attempts'[i] = attempts[i]
        BY <2>e, <3>1
      <4>5. Effort(i)' < Effort(i)
        BY <4>3, <4>4, JobQueueAssumption DEF Effort
      <4> QED
        BY <4>1, <4>5
    <3> QED
      BY <3>2, <3>3
  <2> QED
    BY <1>2, <2>1, <2>2, <2>3, <2>4, <2>5
       DEF Next, Clock, WorkerStep, Handle, Pick, LookUp, RefuseMessage, Record,
           Deliver, HandlerFails, Crash
<1>3. IInv /\ [Next]_vars => [Falls]_vars
  BY <1>2
<1> QED
  BY Invariance, <1>1, <1>3, PTL DEF Spec, EffortOnlyFalls

-----------------------------------------------------------------------------
(* The queue implements its contract.                                      *)

\* The start of the queue is a start of the contract.
LEMMA ContractInit == Init => Contract!Init
BY DEF Init, Outcome, Contract!Init

\* Every step of the backend, the clock, a worker or a crash is a step of the
\* contract or leaves it alone.
LEMMA ContractStep == IInv /\ [Next]_vars => [Contract!Next]_(Contract!contractVars)
<1> SUFFICES ASSUME IInv, [Next]_vars PROVE [Contract!Next]_(Contract!contractVars)
  OBVIOUS
<1>t. TypeOK /\ RowInv /\ ClaimsInv /\ HandlerInv /\ FinishIsFenced
  BY DEF IInv
<1>1. CASE UNCHANGED <<status, attempts, sent>>
  BY <1>1 DEF Contract!contractVars, Outcome
<1>2. ASSUME NEW j \in Jobs, Enqueue(j) PROVE Contract!Accept(j)
  <2>1. Outcome[j] = "NONE" /\ UNCHANGED <<attempts, sent>>
    BY <1>2 DEF Enqueue, Outcome, effectVars
  <2>2. Outcome' = [Outcome EXCEPT ![j] = "open"]
    BY <1>t, <1>2 DEF Enqueue, Outcome, TypeOK
  <2> QED
    BY <2>1, <2>2 DEF Contract!Accept
<1>3. ASSUME NEW w \in Workers, ExpireExhausted(w)
      PROVE  \E S \in SUBSET Jobs : Contract!GiveUp(S)
  <2> DEFINE S == {j \in Jobs : Expirable(j)}
  <2>1. \A j \in S : Outcome[j] = "open" /\ attempts[j] > 0
    BY <1>t, JobQueueAssumption DEF Expirable, Exhausted, Outcome, TypeOK
  <2>2. Outcome' = [j \in Jobs |-> IF j \in S THEN "FAILED" ELSE Outcome[j]]
    BY <1>t, <1>3 DEF ExpireExhausted, Outcome, TypeOK
  <2>3. UNCHANGED <<attempts, sent>>
    BY <1>3 DEF ExpireExhausted, effectVars
  <2>4. Contract!GiveUp(S)
    BY <2>1, <2>2, <2>3 DEF Contract!GiveUp
  <2> QED
    BY <2>4
<1>4. ASSUME NEW w \in Workers, NEW S \in SUBSET Jobs, Claim(w, S) PROVE Contract!Grant(S)
  <2>1. \A j \in S : Outcome[j] = "open" /\ attempts[j] < MaxAttempts
    BY <1>t, <1>4, JobQueueAssumption DEF Claim, Eligible, Exhausted, Outcome, TypeOK
  <2>2. attempts' = [j \in Jobs |-> IF j \in S THEN attempts[j] + 1 ELSE attempts[j]]
    BY <1>4 DEF Claim, NextAttempt
  <2>3. \A j \in Jobs : status'[j] = IF j \in S THEN "RUNNING" ELSE status[j]
    BY <1>4 DEF Claim
  <2>4. UNCHANGED <<Outcome, sent>>
    BY <2>1, <2>3, <1>4 DEF Claim, Eligible, Outcome, effectVars
  <2> QED
    BY <2>1, <2>2, <2>4 DEF Contract!Grant
<1>5. ASSUME NEW w \in Workers, Deliver(w)
      PROVE  [\E j \in Jobs, n \in 1..MaxAttempts : Contract!Send(j, n)]_(Contract!contractVars)
  <2> DEFINE j == handling[w]
             n == claimed[w][j]
  <2>1. j \in Jobs /\ n \in 1..MaxAttempts /\ n \in 1..attempts[j]
    BY <1>t, <1>5, JobQueueAssumption DEF Deliver, Handler, HandlerInv, ClaimsInv, TypeOK
  <2>2. sent' = [sent EXCEPT ![j] = @ \cup {n}] /\ UNCHANGED <<status, attempts>>
    BY <1>5 DEF Deliver, rowVars
  <2>3. UNCHANGED Outcome
    BY <2>2 DEF Outcome
  <2>4. CASE n \in sent[j]
    <3>1. sent' = sent
      BY <1>t, <2>1, <2>2, <2>4 DEF TypeOK
    <3> QED
      BY <2>2, <2>3, <3>1 DEF Contract!contractVars
  <2>5. CASE n \notin sent[j]
    BY <2>1, <2>2, <2>3, <2>5 DEF Contract!Send
  <2> QED
    BY <2>4, <2>5
<1>6. ASSUME NEW w \in Workers, Finish(w) PROVE [Contract!Next]_(Contract!contractVars)
  <2> DEFINE j == handling[w]
  <2>1. /\ j \in Jobs /\ claimed[w][j] # 0 /\ claimed[w][j] \in 0..MaxAttempts
        /\ phase[w] = "succeeded" => sent[j] # {}
        /\ UNCHANGED <<attempts, sent>>
    BY <1>t, <1>6 DEF Finish, HandlerInv, TypeOK, effectVars
  <2>2. CASE ~HoldsLease(w, j)
    <3>1. UNCHANGED status
      BY <1>6, <2>2 DEF Finish
    <3> QED
      BY <2>1, <3>1 DEF Contract!contractVars, Outcome
  <2>3. CASE HoldsLease(w, j)
    <3>1. status[j] = "RUNNING" /\ attempts[j] > 0
      BY <1>t, <2>1, <2>3 DEF HoldsLease, RowInv
    <3>2. Outcome[j] = "open"
      BY <2>1, <3>1 DEF Outcome
    <3>3. status' = [status EXCEPT ![j] = Target(w)]
      BY <1>6, <2>3 DEF Finish
    <3>4. CASE Target(w) = "RETRY_SCHEDULED"
      <4>1. UNCHANGED Outcome
        BY <1>t, <2>1, <3>1, <3>3, <3>4 DEF Outcome, TypeOK
      <4> QED
        BY <2>1, <4>1 DEF Contract!contractVars
    <3>5. CASE Target(w) = "SUCCEEDED"
      <4>1. sent[j] # {}
        BY <2>1, <3>5 DEF Target
      <4>2. Outcome' = [Outcome EXCEPT ![j] = "SUCCEEDED"]
        BY <1>t, <2>1, <3>3, <3>5 DEF Outcome, TypeOK
      <4> QED
        BY <2>1, <3>2, <4>1, <4>2 DEF Contract!Succeed, Contract!Next
    <3>6. CASE Target(w) = "FAILED"
      <4>1. Outcome' = [i \in Jobs |-> IF i \in {j} THEN "FAILED" ELSE Outcome[i]]
        BY <1>t, <2>1, <3>3, <3>6 DEF Outcome, TypeOK
      <4>2. Contract!GiveUp({j})
        BY <2>1, <3>1, <3>2, <4>1 DEF Contract!GiveUp
      <4> QED
        BY <2>1, <4>2 DEF Contract!Next
    <3> QED
      BY <3>4, <3>5, <3>6 DEF Target
  <2> QED
    BY <2>2, <2>3
<1> QED
  BY <1>1, <1>2, <1>3, <1>4, <1>5, <1>6
     DEF Next, Clock, LeaseExpires, BecomesDue, WorkerStep, Handle, Pick, LookUp, Record,
         RefuseMessage, HandlerFails, Crash, vars, rowVars, effectVars, Contract!Next

\* With its workers, leases, retries and crashes the queue keeps the promises of
\* DeliveryContract.
THEOREM Refinement == Spec => ImplementsDeliveryContract
<1>1. Init => Contract!Init
  BY ContractInit
<1>2. IInv /\ [Next]_vars => [Contract!Next]_(Contract!contractVars)
  BY ContractStep
<1> QED
  BY Invariance, <1>1, <1>2, PTL DEF Spec, ImplementsDeliveryContract, Contract!Spec
=============================================================================
