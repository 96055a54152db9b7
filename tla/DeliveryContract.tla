--------------------------- MODULE DeliveryContract ---------------------------
(***************************************************************************)
(* What the queue promises whoever enqueues a job, with workers, leases    *)
(* and retries left out: a bounded number of tries is granted, each sends  *)
(* at most once, success is reported only for a job that was sent, and a   *)
(* verdict is never taken back.  A try granted earlier may still send      *)
(* after the verdict.  JobQueue implements this contract.                  *)
(***************************************************************************)
EXTENDS Naturals

CONSTANTS Jobs,          \* ids of jobs
          MaxAttempts    \* jobs.max_attempts

VARIABLES outcome,       \* "NONE", "open", "SUCCEEDED" or "FAILED"
          tries,         \* tries granted so far
          sent           \* the tries that sent

contractVars == <<outcome, tries, sent>>

Init ==
  /\ outcome = [j \in Jobs |-> "NONE"]
  /\ tries = [j \in Jobs |-> 0]
  /\ sent = [j \in Jobs |-> {}]

Accept(j) ==
  /\ outcome[j] = "NONE"
  /\ outcome' = [outcome EXCEPT ![j] = "open"]
  /\ UNCHANGED <<tries, sent>>

\* One step of a worker may grant a try of several jobs.
Grant(S) ==
  /\ \A j \in S : outcome[j] = "open" /\ tries[j] < MaxAttempts
  /\ tries' = [j \in Jobs |-> IF j \in S THEN tries[j] + 1 ELSE tries[j]]
  /\ UNCHANGED <<outcome, sent>>

Send(j, n) ==
  /\ n \in 1..tries[j] /\ n \notin sent[j]
  /\ sent' = [sent EXCEPT ![j] = @ \cup {n}]
  /\ UNCHANGED <<outcome, tries>>

Succeed(j) ==
  /\ outcome[j] = "open" /\ sent[j] # {}
  /\ outcome' = [outcome EXCEPT ![j] = "SUCCEEDED"]
  /\ UNCHANGED <<tries, sent>>

\* Jobs are given up one at a time by their handler, or together when swept.
GiveUp(S) ==
  /\ \A j \in S : outcome[j] = "open" /\ tries[j] > 0
  /\ outcome' = [j \in Jobs |-> IF j \in S THEN "FAILED" ELSE outcome[j]]
  /\ UNCHANGED <<tries, sent>>

Next ==
  \/ \E j \in Jobs : Accept(j) \/ Succeed(j) \/ \E n \in 1..MaxAttempts : Send(j, n)
  \/ \E S \in SUBSET Jobs : Grant(S) \/ GiveUp(S)

Spec == Init /\ [][Next]_contractVars
=============================================================================
