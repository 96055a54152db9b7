---------------------------- MODULE ReviewContract ----------------------------
(***************************************************************************)
(* What the approval workflow promises a client, with every mechanism left *)
(* out: versions are put before the client one at a time and in order, a   *)
(* new one only after the previous one was rejected; a verdict is given    *)
(* once; and the only thing that is ever published is a version the client *)
(* accepted, once.  ContentWorkflow implements this contract.              *)
(***************************************************************************)
EXTENDS Naturals

CONSTANTS Contents,      \* the content items of the organization
          MaxVersions    \* bound: versions a content item may reach

VARIABLES verdict,       \* the client's verdict on each version of each item
          shipped        \* the version that was published, 0 before that

contractVars == <<verdict, shipped>>

Verdicts == {"unseen", "open", "accepted", "rejected"}

Init ==
  /\ verdict = [c \in Contents |-> [v \in 1..MaxVersions |-> "unseen"]]
  /\ shipped = [c \in Contents |-> 0]

\* Version v is put before the client.
Release(c, v) ==
  /\ verdict[c][v] = "unseen"
  /\ v # 1 => verdict[c][v - 1] = "rejected"
  /\ verdict' = [verdict EXCEPT ![c][v] = "open"]
  /\ UNCHANGED shipped

\* The client closes the review of version v.
Decide(c, v, outcome) ==
  /\ verdict[c][v] = "open"
  /\ verdict' = [verdict EXCEPT ![c][v] = outcome]
  /\ UNCHANGED shipped

\* An accepted version is published, and nothing is published after it.
Ship(c, v) ==
  /\ verdict[c][v] = "accepted"
  /\ shipped[c] = 0
  /\ shipped' = [shipped EXCEPT ![c] = v]
  /\ UNCHANGED verdict

Next ==
  \E c \in Contents, v \in 1..MaxVersions :
    \/ Release(c, v)
    \/ \E outcome \in {"accepted", "rejected"} : Decide(c, v, outcome)
    \/ Ship(c, v)

Spec == Init /\ [][Next]_contractVars
=============================================================================
