-------------------------- MODULE StrategyContract --------------------------
(***************************************************************************)
(* What the planning promises a client, with drafts, internal review,      *)
(* locks and members left out: at most one version of a strategy is before *)
(* the client; it is never older than one shown before, and later than     *)
(* every version the client accepted; what is accepted stays accepted; and *)
(* plans are made from accepted versions only, and stay.                   *)
(* StrategyPlanning implements this contract.                              *)
(***************************************************************************)
EXTENDS Naturals

CONSTANTS Strategies,  \* the strategies of the organization
          Plans,       \* the plans made from them
          Versions,    \* version numbers
          None         \* no plan yet

VARIABLES open,        \* the version the client is asked about, 0: none
          shown,       \* versions the client has been asked about
          accepted,    \* versions the client has accepted
          plan         \* the strategy and the version each plan was made from

contractVars == <<open, shown, accepted, plan>>

Init ==
  /\ open = [s \in Strategies |-> 0]
  /\ shown = [s \in Strategies |-> {}]
  /\ accepted = [s \in Strategies |-> {}]
  /\ plan = [p \in Plans |-> None]

\* Version v is put before the client, for the first time or again.
Ask(s, v) ==
  /\ open[s] = 0
  /\ \A w \in shown[s] : w <= v
  /\ \A w \in accepted[s] : w < v
  /\ open' = [open EXCEPT ![s] = v]
  /\ shown' = [shown EXCEPT ![s] = @ \cup {v}]
  /\ UNCHANGED <<accepted, plan>>

\* The client accepts the version, or returns it.
Answer(s, accepts) ==
  /\ open[s] # 0
  /\ open' = [open EXCEPT ![s] = 0]
  /\ accepted' = [accepted EXCEPT ![s] = IF accepts THEN @ \cup {open[s]} ELSE @]
  /\ UNCHANGED <<shown, plan>>

MakePlan(p, s, v) ==
  /\ plan[p] = None
  /\ v \in accepted[s]
  /\ plan' = [plan EXCEPT ![p] = [strategy |-> s, version |-> v]]
  /\ UNCHANGED <<open, shown, accepted>>

Next ==
  \E s \in Strategies :
    \/ \E v \in Versions : Ask(s, v) \/ \E p \in Plans : MakePlan(p, s, v)
    \/ \E accepts \in BOOLEAN : Answer(s, accepts)

Spec == Init /\ [][Next]_contractVars
=============================================================================
