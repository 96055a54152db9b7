-------------------------- MODULE MCStrategyPlanning --------------------------
(***************************************************************************)
(* Instances of StrategyPlanning for TLC.                                  *)
(***************************************************************************)
EXTENDS StrategyPlanning, TLC

CONSTANTS s1, p1, b1, strategist, reviewer, owner

\* Every strategy belongs to the one business of the instance.
OneBusiness == [s \in Strategies |-> b1]

\* A strategist of the agency, and the owner and a reviewer of the business.
MCMembership ==
  [m \in Members |->
     IF m = strategist THEN [role |-> "STRATEGIST", business |-> None]
     ELSE [role |-> IF m = owner THEN "CLIENT_OWNER" ELSE "CLIENT_REVIEWER", business |-> b1]]
=============================================================================
