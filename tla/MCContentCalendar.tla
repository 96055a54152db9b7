-------------------------- MODULE MCContentCalendar --------------------------
(***************************************************************************)
(* Instances of ContentCalendar for TLC.                                   *)
(***************************************************************************)
EXTENDS ContentCalendar, TLC

CONSTANTS p1, p2

\* A plan of eight days has two weeks, of which the second is only the last day of the
\* plan.  A plan of one day has a calendar of one entry, so that two fit.
TwoPlans == [p \in Plans |-> [starts |-> 1, ends |-> IF p = p1 THEN 8 ELSE 1]]

Strategist == [r \in Requests |-> "STRATEGIST"]

Interchangeable == Permutations(Entries) \cup Permutations(Contents) \cup Permutations(Requests)
=============================================================================
