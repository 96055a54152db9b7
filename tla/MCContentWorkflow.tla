-------------------------- MODULE MCContentWorkflow --------------------------
(***************************************************************************)
(* Instances of ContentWorkflow for TLC.                                   *)
(***************************************************************************)
EXTENDS ContentWorkflow, TLC

CONSTANTS c1, c2, img1, img2, e1, e2, b1, b2, admin, reviewer, owner

\* Everything belongs to the one business of the instance.
OneBusiness == [x \in Contents \cup MediaAssets \cup Entries |-> b1]

\* Each of two items and images belongs to a business of its own.
TwoBusinesses ==
  [x \in Contents \cup MediaAssets \cup Entries |-> IF x \in {c2, img2} THEN b2 ELSE b1]

Row(r, b, a) == [role |-> r, business |-> b, active |-> a]

\* An agency administrator without a business, a reviewer of one business and the
\* owner of the other.
MCInitialMembership ==
  [m \in Members |->
     IF m = admin THEN Row("AGENCY_ADMIN", None, TRUE)
     ELSE IF m = reviewer THEN Row("CLIENT_REVIEWER", b1, TRUE)
     ELSE Row("CLIENT_OWNER", b2, TRUE)]

\* The same people, all of one business.
SharedMembership ==
  [m \in Members |->
     IF m = owner THEN Row("CLIENT_OWNER", b1, TRUE) ELSE MCInitialMembership[m]]

\* The reviewer is suspended, demoted to VIEWER, or given the role back.
ReviewerChanges ==
  [m \in Members |->
     IF m = reviewer
     THEN {Row("CLIENT_REVIEWER", b1, TRUE), Row("CLIENT_REVIEWER", b1, FALSE),
           Row("VIEWER", b1, TRUE)}
     ELSE {}]

\* The reviewer is suspended, or given the role back.
ReviewerSuspended ==
  [m \in Members |->
     IF m = reviewer
     THEN {Row("CLIENT_REVIEWER", b1, TRUE), Row("CLIENT_REVIEWER", b1, FALSE)}
     ELSE {}]

\* Nobody's access changes.
NoChanges == [m \in Members |-> {}]
=============================================================================
