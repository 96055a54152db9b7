---------------------------- MODULE MCMemberAccess ----------------------------
(***************************************************************************)
(* Instances of MemberAccess for TLC.                                      *)
(***************************************************************************)
EXTENDS MemberAccess, TLC

CONSTANTS admin, partner, client, guest, b1, q1, q2, i1, i2, t1, t2

\* Two administrators, a reviewer of the business and somebody without an account.
MCInitialMembership ==
  [u \in Users |-> IF u \in {admin, partner} THEN Row("AGENCY_ADMIN", None, TRUE)
                   ELSE IF u = client THEN Row("CLIENT_REVIEWER", b1, TRUE)
                   ELSE None]

\* The client's access is suspended, given back, or moved to the agency.
ClientWishes ==
  {Row("CLIENT_REVIEWER", b1, FALSE), Row("CLIENT_REVIEWER", b1, TRUE),
   Row("DESIGNER", None, TRUE)}

\* A member is moved between the roles of the client and the agency, up to administrator.
MemberWishes ==
  {Row("CLIENT_REVIEWER", b1, FALSE), Row("VIEWER", b1, TRUE), Row("AGENCY_ADMIN", None, TRUE)}

\* An administrator is demoted or suspended.
AdminWishes == {Row("AGENCY_ADMIN", None, FALSE), Row("DESIGNER", None, TRUE)}

Interchangeable ==
  Permutations(Requests) \cup Permutations(Invites) \cup Permutations(Resets)
=============================================================================
