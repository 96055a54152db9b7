---------------------------- MODULE MCBrandCatalog ----------------------------
(***************************************************************************)
(* Instances of BrandCatalog for TLC.                                      *)
(***************************************************************************)
EXTENDS BrandCatalog, TLC

CONSTANTS s1, s2, u1, o1, p1, admin, editor

MCKind ==
  [i \in Rows |-> CASE i \in {s1, s2} -> "SERVICE"
                    [] i = u1 -> "AUDIENCE"
                    [] i = o1 -> "OBJECTIVE"
                    [] OTHER -> "PRESET"]

MCRole == [r \in Requests |-> IF r = admin THEN "AGENCY_ADMIN" ELSE "CONTENT_EDITOR"]

\* Two administrators, who may both edit presets.
AllAdmins == [r \in Requests |-> "AGENCY_ADMIN"]

\* The tables of services, audiences and objectives share nothing with each other or
\* with the presets: one table at a time is enough.
OneTableAtATime ==
  \A i, j \in Rows : row[i] # NoRow /\ row[j] # NoRow => Kind[i] = Kind[j]

\* Nothing in the module tells two names, two looks or two new profiles apart.
Interchangeable == Permutations(Names) \cup Permutations(Looks) \cup Permutations(BrandIds)
=============================================================================
