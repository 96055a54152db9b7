------------------------ MODULE ContentWorkflowProofs ------------------------
(***************************************************************************)
(* Proofs about ContentWorkflow: for every number of items, versions,      *)
(* members and businesses, the invariants of the review and the contract   *)
(* of ReviewContract.                                                      *)
(***************************************************************************)
EXTENDS ContentWorkflow, TLAPS

-----------------------------------------------------------------------------
(* The inductive invariant.  The status of an item says what the decisions *)
(* on its current version look like; the versions before it were all       *)
(* returned by the client and the ones after it do not exist yet.          *)

Unseen(row) == \A k \in Components : row[k] = "NONE"
Accepted(row) == \A k \in Components : row[k] = "APPROVED"

Open(row) ==
  /\ \A k \in Components : row[k] \in {"PENDING", "APPROVED"}
  /\ \E k \in Components : row[k] = "PENDING"

Returned(row) ==
  \E k \in Components :
    /\ row[k] = "CHANGES_REQUESTED"
    /\ \A j \in Components \ {k} : row[j] \in {"APPROVED", "CANCELLED"}

RowFits(s, row) ==
  \/ s \in {"DRAFT", "INTERNAL_REVIEW"} /\ Unseen(row)
  \/ s = "CLIENT_REVIEW" /\ Open(row)
  \/ s = "CHANGES_REQUESTED" /\ Returned(row)
  \/ s \in {"APPROVED", "PUBLISHED"} /\ Accepted(row)

ItemFits(s, cur, rows) ==
  /\ s = "NONE" <=> cur = 0
  /\ \A v \in Versions :
       /\ v > cur => Unseen(rows[v])
       /\ v = cur => RowFits(s, rows[v])
       /\ v < cur => Returned(rows[v])

ReviewInv == \A c \in Contents : ItemFits(status[c], current[c], approval[c])

\* The versions up to the current one are stored.
VersionsStored ==
  \A c \in Contents, v \in Versions : v <= current[c] => version[c][v] \in VersionRows

IInv == TypeOK /\ ReviewInv /\ VersionsStored

-----------------------------------------------------------------------------
(* Types.                                                                  *)

\* An item that exists has a current version, and its row is stored.
LEMMA CurrentStored ==
  ASSUME IInv, NEW c \in Contents, status[c] # "NONE"
  PROVE  current[c] \in Versions /\ CurrentRow(c) \in VersionRows
<1>1. current[c] \in 0..MaxVersions /\ current[c] # 0
  BY DEF IInv, TypeOK, ReviewInv, ItemFits
<1>2. current[c] \in Versions
  BY <1>1, ContentAssumption DEF Versions
<1> QED
  BY <1>2, <1>1 DEF IInv, VersionsStored, CurrentRow

LEMMA InitIInv == Init => IInv
<1> SUFFICES ASSUME Init PROVE IInv
  OBVIOUS
<1> USE ContentAssumption DEF Init
<1>1. TypeOK
  BY DEF TypeOK, ContentStatus, EntryRows, EmailKeys
<1>2. ReviewInv
  BY DEF ReviewInv, ItemFits, Unseen, Versions
<1>3. VersionsStored
  BY DEF VersionsStored, Versions
<1> QED
  BY <1>1, <1>2, <1>3 DEF IInv

\* A revision keeps the types, given the row it stores.
LEMMA AddVersionTypes ==
  ASSUME TypeOK, NEW c \in Contents, NEW row \in VersionRows, AddVersion(c, row)
  PROVE  /\ status' \in [Contents -> ContentStatus \cup {"NONE"}]
         /\ current' \in [Contents -> 0..MaxVersions]
         /\ version' \in [Contents -> [Versions -> VersionRows \cup {None}]]
         /\ approval' = approval /\ decidedBy' = decidedBy
BY ContentAssumption DEF TypeOK, AddVersion, Transition, NextVersion, Versions, ContentStatus

\* Every step keeps the types (the inductive invariant supplies the row of the
\* current version, which handlers copy).
LEMMA TypeStep == IInv /\ [Next]_vars => TypeOK'
<1> SUFFICES ASSUME IInv, [Next]_vars PROVE TypeOK'
  OBVIOUS
<1>t. TypeOK
  BY DEF IInv
<1>1. ASSUME NEW m \in Members, Authenticate(m) PROVE TypeOK'
  BY <1>t, <1>1 DEF TypeOK, Authenticate, contentVars, calendarVars, accessVars
<1>2. ASSUME NEW m \in Members, Refuse(m) PROVE TypeOK'
  BY <1>t, <1>2 DEF TypeOK, Refuse, Respond, contentVars, calendarVars, accessVars
<1>3. ASSUME NEW m \in Members, NEW b \in Businesses, ReadBusiness(m, b) PROVE TypeOK'
  BY <1>t, <1>3 DEF TypeOK, ReadBusiness, contentVars, calendarVars, accessVars
<1>4. ASSUME NEW m \in Members, NEW c \in Contents, NEW row \in VersionRows,
             NEW e \in Entries \cup {None}, GenerateContent(m, c, row, e)
      PROVE  TypeOK'
  <2>1. status' \in [Contents -> ContentStatus \cup {"NONE"}]
    BY <1>t, <1>4 DEF TypeOK, GenerateContent, ContentStatus
  <2>2. current' \in [Contents -> 0..MaxVersions]
    BY <1>t, <1>4, ContentAssumption DEF TypeOK, GenerateContent
  <2>3. version' \in [Contents -> [Versions -> VersionRows \cup {None}]]
    BY <1>t, <1>4 DEF TypeOK, GenerateContent
  <2>4. entry' \in [Entries -> EntryRows]
    BY <1>t, <1>4 DEF TypeOK, GenerateContent, EntryRows
  <2>5. entryOf' \in [Contents -> Entries \cup {None}]
    BY <1>t, <1>4 DEF TypeOK, GenerateContent
  <2> QED
    BY <1>t, <1>4, <2>1, <2>2, <2>3, <2>4, <2>5
       DEF TypeOK, GenerateContent, Respond, accessVars
<1>5. ASSUME NEW m \in Members, NEW c \in Contents, SubmitInternal(m, c) PROVE TypeOK'
  BY <1>t, <1>5 DEF TypeOK, SubmitInternal, Transition, Respond, ContentStatus,
                    calendarVars, accessVars
<1>6. ASSUME NEW m \in Members, NEW c \in Contents, SendToClient(m, c) PROVE TypeOK'
  <2>1. current[c] \in Versions
    BY <1>6, CurrentStored DEF SendToClient, Acquire, Reaches
  <2>2. status' \in [Contents -> ContentStatus \cup {"NONE"}]
    BY <1>t, <1>6 DEF TypeOK, SendToClient, Transition, ContentStatus
  <2>3. approval' \in [Contents -> [Versions -> [Components -> ApprovalStatus \cup {"NONE"}]]]
    BY <1>t, <1>6, <2>1 DEF TypeOK, SendToClient, ApprovalStatus
  <2>4. ReviewKeys(c, current[c], ReviewersOf(Owner[c])) \subseteq EmailKeys
    BY <2>1 DEF ReviewKeys, ReviewersOf, EmailKeys
  <2>5. emailJobs' \subseteq EmailKeys
    BY <1>t, <1>6, <2>4 DEF TypeOK, SendToClient, Enqueue
  <2> QED
    BY <1>t, <1>6, <2>2, <2>3, <2>5
       DEF TypeOK, SendToClient, Respond, calendarVars, accessVars
<1>7. ASSUME NEW m \in Members, NEW c \in Contents, NEW k \in Components,
             ApproveComponent(m, c, k)
      PROVE  TypeOK'
  <2> DEFINE row == WithApproved(approval[c][current[c]], k)
  <2>1. current[c] \in Versions
    BY <1>7, CurrentStored DEF ApproveComponent, Acquire, Reaches
  <2>2. status' \in [Contents -> ContentStatus \cup {"NONE"}]
    BY <1>t, <1>7 DEF TypeOK, ApproveComponent, Transition, ContentStatus
  <2>3. row \in [Components -> ApprovalStatus \cup {"NONE"}]
    BY <1>t, <2>1 DEF TypeOK, WithApproved, ApprovalStatus
  <2>4. approval' \in [Contents -> [Versions -> [Components -> ApprovalStatus \cup {"NONE"}]]]
    BY <1>t, <1>7, <2>1, <2>3 DEF TypeOK, ApproveComponent
  <2>5. Deciding(m, approval[c][current[c]], row, decidedBy[c][current[c]])
          \in [Components -> Members \cup {None}]
    BY <1>t, <2>1 DEF TypeOK, Deciding
  <2>6. decidedBy' \in [Contents -> [Versions -> [Components -> Members \cup {None}]]]
    BY <1>t, <1>7, <2>1, <2>5 DEF TypeOK, ApproveComponent
  <2>7. DecisionKeys("approved", c, current[c], k, AgencyOf(Owner[c])) \subseteq EmailKeys
    BY <2>1 DEF DecisionKeys, AgencyOf, EmailKeys
  <2>8. emailJobs' \subseteq EmailKeys
    BY <1>t, <1>7, <2>7 DEF TypeOK, ApproveComponent, Enqueue
  <2> QED
    BY <1>t, <1>7, <2>2, <2>4, <2>6, <2>8
       DEF TypeOK, ApproveComponent, Respond, calendarVars, accessVars
<1>8. ASSUME NEW m \in Members, NEW c \in Contents, NEW k \in Components,
             RequestChanges(m, c, k)
      PROVE  TypeOK'
  <2> DEFINE row == WithChanges(approval[c][current[c]], k)
  <2>1. current[c] \in Versions
    BY <1>8, CurrentStored DEF RequestChanges, Acquire, Reaches
  <2>2. status' \in [Contents -> ContentStatus \cup {"NONE"}]
    BY <1>t, <1>8 DEF TypeOK, RequestChanges, Transition, ContentStatus
  <2>3. row \in [Components -> ApprovalStatus \cup {"NONE"}]
    BY <1>t, <2>1 DEF TypeOK, WithChanges, ApprovalStatus
  <2>4. approval' \in [Contents -> [Versions -> [Components -> ApprovalStatus \cup {"NONE"}]]]
    BY <1>t, <1>8, <2>1, <2>3 DEF TypeOK, RequestChanges
  <2>5. Deciding(m, approval[c][current[c]], row, decidedBy[c][current[c]])
          \in [Components -> Members \cup {None}]
    BY <1>t, <2>1 DEF TypeOK, Deciding
  <2>6. decidedBy' \in [Contents -> [Versions -> [Components -> Members \cup {None}]]]
    BY <1>t, <1>8, <2>1, <2>5 DEF TypeOK, RequestChanges
  <2>7. DecisionKeys("changes", c, current[c], k, AgencyOf(Owner[c])) \subseteq EmailKeys
    BY <2>1 DEF DecisionKeys, AgencyOf, EmailKeys
  <2>8. emailJobs' \subseteq EmailKeys
    BY <1>t, <1>8, <2>7 DEF TypeOK, RequestChanges, Enqueue
  <2> QED
    BY <1>t, <1>8, <2>2, <2>4, <2>6, <2>8
       DEF TypeOK, RequestChanges, Respond, calendarVars, accessVars
<1>9. ASSUME NEW m \in Members, NEW c \in Contents, NEW text \in Texts,
             CreateRevision(m, c, text)
      PROVE  TypeOK'
  <2>1. CurrentRow(c) \in VersionRows
    BY <1>9, CurrentStored DEF CreateRevision, Acquire, Reaches
  <2>2. [CurrentRow(c) EXCEPT !.text = text] \in VersionRows
    BY <2>1 DEF VersionRows
  <2> QED
    BY <1>t, <1>9, <2>2, AddVersionTypes
       DEF TypeOK, CreateRevision, Respond, calendarVars, accessVars
<1>10. ASSUME NEW m \in Members, NEW c \in Contents, NEW visual \in Visuals,
              NEW md \in MediaAssets \cup {None}, CreateVisualRevision(m, c, visual, md)
       PROVE  TypeOK'
  <2>1. CurrentRow(c) \in VersionRows
    BY <1>10, CurrentStored DEF CreateVisualRevision, Acquire, Reaches
  <2>2. [CurrentRow(c) EXCEPT !.visual = visual, !.media = md] \in VersionRows
    BY <2>1 DEF VersionRows
  <2> QED
    BY <1>t, <1>10, <2>2, AddVersionTypes
       DEF TypeOK, CreateVisualRevision, Respond, calendarVars, accessVars
<1>11. ASSUME NEW m \in Members, NEW c \in Contents, NEW k \in Keys, ReplayPublication(m, c, k)
       PROVE  TypeOK'
  BY <1>t, <1>11 DEF TypeOK, ReplayPublication, Respond, contentVars, calendarVars, accessVars
<1>12. ASSUME NEW m \in Members, NEW c \in Contents, NEW k \in Keys, CheckPublication(m, c, k)
       PROVE  TypeOK'
  BY <1>t, <1>12 DEF TypeOK, CheckPublication, Respond, contentVars, calendarVars, accessVars
<1>13. ASSUME NEW c \in Contents, CommitPublication(c) PROVE TypeOK'
  <2>1. status' \in [Contents -> ContentStatus \cup {"NONE"}]
    BY <1>t, <1>13 DEF TypeOK, CommitPublication, ContentStatus
  <2>2. entry' \in [Entries -> EntryRows]
    BY <1>t, <1>13 DEF TypeOK, CommitPublication, EntryRows
  <2> QED
    BY <1>t, <1>13, <2>1, <2>2
       DEF TypeOK, CommitPublication, accessVars, requestVars
<1>14. ASSUME NEW c \in Contents, RollbackPublication(c) PROVE TypeOK'
  BY <1>t, <1>14 DEF TypeOK, RollbackPublication, contentVars, calendarVars, accessVars, requestVars
<1>15. ASSUME NEW m \in Members, NEW md \in MediaAssets, UploadMedia(m, md) PROVE TypeOK'
  BY <1>t, <1>15 DEF TypeOK, UploadMedia, Respond, contentVars, calendarVars, accessVars
<1>16. ASSUME NEW m \in Members, NEW md \in MediaAssets, ArchiveMedia(m, md) PROVE TypeOK'
  BY <1>t, <1>16 DEF TypeOK, ArchiveMedia, Respond, contentVars, calendarVars, accessVars
<1>17. ASSUME NEW m \in Members, NEW b \in Businesses, ArchiveBusiness(m, b) PROVE TypeOK'
  BY <1>t, <1>17 DEF TypeOK, ArchiveBusiness, Respond, contentVars, calendarVars, accessVars
<1>18. ASSUME NEW m \in Members, NEW row \in MembershipOptions[m], UpdateMember(m, row)
       PROVE  TypeOK'
  <2>1. row \in MembershipRows
    BY <1>18, ContentAssumption
  <2> QED
    BY <1>t, <1>18, <2>1 DEF TypeOK, UpdateMember, contentVars, calendarVars, requestVars
<1>19. CASE UNCHANGED vars
  BY <1>t, <1>19 DEF TypeOK, vars, contentVars, calendarVars, accessVars, requestVars
<1> QED
  BY <1>1, <1>2, <1>3, <1>4, <1>5, <1>6, <1>7, <1>8, <1>9, <1>10, <1>11, <1>12, <1>13,
     <1>14, <1>15, <1>16, <1>17, <1>18, <1>19 DEF Next, ContentStep, OtherStep

-----------------------------------------------------------------------------
(* The review.                                                             *)

\* The steps that leave every item, its versions and its decisions alone.
OtherVarsStep ==
  /\ UNCHANGED <<current, version, approval, decidedBy>>
  /\ UNCHANGED status

\* Every step either leaves the review alone or is one of seven actions on an item.
LEMMA StepKinds ==
  ASSUME [Next]_vars
  PROVE  \/ OtherVarsStep
         \/ \E m \in Members, c \in Contents :
              \/ \E row \in VersionRows, e \in Entries \cup {None} :
                   GenerateContent(m, c, row, e)
              \/ SubmitInternal(m, c)
              \/ SendToClient(m, c)
              \/ \E k \in Components : ApproveComponent(m, c, k)
              \/ \E k \in Components : RequestChanges(m, c, k)
              \/ \E text \in Texts : CreateRevision(m, c, text)
              \/ \E visual \in Visuals, md \in MediaAssets \cup {None} :
                   CreateVisualRevision(m, c, visual, md)
         \/ \E c \in Contents : CommitPublication(c)
<1> USE DEF OtherVarsStep, contentVars
<1>1. CASE UNCHANGED vars
  BY <1>1 DEF vars
<1>2. CASE \E m \in Members : OtherStep(m)
  BY <1>2 DEF OtherStep, Authenticate, Refuse, ReadBusiness, UploadMedia, ArchiveMedia,
              ArchiveBusiness, UpdateMember
<1>3. CASE \E c \in Contents : CommitPublication(c) \/ RollbackPublication(c)
  BY <1>3 DEF RollbackPublication
<1>4. CASE \E m \in Members, c \in Contents : ContentStep(m, c)
  BY <1>4 DEF ContentStep, ReplayPublication, CheckPublication
<1> QED
  BY <1>1, <1>2, <1>3, <1>4 DEF Next

\* A revision moves an item whose current version was returned to a draft of the
\* next version.
LEMMA RevisionFits ==
  ASSUME TypeOK, ReviewInv, NEW c \in Contents, NEW row, AddVersion(c, row)
  PROVE  ReviewInv'
<1>1. /\ current[c] \in 0..MaxVersions /\ current[c] + 1 \in Versions
      /\ status[c] \in {"CHANGES_REQUESTED", "FAILED"}
      /\ status' = [status EXCEPT ![c] = "DRAFT"]
      /\ current' = [current EXCEPT ![c] = current[c] + 1]
      /\ approval' = approval
  BY DEF AddVersion, Transition, NextVersion, MayBecome, TransitionTable, TypeOK
<1>2. /\ current[c] \in Versions
      /\ \A v \in Versions : v > current[c] => Unseen(approval[c][v])
      /\ \A v \in Versions : v < current[c] => Returned(approval[c][v])
      /\ Returned(approval[c][current[c]])
  BY <1>1, ContentAssumption DEF ReviewInv, ItemFits, RowFits, Versions
<1>3. ItemFits("DRAFT", current[c] + 1, approval[c])
  <2>1. ASSUME NEW v \in Versions, v < current[c] + 1 PROVE Returned(approval[c][v])
    BY <1>1, <1>2, <2>1, ContentAssumption DEF Versions
  <2>2. ASSUME NEW v \in Versions, v > current[c] PROVE Unseen(approval[c][v])
    BY <1>2, <2>2
  <2> QED
    BY <1>1, <2>1, <2>2, ContentAssumption DEF ItemFits, RowFits, Versions
<1>4. \A d \in Contents : ItemFits(status'[d], current'[d], approval'[d])
  BY <1>1, <1>3 DEF TypeOK, ReviewInv
<1> QED
  BY <1>4 DEF ReviewInv

\* A step that rewrites the decisions of c's current version (or none of them)
\* keeps the invariant if the new status fits the new row.
LEMMA DecisionFits ==
  ASSUME TypeOK, ReviewInv, NEW c \in Contents, NEW s, NEW row,
         status[c] # "NONE", s # "NONE",
         status' = [status EXCEPT ![c] = s],
         approval' = [approval EXCEPT ![c][current[c]] = row],
         current' = current,
         RowFits(s, row)
  PROVE  ReviewInv'
<1>1. current[c] \in Versions
  BY ContentAssumption DEF TypeOK, ReviewInv, ItemFits, Versions
<1>2. ItemFits(s, current[c], approval'[c])
  BY <1>1, ContentAssumption DEF TypeOK, ReviewInv, ItemFits, Versions
<1>3. \A d \in Contents : ItemFits(status'[d], current'[d], approval'[d])
  BY <1>2 DEF TypeOK, ReviewInv
<1> QED
  BY <1>3 DEF ReviewInv

\* Every step keeps each item's status, version and decisions in agreement.
LEMMA ReviewStep == IInv /\ [Next]_vars => ReviewInv'
<1> SUFFICES ASSUME IInv, [Next]_vars PROVE ReviewInv'
  OBVIOUS
<1>t. TypeOK /\ ReviewInv
  BY DEF IInv
<1>1. CASE OtherVarsStep
  BY <1>t, <1>1 DEF OtherVarsStep, ReviewInv
<1>2. ASSUME NEW m \in Members, NEW c \in Contents, NEW row \in VersionRows,
             NEW e \in Entries \cup {None}, GenerateContent(m, c, row, e)
      PROVE  ReviewInv'
  <2>1. /\ status[c] = "NONE" /\ status' = [status EXCEPT ![c] = "DRAFT"]
        /\ current' = [current EXCEPT ![c] = 1] /\ approval' = approval
    BY <1>2 DEF GenerateContent
  <2>2. \A v \in Versions : Unseen(approval[c][v])
    BY <1>t, <2>1, ContentAssumption DEF ReviewInv, ItemFits, Versions
  <2>3. ItemFits("DRAFT", 1, approval[c])
    BY <2>2, ContentAssumption DEF ItemFits, RowFits, Versions
  <2> QED
    BY <1>t, <2>1, <2>3 DEF TypeOK, ReviewInv
<1>3. ASSUME NEW m \in Members, NEW c \in Contents, SubmitInternal(m, c)
      PROVE  ReviewInv'
  <2>1. /\ status[c] = "DRAFT" /\ status' = [status EXCEPT ![c] = "INTERNAL_REVIEW"]
        /\ UNCHANGED <<current, approval>>
    BY <1>3 DEF SubmitInternal, Transition, MayBecome, TransitionTable
  <2>2. ItemFits("INTERNAL_REVIEW", current[c], approval[c])
    BY <1>t, <2>1 DEF ReviewInv, ItemFits, RowFits
  <2> QED
    BY <1>t, <2>1, <2>2 DEF TypeOK, ReviewInv
<1>4. ASSUME NEW m \in Members, NEW c \in Contents, SendToClient(m, c)
      PROVE  ReviewInv'
  <2>1. status[c] = "INTERNAL_REVIEW"
    BY <1>4 DEF SendToClient, Transition, MayBecome, TransitionTable
  <2>2. RowFits("CLIENT_REVIEW", [k \in Components |-> "PENDING"])
    BY DEF RowFits, Open, Components
  <2> QED
    BY <1>t, <1>4, <2>1, <2>2, DecisionFits DEF SendToClient, Transition
<1>5. ASSUME NEW m \in Members, NEW c \in Contents, NEW k \in Components,
             ApproveComponent(m, c, k)
      PROVE  ReviewInv'
  <2> DEFINE old == approval[c][current[c]]
             row == WithApproved(old, k)
  <2>1. status[c] = "CLIENT_REVIEW" /\ old[k] = "PENDING" /\ Open(old)
    BY <1>t, <1>5, CurrentStored
       DEF ApproveComponent, Acquire, Reaches, Undecided, ReviewInv, ItemFits, RowFits,
           Unseen, Returned, Accepted, IInv
  <2>2. current[c] \in Versions /\ old \in [Components -> ApprovalStatus \cup {"NONE"}]
    BY <1>t, <2>1, CurrentStored DEF TypeOK
  <2>3. \A j \in Components : row[j] \in {"PENDING", "APPROVED"}
    BY <2>1, <2>2 DEF WithApproved, Open
  <2>4. CASE AllApproved(row)
    BY <1>t, <1>5, <2>1, <2>4, DecisionFits
       DEF ApproveComponent, Transition, AllApproved, RowFits, Accepted
  <2>5. CASE ~AllApproved(row)
    <3>1. RowFits("CLIENT_REVIEW", row)
      BY <2>3, <2>5 DEF AllApproved, RowFits, Open
    <3>2. status' = [status EXCEPT ![c] = "CLIENT_REVIEW"]
      BY <1>t, <1>5, <2>1, <2>5 DEF ApproveComponent, TypeOK
    <3> QED
      BY <1>t, <1>5, <2>1, <3>1, <3>2, DecisionFits DEF ApproveComponent
  <2> QED
    BY <2>4, <2>5
<1>6. ASSUME NEW m \in Members, NEW c \in Contents, NEW k \in Components,
             RequestChanges(m, c, k)
      PROVE  ReviewInv'
  <2> DEFINE old == approval[c][current[c]]
             row == WithChanges(old, k)
  <2>1. status[c] = "CLIENT_REVIEW" /\ old[k] = "PENDING" /\ Open(old)
    BY <1>t, <1>6, CurrentStored
       DEF RequestChanges, Acquire, Reaches, Undecided, ReviewInv, ItemFits, RowFits,
           Unseen, Returned, Accepted, IInv
  <2>2. RowFits("CHANGES_REQUESTED", row)
    BY <2>1 DEF RowFits, Returned, WithChanges, Open
  <2> QED
    BY <1>t, <1>6, <2>1, <2>2, DecisionFits DEF RequestChanges, Transition
<1>7. ASSUME NEW m \in Members, NEW c \in Contents, NEW text \in Texts,
             CreateRevision(m, c, text)
      PROVE  ReviewInv'
  BY <1>t, <1>7, RevisionFits DEF CreateRevision
<1>8. ASSUME NEW m \in Members, NEW c \in Contents, NEW visual \in Visuals,
             NEW md \in MediaAssets \cup {None}, CreateVisualRevision(m, c, visual, md)
      PROVE  ReviewInv'
  BY <1>t, <1>8, RevisionFits DEF CreateVisualRevision
<1>9. ASSUME NEW c \in Contents, CommitPublication(c) PROVE ReviewInv'
  <2>1. /\ status[c] \in {"APPROVED", "SCHEDULED"}
        /\ status' = [status EXCEPT ![c] = "PUBLISHED"]
        /\ UNCHANGED <<current, approval>>
    BY <1>9 DEF CommitPublication, MayBecome, TransitionTable
  <2>2. ItemFits("PUBLISHED", current[c], approval[c])
    BY <1>t, <2>1 DEF ReviewInv, ItemFits, RowFits
  <2> QED
    BY <1>t, <2>1, <2>2 DEF TypeOK, ReviewInv
<1> QED
  BY <1>1, <1>2, <1>3, <1>4, <1>5, <1>6, <1>7, <1>8, <1>9, StepKinds

\* Every step stores the versions it makes current.
LEMMA VersionsStep == IInv /\ [Next]_vars => VersionsStored'
<1> SUFFICES ASSUME IInv, [Next]_vars PROVE VersionsStored'
  OBVIOUS
<1>t. TypeOK /\ VersionsStored
  BY DEF IInv
<1>1. ASSUME NEW m \in Members, NEW c \in Contents, NEW row \in VersionRows,
             NEW e \in Entries \cup {None}, GenerateContent(m, c, row, e)
      PROVE  VersionsStored'
  BY <1>t, <1>1, ContentAssumption DEF GenerateContent, TypeOK, VersionsStored, Versions
<1>2. ASSUME NEW c \in Contents, NEW row \in VersionRows, AddVersion(c, row)
      PROVE  VersionsStored'
  BY <1>t, <1>2, ContentAssumption DEF AddVersion, NextVersion, TypeOK, VersionsStored, Versions
<1>3. ASSUME NEW m \in Members, NEW c \in Contents, NEW text \in Texts,
             CreateRevision(m, c, text)
      PROVE  VersionsStored'
  <2>1. CurrentRow(c) \in VersionRows
    BY <1>3, CurrentStored DEF CreateRevision, Acquire, Reaches
  <2>2. [CurrentRow(c) EXCEPT !.text = text] \in VersionRows
    BY <2>1 DEF VersionRows
  <2> QED
    BY <1>3, <1>2, <2>2 DEF CreateRevision
<1>4. ASSUME NEW m \in Members, NEW c \in Contents, NEW visual \in Visuals,
             NEW md \in MediaAssets \cup {None}, CreateVisualRevision(m, c, visual, md)
      PROVE  VersionsStored'
  <2>1. CurrentRow(c) \in VersionRows
    BY <1>4, CurrentStored DEF CreateVisualRevision, Acquire, Reaches
  <2>2. [CurrentRow(c) EXCEPT !.visual = visual, !.media = md] \in VersionRows
    BY <2>1 DEF VersionRows
  <2> QED
    BY <1>4, <1>2, <2>2 DEF CreateVisualRevision
<1>5. CASE UNCHANGED <<current, version>>
  BY <1>t, <1>5 DEF VersionsStored
<1>6. ASSUME NEW m \in Members, NEW c \in Contents,
             \/ SubmitInternal(m, c)
             \/ SendToClient(m, c)
             \/ \E k \in Components : ApproveComponent(m, c, k) \/ RequestChanges(m, c, k)
             \/ CommitPublication(c)
      PROVE  UNCHANGED <<current, version>>
  BY <1>6 DEF SubmitInternal, SendToClient, ApproveComponent, RequestChanges, CommitPublication
<1>7. ASSUME NEW c \in Contents, CommitPublication(c) PROVE UNCHANGED <<current, version>>
  BY <1>7 DEF CommitPublication
<1>8. CASE OtherVarsStep
  BY <1>5, <1>8 DEF OtherVarsStep
<1> QED
  BY <1>1, <1>3, <1>4, <1>5, <1>6, <1>7, <1>8, StepKinds

THEOREM Invariance == Spec => []IInv
<1>1. IInv /\ [Next]_vars => IInv'
  BY TypeStep, ReviewStep, VersionsStep DEF IInv
<1> QED
  BY InitIInv, <1>1, PTL DEF Spec

-----------------------------------------------------------------------------
(* What follows from the invariant.                                        *)

\* The types of the state, for every instance.
THEOREM TypeCorrect == Spec => []TypeOK
BY Invariance, PTL DEF IInv

\* No decision is left open outside the review of the current version.
THEOREM NothingPendingOutsideReview == Spec => []PendingOnlyUnderReview
<1>1. IInv => PendingOnlyUnderReview
  <2> SUFFICES ASSUME IInv, NEW c \in Contents, NEW v \in Versions, NEW k \in Components,
                      approval[c][v][k] = "PENDING"
               PROVE  v = current[c] /\ status[c] = "CLIENT_REVIEW"
    BY DEF PendingOnlyUnderReview
  <2>1. ItemFits(status[c], current[c], approval[c]) /\ current[c] \in 0..MaxVersions
    BY DEF IInv, ReviewInv, TypeOK
  <2>2. ~Unseen(approval[c][v]) /\ ~Returned(approval[c][v]) /\ ~Accepted(approval[c][v])
    BY DEF Unseen, Returned, Accepted
  <2>3. v = current[c]
    BY <2>1, <2>2, ContentAssumption DEF ItemFits, Versions
  <2> QED
    BY <2>1, <2>2, <2>3 DEF ItemFits, RowFits
<1> QED
  BY Invariance, <1>1, PTL

\* The status of an item is what the decisions on its current version say.
THEOREM StatusAgreesWithDecisions == Spec => []StatusFollowsDecisions
<1>1. IInv => StatusFollowsDecisions
  <2> SUFFICES ASSUME IInv, NEW c \in Contents, status[c] # "NONE"
               PROVE  LET row == approval[c][current[c]]
                      IN /\ status[c] \in {"APPROVED", "SCHEDULED", "PUBLISHED"}
                              <=> \A k \in Components : row[k] = "APPROVED"
                         /\ status[c] = "CLIENT_REVIEW" <=> \E k \in Components : row[k] = "PENDING"
                         /\ status[c] = "CHANGES_REQUESTED"
                              <=> \E k \in Components : row[k] = "CHANGES_REQUESTED"
    BY DEF StatusFollowsDecisions
  <2>1. RowFits(status[c], approval[c][current[c]])
    BY CurrentStored DEF IInv, ReviewInv, ItemFits
  <2> QED
    BY <2>1 DEF RowFits, Unseen, Open, Returned, Accepted, Components
<1> QED
  BY Invariance, <1>1, PTL

\* Only a version the client returned is ever superseded.
THEOREM SupersededWasReturned == Spec => []SupersededOnlyByRejection
<1>1. IInv => SupersededOnlyByRejection
  BY DEF IInv, ReviewInv, ItemFits, Returned, SupersededOnlyByRejection
<1> QED
  BY Invariance, <1>1, PTL

\* What the portal lists has been released to the client.
THEOREM PortalShowsReleased == Spec => []PortalShowsReleasedVersion
<1>1. IInv => PortalShowsReleasedVersion
  <2> SUFFICES ASSUME IInv, NEW c \in Contents, status[c] \in ClientVisible,
                      NEW k \in Components
               PROVE  approval[c][current[c]][k] # "NONE"
    BY DEF PortalShowsReleasedVersion
  <2>1. RowFits(status[c], approval[c][current[c]])
    BY CurrentStored DEF IInv, ReviewInv, ItemFits, ClientVisible
  <2> QED
    BY <2>1 DEF ClientVisible, RowFits, Open, Returned, Accepted
<1> QED
  BY Invariance, <1>1, PTL

\* A decided component keeps its decision and its author.
THEOREM DecisionsFinal == Spec => DecisionsAreFinal
<1> DEFINE Final(c, v, k) ==
      approval[c][v][k] \notin {"NONE", "PENDING"} =>
        /\ approval'[c][v][k] = approval[c][v][k]
        /\ decidedBy'[c][v][k] = decidedBy[c][v][k]
<1>1. ASSUME IInv, Next, NEW c \in Contents, NEW v \in Versions, NEW k \in Components
      PROVE  Final(c, v, k)
  <2>t. TypeOK
    BY <1>1 DEF IInv
  <2>1. CASE UNCHANGED <<approval, decidedBy>>
    BY <2>1
  <2>2. ASSUME NEW m \in Members, NEW d \in Contents, SendToClient(m, d)
        PROVE  Final(c, v, k)
    BY <2>t, <2>2 DEF SendToClient, TypeOK
  <2>3. ASSUME NEW m \in Members, NEW d \in Contents, NEW j \in Components,
               ApproveComponent(m, d, j)
        PROVE  Final(c, v, k)
    <3>1. current[d] \in Versions
      BY <1>1, <2>3, CurrentStored DEF ApproveComponent, Acquire, Reaches
    <3> QED
      BY <2>t, <2>3, <3>1 DEF ApproveComponent, Undecided, WithApproved, Deciding, TypeOK
  <2>4. ASSUME NEW m \in Members, NEW d \in Contents, NEW j \in Components,
               RequestChanges(m, d, j)
        PROVE  Final(c, v, k)
    <3>1. current[d] \in Versions
      BY <1>1, <2>4, CurrentStored DEF RequestChanges, Acquire, Reaches
    <3> QED
      BY <2>t, <2>4, <3>1 DEF RequestChanges, Undecided, WithChanges, Deciding, TypeOK
  <2>5. ASSUME NEW m \in Members, NEW d \in Contents,
               \/ \E row \in VersionRows, e \in Entries \cup {None} : GenerateContent(m, d, row, e)
               \/ SubmitInternal(m, d)
               \/ \E text \in Texts : CreateRevision(m, d, text)
               \/ \E visual \in Visuals, md \in MediaAssets \cup {None} :
                    CreateVisualRevision(m, d, visual, md)
               \/ CommitPublication(d)
        PROVE  Final(c, v, k)
    BY <2>1, <2>5 DEF GenerateContent, SubmitInternal, CreateRevision, CreateVisualRevision,
                      AddVersion, CommitPublication
  <2>6. ASSUME NEW d \in Contents, CommitPublication(d) PROVE Final(c, v, k)
    BY <2>1, <2>6 DEF CommitPublication
  <2> QED
    BY <1>1, <2>1, <2>2, <2>3, <2>4, <2>5, <2>6, StepKinds DEF OtherVarsStep
<1>2. IInv /\ [Next]_vars => [\A c \in Contents, v \in Versions, k \in Components :
                                Final(c, v, k)]_vars
  BY <1>1
<1> QED
  BY Invariance, <1>2, PTL DEF Spec, DecisionsAreFinal

\* A version that has been put before the client is never edited.
THEOREM ReleasedFrozen == Spec => ReleasedVersionFrozen
<1> DEFINE Frozen(c, v) ==
      (\E k \in Components : approval[c][v][k] # "NONE") => version'[c][v] = version[c][v]
<1>1. ASSUME IInv, Next, NEW c \in Contents, NEW v \in Versions PROVE Frozen(c, v)
  <2>t. TypeOK /\ ReviewInv
    BY <1>1 DEF IInv
  <2>1. CASE UNCHANGED version
    BY <2>1
  <2>2. ASSUME NEW m \in Members, NEW d \in Contents, NEW row \in VersionRows,
               NEW e \in Entries \cup {None}, GenerateContent(m, d, row, e)
        PROVE  Frozen(c, v)
    <3>1. status[d] = "NONE" /\ version' = [version EXCEPT ![d][1] = row]
      BY <2>2 DEF GenerateContent
    <3>2. Unseen(approval[d][1])
      BY <2>t, <3>1, ContentAssumption DEF ReviewInv, ItemFits, Versions
    <3> QED
      BY <2>t, <3>1, <3>2 DEF Unseen, TypeOK
  <2>3. ASSUME NEW d \in Contents, NEW row, AddVersion(d, row) PROVE Frozen(c, v)
    <3>1. current[d] + 1 \in Versions /\ version' = [version EXCEPT ![d][current[d] + 1] = row]
      BY <2>3 DEF AddVersion, NextVersion
    <3>2. Unseen(approval[d][current[d] + 1])
      BY <2>t, <3>1, ContentAssumption DEF ReviewInv, ItemFits, TypeOK, Versions
    <3> QED
      BY <2>t, <3>1, <3>2 DEF Unseen, TypeOK
  <2>4. ASSUME NEW m \in Members, NEW d \in Contents,
               \/ SubmitInternal(m, d)
               \/ SendToClient(m, d)
               \/ \E k \in Components : ApproveComponent(m, d, k) \/ RequestChanges(m, d, k)
        PROVE  Frozen(c, v)
    BY <2>1, <2>4 DEF SubmitInternal, SendToClient, ApproveComponent, RequestChanges
  <2>5. ASSUME NEW d \in Contents, CommitPublication(d) PROVE Frozen(c, v)
    BY <2>1, <2>5 DEF CommitPublication
  <2>6. ASSUME NEW m \in Members, NEW d \in Contents,
               \/ \E text \in Texts : CreateRevision(m, d, text)
               \/ \E visual \in Visuals, md \in MediaAssets \cup {None} :
                    CreateVisualRevision(m, d, visual, md)
        PROVE  Frozen(c, v)
    BY <2>3, <2>6 DEF CreateRevision, CreateVisualRevision
  <2> QED
    BY <1>1, <2>1, <2>2, <2>4, <2>5, <2>6, StepKinds DEF OtherVarsStep
<1>2. IInv /\ [Next]_vars => [\A c \in Contents, v \in Versions : Frozen(c, v)]_vars
  BY <1>1
<1> QED
  BY Invariance, <1>2, PTL DEF Spec, ReleasedVersionFrozen

\* Two items never hold the same publication key.
THEOREM PublicationKeysUnique == Spec => []PublicationKeyUnique
<1>1. Init => PublicationKeyUnique
  BY DEF Init, PublicationKeyUnique
<1>2. TypeOK /\ PublicationKeyUnique /\ [Next]_vars => PublicationKeyUnique'
  <2> SUFFICES ASSUME TypeOK, PublicationKeyUnique, [Next]_vars PROVE PublicationKeyUnique'
    OBVIOUS
  <2>1. ASSUME NEW c \in Contents, CommitPublication(c) PROVE PublicationKeyUnique'
    BY <2>1 DEF CommitPublication, KeyUnused, TypeOK, PublicationKeyUnique
  <2>2. CASE UNCHANGED publicationKey
    BY <2>2 DEF PublicationKeyUnique
  <2>3. CASE \E m \in Members, c \in Contents : ContentStep(m, c)
    <3> SUFFICES ASSUME NEW m \in Members, NEW c \in Contents, ContentStep(m, c)
                 PROVE  UNCHANGED publicationKey
      BY <2>2, <2>3
    <3>1. ASSUME NEW text \in Texts, CreateRevision(m, c, text)
          PROVE  UNCHANGED publicationKey
      BY <3>1 DEF CreateRevision
    <3>2. ASSUME NEW visual \in Visuals, NEW md \in MediaAssets \cup {None},
                 CreateVisualRevision(m, c, visual, md)
          PROVE  UNCHANGED publicationKey
      BY <3>2 DEF CreateVisualRevision
    <3> QED
      BY <3>1, <3>2 DEF ContentStep, GenerateContent, SubmitInternal, SendToClient,
         ApproveComponent, RequestChanges, ReplayPublication, CheckPublication
  <2>4. CASE \E m \in Members : OtherStep(m)
    BY <2>2, <2>4 DEF OtherStep, Authenticate, Refuse, ReadBusiness, UploadMedia,
       ArchiveMedia, ArchiveBusiness, UpdateMember
  <2>5. CASE \E c \in Contents : RollbackPublication(c)
    BY <2>2, <2>5 DEF RollbackPublication
  <2>6. CASE UNCHANGED vars
    BY <2>2, <2>6 DEF vars
  <2> QED
    BY <2>1, <2>3, <2>4, <2>5, <2>6 DEF Next
<1> QED
  BY <1>1, <1>2, TypeCorrect, PTL DEF Spec

-----------------------------------------------------------------------------
(* Published items and archived businesses.                                *)

\* The step leaves item c as it is.
SameItem(c) ==
  /\ status'[c] = status[c] /\ current'[c] = current[c]
  /\ version'[c] = version[c] /\ approval'[c] = approval[c]
  /\ publicationKey'[c] = publicationKey[c] /\ entryOf'[c] = entryOf[c]

\* A step changes only an item that is new or whose business is active, by a legal
\* transition or a decision on a component that still waits, or commits its publication.
LEMMA ItemChanges ==
  ASSUME IInv, [Next]_vars, NEW c \in Contents, status[c] # "NONE", ~SameItem(c)
  PROVE  \/ /\ businessActive[Owner[c]]
            /\ \/ \E target \in {"INTERNAL_REVIEW", "CLIENT_REVIEW", "DRAFT"} :
                    MayBecome(status[c], target)
               \/ \E k \in Components : Undecided(c, k)
         \/ CommitPublication(c)
<1>t. TypeOK
  BY DEF IInv
<1>2. ~UNCHANGED <<status, current, version, approval, publicationKey, entryOf>>
  BY DEF SameItem
<1>3. ASSUME NEW d \in Contents, CommitPublication(d)
      PROVE  CommitPublication(c)
  <2>1. d = c
    BY <1>t, <1>3 DEF CommitPublication, SameItem, TypeOK
  <2> QED
    BY <1>3, <2>1
<1>4. ASSUME NEW m \in Members, OtherStep(m) PROVE FALSE
  BY <1>2, <1>4 DEF OtherStep, Authenticate, Refuse, ReadBusiness, UploadMedia, ArchiveMedia,
                    ArchiveBusiness, UpdateMember, contentVars, calendarVars
<1>5. ASSUME NEW m \in Members, NEW d \in Contents, ContentStep(m, d)
      PROVE  /\ businessActive[Owner[c]]
             /\ \/ \E target \in {"INTERNAL_REVIEW", "CLIENT_REVIEW", "DRAFT"} :
                     MayBecome(status[c], target)
                \/ \E k \in Components : Undecided(c, k)
  <2>1. ASSUME NEW row \in VersionRows, NEW e \in Entries \cup {None},
               GenerateContent(m, d, row, e)
        PROVE  FALSE
    <3>1. d # c
      BY <2>1 DEF GenerateContent
    <3>2. status'[c] = status[c] /\ current'[c] = current[c] /\ version'[c] = version[c]
      BY <1>t, <2>1, <3>1 DEF GenerateContent, TypeOK
    <3>3. entryOf'[c] = entryOf[c] /\ UNCHANGED <<approval, publicationKey>>
      BY <1>t, <2>1, <3>1 DEF GenerateContent, TypeOK
    <3> QED
      BY <3>2, <3>3 DEF SameItem
  <2>2. CASE SubmitInternal(m, d)
    <3>1. d = c
      BY <1>t, <2>2 DEF SubmitInternal, Transition, SameItem, calendarVars, TypeOK
    <3> QED
      BY <2>2, <3>1 DEF SubmitInternal, Acquire, Reaches, Transition
  <2>3. CASE SendToClient(m, d)
    <3>1. d = c
      <4>1. /\ status' = [status EXCEPT ![d] = "CLIENT_REVIEW"]
            /\ approval' = [approval EXCEPT ![d][current[d]] = [k \in Components |-> "PENDING"]]
            /\ UNCHANGED <<current, version, publicationKey, entryOf>>
        BY <2>3 DEF SendToClient, Transition, calendarVars
      <4> QED
        BY <1>t, <4>1 DEF SameItem, TypeOK
    <3> QED
      BY <2>3, <3>1 DEF SendToClient, Acquire, Reaches, Transition
  <2>4. ASSUME NEW k \in Components, ApproveComponent(m, d, k)
        PROVE  businessActive[Owner[c]] /\ Undecided(c, k)
    <3>1. d = c
      <4>1. /\ status' = [status EXCEPT ![d] = "APPROVED"] \/ status' = status
            /\ approval' = [approval EXCEPT
                              ![d][current[d]] = WithApproved(approval[d][current[d]], k)]
            /\ UNCHANGED <<current, version, publicationKey, entryOf>>
        BY <2>4 DEF ApproveComponent, Transition, calendarVars
      <4> QED
        BY <1>t, <4>1 DEF SameItem, TypeOK
    <3> QED
      BY <2>4, <3>1 DEF ApproveComponent, Acquire, Reaches
  <2>5. ASSUME NEW k \in Components, RequestChanges(m, d, k)
        PROVE  businessActive[Owner[c]] /\ Undecided(c, k)
    <3>1. d = c
      <4>1. /\ status' = [status EXCEPT ![d] = "CHANGES_REQUESTED"]
            /\ approval' = [approval EXCEPT
                              ![d][current[d]] = WithChanges(approval[d][current[d]], k)]
            /\ UNCHANGED <<current, version, publicationKey, entryOf>>
        BY <2>5 DEF RequestChanges, Transition, calendarVars
      <4> QED
        BY <1>t, <4>1 DEF SameItem, TypeOK
    <3> QED
      BY <2>5, <3>1 DEF RequestChanges, Acquire, Reaches
  <2>6. ASSUME NEW row, AddVersion(d, row), UNCHANGED <<entryOf, publicationKey>>
        PROVE  d = c
    <3>1. /\ status' = [status EXCEPT ![d] = "DRAFT"]
          /\ current' = [current EXCEPT ![d] = NextVersion(d)]
          /\ version' = [version EXCEPT ![d][NextVersion(d)] = row]
          /\ UNCHANGED approval
      BY <2>6 DEF AddVersion, Transition
    <3> HIDE DEF NextVersion
    <3> QED
      BY <1>t, <2>6, <3>1 DEF SameItem, TypeOK
  <2>7. ASSUME NEW text \in Texts, CreateRevision(m, d, text)
        PROVE  businessActive[Owner[c]] /\ MayBecome(status[c], "DRAFT")
    <3>1. d = c
      BY <2>6, <2>7 DEF CreateRevision, calendarVars
    <3> QED
      BY <2>7, <3>1 DEF CreateRevision, AddVersion, Transition, Acquire, Reaches
  <2>8. ASSUME NEW visual \in Visuals, NEW md \in MediaAssets \cup {None},
               CreateVisualRevision(m, d, visual, md)
        PROVE  businessActive[Owner[c]] /\ MayBecome(status[c], "DRAFT")
    <3>1. d = c
      BY <2>6, <2>8 DEF CreateVisualRevision, calendarVars
    <3> QED
      BY <2>8, <3>1 DEF CreateVisualRevision, AddVersion, Transition, Acquire, Reaches
  <2>9. ASSUME NEW k \in Keys, ReplayPublication(m, d, k) \/ CheckPublication(m, d, k)
        PROVE  FALSE
    BY <1>2, <2>9 DEF ReplayPublication, CheckPublication, contentVars, calendarVars
  <2> QED
    BY <1>5, <2>1, <2>2, <2>3, <2>4, <2>5, <2>7, <2>8, <2>9 DEF ContentStep
<1>6. \A d \in Contents : ~RollbackPublication(d)
  BY <1>2 DEF RollbackPublication, contentVars, calendarVars
<1>7. ~UNCHANGED vars
  BY <1>2 DEF vars, contentVars, calendarVars
<1> QED
  BY <1>3, <1>4, <1>5, <1>6, <1>7 DEF Next

\* A published item is never changed again: no handler takes it out of PUBLISHED and
\* none of its components waits.
THEOREM PublishedFrozen == Spec => PublishedItemFrozen
<1>1. IInv /\ [Next]_vars => [\A c \in Contents : status[c] = "PUBLISHED" => SameItem(c)]_vars
  <2> SUFFICES ASSUME IInv, [Next]_vars, NEW c \in Contents, status[c] = "PUBLISHED",
                      ~SameItem(c)
               PROVE  FALSE
    OBVIOUS
  <2>1. ~CommitPublication(c)
    BY DEF CommitPublication, MayBecome, TransitionTable
  <2>2. \A k \in Components : ~Undecided(c, k)
    <3>1. RowFits(status[c], approval[c][current[c]])
      BY CurrentStored DEF IInv, ReviewInv, ItemFits
    <3> QED
      BY <3>1 DEF RowFits, Accepted, Undecided
  <2> QED
    BY <2>1, <2>2, ItemChanges DEF MayBecome, TransitionTable
<1> QED
  BY Invariance, <1>1, PTL DEF Spec, PublishedItemFrozen, SameItem

\* A publication that has checked its item holds the lock of the business, which is
\* therefore not archived before the commit.
PublishersActive == \A c \in Contents : publishing[c] # None => businessActive[Owner[c]]

LEMMA PublishersStep == TypeOK /\ PublishersActive /\ [Next]_vars => PublishersActive'
<1> SUFFICES ASSUME TypeOK, PublishersActive, [Next]_vars PROVE PublishersActive'
  OBVIOUS
<1>1. CASE UNCHANGED <<publishing, businessActive>>
  BY <1>1 DEF PublishersActive
<1>2. ASSUME NEW m \in Members, NEW c \in Contents, ContentStep(m, c)
      PROVE  PublishersActive'
  <2>1. ASSUME NEW k \in Keys, CheckPublication(m, c, k)
        PROVE  PublishersActive'
    BY <2>1 DEF CheckPublication, Acquire, Reaches, accessVars, PublishersActive, TypeOK
  <2>2. ASSUME NEW text \in Texts, CreateRevision(m, c, text)
        PROVE  PublishersActive'
    BY <1>1, <2>2 DEF CreateRevision, accessVars
  <2>3. ASSUME NEW visual \in Visuals, NEW md \in MediaAssets \cup {None},
               CreateVisualRevision(m, c, visual, md)
        PROVE  PublishersActive'
    BY <1>1, <2>3 DEF CreateVisualRevision, accessVars
  <2> QED
    BY <1>1, <1>2, <2>1, <2>2, <2>3
       DEF ContentStep, GenerateContent, SubmitInternal, SendToClient, ApproveComponent,
           RequestChanges, ReplayPublication, accessVars
<1>3. ASSUME NEW m \in Members, OtherStep(m)
      PROVE  PublishersActive'
  <2>1. ASSUME NEW b \in Businesses, ArchiveBusiness(m, b)
        PROVE  PublishersActive'
    BY <2>1 DEF ArchiveBusiness, Locked, PublishersActive, TypeOK
  <2> QED
    BY <1>1, <1>3, <2>1 DEF OtherStep, Authenticate, Refuse, ReadBusiness, UploadMedia,
                            ArchiveMedia, UpdateMember, accessVars
<1>4. ASSUME NEW c \in Contents, CommitPublication(c) \/ RollbackPublication(c)
      PROVE  PublishersActive'
  BY <1>4 DEF CommitPublication, RollbackPublication, accessVars, PublishersActive, TypeOK
<1>5. CASE UNCHANGED vars
  BY <1>1, <1>5 DEF vars, accessVars
<1> QED
  BY <1>2, <1>3, <1>4, <1>5 DEF Next

\* The items of an archived business are never changed again, a publication that had
\* checked its item before the archival included.
THEOREM ArchivedFrozen == Spec => ArchivedBusinessFrozen
<1>1. Init => PublishersActive
  BY DEF Init, PublishersActive
<1>2. IInv /\ PublishersActive /\ [Next]_vars =>
        [\A c \in Contents : ~businessActive[Owner[c]] /\ status[c] # "NONE" => SameItem(c)]_vars
  BY ItemChanges DEF PublishersActive, CommitPublication
<1>3. [\A c \in Contents : ~businessActive[Owner[c]] /\ status[c] # "NONE" => SameItem(c)]_vars
        => [\A c \in Contents : ~businessActive[Owner[c]] /\ status[c] # "NONE" =>
              /\ status'[c] = status[c] /\ current'[c] = current[c]
              /\ approval'[c] = approval[c] /\ publicationKey'[c] = publicationKey[c]]_vars
  BY DEF SameItem
<1> QED
  BY Invariance, TypeCorrect, PublishersStep, <1>1, <1>2, <1>3, PTL
     DEF Spec, ArchivedBusinessFrozen

-----------------------------------------------------------------------------
(* The keys of the notification e-mails.                                   *)

\* A job was queued for a version that was sent, or a component that was decided.
MailInv ==
  \A key \in emailJobs :
    LET row == approval[key.content][key.version]
    IN /\ key.kind = "review" => \E k \in Components : row[k] # "NONE"
       /\ key.kind # "review" => /\ key.component \in Components
                                 /\ row[key.component] \notin {"NONE", "PENDING"}

\* Decisions are made once and never undone, so what was queued stays justified.
LEMMA MailStays ==
  ASSUME TypeOK, MailInv, NEW jobs,
         emailJobs' \subseteq emailJobs \cup jobs,
         \A c \in Contents, v \in Versions, k \in Components :
           /\ approval[c][v][k] # "NONE" => approval'[c][v][k] # "NONE"
           /\ approval[c][v][k] \notin {"NONE", "PENDING"} =>
                approval'[c][v][k] \notin {"NONE", "PENDING"},
         \A key \in jobs :
           LET row == approval'[key.content][key.version]
           IN /\ key.kind = "review" => \E k \in Components : row[k] # "NONE"
              /\ key.kind # "review" => /\ key.component \in Components
                                        /\ row[key.component] \notin {"NONE", "PENDING"}
  PROVE  MailInv'
<1>1. \A key \in emailJobs : key.content \in Contents /\ key.version \in Versions
  BY DEF TypeOK, EmailKeys
<1> QED
  BY <1>1 DEF MailInv

LEMMA MailStep == IInv /\ MailInv /\ [Next]_vars => MailInv'
<1> SUFFICES ASSUME IInv, MailInv, [Next]_vars PROVE MailInv'
  OBVIOUS
<1>t. TypeOK
  BY DEF IInv
<1>1. CASE UNCHANGED <<approval, emailJobs>>
  BY <1>1 DEF MailInv
<1>2. ASSUME NEW m \in Members, NEW c \in Contents, SendToClient(m, c)
      PROVE  MailInv'
  <2> DEFINE v == current[c]
             jobs == ReviewKeys(c, v, ReviewersOf(Owner[c]))
  <2>1. v \in Versions
    BY <1>2, CurrentStored DEF SendToClient, Acquire, Reaches
  <2>2. /\ approval' = [approval EXCEPT ![c][v] = [k \in Components |-> "PENDING"]]
        /\ \A k \in Components : approval[c][v][k] = "NONE"
        /\ emailJobs' = emailJobs \cup jobs
    BY <1>2 DEF SendToClient, Enqueue
  <2>3. \A k \in Components : approval'[c][v][k] = "PENDING"
    BY <1>t, <2>1, <2>2 DEF TypeOK
  <2>4. \A key \in jobs : key.content = c /\ key.version = v /\ key.kind = "review"
    BY DEF ReviewKeys
  <2> HIDE DEF v, jobs
  <2>5. \A key \in jobs : \E k \in Components : approval'[key.content][key.version][k] # "NONE"
    BY <2>3, <2>4 DEF Components
  <2>6. \A d \in Contents, w \in Versions, k \in Components :
          approval'[d][w][k] = approval[d][w][k] \/ approval[d][w][k] = "NONE"
    BY <1>t, <2>1, <2>2 DEF TypeOK
  <2>7. \A d \in Contents, w \in Versions, k \in Components :
          approval'[d][w][k] = "NONE" => approval[d][w][k] = "NONE"
    BY <1>t, <2>1, <2>2 DEF TypeOK
  <2>8. \A key \in jobs :
          LET r == approval'[key.content][key.version]
          IN /\ key.kind = "review" => \E k \in Components : r[k] # "NONE"
             /\ key.kind # "review" => /\ key.component \in Components
                                       /\ r[key.component] \notin {"NONE", "PENDING"}
    BY <2>4, <2>5
  <2>9. \A d \in Contents, w \in Versions, k \in Components :
          /\ approval[d][w][k] # "NONE" => approval'[d][w][k] # "NONE"
          /\ approval[d][w][k] \notin {"NONE", "PENDING"} =>
               approval'[d][w][k] \notin {"NONE", "PENDING"}
    BY <2>6, <2>7
  <2>10. emailJobs' \subseteq emailJobs \cup jobs
    BY <2>2
  <2> QED
    BY <1>t, <2>8, <2>9, <2>10, MailStays
<1>3. ASSUME NEW c \in Contents, NEW k \in Components, NEW jobs, NEW row,
             current[c] \in Versions,
             approval' = [approval EXCEPT ![c][current[c]] = row],
             emailJobs' = emailJobs \cup jobs,
             \A key \in jobs : /\ key.content = c /\ key.version = current[c]
                               /\ key.kind # "review" /\ key.component = k,
             row[k] \notin {"NONE", "PENDING"},
             \A j \in Components \ {k} : row[j] \in {"CANCELLED", approval[c][current[c]][j]}
      PROVE  MailInv'
  <2> DEFINE v == current[c]
  <2>1. approval'[c][v] = row /\ \A d \in Contents, w \in Versions :
          approval'[d][w] = approval[d][w] \/ (d = c /\ w = v)
    BY <1>t, <1>3 DEF TypeOK
  <2>2. \A j \in Components \ {k} : row[j] \in {"CANCELLED", approval[c][v][j]}
    BY <1>3
  <2>3. \A key \in jobs : key.content = c /\ key.version = v
    BY <1>3
  <2> HIDE DEF v
  <2>4. \A d \in Contents, w \in Versions, j \in Components :
          /\ approval[d][w][j] # "NONE" => approval'[d][w][j] # "NONE"
          /\ approval[d][w][j] \notin {"NONE", "PENDING"} =>
               approval'[d][w][j] \notin {"NONE", "PENDING"}
    BY <1>3, <2>1, <2>2
  <2>5. \A key \in jobs :
          LET r == approval'[key.content][key.version]
          IN /\ key.kind = "review" => \E j \in Components : r[j] # "NONE"
             /\ key.kind # "review" => /\ key.component \in Components
                                       /\ r[key.component] \notin {"NONE", "PENDING"}
    BY <1>3, <2>1, <2>3
  <2>6. emailJobs' \subseteq emailJobs \cup jobs
    BY <1>3
  <2> QED
    BY <1>t, <2>4, <2>5, <2>6, MailStays
<1>4. ASSUME NEW m \in Members, NEW c \in Contents, NEW k \in Components,
             ApproveComponent(m, c, k)
      PROVE  MailInv'
  <2> DEFINE row == WithApproved(approval[c][current[c]], k)
             jobs == DecisionKeys("approved", c, current[c], k, AgencyOf(Owner[c]))
  <2>1. /\ current[c] \in Versions /\ emailJobs' = emailJobs \cup jobs
        /\ approval' = [approval EXCEPT ![c][current[c]] = row]
    BY <1>4, CurrentStored DEF ApproveComponent, Acquire, Reaches, Enqueue
  <2>2. \A key \in jobs : /\ key.content = c /\ key.version = current[c]
                          /\ key.kind # "review" /\ key.component = k
    BY DEF DecisionKeys
  <2>3. row[k] = "APPROVED" /\ \A j \in Components \ {k} : row[j] = approval[c][current[c]][j]
    BY <1>t, <2>1 DEF WithApproved, TypeOK
  <2> HIDE DEF row, jobs
  <2>4. /\ row[k] \notin {"NONE", "PENDING"}
        /\ \A j \in Components \ {k} : row[j] \in {"CANCELLED", approval[c][current[c]][j]}
    BY <2>3
  <2> QED
    BY <1>3, <2>1, <2>2, <2>4
<1>5. ASSUME NEW m \in Members, NEW c \in Contents, NEW k \in Components,
             RequestChanges(m, c, k)
      PROVE  MailInv'
  <2> DEFINE row == WithChanges(approval[c][current[c]], k)
             jobs == DecisionKeys("changes", c, current[c], k, AgencyOf(Owner[c]))
  <2>1. /\ current[c] \in Versions /\ emailJobs' = emailJobs \cup jobs
        /\ approval' = [approval EXCEPT ![c][current[c]] = row]
    BY <1>5, CurrentStored DEF RequestChanges, Acquire, Reaches, Enqueue
  <2>2. \A key \in jobs : /\ key.content = c /\ key.version = current[c]
                          /\ key.kind # "review" /\ key.component = k
    BY DEF DecisionKeys
  <2>3. /\ row[k] = "CHANGES_REQUESTED"
        /\ \A j \in Components \ {k} : row[j] \in {"CANCELLED", approval[c][current[c]][j]}
    BY DEF WithChanges
  <2> HIDE DEF row, jobs
  <2>4. row[k] \notin {"NONE", "PENDING"}
    BY <2>3
  <2> QED
    BY <1>3, <2>1, <2>2, <2>3, <2>4
<1>6. ASSUME NEW m \in Members, NEW c \in Contents, ContentStep(m, c)
      PROVE  MailInv'
  <2>1. ASSUME NEW text \in Texts, CreateRevision(m, c, text)
        PROVE  MailInv'
    BY <1>1, <2>1 DEF CreateRevision, AddVersion
  <2>2. ASSUME NEW visual \in Visuals, NEW md \in MediaAssets \cup {None},
               CreateVisualRevision(m, c, visual, md)
        PROVE  MailInv'
    BY <1>1, <2>2 DEF CreateVisualRevision, AddVersion
  <2> QED
    BY <1>1, <1>2, <1>4, <1>5, <1>6, <2>1, <2>2
       DEF ContentStep, GenerateContent, SubmitInternal, ReplayPublication, CheckPublication,
           contentVars
<1>7. ASSUME NEW m \in Members, OtherStep(m)
      PROVE  MailInv'
  BY <1>1, <1>7 DEF OtherStep, Authenticate, Refuse, ReadBusiness, UploadMedia, ArchiveMedia,
                    ArchiveBusiness, UpdateMember, contentVars
<1>8. ASSUME NEW c \in Contents, CommitPublication(c) \/ RollbackPublication(c)
      PROVE  MailInv'
  BY <1>1, <1>8 DEF CommitPublication, RollbackPublication, contentVars
<1>9. CASE UNCHANGED vars
  BY <1>1, <1>9 DEF vars, contentVars
<1> QED
  BY <1>6, <1>7, <1>8, <1>9 DEF Next

\* No call that notifies finds one of its keys taken.
THEOREM KeysFree == Spec => []NotificationKeysAreFree
<1>1. Init => MailInv
  BY DEF Init, MailInv
<1>2. IInv /\ MailInv => NotificationKeysAreFree
  <2> SUFFICES ASSUME IInv, MailInv, NEW c \in Contents, NEW key \in emailJobs, key.content = c
               PROVE  /\ status[c] = "INTERNAL_REVIEW" =>
                           key \notin ReviewKeys(c, current[c], Members)
                      /\ \A k \in Components :
                           status[c] # "NONE" /\ approval[c][current[c]][k] = "PENDING" =>
                             key \notin DecisionKeys("approved", c, current[c], k, Members)
                                          \cup DecisionKeys("changes", c, current[c], k, Members)
    BY DEF NotificationKeysAreFree
  <2>1. ASSUME status[c] = "INTERNAL_REVIEW", key \in ReviewKeys(c, current[c], Members)
        PROVE  FALSE
    <3>1. Unseen(approval[c][current[c]])
      BY <2>1, CurrentStored DEF IInv, ReviewInv, ItemFits, RowFits
    <3>2. key.kind = "review" /\ key.version = current[c]
      BY <2>1 DEF ReviewKeys
    <3> QED
      BY <3>1, <3>2 DEF MailInv, Unseen
  <2>2. ASSUME NEW k \in Components, approval[c][current[c]][k] = "PENDING",
               key \in DecisionKeys("approved", c, current[c], k, Members)
                         \cup DecisionKeys("changes", c, current[c], k, Members)
        PROVE  FALSE
    <3>1. key.kind # "review" /\ key.version = current[c] /\ key.component = k
      BY <2>2 DEF DecisionKeys
    <3> QED
      BY <2>2, <3>1 DEF MailInv
  <2> QED
    BY <2>1, <2>2
<1> QED
  BY Invariance, MailStep, <1>1, <1>2, PTL DEF Spec

-----------------------------------------------------------------------------
(* The workflow implements the contract of ReviewContract.                 *)

\* The verdicts a row of decisions stands for.
LEMMA Verdicts ==
  ASSUME NEW row
  PROVE  /\ Unseen(row) => VerdictOf(row) = "unseen"
         /\ Open(row) => VerdictOf(row) = "open"
         /\ Returned(row) => VerdictOf(row) = "rejected"
         /\ Accepted(row) => VerdictOf(row) = "accepted"
BY DEF Unseen, Open, Returned, Accepted, VerdictOf, Components

\* Rewriting the row of one version rewrites its verdict.
LEMMA VerdictUpdate ==
  ASSUME TypeOK, NEW c \in Contents, NEW v \in Versions, NEW row,
         approval' = [approval EXCEPT ![c][v] = row]
  PROVE  Verdict' = [Verdict EXCEPT ![c][v] = VerdictOf(row)]
<1>1. Verdict' = [d \in Contents |-> [w \in Versions |-> VerdictOf(approval'[d][w])]]
  BY DEF Verdict, VerdictOf
<1>2. \A d \in Contents, w \in Versions :
        VerdictOf(approval'[d][w])
          = IF d = c /\ w = v THEN VerdictOf(row) ELSE VerdictOf(approval[d][w])
  BY DEF TypeOK
<1>3. [Verdict EXCEPT ![c][v] = VerdictOf(row)]
        = [d \in Contents |-> [w \in Versions |->
             IF d = c /\ w = v THEN VerdictOf(row) ELSE VerdictOf(approval[d][w])]]
  BY DEF Verdict
<1> QED
  BY <1>1, <1>2, <1>3

\* A step that publishes nothing and unpublishes nothing ships nothing.
LEMMA ShippedUnchanged ==
  ASSUME TypeOK, NEW c \in Contents, status[c] # "PUBLISHED", status'[c] # "PUBLISHED",
         \A d \in Contents \ {c} : status'[d] = status[d] /\ current'[d] = current[d]
  PROVE  Shipped' = Shipped
BY DEF Shipped

\* The review contract is implemented: every step of the workflow releases, decides
\* or ships as the contract allows, or leaves verdicts and shipments alone.
THEOREM Refinement == Spec => ImplementsReviewContract
<1> USE DEF Contract!contractVars
<1>1. Init => Contract!Init
  <2> SUFFICES ASSUME Init PROVE Contract!Init
    OBVIOUS
  <2>1. \A c \in Contents, v \in Versions : Unseen(approval[c][v])
    BY DEF Init, Unseen
  <2>2. Verdict = [c \in Contents |-> [v \in Versions |-> "unseen"]]
    BY <2>1, Verdicts DEF Verdict
  <2>3. Shipped = [c \in Contents |-> 0]
    BY DEF Init, Shipped
  <2> QED
    BY <2>2, <2>3 DEF Contract!Init, Versions
<1>2. IInv /\ [Next]_vars => [Contract!Next]_(Contract!contractVars)
  <2> SUFFICES ASSUME IInv, [Next]_vars PROVE [Contract!Next]_(Contract!contractVars)
    OBVIOUS
  <2>t. TypeOK /\ ReviewInv
    BY DEF IInv
  <2>0. CASE Verdict' = Verdict /\ Shipped' = Shipped
    BY <2>0
  <2>1. CASE OtherVarsStep
    BY <2>1, <2>0 DEF OtherVarsStep, Verdict, Shipped, VerdictOf
  <2>2. ASSUME NEW m \in Members, NEW c \in Contents, NEW row \in VersionRows,
               NEW e \in Entries \cup {None}, GenerateContent(m, c, row, e)
        PROVE  Verdict' = Verdict /\ Shipped' = Shipped
    <3>1. /\ status[c] = "NONE" /\ status'[c] = "DRAFT" /\ approval' = approval
          /\ \A d \in Contents \ {c} : status'[d] = status[d] /\ current'[d] = current[d]
      BY <2>t, <2>2 DEF GenerateContent, TypeOK
    <3> QED
      BY <2>t, <3>1, ShippedUnchanged DEF Verdict, VerdictOf
  <2>3. ASSUME NEW m \in Members, NEW c \in Contents, SubmitInternal(m, c)
        PROVE  Verdict' = Verdict /\ Shipped' = Shipped
    <3>1. /\ status[c] = "DRAFT" /\ status'[c] = "INTERNAL_REVIEW" /\ approval' = approval
          /\ \A d \in Contents \ {c} : status'[d] = status[d] /\ current'[d] = current[d]
      BY <2>t, <2>3 DEF SubmitInternal, Transition, MayBecome, TransitionTable, TypeOK
    <3> QED
      BY <2>t, <3>1, ShippedUnchanged DEF Verdict, VerdictOf
  <2>4. ASSUME NEW c \in Contents, NEW row, AddVersion(c, row)
        PROVE  Verdict' = Verdict /\ Shipped' = Shipped
    <3>1. /\ status[c] # "PUBLISHED" /\ status'[c] = "DRAFT" /\ approval' = approval
          /\ \A d \in Contents \ {c} : status'[d] = status[d] /\ current'[d] = current[d]
      BY <2>t, <2>4 DEF AddVersion, Transition, MayBecome, TransitionTable, TypeOK
    <3> QED
      BY <2>t, <3>1, ShippedUnchanged DEF Verdict, VerdictOf
  <2>5. ASSUME NEW m \in Members, NEW c \in Contents, SendToClient(m, c)
        PROVE  Contract!Next
    <3> DEFINE v == current[c]
    <3>0. PICK row : row = [k \in Components |-> "PENDING"]
      OBVIOUS
    <3>1. /\ status[c] = "INTERNAL_REVIEW" /\ status'[c] = "CLIENT_REVIEW"
          /\ approval' = [approval EXCEPT ![c][v] = row]
          /\ \A d \in Contents \ {c} : status'[d] = status[d] /\ current'[d] = current[d]
      BY <2>t, <2>5, <3>0 DEF SendToClient, Transition, MayBecome, TransitionTable, TypeOK
    <3>2. /\ v \in Versions /\ Unseen(approval[c][v])
          /\ v # 1 => v - 1 \in Versions /\ Returned(approval[c][v - 1])
      <4>1. v \in Versions
        BY <3>1, CurrentStored
      <4>2. v # 1 => v - 1 \in Versions /\ v - 1 < v
        BY <4>1, ContentAssumption DEF Versions
      <4> QED
        BY <2>t, <3>1, <4>1, <4>2 DEF ReviewInv, ItemFits, RowFits
    <3>3. Verdict[c][v] = "unseen" /\ (v # 1 => Verdict[c][v - 1] = "rejected")
      BY <3>2, Verdicts DEF Verdict
    <3>4. VerdictOf(row) = "open"
      BY <3>0 DEF VerdictOf, Components
    <3>5. Verdict' = [Verdict EXCEPT ![c][v] = VerdictOf(row)]
      BY <2>t, <3>1, <3>2, VerdictUpdate
    <3>6. Shipped' = Shipped
      BY <2>t, <3>1, ShippedUnchanged
    <3>7. Contract!Release(c, v)
      BY <3>3, <3>4, <3>5, <3>6 DEF Contract!Release
    <3> QED
      BY <3>2, <3>7 DEF Contract!Next, Versions
  <2>6. ASSUME NEW m \in Members, NEW c \in Contents, NEW k \in Components,
               ApproveComponent(m, c, k)
        PROVE  [Contract!Next]_(Contract!contractVars)
    <3> DEFINE v == current[c]
               old == approval[c][v]
               row == WithApproved(old, k)
    <3>1. /\ v \in Versions /\ status[c] = "CLIENT_REVIEW" /\ Open(old)
          /\ approval' = [approval EXCEPT ![c][v] = row]
          /\ status'[c] \in {"CLIENT_REVIEW", "APPROVED"}
          /\ \A d \in Contents \ {c} : status'[d] = status[d] /\ current'[d] = current[d]
      <4>1. v \in Versions /\ old[k] = "PENDING"
        BY <2>6, CurrentStored DEF ApproveComponent, Acquire, Reaches, Undecided
      <4>2. status[c] = "CLIENT_REVIEW" /\ Open(old)
        BY <2>t, <4>1 DEF ReviewInv, ItemFits, RowFits, Unseen, Returned, Accepted
      <4> QED
        BY <2>t, <2>6, <4>1, <4>2 DEF ApproveComponent, Transition, TypeOK
    <3>2. Verdict' = [Verdict EXCEPT ![c][v] = VerdictOf(row)] /\ Shipped' = Shipped
      BY <2>t, <3>1, VerdictUpdate, ShippedUnchanged
    <3>3. Verdict[c][v] = "open"
      BY <3>1, Verdicts DEF Verdict
    <3>4. Open(row) \/ Accepted(row)
      BY <2>t, <3>1 DEF WithApproved, Open, Accepted, TypeOK
    <3>5. CASE Open(row)
      <4>1. Verdict' = Verdict
        BY <3>1, <3>2, <3>3, <3>5, Verdicts DEF Verdict
      <4> QED
        BY <3>2, <4>1
    <3>6. CASE Accepted(row)
      <4>1. Contract!Decide(c, v, "accepted")
        BY <3>2, <3>3, <3>6, Verdicts DEF Contract!Decide
      <4> QED
        BY <3>1, <4>1 DEF Contract!Next, Versions
    <3> QED
      BY <3>4, <3>5, <3>6
  <2>7. ASSUME NEW m \in Members, NEW c \in Contents, NEW k \in Components,
               RequestChanges(m, c, k)
        PROVE  Contract!Next
    <3> DEFINE v == current[c]
               old == approval[c][v]
               row == WithChanges(old, k)
    <3>1. v \in Versions /\ old[k] = "PENDING"
      BY <2>7, CurrentStored DEF RequestChanges, Acquire, Reaches, Undecided
    <3>2. status[c] = "CLIENT_REVIEW" /\ Open(old)
      BY <2>t, <3>1 DEF ReviewInv, ItemFits, RowFits, Unseen, Returned, Accepted
    <3>3. /\ approval' = [approval EXCEPT ![c][v] = row]
          /\ status'[c] = "CHANGES_REQUESTED"
          /\ \A d \in Contents \ {c} : status'[d] = status[d] /\ current'[d] = current[d]
      BY <2>t, <2>7 DEF RequestChanges, Transition, TypeOK
    <3>4. Verdict' = [Verdict EXCEPT ![c][v] = VerdictOf(row)] /\ Shipped' = Shipped
      BY <2>t, <3>1, <3>2, <3>3, VerdictUpdate, ShippedUnchanged
    <3>5. Verdict[c][v] = "open"
      BY <3>1, <3>2, Verdicts DEF Verdict
    <3>6. Returned(row)
      BY <3>1, <3>2 DEF WithChanges, Open, Returned
    <3>7. Contract!Decide(c, v, "rejected")
      BY <3>4, <3>5, <3>6, Verdicts DEF Contract!Decide
    <3> QED
      BY <3>1, <3>7 DEF Contract!Next, Versions
  <2>8. ASSUME NEW c \in Contents, CommitPublication(c) PROVE Contract!Next
    <3> DEFINE v == current[c]
    <3>1. /\ status[c] \in {"APPROVED", "SCHEDULED"}
          /\ status' = [status EXCEPT ![c] = "PUBLISHED"]
          /\ UNCHANGED <<current, approval>>
      BY <2>8 DEF CommitPublication, MayBecome, TransitionTable
    <3>2. v \in Versions /\ Accepted(approval[c][v])
      BY <2>t, <3>1, CurrentStored DEF ReviewInv, ItemFits, RowFits
    <3>3. Verdict[c][v] = "accepted" /\ Verdict' = Verdict
      BY <3>1, <3>2, Verdicts DEF Verdict, VerdictOf
    <3>4. Shipped[c] = 0 /\ Shipped' = [Shipped EXCEPT ![c] = v]
      BY <2>t, <3>1 DEF Shipped, TypeOK
    <3>5. Contract!Ship(c, v)
      BY <3>3, <3>4 DEF Contract!Ship
    <3> QED
      BY <3>2, <3>5 DEF Contract!Next, Versions
  <2>9. ASSUME NEW m \in Members, NEW c \in Contents,
               \/ \E text \in Texts : CreateRevision(m, c, text)
               \/ \E visual \in Visuals, md \in MediaAssets \cup {None} :
                    CreateVisualRevision(m, c, visual, md)
        PROVE  Verdict' = Verdict /\ Shipped' = Shipped
    BY <2>4, <2>9 DEF CreateRevision, CreateVisualRevision
  <2> QED
    BY <2>0, <2>1, <2>2, <2>3, <2>5, <2>6, <2>7, <2>8, <2>9, StepKinds
<1> QED
  BY Invariance, <1>1, <1>2, PTL DEF Spec, ImplementsReviewContract, Contract!Spec

-----------------------------------------------------------------------------
(* Access that is kept while a request is in progress.                     *)

\* What a request knows of its caller is what the memberships say.
ContextInv ==
  \A m \in Members : context[m] # None => context[m] = membership[m] /\ membership[m].active

\* Only Authenticate fills a context, only UpdateMember changes a membership.
LEMMA ContextStep ==
  IInv /\ ContextInv /\ [Next]_vars
    /\ (\A m \in Members : context[m] # None => membership'[m] = membership[m])
  => ContextInv'
<1> SUFFICES ASSUME IInv, ContextInv, [Next]_vars,
                    \A m \in Members : context[m] # None => membership'[m] = membership[m]
             PROVE  ContextInv'
  OBVIOUS
<1>t. DOMAIN context = Members
  BY DEF IInv, TypeOK
<1>1. CASE UNCHANGED <<context, membership>>
  BY <1>1 DEF ContextInv
<1>2. ASSUME NEW m \in Members, Respond(m), UNCHANGED membership PROVE ContextInv'
  BY <1>t, <1>2 DEF Respond, ContextInv
<1>3. ASSUME NEW m \in Members, Authenticate(m) PROVE ContextInv'
  BY <1>t, <1>3 DEF Authenticate, ContextInv, accessVars
<1>4. CASE UNCHANGED context
  BY <1>4 DEF ContextInv
<1>5. ASSUME NEW m \in Members, NEW c \in Contents, ContentStep(m, c)
      PROVE  UNCHANGED membership /\ (Respond(m) \/ UNCHANGED context)
  BY <1>5 DEF ContentStep, GenerateContent, SubmitInternal, SendToClient, ApproveComponent,
              RequestChanges, CreateRevision, CreateVisualRevision, ReplayPublication,
              CheckPublication, accessVars
<1>6. ASSUME NEW m \in Members, OtherStep(m)
      PROVE  \/ UNCHANGED membership /\ Respond(m)
             \/ UNCHANGED context \/ Authenticate(m)
  BY <1>6 DEF OtherStep, Refuse, ReadBusiness, UploadMedia, ArchiveMedia, ArchiveBusiness,
              UpdateMember, accessVars, requestVars
<1>7. ASSUME NEW c \in Contents, CommitPublication(c) \/ RollbackPublication(c)
      PROVE  UNCHANGED <<context, membership>>
  BY <1>7 DEF CommitPublication, RollbackPublication, accessVars, requestVars
<1> QED
  BY <1>1, <1>2, <1>3, <1>4, <1>5, <1>6, <1>7 DEF Next, vars, accessVars, requestVars

\* Whoever decides was let in as the role and the business the decision asks for.
LEMMA DeciderWasLetIn ==
  ASSUME IInv, [Next]_vars, NEW c \in Contents, NEW v \in Versions, NEW k \in Components,
         approval[c][v][k] = "PENDING", approval'[c][v][k] # "PENDING"
  PROVE  LET m == decidedBy'[c][v][k]
         IN /\ m \in Members /\ context[m] # None /\ context[m].business = Owner[c]
            /\ HasCapability(context[m].role, "CONTENT_DECIDE_CLIENT")
<1> DEFINE LetIn(m) == /\ context[m] # None /\ context[m].business = Owner[c]
                       /\ HasCapability(context[m].role, "CONTENT_DECIDE_CLIENT")
<1>t. TypeOK
  BY DEF IInv
<1>1. ASSUME NEW m \in Members, NEW d \in Contents, NEW j \in Components,
             ApproveComponent(m, d, j)
      PROVE  decidedBy'[c][v][k] = m /\ LetIn(m)
  <2>1. current[d] \in Versions
    BY <1>1, CurrentStored DEF ApproveComponent, Acquire, Reaches
  <2>2. d = c /\ v = current[d]
    BY <1>t, <1>1, <2>1 DEF ApproveComponent, TypeOK
  <2>3. decidedBy'[c][v][k] = m
    BY <1>t, <1>1, <2>1, <2>2 DEF ApproveComponent, WithApproved, Deciding, TypeOK
  <2> QED
    BY <1>1, <2>2, <2>3 DEF ApproveComponent, Acquire, Authorized
<1>2. ASSUME NEW m \in Members, NEW d \in Contents, NEW j \in Components,
             RequestChanges(m, d, j)
      PROVE  decidedBy'[c][v][k] = m /\ LetIn(m)
  <2>1. current[d] \in Versions
    BY <1>2, CurrentStored DEF RequestChanges, Acquire, Reaches
  <2>2. d = c /\ v = current[d]
    BY <1>t, <1>2, <2>1 DEF RequestChanges, TypeOK
  <2>3. decidedBy'[c][v][k] = m
    BY <1>t, <1>2, <2>1, <2>2 DEF RequestChanges, WithChanges, Deciding, TypeOK
  <2> QED
    BY <1>2, <2>2, <2>3 DEF RequestChanges, Acquire, Authorized
<1>3. ASSUME NEW m \in Members, NEW d \in Contents, SendToClient(m, d)
      PROVE  FALSE
  BY <1>t, <1>3 DEF SendToClient, TypeOK
<1>4. approval' # approval
  OBVIOUS
<1>5. ASSUME NEW m \in Members, NEW d \in Contents,
             \/ \E row \in VersionRows, e \in Entries \cup {None} : GenerateContent(m, d, row, e)
             \/ SubmitInternal(m, d)
             \/ \E text \in Texts : CreateRevision(m, d, text)
             \/ \E visual \in Visuals, md \in MediaAssets \cup {None} :
                  CreateVisualRevision(m, d, visual, md)
      PROVE  FALSE
  BY <1>4, <1>5 DEF GenerateContent, SubmitInternal, CreateRevision, CreateVisualRevision,
                    AddVersion
<1>6. ASSUME NEW d \in Contents, CommitPublication(d) PROVE FALSE
  BY <1>4, <1>6 DEF CommitPublication
<1> HIDE DEF LetIn
<1>7. \E m \in Members : decidedBy'[c][v][k] = m /\ LetIn(m)
  BY <1>1, <1>2, <1>3, <1>4, <1>5, <1>6, StepKinds DEF OtherVarsStep
<1> QED
  BY <1>7 DEF LetIn

\* The stale context is the only way a decision can be made by someone who may not make
\* it: as long as nobody's access is changed while a request of that person is in
\* progress, whoever decides holds the role and the business when the decision commits.
THEOREM DeciderHoldsRoleUnlessChanged ==
  Spec /\ AccessKeptDuringRequests => DeciderHoldsRole
<1> DEFINE Kept == \A m \in Members : context[m] # None => membership'[m] = membership[m]
           Holds == \A c \in Contents, v \in Versions, k \in Components :
                      approval[c][v][k] = "PENDING" /\ approval'[c][v][k] # "PENDING" =>
                        LET row == membership[decidedBy'[c][v][k]]
                        IN row.active /\ row.business = Owner[c]
                             /\ HasCapability(row.role, "CONTENT_DECIDE_CLIENT")
<1>1. Init => ContextInv
  BY DEF Init, ContextInv
<1>2. IInv /\ ContextInv /\ [Next]_vars /\ [Kept]_vars => ContextInv'
  <2>1. UNCHANGED vars => Kept
    BY DEF vars, accessVars
  <2> QED
    BY <2>1, ContextStep
<1>3. IInv /\ ContextInv /\ [Next]_vars => [Holds]_vars
  BY DeciderWasLetIn DEF ContextInv
<1> HIDE DEF Kept, Holds
<1>4. AccessKeptDuringRequests => [][Kept]_vars
  BY DEF AccessKeptDuringRequests, Kept
<1>5. [][Holds]_vars => DeciderHoldsRole
  BY DEF DeciderHoldsRole, Holds
<1> QED
  BY Invariance, <1>1, <1>2, <1>3, <1>4, <1>5, PTL DEF Spec
=============================================================================
