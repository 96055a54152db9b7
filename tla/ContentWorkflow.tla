--------------------------- MODULE ContentWorkflow ---------------------------
(***************************************************************************)
(* The life of a content item: generation, internal review, the client's   *)
(* decision on each component of a version, revision, and the manual       *)
(* record of its publication (backend/growthos/services/content, the       *)
(* routes that call it, and the media, business and membership writes that *)
(* interleave with it).                                                    *)
(*                                                                         *)
(* A request is two steps or more: dependencies.get_current_context loads  *)
(* the caller's membership (Authenticate), and only later does the handler *)
(* obtain the row locks of get_content(for_update=True) on the item AND    *)
(* its business.  From there on the handler is one transaction under those *)
(* locks, hence one action, except record_manual_publication, whose key    *)
(* check and commit can race with another business's.  A handler that does *)
(* not lock reads the business first (ReadBusiness) and writes later.      *)
(***************************************************************************)
EXTENDS Naturals, FiniteSets, Permissions

CONSTANTS
  Contents,          \* ids of content items
  MediaAssets,       \* ids of uploaded images
  Entries,           \* ids of calendar entries
  Businesses,        \* client businesses of the organization
  Owner,             \* the business each content item, asset and entry belongs to
  Members,           \* memberships of the organization
  InitialMembership, \* the row each membership starts with
  MembershipOptions, \* rows the members API may write, per membership
  Texts,             \* what the text fields of a version may say
  Visuals,           \* what preset and prompts of a version may say
  Keys,              \* publication idempotency keys the callers may choose
  MaxVersions,       \* bound: versions a content item may reach
  None               \* SQL NULL

Components == {"TEXT", "IMAGE"}
Versions == 1..MaxVersions
MembershipRows ==
  [role : Roles, business : Businesses \cup {None}, active : BOOLEAN]

ASSUME ContentAssumption ==
  /\ MaxVersions \in Nat \ {0}
  /\ Owner \in [Contents \cup MediaAssets \cup Entries -> Businesses]
  /\ InitialMembership \in [Members -> MembershipRows]
  /\ MembershipOptions \in [Members -> SUBSET MembershipRows]
  /\ None \notin Contents \cup MediaAssets \cup Entries
  /\ None \notin Businesses \cup Members \cup Keys
  /\ None \notin MembershipRows
  /\ None \notin [text : Texts, visual : Visuals, media : MediaAssets \cup {None}]

VARIABLES
  status,          \* content_items.status, "NONE" before the row exists
  current,         \* version_number of content_items.current_version_id, 0 before
  version,         \* content_versions with their content_version_media
  approval,        \* approvals.status of a version's component, "NONE": no row
  decidedBy,       \* approvals.decided_by_user_id
  entryOf,         \* content_items.calendar_entry_id
  entry,           \* calendar_entries: content_item_id and status
  publicationKey,  \* content_items.publication_idempotency_key
  media,           \* media_assets.processing_status, "NONE" before the upload
  businessActive,  \* businesses.is_active
  membership,      \* memberships
  emailJobs,       \* idempotency keys of the notification e-mail jobs
  context,         \* the AuthContext of a member's request in progress
  scoped,          \* the business that request has read and found active
  publishing       \* key a publication has checked and not yet committed

contentVars == <<status, current, version, approval, decidedBy>>
calendarVars == <<entryOf, entry>>
accessVars == <<businessActive, membership>>
requestVars == <<context, scoped>>
vars == <<contentVars, calendarVars, accessVars, publicationKey, media,
          emailJobs, requestVars, publishing>>

ContentStatus == {"DRAFT", "INTERNAL_REVIEW", "CLIENT_REVIEW", "CHANGES_REQUESTED",
                  "APPROVED", "SCHEDULED", "PUBLISHED", "FAILED", "ARCHIVED"}
ApprovalStatus == {"PENDING", "APPROVED", "CHANGES_REQUESTED", "REJECTED", "CANCELLED"}
VersionRows == [text : Texts, visual : Visuals, media : MediaAssets \cup {None}]
EntryRows == [content : Contents \cup {None}, status : {"PLANNED", "GENERATED", "PUBLISHED"}]
EmailKeys == [kind : {"review", "approved", "changes"}, content : Contents,
              version : Versions, component : Components \cup {None}, to : Members]

-----------------------------------------------------------------------------
(* The transition table (domain/content.py).                               *)

\* ALLOWED_TRANSITIONS
TransitionTable ==
  ({"DRAFT"} \X {"INTERNAL_REVIEW", "FAILED", "ARCHIVED"})
    \cup ({"INTERNAL_REVIEW"} \X {"CLIENT_REVIEW", "CHANGES_REQUESTED", "ARCHIVED"})
    \cup ({"CLIENT_REVIEW"} \X {"APPROVED", "CHANGES_REQUESTED", "ARCHIVED"})
    \cup ({"CHANGES_REQUESTED"} \X {"DRAFT", "ARCHIVED"})
    \cup ({"APPROVED"} \X {"SCHEDULED", "ARCHIVED"})
    \cup ({"SCHEDULED"} \X {"APPROVED", "PUBLISHED", "FAILED"})
    \cup ({"PUBLISHED"} \X {"ARCHIVED"})
    \cup ({"FAILED"} \X {"DRAFT", "SCHEDULED", "ARCHIVED"})

MayBecome_RevisionDuringReview(s, target) ==
  <<s, target>> \in TransitionTable \cup {<<"CLIENT_REVIEW", "DRAFT">>}

MayBecome_RevisionOfPublished(s, target) ==
  <<s, target>> \in TransitionTable \cup {<<"PUBLISHED", "DRAFT">>}

\* The lookup transition() makes.
MayBecome(s, target) == <<s, target>> \in TransitionTable

\* transition(): an illegal one is a 409 that rolls the request back.
Transition(c, target) ==
  /\ MayBecome(status[c], target)
  /\ status' = [status EXCEPT ![c] = target]

-----------------------------------------------------------------------------
(* Who may reach what.                                                     *)

ClientVisible_WithInternalReview ==
  {"INTERNAL_REVIEW", "CLIENT_REVIEW", "CHANGES_REQUESTED", "APPROVED", "SCHEDULED", "PUBLISHED"}

\* _CLIENT_VISIBLE_STATUSES
ClientVisible == {"CLIENT_REVIEW", "CHANGES_REQUESTED", "APPROVED", "SCHEDULED", "PUBLISHED"}

\* membership_has_active_scope
HasActiveScope(row) ==
  row.role \in BusinessScopedRoles =>
    /\ row.business # None
    /\ businessActive[row.business]

\* The WHERE clause of get_content for the caller's context.
Reaches(ctx, c) ==
  /\ status[c] # "NONE"
  /\ businessActive[Owner[c]]
  /\ IF ctx.role \in BusinessScopedRoles
     THEN ctx.business = Owner[c] /\ status[c] \in ClientVisible
     ELSE ctx.business \in {None, Owner[c]}

\* get_scoped_business for the caller's context.
ReachesBusiness(ctx, b) ==
  /\ businessActive[b]
  /\ ctx.role \in BusinessScopedRoles => ctx.business # None
  /\ ctx.business \in {None, b}

Locked_Never(b) == FALSE

\* FOR UPDATE of get_content locks the joined business row too: while a
\* publication sits between its check and its commit, no other write that needs
\* an item, an entry or the row of that business proceeds.
Locked(b) == \E c \in Contents : Owner[c] = b /\ publishing[c] # None

Authorized(m, capability) ==
  /\ context[m] # None
  /\ HasCapability(context[m].role, capability)

\* get_content(for_update=True) under a route's capability check.
Acquire(m, c, capability) ==
  /\ Authorized(m, capability)
  /\ Reaches(context[m], c)
  /\ ~Locked(Owner[c])

\* The response is sent: the request is over.
Respond(m) ==
  /\ context' = [context EXCEPT ![m] = None]
  /\ scoped' = [scoped EXCEPT ![m] = None]

-----------------------------------------------------------------------------
(* Notification e-mails (services/email_jobs.py): one job per key, and the *)
(* unique constraint makes the whole transaction fail on a repeated key.   *)

ReviewersOf(b) ==
  {m \in Members : /\ membership[m].active
                   /\ membership[m].role \in {"CLIENT_OWNER", "CLIENT_REVIEWER"}
                   /\ membership[m].business = b}

AgencyOf(b) ==
  {m \in Members : /\ membership[m].active
                   /\ membership[m].role \in AgencyRoles
                   /\ membership[m].business \in {None, b}}

ReviewKeys_WithoutVersion(c, v, recipients) ==
  {[kind |-> "review", content |-> c, version |-> 1, component |-> None, to |-> m] :
     m \in recipients}

ReviewKeys_FromZero(c, v, recipients) ==
  {[kind |-> "review", content |-> c, version |-> v - 1, component |-> None, to |-> m] :
     m \in recipients}

\* content-review:{content}:{version}:{membership}
ReviewKeys(c, v, recipients) ==
  {[kind |-> "review", content |-> c, version |-> v, component |-> None, to |-> m] :
     m \in recipients}

\* content-decision:{content}:{version}:{approved|changes}:{component}:{membership}
DecisionKeys(kind, c, v, k, recipients) ==
  {[kind |-> kind, content |-> c, version |-> v, component |-> k, to |-> m] :
     m \in recipients}

Enqueue(keys) ==
  /\ keys \cap emailJobs = {}
  /\ emailJobs' = emailJobs \cup keys

-----------------------------------------------------------------------------
(* Parts of the handlers.                                                  *)

CurrentRow(c) == version[c][current[c]]

Ready(md, b) == media[md] = "READY" /\ Owner[md] = b

\* resolve_generation_links: an entry that has no content yet.
EntryFree(e) == entry[e].content = None

NextVersion_InPlace(c) == current[c]

\* version_number of the row a revision adds.
NextVersion(c) == current[c] + 1

\* A revision: back to DRAFT with a new current version.
AddVersion(c, row) ==
  /\ NextVersion(c) \in Versions
  /\ Transition(c, "DRAFT")
  /\ current' = [current EXCEPT ![c] = NextVersion(c)]
  /\ version' = [version EXCEPT ![c][NextVersion(c)] = row]
  /\ UNCHANGED <<approval, decidedBy>>

Undecided_AnyRow(c, k) == approval[c][current[c]][k] # "NONE"

\* _pending_approval: the row the decision is about.
Undecided(c, k) == approval[c][current[c]][k] = "PENDING"

\* approval.status and decided_by after an approval.
WithApproved(row, k) == [row EXCEPT ![k] = "APPROVED"]

AllApproved_AnyOne(row) == \E k \in Components : row[k] = "APPROVED"

\* _all_components_approved
AllApproved(row) == \A k \in Components : row[k] = "APPROVED"

WithChanges_OthersPending(row, k) == [row EXCEPT ![k] = "CHANGES_REQUESTED"]

\* request_component_changes: the other open components are cancelled.
WithChanges(row, k) ==
  [j \in Components |-> IF j = k THEN "CHANGES_REQUESTED"
                        ELSE IF row[j] = "PENDING" THEN "CANCELLED" ELSE row[j]]

\* The rows a decision writes carry the member who decided.
Deciding(m, old, new, by) ==
  [j \in Components |-> IF new[j] # old[j] THEN m ELSE by[j]]

\* The IMAGE component can be approved only on a version with linked media.
HasImage(row) == row.media # None

\* The statuses record_manual_publication accepts.
Publishable == {"APPROVED", "SCHEDULED"}

KeyUnused_Unchecked(c, k) == TRUE

\* uq_content_publication_org_idempotency, seen from item c.
KeyUnused(c, k) == \A d \in Contents \ {c} : publicationKey[d] # k

-----------------------------------------------------------------------------
Init ==
  /\ status = [c \in Contents |-> "NONE"]
  /\ current = [c \in Contents |-> 0]
  /\ version = [c \in Contents |-> [v \in Versions |-> None]]
  /\ approval = [c \in Contents |-> [v \in Versions |-> [k \in Components |-> "NONE"]]]
  /\ decidedBy = [c \in Contents |-> [v \in Versions |-> [k \in Components |-> None]]]
  /\ entryOf = [c \in Contents |-> None]
  /\ entry \in [Entries -> [content : {None}, status : {"PLANNED", "GENERATED"}]]
  /\ publicationKey = [c \in Contents |-> None]
  /\ media = [md \in MediaAssets |-> "NONE"]
  /\ businessActive = [b \in Businesses |-> TRUE]
  /\ membership = InitialMembership
  /\ emailJobs = {}
  /\ context = [m \in Members |-> None]
  /\ scoped = [m \in Members |-> None]
  /\ publishing = [c \in Contents |-> None]

\* Any request: the caller's membership is read, without a lock.
Authenticate(m) ==
  /\ context[m] = None
  /\ membership[m].active
  /\ HasActiveScope(membership[m])
  /\ context' = [context EXCEPT ![m] = membership[m]]
  /\ UNCHANGED <<contentVars, calendarVars, accessVars, publicationKey, media,
                 emailJobs, scoped, publishing>>

\* get_scoped_business in a handler that does not lock: the business is found
\* active and within the caller's scope, and its row is not locked.
ReadBusiness(m, b) ==
  /\ \E capability \in {"CONTENT_CREATE", "MEDIA_UPLOAD", "MEDIA_MANAGE"} :
       Authorized(m, capability)
  /\ scoped[m] = None
  /\ ReachesBusiness(context[m], b)
  /\ scoped' = [scoped EXCEPT ![m] = b]
  /\ UNCHANGED <<contentVars, calendarVars, accessVars, publicationKey, media,
                 emailJobs, context, publishing>>

\* Any early return (4xx) or crash of a request: nothing is committed.
Refuse(m) ==
  /\ context[m] # None
  /\ Respond(m)
  /\ UNCHANGED <<contentVars, calendarVars, accessVars, publicationKey, media,
                 emailJobs, publishing>>

\* POST /contents/generate: a new item with its first version, optionally for a
\* calendar entry (locked FOR UPDATE) and with an image.
GenerateContent(m, c, row, e) ==
  /\ Authorized(m, "CONTENT_CREATE")
  /\ scoped[m] = Owner[c]
  /\ ~Locked(Owner[c])
  /\ status[c] = "NONE"
  /\ row.media # None => Ready(row.media, Owner[c])
  /\ e # None => Owner[e] = Owner[c] /\ EntryFree(e)
  /\ status' = [status EXCEPT ![c] = "DRAFT"]
  /\ current' = [current EXCEPT ![c] = 1]
  /\ version' = [version EXCEPT ![c][1] = row]
  /\ entryOf' = [entryOf EXCEPT ![c] = e]
  /\ entry' = IF e = None THEN entry
              ELSE [entry EXCEPT ![e] = [content |-> c, status |-> "GENERATED"]]
  /\ Respond(m)
  /\ UNCHANGED <<approval, decidedBy, accessVars, publicationKey, media, emailJobs, publishing>>

\* POST /contents/{id}/submit-internal
SubmitInternal(m, c) ==
  /\ Acquire(m, c, "CONTENT_SUBMIT_INTERNAL")
  /\ Transition(c, "INTERNAL_REVIEW")
  /\ Respond(m)
  /\ UNCHANGED <<current, version, approval, decidedBy, calendarVars, accessVars,
                 publicationKey, media, emailJobs, publishing>>

\* POST /contents/{id}/send-to-client: one pending approval per component of the
\* current version, one notification and e-mail job per reviewer.
SendToClient(m, c) ==
  LET v == current[c]
      reviewers == ReviewersOf(Owner[c])
  IN /\ Acquire(m, c, "CONTENT_SEND_CLIENT")
     /\ reviewers # {}
     /\ Transition(c, "CLIENT_REVIEW")
     /\ \A k \in Components : approval[c][v][k] = "NONE"
     /\ approval' = [approval EXCEPT ![c][v] = [k \in Components |-> "PENDING"]]
     /\ Enqueue(ReviewKeys(c, v, reviewers))
     /\ Respond(m)
     /\ UNCHANGED <<current, version, decidedBy, calendarVars, accessVars,
                    publicationKey, media, publishing>>

\* POST /contents/{id}/decisions/{component}/approve: the last approval of the
\* version moves the item to APPROVED.
ApproveComponent(m, c, k) ==
  LET v == current[c]
      row == WithApproved(approval[c][v], k)
  IN /\ Acquire(m, c, "CONTENT_DECIDE_CLIENT")
     /\ context[m].business = Owner[c]
     /\ k = "IMAGE" => HasImage(CurrentRow(c))
     /\ Undecided(c, k)
     /\ IF AllApproved(row) THEN Transition(c, "APPROVED") ELSE UNCHANGED status
     /\ approval' = [approval EXCEPT ![c][v] = row]
     /\ decidedBy' = [decidedBy EXCEPT ![c][v] = Deciding(m, approval[c][v], row, @)]
     /\ Enqueue(DecisionKeys("approved", c, v, k, AgencyOf(Owner[c])))
     /\ Respond(m)
     /\ UNCHANGED <<current, version, calendarVars, accessVars, publicationKey,
                    media, publishing>>

\* POST /contents/{id}/decisions/{component}/request-changes
RequestChanges(m, c, k) ==
  LET v == current[c]
      row == WithChanges(approval[c][v], k)
  IN /\ Acquire(m, c, "CONTENT_DECIDE_CLIENT")
     /\ context[m].business = Owner[c]
     /\ Undecided(c, k)
     /\ Transition(c, "CHANGES_REQUESTED")
     /\ approval' = [approval EXCEPT ![c][v] = row]
     /\ decidedBy' = [decidedBy EXCEPT ![c][v] = Deciding(m, approval[c][v], row, @)]
     /\ Enqueue(DecisionKeys("changes", c, v, k, AgencyOf(Owner[c])))
     /\ Respond(m)
     /\ UNCHANGED <<current, version, calendarVars, accessVars, publicationKey,
                    media, publishing>>

\* POST /contents/{id}/revisions: new text, the visual and the media carried over.
CreateRevision(m, c, text) ==
  /\ Acquire(m, c, "CONTENT_EDIT_TEXT")
  /\ text # CurrentRow(c).text
  /\ AddVersion(c, [CurrentRow(c) EXCEPT !.text = text])
  /\ Respond(m)
  /\ UNCHANGED <<calendarVars, accessVars, publicationKey, media, emailJobs, publishing>>

\* POST /contents/{id}/visual-revisions: new preset, prompts or image; the image
\* is carried over, cleared, or replaced by one that is ready.
CreateVisualRevision(m, c, visual, md) ==
  LET row == CurrentRow(c)
  IN /\ Acquire(m, c, "CONTENT_EDIT_VISUAL")
     /\ \/ md \in {None, row.media}
        \/ md # None /\ Ready(md, Owner[c])
     /\ visual # row.visual \/ md # row.media
     /\ AddVersion(c, [row EXCEPT !.visual = visual, !.media = md])
     /\ Respond(m)
     /\ UNCHANGED <<calendarVars, accessVars, publicationKey, media, emailJobs, publishing>>

-----------------------------------------------------------------------------
(* POST /contents/{id}/publication: the manual record of a publication.    *)

\* A repeat with the key already recorded returns the stored result.
ReplayPublication(m, c, k) ==
  /\ Acquire(m, c, "PUBLICATION_RECORD")
  /\ status[c] = "PUBLISHED"
  /\ publicationKey[c] = k
  /\ Respond(m)
  /\ UNCHANGED <<contentVars, calendarVars, accessVars, publicationKey, media,
                 emailJobs, publishing>>

\* The checks: the key is not another item's yet, the status is publishable and
\* the calendar link is coherent.  The locks are held from here on.
CheckPublication(m, c, k) ==
  /\ Acquire(m, c, "PUBLICATION_RECORD")
  /\ KeyUnused(c, k)
  /\ status[c] \in Publishable
  /\ entryOf[c] # None => entry[entryOf[c]].content \in {None, c}
  /\ publishing' = [publishing EXCEPT ![c] = k]
  /\ Respond(m)
  /\ UNCHANGED <<contentVars, calendarVars, accessVars, publicationKey, media, emailJobs>>

\* The commit: the unique constraint is checked again by the database.
CommitPublication(c) ==
  LET scheduled == IF status[c] = "APPROVED" THEN "SCHEDULED" ELSE status[c]
  IN /\ publishing[c] # None
     /\ KeyUnused(c, publishing[c])
     /\ scheduled # status[c] => MayBecome(status[c], scheduled)
     /\ MayBecome(scheduled, "PUBLISHED")
     /\ status' = [status EXCEPT ![c] = "PUBLISHED"]
     /\ publicationKey' = [publicationKey EXCEPT ![c] = publishing[c]]
     /\ entry' = IF entryOf[c] = None THEN entry
                 ELSE [entry EXCEPT ![entryOf[c]] = [content |-> c, status |-> "PUBLISHED"]]
     /\ publishing' = [publishing EXCEPT ![c] = None]
     /\ UNCHANGED <<current, version, approval, decidedBy, entryOf, accessVars,
                    media, emailJobs, requestVars>>

\* IntegrityError at the commit, or a crash before it: rollback.
RollbackPublication(c) ==
  /\ publishing[c] # None
  /\ publishing' = [publishing EXCEPT ![c] = None]
  /\ UNCHANGED <<contentVars, calendarVars, accessVars, publicationKey, media,
                 emailJobs, requestVars>>

-----------------------------------------------------------------------------
(* Writes of other components that interleave with the workflow.  Each of  *)
(* them also inserts an audit row whose foreign key needs the business row.*)

\* POST /businesses/{id}/media: images only, READY at once.
UploadMedia(m, md) ==
  /\ Authorized(m, "MEDIA_UPLOAD")
  /\ scoped[m] = Owner[md]
  /\ ~Locked(Owner[md])
  /\ media[md] = "NONE"
  /\ media' = [media EXCEPT ![md] = "READY"]
  /\ Respond(m)
  /\ UNCHANGED <<contentVars, calendarVars, accessVars, publicationKey, emailJobs, publishing>>

\* DELETE /media/{id}: archives, whatever versions the asset is linked to.
ArchiveMedia(m, md) ==
  /\ Authorized(m, "MEDIA_MANAGE")
  /\ scoped[m] = Owner[md]
  /\ ~Locked(Owner[md])
  /\ media[md] = "READY"
  /\ media' = [media EXCEPT ![md] = "ARCHIVED"]
  /\ Respond(m)
  /\ UNCHANGED <<contentVars, calendarVars, accessVars, publicationKey, emailJobs, publishing>>

\* DELETE /businesses/{id}
ArchiveBusiness(m, b) ==
  /\ context[m] # None
  /\ context[m].role \in {"SUPER_ADMIN", "AGENCY_ADMIN"}
  /\ scoped[m] = b
  /\ ~Locked(b)
  /\ businessActive' = [businessActive EXCEPT ![b] = FALSE]
  /\ Respond(m)
  /\ UNCHANGED <<contentVars, calendarVars, membership, publicationKey, media,
                 emailJobs, publishing>>

\* PATCH /members/{id} by some administrator (_validate_management_scope): the
\* row is changed, requests already authenticated keep their context.
UpdateMember(m, row) ==
  /\ membership[m].role # "SUPER_ADMIN"
  /\ row.role # "SUPER_ADMIN"
  /\ row.role \in BusinessScopedRoles <=> row.business # None
  /\ row.business # None => businessActive[row.business] /\ ~Locked(row.business)
  /\ membership' = [membership EXCEPT ![m] = row]
  /\ UNCHANGED <<contentVars, calendarVars, businessActive, publicationKey, media,
                 emailJobs, requestVars, publishing>>

-----------------------------------------------------------------------------
ContentStep(m, c) ==
  \/ \E row \in VersionRows, e \in Entries \cup {None} : GenerateContent(m, c, row, e)
  \/ SubmitInternal(m, c)
  \/ SendToClient(m, c)
  \/ \E k \in Components : ApproveComponent(m, c, k)
  \/ \E k \in Components : RequestChanges(m, c, k)
  \/ \E text \in Texts : CreateRevision(m, c, text)
  \/ \E visual \in Visuals, md \in MediaAssets \cup {None} :
       CreateVisualRevision(m, c, visual, md)
  \/ \E k \in Keys : ReplayPublication(m, c, k)
  \/ \E k \in Keys : CheckPublication(m, c, k)

OtherStep(m) ==
  \/ Authenticate(m)
  \/ Refuse(m)
  \/ \E b \in Businesses : ReadBusiness(m, b)
  \/ \E md \in MediaAssets : UploadMedia(m, md)
  \/ \E md \in MediaAssets : ArchiveMedia(m, md)
  \/ \E b \in Businesses : ArchiveBusiness(m, b)
  \/ \E row \in MembershipOptions[m] : UpdateMember(m, row)

Next ==
  \/ \E m \in Members, c \in Contents : ContentStep(m, c)
  \/ \E m \in Members : OtherStep(m)
  \/ \E c \in Contents : CommitPublication(c)
  \/ \E c \in Contents : RollbackPublication(c)

Spec == Init /\ [][Next]_vars

-----------------------------------------------------------------------------
(* The type invariant.                                                     *)
TypeOK ==
  /\ status \in [Contents -> ContentStatus \cup {"NONE"}]
  /\ current \in [Contents -> 0..MaxVersions]
  /\ version \in [Contents -> [Versions -> VersionRows \cup {None}]]
  /\ approval \in [Contents -> [Versions -> [Components -> ApprovalStatus \cup {"NONE"}]]]
  /\ decidedBy \in [Contents -> [Versions -> [Components -> Members \cup {None}]]]
  /\ entryOf \in [Contents -> Entries \cup {None}]
  /\ entry \in [Entries -> EntryRows]
  /\ publicationKey \in [Contents -> Keys \cup {None}]
  /\ media \in [MediaAssets -> {"NONE", "READY", "ARCHIVED"}]
  /\ businessActive \in [Businesses -> BOOLEAN]
  /\ membership \in [Members -> MembershipRows]
  /\ emailJobs \subseteq EmailKeys
  /\ context \in [Members -> MembershipRows \cup {None}]
  /\ scoped \in [Members -> Businesses \cup {None}]
  /\ publishing \in [Contents -> Keys \cup {None}]

\* A component waits for the client only on the current version of an item that
\* is in CLIENT_REVIEW: no request for changes, revision or completed approval
\* leaves an open decision behind (approvals.py:319-338).
PendingOnlyUnderReview ==
  \A c \in Contents, v \in Versions, k \in Components :
    approval[c][v][k] = "PENDING" => v = current[c] /\ status[c] = "CLIENT_REVIEW"

\* The item's status and the decisions on its current version agree: it is
\* approved, scheduled or published exactly when every component is approved, and
\* while it is in review some component still waits, so a review can always be
\* finished (approvals.py:_all_components_approved).
StatusFollowsDecisions ==
  \A c \in Contents : status[c] # "NONE" =>
    LET row == approval[c][current[c]]
    IN /\ status[c] \in {"APPROVED", "SCHEDULED", "PUBLISHED"}
            <=> \A k \in Components : row[k] = "APPROVED"
       /\ status[c] = "CLIENT_REVIEW" <=> \E k \in Components : row[k] = "PENDING"
       /\ status[c] = "CHANGES_REQUESTED" <=> \E k \in Components : row[k] = "CHANGES_REQUESTED"

\* A version is replaced only after the client asked for changes to it, and by
\* exactly one request: every superseded version has one rejected component and
\* nothing undecided (revisions.py:56, 225).
SupersededOnlyByRejection ==
  \A c \in Contents, v \in Versions : v < current[c] =>
    /\ \E k \in Components :
         /\ approval[c][v][k] = "CHANGES_REQUESTED"
         /\ \A j \in Components \ {k} : approval[c][v][j] \in {"APPROVED", "CANCELLED"}

\* The statuses the portal lists prove, as the comment at read_models.py:18-19
\* says, that the item went through the release to the client: the version the
\* portal shows has its approval rows.
PortalShowsReleasedVersion ==
  \A c \in Contents : status[c] \in ClientVisible =>
    \A k \in Components : approval[c][current[c]][k] # "NONE"

\* The unique job keys never stand in the way: when an item can be sent to its
\* reviewers, or a component decided, none of the e-mail keys that call inserts
\* is taken (approvals.py:196, 277 and uq_job_org_idempotency).
NotificationKeysAreFree ==
  \A c \in Contents, key \in emailJobs : key.content = c =>
    /\ status[c] = "INTERNAL_REVIEW" =>
         key \notin ReviewKeys(c, current[c], Members)
    /\ \A k \in Components :
         status[c] # "NONE" /\ approval[c][current[c]][k] = "PENDING" =>
           key \notin DecisionKeys("approved", c, current[c], k, Members)
                        \cup DecisionKeys("changes", c, current[c], k, Members)

\* Two items never record the same publication key, even when two publications
\* of different businesses check it at the same time (models/content.py:15-19).
PublicationKeyUnique ==
  \A c, d \in Contents :
    publicationKey[c] # None /\ publicationKey[c] = publicationKey[d] => c = d

\* A version the client has seen is never edited: once it has approval rows its
\* text, visual and media stay what they are (docs/08: "Apos o envio ao cliente,
\* aquela versao fica imutavel").
ReleasedVersionFrozen ==
  [][\A c \in Contents, v \in Versions :
       (\E k \in Components : approval[c][v][k] # "NONE") => version'[c][v] = version[c][v]]_vars

\* A decision is final: an approval row that left PENDING keeps its status and
\* its author whatever later requests, retries or revisions do.
DecisionsAreFinal ==
  [][\A c \in Contents, v \in Versions, k \in Components :
       approval[c][v][k] \notin {"NONE", "PENDING"} =>
         /\ approval'[c][v][k] = approval[c][v][k]
         /\ decidedBy'[c][v][k] = decidedBy[c][v][k]]_vars

\* A recorded publication stays as recorded: no retry, revision, decision or
\* second publication changes a published item, its version or its entry.
PublishedItemFrozen ==
  [][\A c \in Contents : status[c] = "PUBLISHED" =>
       /\ status'[c] = status[c] /\ current'[c] = current[c]
       /\ version'[c] = version[c] /\ approval'[c] = approval[c]
       /\ publicationKey'[c] = publicationKey[c] /\ entryOf'[c] = entryOf[c]]_vars

\* Nothing happens to the items of an archived business any more, a publication
\* that had checked its item before the archival included: the business row is
\* locked with the item (read_models.py:60).  An item still being generated is not
\* covered: generation.py:21 reads the business without a lock, and the row may
\* appear after the archival.
ArchivedBusinessFrozen ==
  [][\A c \in Contents : ~businessActive[Owner[c]] /\ status[c] # "NONE" =>
       /\ status'[c] = status[c] /\ current'[c] = current[c]
       /\ approval'[c] = approval[c] /\ publicationKey'[c] = publicationKey[c]]_vars

\* docs/04-modelo-de-dados.md:415: the decision revalidates the caller's role in
\* its own transaction.  What that asks for: whoever decides holds, when the
\* decision commits, an active membership of the business that may decide.
DeciderHoldsRole ==
  [][\A c \in Contents, v \in Versions, k \in Components :
       approval[c][v][k] = "PENDING" /\ approval'[c][v][k] # "PENDING" =>
         LET row == membership[decidedBy'[c][v][k]]
         IN row.active /\ row.business = Owner[c]
              /\ HasCapability(row.role, "CONTENT_DECIDE_CLIENT")]_vars

\* The condition under which it does: nobody's access is changed while a request of
\* that person is in progress.
AccessKeptDuringRequests ==
  [][\A m \in Members : context[m] # None => membership'[m] = membership[m]]_vars

-----------------------------------------------------------------------------
(* The workflow implements the contract of ReviewContract.                 *)

VerdictOf(row) ==
  IF \E k \in Components : row[k] = "PENDING" THEN "open"
  ELSE IF \E k \in Components : row[k] = "CHANGES_REQUESTED" THEN "rejected"
  ELSE IF \A k \in Components : row[k] = "APPROVED" THEN "accepted"
  ELSE "unseen"

Verdict == [c \in Contents |-> [v \in Versions |-> VerdictOf(approval[c][v])]]
Shipped == [c \in Contents |-> IF status[c] = "PUBLISHED" THEN current[c] ELSE 0]

Contract == INSTANCE ReviewContract WITH verdict <- Verdict, shipped <- Shipped

\* Whatever the requests, races and rollbacks, the client sees the versions in
\* order, decides each once, and only an accepted version is ever published.
ImplementsReviewContract == Contract!Spec
=============================================================================
