--------------------------- MODULE StrategyPlanning ---------------------------
(***************************************************************************)
(* The monthly strategy of a business and the content plans made from it   *)
(* (backend/growthos/api/routes/planning.py): versions are drafted, go     *)
(* through internal review to the client, are approved or returned, and an *)
(* approved version can be planned from while its successor is in review.  *)
(*                                                                         *)
(* A handler that changes a strategy holds FOR UPDATE on its row from the  *)
(* status check to the commit, and has read the business, without locking  *)
(* it, in between (Lock).  Creating a strategy or a plan locks nothing:    *)
(* what it read may be stale when it commits.                              *)
(***************************************************************************)
EXTENDS Naturals, FiniteSets, Permissions

CONSTANTS
  Strategies,   \* ids of rows of content_strategies
  Plans,        \* ids of rows of content_plans
  Businesses,   \* client businesses of the organization
  Owner,        \* the business each strategy belongs to
  Members,      \* memberships of the organization
  Membership,   \* role and business of each membership, which stay as they are here
  MaxVersions,  \* bound: versions a strategy may reach
  None          \* SQL NULL, no target

Versions == 1..MaxVersions

ASSUME PlanningAssumption ==
  /\ MaxVersions \in Nat \ {0}
  /\ Owner \in [Strategies -> Businesses]
  /\ Membership \in [Members -> [role : Roles, business : Businesses \cup {None}]]
  /\ None \notin Strategies \cup Plans \cup Businesses
  /\ None \notin [strategy : Strategies, version : Versions]

VARIABLES
  status,           \* content_strategies.status, "NONE" before the row exists
  current,          \* version_number of current_version_id, 0 before
  approvedVersion,  \* version_number of approved_version_id, 0: NULL
  sent,             \* versions that were current at an audit row strategy.sent_to_client
  decisions,        \* audit rows of the client's decisions, with their version_id
  plan,             \* content_plans
  active,           \* memberships.is_active
  businessActive,   \* businesses.is_active
  emailJobs,        \* idempotency keys strategy-review:{strategy.id}:{membership.id}
  request           \* where the request of each member is and what it has read

strategyVars == <<status, current, approvedVersion>>
trailVars == <<sent, decisions>>
accessVars == <<active, businessActive>>
vars == <<strategyVars, trailVars, plan, accessVars, emailJobs, request>>

StrategyStatus == {"DRAFT", "INTERNAL_REVIEW", "CLIENT_REVIEW", "APPROVED"}
DecisionRows == [strategy : Strategies, version : Versions,
                 decision : {"APPROVE", "CHANGES_REQUESTED"}]
PlanRows == [strategy : Strategies, version : Versions]
Steps == {"none", "open", "creating", "locked", "planning"}

Request(step, s, v) == [step |-> step, strategy |-> s, version |-> v]
NoRequest == Request("none", None, 0)

-----------------------------------------------------------------------------
(* Who may do what, and when.                                              *)

\* require_capability on the context of the request.
Authorized(m, capability) == HasCapability(Membership[m].role, capability)

\* membership_has_active_scope
HasActiveScope(m) ==
  Membership[m].role \in BusinessScopedRoles =>
    Membership[m].business # None /\ businessActive[Membership[m].business]

\* get_scoped_business
ReachesBusiness(m, b) ==
  /\ businessActive[b]
  /\ Membership[m].role \in BusinessScopedRoles => Membership[m].business # None
  /\ Membership[m].business \in {None, b}

\* The reviewers send_strategy_to_client selects.
ReviewersOf(s) ==
  {m \in Members : /\ Membership[m].business = Owner[s]
                   /\ Membership[m].role \in {"CLIENT_OWNER", "CLIENT_REVIEWER"}
                   /\ active[m]}

\* FOR UPDATE of _strategy.
Unlocked(s) ==
  \A m \in Members : ~(request[m].step = "locked" /\ request[m].strategy = s)

Holds(m, s) == request[m].step = "locked" /\ request[m].strategy = s

Revisable_Always(s) == status[s] # "NONE"

\* The status check of create_strategy_version.
Revisable(s) == status[s] \in {"DRAFT", "APPROVED"}

Decidable_BeforeSending(s) == status[s] \in {"INTERNAL_REVIEW", "CLIENT_REVIEW"}

Decidable_AlsoApproved(s) == status[s] \in {"CLIENT_REVIEW", "APPROVED"}

\* The status check of decide_strategy.
Decidable(s) == status[s] = "CLIENT_REVIEW"

Plannable_AnyStatus(s) == status[s] # "NONE"

\* The status check of create_plan.
Plannable(s) == status[s] = "APPROVED"

ApprovedAfter_FirstOnly(s) == IF approvedVersion[s] = 0 THEN current[s] ELSE approvedVersion[s]

\* decide_strategy approves the version that is current.
ApprovedAfter(s) == current[s]

RevisedStatus_Kept(s) == status[s]

\* _create_version starts the review over.
RevisedStatus(s) == "DRAFT"

\* _create_version leaves approved_version_id alone.
ApprovedAfterRevision(s) == approvedVersion[s]

-----------------------------------------------------------------------------
Init ==
  /\ status = [s \in Strategies |-> "NONE"]
  /\ current = [s \in Strategies |-> 0]
  /\ approvedVersion = [s \in Strategies |-> 0]
  /\ sent = [s \in Strategies |-> {}]
  /\ decisions = {}
  /\ plan = [p \in Plans |-> None]
  /\ active = [m \in Members |-> TRUE]
  /\ businessActive = [b \in Businesses |-> TRUE]
  /\ emailJobs = {}
  /\ request = [m \in Members |-> NoRequest]

\* get_current_context: the request of an active member is let in.
Authenticate(m) ==
  /\ request[m].step = "none"
  /\ active[m] /\ HasActiveScope(m)
  /\ request' = [request EXCEPT ![m] = Request("open", None, 0)]
  /\ UNCHANGED <<strategyVars, trailVars, plan, accessVars, emailJobs>>

\* A 403, 404, 409 or 422, or an IntegrityError: the transaction rolls back and its
\* lock is gone.
Refuse(m) ==
  /\ request[m].step # "none"
  /\ request' = [request EXCEPT ![m] = NoRequest]
  /\ UNCHANGED <<strategyVars, trailVars, plan, accessVars, emailJobs>>

\* create_strategy reads the business.
ReadBusiness(m, s) ==
  /\ request[m].step = "open"
  /\ Authorized(m, "STRATEGY_MANAGE")
  /\ ReachesBusiness(m, Owner[s])
  /\ request' = [request EXCEPT ![m] = Request("creating", s, 0)]
  /\ UNCHANGED <<strategyVars, trailVars, plan, accessVars, emailJobs>>

\* create_strategy commits the strategy with its first version, unless it exists.
CreateStrategy(m, s) ==
  /\ request[m].step = "creating" /\ request[m].strategy = s
  /\ status[s] = "NONE"
  /\ status' = [status EXCEPT ![s] = "DRAFT"]
  /\ current' = [current EXCEPT ![s] = 1]
  /\ request' = [request EXCEPT ![m] = NoRequest]
  /\ UNCHANGED <<approvedVersion, trailVars, plan, accessVars, emailJobs>>

\* _strategy(lock=True): the row is locked, then the business is read.
Lock(m, s) ==
  /\ request[m].step = "open"
  /\ status[s] # "NONE"
  /\ Unlocked(s)
  /\ ReachesBusiness(m, Owner[s])
  /\ request' = [request EXCEPT ![m] = Request("locked", s, 0)]
  /\ UNCHANGED <<strategyVars, trailVars, plan, accessVars, emailJobs>>

\* create_strategy_version
CreateVersion(m, s) ==
  /\ Holds(m, s) /\ Authorized(m, "STRATEGY_MANAGE")
  /\ Revisable(s)
  /\ current[s] < MaxVersions
  /\ status' = [status EXCEPT ![s] = RevisedStatus(s)]
  /\ current' = [current EXCEPT ![s] = @ + 1]
  /\ approvedVersion' = [approvedVersion EXCEPT ![s] = ApprovedAfterRevision(s)]
  /\ request' = [request EXCEPT ![m] = NoRequest]
  /\ UNCHANGED <<trailVars, plan, accessVars, emailJobs>>

\* submit_strategy_internal
SubmitInternal(m, s) ==
  /\ Holds(m, s) /\ Authorized(m, "STRATEGY_MANAGE")
  /\ status[s] = "DRAFT"
  /\ status' = [status EXCEPT ![s] = "INTERNAL_REVIEW"]
  /\ request' = [request EXCEPT ![m] = NoRequest]
  /\ UNCHANGED <<current, approvedVersion, trailVars, plan, accessVars, emailJobs>>

\* The keys of the e-mails that ask the reviewers of s.
ReviewKeys(s) == {[strategy |-> s, to |-> m] : m \in ReviewersOf(s)}

\* send_strategy_to_client: a key that exists already breaks uq_job_org_idempotency
\* and nothing is committed (Refuse).
SendToClient(m, s) ==
  /\ Holds(m, s) /\ Authorized(m, "STRATEGY_REVIEW_INTERNAL")
  /\ status[s] = "INTERNAL_REVIEW"
  /\ ReviewKeys(s) \cap emailJobs = {}
  /\ status' = [status EXCEPT ![s] = "CLIENT_REVIEW"]
  /\ sent' = [sent EXCEPT ![s] = @ \cup {current[s]}]
  /\ emailJobs' = emailJobs \cup ReviewKeys(s)
  /\ request' = [request EXCEPT ![m] = NoRequest]
  /\ UNCHANGED <<current, approvedVersion, decisions, plan, accessVars>>

\* decide_strategy
Decide(m, s, decision) ==
  /\ Holds(m, s) /\ Authorized(m, "STRATEGY_DECIDE_CLIENT")
  /\ Decidable(s)
  /\ IF decision = "APPROVE"
     THEN /\ status' = [status EXCEPT ![s] = "APPROVED"]
          /\ approvedVersion' = [approvedVersion EXCEPT ![s] = ApprovedAfter(s)]
     ELSE /\ status' = [status EXCEPT ![s] = "DRAFT"]
          /\ UNCHANGED approvedVersion
  /\ decisions' = decisions \cup
       {[strategy |-> s, version |-> current[s], decision |-> decision]}
  /\ request' = [request EXCEPT ![m] = NoRequest]
  /\ UNCHANGED <<current, sent, plan, accessVars, emailJobs>>

\* create_plan reads the strategy, and which version of it is approved.
ReadStrategy(m, s) ==
  /\ request[m].step = "open"
  /\ Authorized(m, "CALENDAR_MANAGE")
  /\ ReachesBusiness(m, Owner[s])
  /\ Plannable(s)
  /\ request' = [request EXCEPT ![m] = Request("planning", s, approvedVersion[s])]
  /\ UNCHANGED <<strategyVars, trailVars, plan, accessVars, emailJobs>>

\* create_plan commits.
CreatePlan(m, p) ==
  /\ request[m].step = "planning"
  /\ plan[p] = None
  /\ plan' = [plan EXCEPT ![p] =
       [strategy |-> request[m].strategy, version |-> request[m].version]]
  /\ request' = [request EXCEPT ![m] = NoRequest]
  /\ UNCHANGED <<strategyVars, trailVars, accessVars, emailJobs>>

\* update_member suspends a member or gives the access back.
UpdateMember(m) ==
  /\ active' = [active EXCEPT ![m] = ~@]
  /\ UNCHANGED <<strategyVars, trailVars, plan, businessActive, emailJobs, request>>

\* archive_business does not wait for the lock of a strategy.
ArchiveBusiness(b) ==
  /\ businessActive[b]
  /\ businessActive' = [businessActive EXCEPT ![b] = FALSE]
  /\ UNCHANGED <<strategyVars, trailVars, plan, active, emailJobs, request>>

-----------------------------------------------------------------------------
\* What a request that holds the lock of s does.
LockedStep(m, s) ==
  \/ CreateVersion(m, s)
  \/ SubmitInternal(m, s)
  \/ SendToClient(m, s)
  \/ \E decision \in {"APPROVE", "CHANGES_REQUESTED"} : Decide(m, s, decision)

RequestStep(m) ==
  \/ Authenticate(m) \/ Refuse(m)
  \/ \E s \in Strategies : \/ ReadBusiness(m, s) \/ CreateStrategy(m, s)
                           \/ Lock(m, s) \/ LockedStep(m, s)
                           \/ ReadStrategy(m, s)
  \/ \E p \in Plans : CreatePlan(m, p)

Next ==
  \/ \E m \in Members : RequestStep(m) \/ UpdateMember(m)
  \/ \E b \in Businesses : ArchiveBusiness(b)

Spec == Init /\ [][Next]_vars

-----------------------------------------------------------------------------
\* The type invariant.
TypeOK ==
  /\ status \in [Strategies -> StrategyStatus \cup {"NONE"}]
  /\ current \in [Strategies -> 0..MaxVersions]
  /\ approvedVersion \in [Strategies -> 0..MaxVersions]
  /\ sent \in [Strategies -> SUBSET Versions]
  /\ decisions \subseteq DecisionRows
  /\ plan \in [Plans -> PlanRows \cup {None}]
  /\ active \in [Members -> BOOLEAN]
  /\ businessActive \in [Businesses -> BOOLEAN]
  /\ emailJobs \subseteq [strategy : Strategies, to : Members]
  /\ request \in [Members -> [step : Steps, strategy : Strategies \cup {None},
                              version : 0..MaxVersions]]

Approved(s, v) == [strategy |-> s, version |-> v, decision |-> "APPROVE"] \in decisions
Returned(s, v) == [strategy |-> s, version |-> v, decision |-> "CHANGES_REQUESTED"] \in decisions

\* A strategy shown as approved, to every viewer of the portal (planning.py:249-254),
\* shows the version the client approved, however many versions came before.
ApprovedIsCurrent ==
  \A s \in Strategies : status[s] = "APPROVED" =>
    approvedVersion[s] = current[s] /\ Approved(s, current[s])

\* What list_strategies shows a client is a version that was sent to the client.
PortalShowsSentVersion ==
  \A s \in Strategies : status[s] \in {"CLIENT_REVIEW", "APPROVED"} => current[s] \in sent[s]

\* A plan is made from a version that the client was sent and approved, although
\* create_plan locks nothing and the strategy may be revised before it commits.
PlanVersionWasReviewed ==
  \A p \in Plans : plan[p] # None =>
    /\ plan[p].version \in sent[plan[p].strategy]
    /\ Approved(plan[p].strategy, plan[p].version)

\* A strategy in review keeps its version until the client has decided.
ReviewedVersionFrozen ==
  [][\A s \in Strategies : status[s] \in {"INTERNAL_REVIEW", "CLIENT_REVIEW"} =>
       current'[s] = current[s]]_vars

\* Once there is an approved version there always is one, and it only moves on to
\* a later version: plans can be made from it again after any revision.
ApprovedVersionOnlyAdvances ==
  [][\A s \in Strategies : approvedVersion'[s] >= approvedVersion[s]]_vars

\* An approved version is never returned afterwards.
ApprovalIsFinal ==
  [][\A s \in Strategies, v \in Versions :
       Approved(s, v) /\ ~Returned(s, v) => ~(Returned(s, v)')]_vars

\* docs/08-aprovacoes-e-notificacoes.md:150 (AP-06): a request for changes creates a
\* new cycle.  The reviewers of a strategy that comes back from internal review can
\* then be asked again.
ReviewersCanBeAsked ==
  \A s \in Strategies : status[s] = "INTERNAL_REVIEW" => ReviewKeys(s) \cap emailJobs = {}

\* What is true of ReviewersCanBeAsked: in the first round nothing stands in the way,
\* so a strategy can always be put before the client once.
FirstRoundCanBeSent ==
  \A s \in Strategies : sent[s] = {} => ReviewKeys(s) \cap emailJobs = {}

-----------------------------------------------------------------------------
(* The planning implements the contract of StrategyContract.               *)

Open == [s \in Strategies |-> IF status[s] = "CLIENT_REVIEW" THEN current[s] ELSE 0]
Accepted == [s \in Strategies |-> {v \in Versions : Approved(s, v)}]

Contract == INSTANCE StrategyContract WITH
  open <- Open, shown <- sent, accepted <- Accepted

\* Whatever is drafted, revised, returned and read without a lock, the client is asked
\* about one version at a time, never about one older than what was accepted, and
\* plans come from what was accepted.
ImplementsStrategyContract == Contract!Spec
=============================================================================
