----------------------- MODULE StrategyPlanningProofs -----------------------
(***************************************************************************)
(* Proofs about StrategyPlanning: for every set of strategies, plans,      *)
(* businesses and members, what the portal shows was sent and approved,    *)
(* plans are made from approved versions only, and approvals are final.    *)
(***************************************************************************)
EXTENDS StrategyPlanning, TLAPS

-----------------------------------------------------------------------------
(* The inductive invariant.                                                *)

\* Version v of s was put before the client and approved.
Reviewed(s, v) == v \in sent[s] /\ Approved(s, v)

\* The two version columns of a strategy, its status and the audit trail agree: an
\* approval on record is of an earlier version or of an approved strategy.
VersionInv ==
  \A s \in Strategies :
    /\ status[s] = "NONE" <=> current[s] = 0
    /\ approvedVersion[s] <= current[s]
    /\ approvedVersion[s] # 0 => Reviewed(s, approvedVersion[s])
    /\ \A v \in Versions : Approved(s, v) =>
         v < current[s] \/ (v = current[s] /\ status[s] = "APPROVED")

\* What create_plan has read stays true until it commits.
ReadReviewed(m) ==
  request[m].step = "planning" =>
    /\ request[m].strategy \in Strategies /\ request[m].version \in Versions
    /\ Reviewed(request[m].strategy, request[m].version)

RequestInv == \A m \in Members : ReadReviewed(m)

\* One conjunct of PlanVersionWasReviewed.
PlanFits(p) == plan[p] # None => Reviewed(plan[p].strategy, plan[p].version)

IInv ==
  /\ TypeOK /\ VersionInv /\ RequestInv
  /\ ApprovedIsCurrent /\ PortalShowsSentVersion /\ PlanVersionWasReviewed

-----------------------------------------------------------------------------
\* The rows TypeOK speaks of.
LEMMA InitIInv == Init => IInv
<1> SUFFICES ASSUME Init PROVE IInv
  OBVIOUS
<1> USE PlanningAssumption DEF Init
<1>1. TypeOK
  BY DEF TypeOK, NoRequest, Request, Steps
<1>2. VersionInv /\ RequestInv
  BY DEF VersionInv, RequestInv, ReadReviewed, Approved, NoRequest, Request
<1>3. ApprovedIsCurrent /\ PortalShowsSentVersion /\ PlanVersionWasReviewed
  BY DEF ApprovedIsCurrent, PortalShowsSentVersion, PlanVersionWasReviewed
<1> QED
  BY <1>1, <1>2, <1>3 DEF IInv

LEMMA TypeStep == IInv /\ [Next]_vars => TypeOK'
<1> SUFFICES ASSUME IInv, [Next]_vars PROVE TypeOK'
  OBVIOUS
<1>t. TypeOK /\ VersionInv /\ RequestInv
  BY DEF IInv
<1>n. NoRequest \in [step : Steps, strategy : Strategies \cup {None}, version : 0..MaxVersions]
  BY PlanningAssumption DEF NoRequest, Request, Steps
<1> USE PlanningAssumption DEF strategyVars, trailVars, accessVars
<1>1. ASSUME NEW m \in Members, Authenticate(m) \/ Refuse(m) PROVE TypeOK'
  <2>1. Request("open", None, 0)
          \in [step : Steps, strategy : Strategies \cup {None}, version : 0..MaxVersions]
    BY DEF Request, Steps
  <2>2. request' \in [Members -> [step : Steps, strategy : Strategies \cup {None},
                                  version : 0..MaxVersions]]
    BY <1>t, <1>n, <1>1, <2>1 DEF TypeOK, Authenticate, Refuse
  <2> QED
    BY <1>t, <1>1, <2>2 DEF TypeOK, Authenticate, Refuse
<1>2. ASSUME NEW m \in Members, NEW s \in Strategies, ReadBusiness(m, s) \/ Lock(m, s)
      PROVE  TypeOK'
  BY <1>t, <1>2 DEF TypeOK, ReadBusiness, Lock, Request, Steps
<1>3. ASSUME NEW m \in Members, NEW s \in Strategies, CreateStrategy(m, s) PROVE TypeOK'
  BY <1>t, <1>n, <1>3 DEF TypeOK, CreateStrategy, StrategyStatus
<1>4. ASSUME NEW m \in Members, NEW s \in Strategies, CreateVersion(m, s) PROVE TypeOK'
  <2>1. current[s] + 1 \in 0..MaxVersions
    BY <1>t, <1>4 DEF TypeOK, CreateVersion
  <2> QED
    BY <1>t, <1>n, <1>4, <2>1
       DEF TypeOK, CreateVersion, RevisedStatus, ApprovedAfterRevision, StrategyStatus
<1>5. ASSUME NEW m \in Members, NEW s \in Strategies, SubmitInternal(m, s) PROVE TypeOK'
  BY <1>t, <1>n, <1>5 DEF TypeOK, SubmitInternal, StrategyStatus
<1>6. ASSUME NEW m \in Members, NEW s \in Strategies, SendToClient(m, s) PROVE TypeOK'
  <2>1. current[s] \in Versions
    BY <1>t, <1>6 DEF TypeOK, VersionInv, SendToClient, Versions
  <2>2. ReviewKeys(s) \subseteq [strategy : Strategies, to : Members]
    BY DEF ReviewKeys, ReviewersOf
  <2> QED
    BY <1>t, <1>n, <1>6, <2>1, <2>2 DEF TypeOK, SendToClient, StrategyStatus
<1>7. ASSUME NEW m \in Members, NEW s \in Strategies,
             NEW decision \in {"APPROVE", "CHANGES_REQUESTED"}, Decide(m, s, decision)
      PROVE  TypeOK'
  <2>1. current[s] \in Versions
    BY <1>t, <1>7 DEF TypeOK, VersionInv, Decide, Decidable, Versions
  <2>2. decisions' \subseteq DecisionRows
    BY <1>t, <1>7, <2>1 DEF TypeOK, Decide, DecisionRows
  <2>3. status' \in [Strategies -> StrategyStatus \cup {"NONE"}]
    BY <1>t, <1>7 DEF TypeOK, Decide, StrategyStatus
  <2>4. approvedVersion' \in [Strategies -> 0..MaxVersions]
    BY <1>t, <1>7, <2>1 DEF TypeOK, Decide, ApprovedAfter, Versions
  <2> QED
    BY <1>t, <1>n, <1>7, <2>2, <2>3, <2>4 DEF TypeOK, Decide
<1>8. ASSUME NEW m \in Members, NEW s \in Strategies, ReadStrategy(m, s) PROVE TypeOK'
  BY <1>t, <1>8 DEF TypeOK, ReadStrategy, Request, Steps
<1>9. ASSUME NEW m \in Members, NEW p \in Plans, CreatePlan(m, p) PROVE TypeOK'
  <2>1. [strategy |-> request[m].strategy, version |-> request[m].version] \in PlanRows
    BY <1>t, <1>9 DEF RequestInv, ReadReviewed, CreatePlan, PlanRows
  <2> QED
    BY <1>t, <1>n, <1>9, <2>1 DEF TypeOK, CreatePlan
<1>10. ASSUME NEW m \in Members, UpdateMember(m) PROVE TypeOK'
  BY <1>t, <1>10 DEF TypeOK, UpdateMember
<1>11. ASSUME NEW b \in Businesses, ArchiveBusiness(b) PROVE TypeOK'
  BY <1>t, <1>11 DEF TypeOK, ArchiveBusiness
<1>12. CASE UNCHANGED vars
  BY <1>t, <1>12 DEF TypeOK, vars
<1> QED
  BY <1>1, <1>2, <1>3, <1>4, <1>5, <1>6, <1>7, <1>8, <1>9, <1>10, <1>11, <1>12
     DEF Next, RequestStep, LockedStep

\* The audit trail only grows, so what was reviewed stays reviewed.
LEMMA TrailGrows ==
  ASSUME IInv, [Next]_vars
  PROVE  /\ decisions \subseteq decisions'
         /\ \A s \in Strategies : sent[s] \subseteq sent'[s]
<1>t. TypeOK
  BY DEF IInv
<1>1. ASSUME NEW m \in Members, NEW s \in Strategies, SendToClient(m, s)
      PROVE  decisions \subseteq decisions' /\ \A r \in Strategies : sent[r] \subseteq sent'[r]
  BY <1>t, <1>1 DEF TypeOK, SendToClient
<1>2. ASSUME NEW m \in Members, NEW s \in Strategies,
             NEW decision \in {"APPROVE", "CHANGES_REQUESTED"}, Decide(m, s, decision)
      PROVE  decisions \subseteq decisions' /\ \A r \in Strategies : sent[r] \subseteq sent'[r]
  BY <1>2 DEF Decide
<1>3. CASE UNCHANGED <<sent, decisions>>
  BY <1>3
<1> QED
  BY <1>1, <1>2, <1>3
     DEF Next, RequestStep, LockedStep, Authenticate, Refuse, ReadBusiness, CreateStrategy,
         Lock, CreateVersion, SubmitInternal, ReadStrategy, CreatePlan, UpdateMember,
         ArchiveBusiness, vars, strategyVars, trailVars, accessVars

LEMMA ReviewedStays ==
  ASSUME IInv, [Next]_vars, NEW s \in Strategies, NEW v, Reviewed(s, v)
  PROVE  Reviewed(s, v)'
BY TrailGrows DEF Reviewed, Approved

-----------------------------------------------------------------------------
\* Every step keeps the version columns, the status and the trail in agreement.
LEMMA VersionStep ==
  IInv /\ [Next]_vars => VersionInv' /\ ApprovedIsCurrent' /\ PortalShowsSentVersion'
<1> SUFFICES ASSUME IInv, [Next]_vars
             PROVE  VersionInv' /\ ApprovedIsCurrent' /\ PortalShowsSentVersion'
  OBVIOUS
<1>t. TypeOK /\ VersionInv /\ ApprovedIsCurrent /\ PortalShowsSentVersion
  BY DEF IInv
<1> USE DEF VersionInv, ApprovedIsCurrent, PortalShowsSentVersion, Reviewed, Approved
<1>1. CASE UNCHANGED <<status, current, approvedVersion, sent, decisions>>
  BY <1>t, <1>1
<1>2. ASSUME NEW m \in Members, NEW s \in Strategies, CreateStrategy(m, s)
      PROVE  VersionInv' /\ ApprovedIsCurrent' /\ PortalShowsSentVersion'
  <2>1. /\ status'[s] = "DRAFT" /\ current'[s] = 1 /\ current[s] \in Nat
        /\ \A r \in Strategies \ {s} : status'[r] = status[r] /\ current'[r] = current[r]
        /\ UNCHANGED <<approvedVersion, sent, decisions>>
    BY <1>t, <1>2 DEF CreateStrategy, trailVars, TypeOK
  <2>2. \A v \in Versions : ~Approved(s, v)
    <3>1. current[s] = 0
      BY <1>t, <1>2 DEF CreateStrategy
    <3> QED
      <4>1. ASSUME NEW v \in Versions, Approved(s, v) PROVE v < current[s] \/ v = current[s]
        BY <1>t, <4>1
      <4>2. \A v \in Versions : ~(v < 0) /\ v # 0
        BY PlanningAssumption DEF Versions
      <4> QED
        BY <3>1, <4>1, <4>2
  <2> QED
    BY <1>t, <2>1, <2>2 DEF TypeOK, Versions
<1>3. ASSUME NEW m \in Members, NEW s \in Strategies, CreateVersion(m, s)
      PROVE  VersionInv' /\ ApprovedIsCurrent' /\ PortalShowsSentVersion'
  <2>1. /\ status'[s] = "DRAFT" /\ current'[s] = current[s] + 1
        /\ \A r \in Strategies \ {s} : status'[r] = status[r] /\ current'[r] = current[r]
        /\ \A r \in Strategies : approvedVersion'[r] = approvedVersion[r]
        /\ UNCHANGED <<sent, decisions>>
        /\ \A r \in Strategies : current[r] \in 0..MaxVersions /\ approvedVersion[r] \in 0..MaxVersions
    BY <1>t, <1>3 DEF CreateVersion, RevisedStatus, ApprovedAfterRevision, trailVars, TypeOK
  <2> QED
    BY <1>t, <2>1, PlanningAssumption DEF Versions
<1>4. ASSUME NEW m \in Members, NEW s \in Strategies, SubmitInternal(m, s)
      PROVE  VersionInv' /\ ApprovedIsCurrent' /\ PortalShowsSentVersion'
  BY <1>t, <1>4 DEF SubmitInternal, trailVars, TypeOK
<1>5. ASSUME NEW m \in Members, NEW s \in Strategies, SendToClient(m, s)
      PROVE  VersionInv' /\ ApprovedIsCurrent' /\ PortalShowsSentVersion'
  BY <1>t, <1>5 DEF SendToClient, TypeOK
<1>6. ASSUME NEW m \in Members, NEW s \in Strategies, Decide(m, s, "APPROVE")
      PROVE  VersionInv' /\ ApprovedIsCurrent' /\ PortalShowsSentVersion'
  <2>1. /\ status[s] = "CLIENT_REVIEW" /\ status'[s] = "APPROVED"
        /\ approvedVersion'[s] = current[s]
        /\ \A r \in Strategies \ {s} :
             status'[r] = status[r] /\ approvedVersion'[r] = approvedVersion[r]
        /\ UNCHANGED <<current, sent>>
        /\ decisions' = decisions \cup
             {[strategy |-> s, version |-> current[s], decision |-> "APPROVE"]}
        /\ \A r \in Strategies : current[r] \in Nat
    BY <1>t, <1>6 DEF Decide, Decidable, ApprovedAfter, TypeOK
  <2>2. \A r \in Strategies, v \in Versions :
          Approved(r, v)' => Approved(r, v) \/ (r = s /\ v = current[s])
    BY <2>1
  <2>3. \A r \in Strategies : \A v : Approved(r, v) => Approved(r, v)'
    BY <2>1
  <2>4. Approved(s, current[s])' /\ current[s] \in sent[s]
    BY <1>t, <2>1
  <2>5. VersionInv'
    <3>1. ASSUME NEW r \in Strategies
          PROVE  /\ status'[r] = "NONE" <=> current'[r] = 0
                 /\ approvedVersion'[r] <= current'[r]
      <4>1. CASE r = s
        <5>1. current[s] # 0 /\ current[s] \in Nat /\ current'[s] = current[s]
          BY <1>t, <2>1
        <5> QED
          BY <2>1, <4>1, <5>1
      <4>2. CASE r # s
        BY <1>t, <2>1, <4>2
      <4> QED
        BY <4>1, <4>2
    <3>2. ASSUME NEW r \in Strategies, NEW v, v = approvedVersion'[r], v # 0
          PROVE  v \in sent'[r] /\ Approved(r, v)'
      <4>1. CASE r = s
        BY <2>1, <2>4, <3>2, <4>1
      <4>2. CASE r # s
        BY <1>t, <2>1, <2>3, <3>2, <4>2
      <4> QED
        BY <4>1, <4>2
    <3>3. ASSUME NEW r \in Strategies, NEW v \in Versions, Approved(r, v)'
          PROVE  v < current[r] \/ (v = current[r] /\ status'[r] = "APPROVED")
      BY <1>t, <2>1, <2>2, <3>3
    <3> QED
      BY <2>1, <3>1, <3>2, <3>3
  <2>6. ApprovedIsCurrent' /\ PortalShowsSentVersion'
    BY <1>t, <2>1, <2>3, <2>4
  <2> QED
    BY <2>5, <2>6
<1>7. ASSUME NEW m \in Members, NEW s \in Strategies, Decide(m, s, "CHANGES_REQUESTED")
      PROVE  VersionInv' /\ ApprovedIsCurrent' /\ PortalShowsSentVersion'
  <2>1. /\ status[s] = "CLIENT_REVIEW" /\ status'[s] = "DRAFT"
        /\ \A r \in Strategies \ {s} : status'[r] = status[r]
        /\ UNCHANGED <<current, approvedVersion, sent>>
        /\ decisions' = decisions \cup
             {[strategy |-> s, version |-> current[s], decision |-> "CHANGES_REQUESTED"]}
    BY <1>t, <1>7 DEF Decide, Decidable, TypeOK
  <2>2. \A r \in Strategies : \A v : Approved(r, v)' <=> Approved(r, v)
    BY <2>1
  <2> QED
    BY <1>t, <2>1, <2>2
<1> QED
  BY <1>1, <1>2, <1>3, <1>4, <1>5, <1>6, <1>7
     DEF Next, RequestStep, LockedStep, Authenticate, Refuse, ReadBusiness, Lock,
         ReadStrategy, CreatePlan, UpdateMember, ArchiveBusiness, vars, strategyVars,
         trailVars, accessVars

\* Every step keeps plans, and the requests that are about to make one, on reviewed
\* versions.
LEMMA PlanStep == IInv /\ [Next]_vars => RequestInv' /\ PlanVersionWasReviewed'
<1> SUFFICES ASSUME IInv, [Next]_vars PROVE RequestInv' /\ PlanVersionWasReviewed'
  OBVIOUS
<1>t. TypeOK /\ VersionInv /\ RequestInv /\ ApprovedIsCurrent /\ PlanVersionWasReviewed
  BY DEF IInv
<1>1. ASSUME NEW m \in Members,
             request'[m] = request[m] \/ request'[m].step # "planning"
      PROVE  ReadReviewed(m)'
  <2>1. CASE request'[m].step # "planning"
    BY <2>1 DEF ReadReviewed
  <2>2. CASE request'[m] = request[m]
    BY <1>t, <2>2, ReviewedStays DEF RequestInv, ReadReviewed, Reviewed, Approved
  <2> QED
    BY <1>1, <2>1, <2>2
<1>2. ASSUME NEW p \in Plans, plan'[p] = plan[p]
      PROVE  PlanFits(p)'
  <2>1. plan[p] # None => plan[p].strategy \in Strategies /\ PlanFits(p)
    BY <1>t DEF PlanVersionWasReviewed, PlanFits, Reviewed, TypeOK, PlanRows
  <2> QED
    BY <1>2, <2>1, ReviewedStays DEF PlanFits, Reviewed, Approved
<1>p. (\A p \in Plans : PlanFits(p)') => PlanVersionWasReviewed'
  BY DEF PlanFits, PlanVersionWasReviewed, Reviewed
<1>3. ASSUME NEW m \in Members, NEW s \in Strategies, ReadStrategy(m, s)
      PROVE  RequestInv' /\ PlanVersionWasReviewed'
  <2>1. approvedVersion[s] \in Versions /\ Reviewed(s, approvedVersion[s])
    <3>1. status[s] = "APPROVED"
      BY <1>3 DEF ReadStrategy, Plannable
    <3>2. approvedVersion[s] # 0
      BY <1>t, <3>1 DEF ApprovedIsCurrent, VersionInv
    <3> QED
      BY <1>t, <3>2, PlanningAssumption DEF VersionInv, TypeOK, Versions
  <2>2. /\ request'[m] = [step |-> "planning", strategy |-> s, version |-> approvedVersion[s]]
        /\ \A n \in Members \ {m} : request'[n] = request[n]
        /\ UNCHANGED <<plan, sent, decisions>>
    BY <1>t, <1>3 DEF ReadStrategy, Request, TypeOK, trailVars
  <2>3. ReadReviewed(m)'
    BY <2>1, <2>2 DEF ReadReviewed, Reviewed, Approved
  <2> QED
    BY <1>1, <1>2, <1>p, <2>2, <2>3 DEF RequestInv
<1>4. ASSUME NEW m \in Members, NEW p \in Plans, CreatePlan(m, p)
      PROVE  RequestInv' /\ PlanVersionWasReviewed'
  <2>1. /\ request'[m].step # "planning" /\ \A n \in Members \ {m} : request'[n] = request[n]
        /\ plan'[p] = [strategy |-> request[m].strategy, version |-> request[m].version]
        /\ \A q \in Plans \ {p} : plan'[q] = plan[q]
        /\ UNCHANGED <<sent, decisions>>
    BY <1>t, <1>4 DEF CreatePlan, NoRequest, Request, trailVars, TypeOK
  <2>2. Reviewed(request[m].strategy, request[m].version)
    BY <1>t, <1>4 DEF CreatePlan, RequestInv, ReadReviewed
  <2>3. PlanFits(p)'
    BY <2>1, <2>2 DEF PlanFits, Reviewed, Approved
  <2> QED
    BY <1>1, <1>2, <1>p, <2>1, <2>3 DEF RequestInv
<1>5. ASSUME \A m \in Members : request'[m] = request[m] \/ request'[m].step # "planning",
             plan' = plan
      PROVE  RequestInv' /\ PlanVersionWasReviewed'
  BY <1>1, <1>2, <1>p, <1>5 DEF RequestInv
<1>6. ASSUME NEW m \in Members, Authenticate(m) \/ Refuse(m)
      PROVE  /\ \A n \in Members : request'[n] = request[n] \/ request'[n].step # "planning"
             /\ plan' = plan
  BY <1>t, <1>6 DEF Authenticate, Refuse, Request, NoRequest, TypeOK
<1>7. ASSUME NEW m \in Members, NEW s \in Strategies, ReadBusiness(m, s) \/ Lock(m, s)
      PROVE  /\ \A n \in Members : request'[n] = request[n] \/ request'[n].step # "planning"
             /\ plan' = plan
  BY <1>t, <1>7 DEF ReadBusiness, Lock, Request, TypeOK
<1>8. ASSUME NEW m \in Members, NEW s \in Strategies, CreateStrategy(m, s) \/ LockedStep(m, s)
      PROVE  /\ \A n \in Members : request'[n] = request[n] \/ request'[n].step # "planning"
             /\ plan' = plan
  <2>1. request' = [request EXCEPT ![m] = NoRequest] /\ plan' = plan
    BY <1>8 DEF CreateStrategy, LockedStep, CreateVersion, SubmitInternal, SendToClient, Decide
  <2> QED
    BY <1>t, <2>1 DEF NoRequest, Request, TypeOK
<1> QED
  BY <1>3, <1>4, <1>5, <1>6, <1>7, <1>8
     DEF Next, RequestStep, UpdateMember, ArchiveBusiness, vars

\* The invariant the theorems below rest on.
THEOREM Invariance == Spec => []IInv
<1>1. IInv /\ [Next]_vars => IInv'
  BY TypeStep, VersionStep, PlanStep DEF IInv
<1> QED
  BY InitIInv, <1>1, PTL DEF Spec

-----------------------------------------------------------------------------
(* What follows from the invariant.                                        *)

\* The types of the state, for every instance.
THEOREM TypeCorrect == Spec => []TypeOK
BY Invariance, PTL DEF IInv

\* A strategy shown as approved shows the approved version.
THEOREM ApprovedShown == Spec => []ApprovedIsCurrent
BY Invariance, PTL DEF IInv

\* The portal shows versions that were sent.
THEOREM PortalShowsSent == Spec => []PortalShowsSentVersion
BY Invariance, PTL DEF IInv

\* Plans are made from versions the client was sent and approved.
THEOREM PlansReviewed == Spec => []PlanVersionWasReviewed
BY Invariance, PTL DEF IInv

\* A review is of one version.
THEOREM ReviewFrozen == Spec => ReviewedVersionFrozen
<1> DEFINE Frozen == \A s \in Strategies : status[s] \in {"INTERNAL_REVIEW", "CLIENT_REVIEW"} =>
                       current'[s] = current[s]
<1>1. ASSUME IInv, Next PROVE Frozen
  <2>t. TypeOK
    BY <1>1 DEF IInv
  <2>1. ASSUME NEW m \in Members, NEW r \in Strategies, CreateStrategy(m, r) PROVE Frozen
    BY <2>t, <2>1 DEF CreateStrategy, TypeOK
  <2>2. ASSUME NEW m \in Members, NEW r \in Strategies, CreateVersion(m, r) PROVE Frozen
    BY <2>t, <2>2 DEF CreateVersion, Revisable, TypeOK
  <2>3. CASE UNCHANGED current
    BY <2>3
  <2> QED
    BY <1>1, <2>1, <2>2, <2>3
       DEF Next, RequestStep, LockedStep, Authenticate, Refuse, ReadBusiness, Lock,
           SubmitInternal, SendToClient, Decide, ReadStrategy, CreatePlan, UpdateMember,
           ArchiveBusiness, strategyVars
<1>2. IInv /\ [Next]_vars => [Frozen]_vars
  BY <1>1
<1> QED
  BY Invariance, <1>2, PTL DEF Spec, ReviewedVersionFrozen

\* The approved version moves forward only.
THEOREM ApprovedAdvances == Spec => ApprovedVersionOnlyAdvances
<1> DEFINE Advances == \A s \in Strategies : approvedVersion'[s] >= approvedVersion[s]
<1>1. ASSUME IInv, Next PROVE Advances
  <2>t. TypeOK /\ VersionInv
    BY <1>1 DEF IInv
  <2>n. \A s \in Strategies : approvedVersion[s] \in Nat /\ current[s] \in Nat
    BY <2>t DEF TypeOK
  <2>1. ASSUME NEW m \in Members, NEW r \in Strategies, CreateVersion(m, r) PROVE Advances
    BY <2>t, <2>n, <2>1 DEF CreateVersion, ApprovedAfterRevision, TypeOK
  <2>2. ASSUME NEW m \in Members, NEW r \in Strategies,
               NEW decision \in {"APPROVE", "CHANGES_REQUESTED"}, Decide(m, r, decision)
        PROVE  Advances
    BY <2>t, <2>n, <2>2 DEF Decide, ApprovedAfter, VersionInv, TypeOK
  <2>3. CASE UNCHANGED approvedVersion
    BY <2>n, <2>3
  <2> QED
    BY <1>1, <2>1, <2>2, <2>3
       DEF Next, RequestStep, LockedStep, Authenticate, Refuse, ReadBusiness, Lock,
           CreateStrategy, SubmitInternal, SendToClient, ReadStrategy, CreatePlan,
           UpdateMember, ArchiveBusiness, strategyVars
<1>2. IInv /\ [Next]_vars => [Advances]_vars
  <2>1. IInv => \A s \in Strategies : approvedVersion[s] \in Nat
    BY DEF IInv, TypeOK
  <2> QED
    BY <1>1, <2>1
<1> QED
  BY Invariance, <1>2, PTL DEF Spec, ApprovedVersionOnlyAdvances

\* An approval is not followed by a request for changes of the same version.
THEOREM ApprovalsFinal == Spec => ApprovalIsFinal
<1> DEFINE Final == \A s \in Strategies, v \in Versions :
                      Approved(s, v) /\ ~Returned(s, v) => ~(Returned(s, v)')
<1>1. ASSUME IInv, Next PROVE Final
  <2>t. VersionInv
    BY <1>1 DEF IInv
  <2>1. ASSUME NEW m \in Members, NEW r \in Strategies,
               NEW decision \in {"APPROVE", "CHANGES_REQUESTED"}, Decide(m, r, decision)
        PROVE  Final
    <3>1. ~Approved(r, current[r]) \/ current[r] \notin Versions
      <4>1. status[r] = "CLIENT_REVIEW"
        BY <2>1 DEF Decide, Decidable
      <4> QED
        BY <2>t, <4>1 DEF VersionInv, Versions
    <3>2. \A s \in Strategies, v \in Versions :
            Returned(s, v)' => Returned(s, v) \/ (s = r /\ v = current[r])
      BY <2>1 DEF Decide, Returned
    <3> QED
      BY <3>1, <3>2
  <2>2. CASE UNCHANGED decisions
    BY <2>2 DEF Returned
  <2> QED
    BY <1>1, <2>1, <2>2
       DEF Next, RequestStep, LockedStep, Authenticate, Refuse, ReadBusiness, Lock,
           CreateStrategy, CreateVersion, SubmitInternal, SendToClient, ReadStrategy,
           CreatePlan, UpdateMember, ArchiveBusiness, trailVars
<1>2. IInv /\ [Next]_vars => [Final]_vars
  BY <1>1
<1> QED
  BY Invariance, <1>2, PTL DEF Spec, ApprovalIsFinal
-----------------------------------------------------------------------------
(* The first round.                                                        *)

\* Nobody was e-mailed about a strategy that was never sent.
KeysInv == \A key \in emailJobs : sent[key.strategy] # {}

\* A key of the same strategy and reviewer is what stops a later round; in the first
\* round there is none.
THEOREM FirstRoundSendable == Spec => []FirstRoundCanBeSent
<1>1. Init => KeysInv
  BY DEF Init, KeysInv
<1>2. IInv /\ KeysInv /\ [Next]_vars => KeysInv'
  <2> SUFFICES ASSUME IInv, KeysInv, [Next]_vars PROVE KeysInv'
    OBVIOUS
  <2>t. TypeOK
    BY DEF IInv
  <2>1. \A key \in emailJobs : sent'[key.strategy] # {}
    <3>1. \A key \in emailJobs : key.strategy \in Strategies
      BY <2>t DEF TypeOK
    <3> QED
      BY <3>1, TrailGrows DEF KeysInv
  <2>2. ASSUME NEW m \in Members, NEW s \in Strategies, SendToClient(m, s) PROVE KeysInv'
    <3>1. current[s] \in sent'[s]
      BY <2>t, <2>2 DEF SendToClient, TypeOK
    <3>2. \A key \in ReviewKeys(s) : key.strategy = s
      BY DEF ReviewKeys
    <3> QED
      BY <2>1, <2>2, <3>1, <3>2 DEF SendToClient, KeysInv
  <2>3. CASE emailJobs' = emailJobs
    BY <2>1, <2>3 DEF KeysInv
  <2> QED
    BY <2>2, <2>3
       DEF Next, RequestStep, LockedStep, Authenticate, Refuse, ReadBusiness, CreateStrategy,
           Lock, CreateVersion, SubmitInternal, Decide, ReadStrategy, CreatePlan,
           UpdateMember, ArchiveBusiness, vars
<1>3. KeysInv => FirstRoundCanBeSent
  BY DEF KeysInv, FirstRoundCanBeSent, ReviewKeys
<1> QED
  BY Invariance, <1>1, <1>2, <1>3, PTL DEF Spec

-----------------------------------------------------------------------------
(* The planning implements its contract.                                   *)

\* What was sent is no later than what is current.
SentInv == \A s \in Strategies : \A v \in sent[s] : v <= current[s]

LEMMA SentStep == IInv /\ SentInv /\ [Next]_vars => SentInv'
<1> SUFFICES ASSUME IInv, SentInv, [Next]_vars PROVE SentInv'
  OBVIOUS
<1>t. TypeOK
  BY DEF IInv
<1>n. \A s \in Strategies : current[s] \in Nat /\ sent[s] \subseteq Nat
  BY <1>t DEF TypeOK, Versions
<1> USE DEF SentInv
<1>1. ASSUME NEW m \in Members, NEW s \in Strategies, CreateStrategy(m, s) PROVE SentInv'
  <2>1. sent[s] = {}
    <3>1. current[s] = 0
      BY <1>1 DEF IInv, VersionInv, CreateStrategy
    <3>2. \A v \in sent[s] : v \in Nat /\ v >= 1 /\ v <= 0
      BY <1>t, <3>1, PlanningAssumption DEF TypeOK, Versions
    <3> QED
      BY <3>2
  <2>2. sent' = sent /\ \A r \in Strategies \ {s} : current'[r] = current[r]
    BY <1>t, <1>1 DEF CreateStrategy, TypeOK, trailVars
  <2> QED
    BY <2>1, <2>2
<1>2. ASSUME NEW m \in Members, NEW s \in Strategies, CreateVersion(m, s) PROVE SentInv'
  <2>1. /\ sent' = sent /\ current'[s] = current[s] + 1
        /\ \A r \in Strategies \ {s} : current'[r] = current[r]
    BY <1>t, <1>2 DEF CreateVersion, TypeOK, trailVars
  <2> QED
    BY <1>n, <2>1
<1>3. ASSUME NEW m \in Members, NEW s \in Strategies, SendToClient(m, s) PROVE SentInv'
  <2>1. /\ current' = current /\ sent'[s] = sent[s] \cup {current[s]}
        /\ \A r \in Strategies \ {s} : sent'[r] = sent[r]
    BY <1>t, <1>3 DEF SendToClient, TypeOK
  <2> QED
    BY <1>n, <2>1
<1>4. CASE UNCHANGED <<sent, current>>
  BY <1>4
<1> QED
  BY <1>1, <1>2, <1>3, <1>4
     DEF Next, RequestStep, LockedStep, Authenticate, Refuse, ReadBusiness, Lock,
         SubmitInternal, Decide, ReadStrategy, CreatePlan, UpdateMember, ArchiveBusiness,
         vars, strategyVars, trailVars

\* The start of the planning is a start of the contract.
LEMMA ContractInit == Init => Contract!Init
BY DEF Init, Open, Accepted, Approved, Contract!Init

\* A request that reads, locks or is refused, and everything inside the agency, leaves
\* the contract alone.
LEMMA ContractStutters ==
  ASSUME UNCHANGED <<sent, decisions, plan>>, Open' = Open
  PROVE  UNCHANGED Contract!contractVars
BY DEF Accepted, Approved, Contract!contractVars

\* Putting a strategy before the client is to ask about a version that is not older than
\* what was shown, and later than what was accepted.
LEMMA SendAsks ==
  ASSUME IInv, SentInv, NEW m \in Members, NEW s \in Strategies, SendToClient(m, s)
  PROVE  current[s] \in Versions /\ Contract!Ask(s, current[s])
<1>t. TypeOK /\ VersionInv
  BY DEF IInv
<1>1. status[s] = "INTERNAL_REVIEW" /\ current[s] \in Versions
  BY <1>t DEF SendToClient, VersionInv, TypeOK, Versions
<1>2. Open[s] = 0
  BY <1>1 DEF Open
<1>3. \A v \in sent[s] : v <= current[s]
  BY DEF SentInv
<1>4. \A v \in Accepted[s] : v < current[s]
  BY <1>t, <1>1 DEF Accepted, VersionInv
<1>5. Open' = [Open EXCEPT ![s] = current[s]]
  BY <1>t DEF SendToClient, Open, TypeOK
<1>6. sent' = [sent EXCEPT ![s] = @ \cup {current[s]}] /\ UNCHANGED <<Accepted, plan>>
  BY DEF SendToClient, Accepted, Approved
<1> QED
  BY <1>1, <1>2, <1>3, <1>4, <1>5, <1>6 DEF Contract!Ask

\* A decision is the client's answer to what is open.
LEMMA DecideAnswers ==
  ASSUME IInv, NEW m \in Members, NEW s \in Strategies,
         NEW decision \in {"APPROVE", "CHANGES_REQUESTED"}, Decide(m, s, decision)
  PROVE  Contract!Answer(s, decision = "APPROVE")
<1>t. TypeOK /\ VersionInv
  BY DEF IInv
<1>1. /\ status[s] = "CLIENT_REVIEW" /\ current[s] \in Versions
      /\ current' = current /\ sent' = sent /\ plan' = plan
  BY <1>t DEF Decide, Decidable, VersionInv, TypeOK, Versions
<1>2. Open[s] = current[s] /\ Open[s] # 0
  BY <1>t, <1>1 DEF Open, VersionInv
<1>3. Open' = [Open EXCEPT ![s] = 0]
  <2>1. \E new \in {"APPROVED", "DRAFT"} : status' = [status EXCEPT ![s] = new]
    BY DEF Decide
  <2> QED
    BY <1>t, <1>1, <2>1 DEF Open, TypeOK
<1>4. \A r \in Strategies, v \in Versions :
        Approved(r, v)' <=> Approved(r, v) \/ (decision = "APPROVE" /\ r = s /\ v = current[s])
  BY DEF Decide, Approved
<1>5. Accepted' = [Accepted EXCEPT ![s] =
                     IF decision = "APPROVE" THEN @ \cup {Open[s]} ELSE @]
  <2>1. \A r \in Strategies : Accepted'[r] =
          IF r = s /\ decision = "APPROVE" THEN Accepted[r] \cup {current[s]} ELSE Accepted[r]
    BY <1>1, <1>4 DEF Accepted
  <2>2. /\ Accepted = [r \in Strategies |-> Accepted[r]]
        /\ Accepted' = [r \in Strategies |-> Accepted'[r]]
    BY DEF Accepted
  <2> QED
    BY <1>2, <2>1, <2>2
<1> QED
  BY <1>1, <1>2, <1>3, <1>5 DEF Contract!Answer

\* What create_plan commits is still accepted.
LEMMA PlanIsMade ==
  ASSUME IInv, NEW m \in Members, NEW p \in Plans, CreatePlan(m, p)
  PROVE  \E s \in Strategies, v \in Versions : Contract!MakePlan(p, s, v)
<1>1. PICK s \in Strategies, v \in Versions :
        s = request[m].strategy /\ v = request[m].version /\ Approved(s, v)
  BY DEF IInv, RequestInv, ReadReviewed, Reviewed, CreatePlan
<1>2. v \in Accepted[s]
  BY <1>1 DEF Accepted
<1>3. UNCHANGED <<Open, sent, Accepted>>
  BY DEF CreatePlan, strategyVars, trailVars, Open, Accepted, Approved
<1> QED
  BY <1>1, <1>2, <1>3 DEF CreatePlan, Contract!MakePlan

\* Every step is one of the contract or leaves it alone.
LEMMA ContractStep ==
  IInv /\ SentInv /\ [Next]_vars => [Contract!Next]_(Contract!contractVars)
<1> SUFFICES ASSUME IInv, SentInv, [Next]_vars
             PROVE  [Contract!Next]_(Contract!contractVars)
  OBVIOUS
<1>t. TypeOK /\ VersionInv
  BY DEF IInv
<1>1. ASSUME NEW m \in Members, NEW s \in Strategies, SendToClient(m, s)
      PROVE  Contract!Next
  BY <1>1, SendAsks DEF Contract!Next
<1>2. ASSUME NEW m \in Members, NEW s \in Strategies,
             NEW decision \in {"APPROVE", "CHANGES_REQUESTED"}, Decide(m, s, decision)
      PROVE  Contract!Next
  BY <1>2, DecideAnswers DEF Contract!Next
<1>3. ASSUME NEW m \in Members, NEW p \in Plans, CreatePlan(m, p) PROVE Contract!Next
  BY <1>3, PlanIsMade DEF Contract!Next
<1>4. ASSUME NEW m \in Members, NEW s \in Strategies,
             CreateStrategy(m, s) \/ CreateVersion(m, s) \/ SubmitInternal(m, s)
      PROVE  UNCHANGED Contract!contractVars
  <2>1. UNCHANGED <<sent, decisions, plan>>
    BY <1>4 DEF CreateStrategy, CreateVersion, SubmitInternal, trailVars
  <2>2. /\ status[s] # "CLIENT_REVIEW" /\ status'[s] # "CLIENT_REVIEW"
        /\ \A r \in Strategies \ {s} : status'[r] = status[r] /\ current'[r] = current[r]
    BY <1>t, <1>4
       DEF CreateStrategy, CreateVersion, SubmitInternal, Revisable, RevisedStatus, TypeOK
  <2>3. Open' = Open
    BY <2>2 DEF Open
  <2> QED
    BY <2>1, <2>3, ContractStutters
<1>5. CASE UNCHANGED <<strategyVars, trailVars, plan>>
  <2>1. Open' = Open
    BY <1>5 DEF strategyVars, Open
  <2> QED
    BY <1>5, <2>1, ContractStutters DEF trailVars
<1> QED
  BY <1>1, <1>2, <1>3, <1>4, <1>5
     DEF Next, RequestStep, LockedStep, Authenticate, Refuse, ReadBusiness, Lock,
         ReadStrategy, UpdateMember, ArchiveBusiness, vars

\* With its drafts, locks, stale reads and revisions the planning keeps the promises of
\* StrategyContract.
THEOREM Refinement == Spec => ImplementsStrategyContract
<1>1. Init => SentInv
  BY DEF Init, SentInv
<1>2. Spec => []SentInv
  BY Invariance, <1>1, SentStep, PTL DEF Spec
<1> QED
  BY Invariance, <1>2, ContractInit, ContractStep, PTL
     DEF Spec, ImplementsStrategyContract, Contract!Spec
=============================================================================
