-------------------------- MODULE TokenContractProofs --------------------------
(***************************************************************************)
(* Proofs that invitations and password resets, with the requests that     *)
(* lock, use, revoke and issue them at the same time, each keep the        *)
(* promises of OneTimeToken, and when a token that is spent leaves no      *)
(* other one of its person open.                                           *)
(***************************************************************************)
EXTENDS MemberAccessProofs

-----------------------------------------------------------------------------
(* What the rows of tokens are to their contract.                          *)

LEMMA PhaseFacts ==
  \A token :
    /\ Phase(token) = "unissued" <=> token = None
    /\ Phase(token) = "open" <=> token # None /\ Unsettled(token)
    /\ token # None /\ token.state = "revoked" => Phase(token) = "void"
    /\ token # None /\ token.state \in {"accepted", "used"} => Phase(token) = "spent"
    /\ token # None => HolderOf(token) = token.user
BY DEF Phase, HolderOf, Unsettled

\* The rows that change keep their person and get the state they are given.
LEMMA InviteRow ==
  \A row \in InviteRows, state \in {"pending", "expired", "accepted", "revoked"} : \A after :
    after = [row EXCEPT !.state = state] =>
      after # None /\ after.state = state /\ after.user = row.user
BY AccessAssumption DEF InviteRows

LEMMA ResetRow ==
  \A row \in ResetRows, state \in {"pending", "used", "revoked"} : \A after :
    after = [row EXCEPT !.state = state] =>
      after # None /\ after.state = state /\ after.user = row.user
BY AccessAssumption DEF ResetRows

-----------------------------------------------------------------------------
(* Invitations.                                                            *)

\* Whoever belonged to the organization at the start still has a membership.
KeptInv == \A u \in Users : InitialMembership[u] # None => membership[u] # None

LEMMA KeptStep == IInv /\ KeptInv /\ [Next]_vars => KeptInv'
<1> SUFFICES ASSUME IInv, KeptInv, [Next]_vars PROVE KeptInv'
  OBVIOUS
<1>t. TypeOK /\ RequestInv
  BY DEF IInv
<1>1. CASE membership' = membership
  BY <1>1 DEF KeptInv
<1>2. ASSUME NEW r \in Requests, CommitUpdate(r) PROVE KeptInv'
  <2> DEFINE q == request[r]
  <2>1. q.user \in Users /\ membership[q.user] \in Rows /\ q.row \in Rows /\ q.next \in Rows
    BY <1>t, <1>2 DEF CommitUpdate, RequestInv, RequestFits, At, TypeOK
  <2>2. Written(membership[q.user], q.row, q.next) # None
    BY <2>1, WrittenTyped, AccessAssumption
  <2> QED
    BY <1>t, <1>2, <2>1, <2>2 DEF CommitUpdate, KeptInv, TypeOK
<1>3. ASSUME NEW r \in Requests, NEW i \in Invites, CommitAccept(r, i) PROVE KeptInv'
  <2>1. request[r].user \in Users /\ membership[request[r].user] = None
    BY <1>t, <1>3 DEF CommitAccept, RequestInv, RequestFits, At, Inserting
  <2>2. \A u \in Users \ {request[r].user} : membership'[u] = membership[u]
    BY <1>t, <1>3, <2>1 DEF CommitAccept, TypeOK
  <2> QED
    BY <2>1, <2>2 DEF KeptInv
<1>4. ASSUME NEW r \in Requests, Bystander(r) PROVE membership' = membership
  BY <1>t, <1>4, BystanderStep
<1> QED
  BY <1>1, <1>2, <1>3, <1>4, StepKinds
     DEF Still, IssueSession, CountAdmins, ReadAccount, ReadMember, LockReset, FindOthers,
         CommitReset, accountVars

LEMMA InvitationInit == Init => Invitation!Init
BY DEF Init, InvitePhase, InviteHolder, Joined, Phase, HolderOf, Invitation!Init

\* create_invitation sends a new invitation; it ends none.
LEMMA CreateIssues ==
  ASSUME IInv, NEW r \in Requests, NEW i \in Invites, CreateInvite(r, i)
  PROVE  \E u \in Users : Invitation!Issue(i, u, {})
<1>1. PICK u \in Users : u = request[r].user
  BY DEF IInv, RequestInv, RequestFits, At, CreateInvite
<1> DEFINE row == [user |-> u, role |-> request[r].next.role,
                  business |-> request[r].next.business, state |-> "pending"]
<1>2. row \in InviteRows /\ row.user = u /\ row.state = "pending"
  BY <1>1 DEF IInv, RequestInv, RequestFits, At, CreateInvite, Rows, InviteRows
<1>3. /\ invites[i] = None /\ invites' = [invites EXCEPT ![i] = row]
      /\ membership' = membership /\ DOMAIN invites = Invites
  BY <1>1 DEF CreateInvite, IInv, TypeOK, accountVars
<1> HIDE DEF row
<1>4. row # None /\ row.user = u /\ Unsettled(row)
  BY <1>2, AccessAssumption DEF Unsettled
<1>5. /\ InvitePhase[i] = "unissued"
      /\ InvitePhase' = [InvitePhase EXCEPT ![i] = "open"]
      /\ InviteHolder' = [InviteHolder EXCEPT ![i] = u]
  BY <1>3, <1>4, PhaseFacts DEF InvitePhase, InviteHolder
<1>6. Invitation!Voided({}) = InvitePhase
  BY DEF Invitation!Voided, InvitePhase
<1>7. Joined' = Joined
  BY <1>3 DEF Joined
<1> QED
  BY <1>5, <1>6, <1>7 DEF Invitation!Issue

\* revoke_invitation withdraws one that was open, expired or not.
LEMMA RevokeWithdraws ==
  ASSUME IInv, NEW r \in Requests, NEW i \in Invites, RevokeInvite(r, i)
  PROVE  Invitation!Withdraw(i)
<1>1. /\ invites[i] # None /\ Unsettled(invites[i]) /\ membership' = membership
      /\ invites' = WithState(invites, {i}, "revoked") /\ DOMAIN invites = Invites
      /\ invites[i] \in InviteRows
  BY DEF RevokeInvite, IInv, TypeOK, accountVars
<1>2. /\ invites'[i] # None /\ invites'[i].state = "revoked"
      /\ invites'[i].user = invites[i].user
      /\ \A j \in Invites \ {i} : invites'[j] = invites[j]
  BY <1>1, InviteRow DEF WithState
<1>3. InvitePhase[i] = "open" /\ InvitePhase' = [InvitePhase EXCEPT ![i] = "void"]
  BY <1>1, <1>2, PhaseFacts DEF InvitePhase
<1>4. InviteHolder' = InviteHolder
  BY <1>1, <1>2, PhaseFacts DEF InviteHolder
<1>5. Joined' = Joined
  BY <1>1 DEF Joined
<1> QED
  BY <1>3, <1>4, <1>5 DEF Invitation!Withdraw

\* The tokens that the UPDATE of r still finds to revoke.
RevokedInvites(r) == Revocable(invites, request[r].found)
RevokedResets(r) == Revocable(resets, request[r].found)

\* accept_invitation settles its invitation and others of the same person.
LEMMA AcceptRows ==
  ASSUME IInv, NEW r \in Requests, NEW i \in Invites, CommitAccept(r, i)
  PROVE  /\ membership[request[r].user] = None /\ HoldsInvite(request[r].user, i)
         /\ RevokedInvites(r) \subseteq Invites \ {i}
         /\ \A j \in RevokedInvites(r) : HoldsInvite(request[r].user, j)
         /\ invites'[i] # None /\ invites'[i].state = "accepted"
         /\ invites'[i].user = invites[i].user
         /\ \A j \in RevokedInvites(r) : /\ invites'[j] # None /\ invites'[j].state = "revoked"
                                         /\ invites'[j].user = invites[j].user
         /\ \A j \in Invites \ (RevokedInvites(r) \cup {i}) : invites'[j] = invites[j]
<1>t. TypeOK /\ DOMAIN invites = Invites
  BY DEF IInv, TypeOK
<1> DEFINE u == request[r].user
           S == RevokedInvites(r)
<1>0. RequestFits(r) /\ request[r].step = "superseding" /\ i = request[r].token
  BY DEF IInv, RequestInv, CommitAccept, At
<1>1. membership[u] = None /\ HoldsInvite(u, i) /\ i \notin request[r].found
      /\ \A j \in request[r].found : SentInvite(u, j)
  BY <1>0 DEF RequestFits, Inserting, Accepting
<1>2. S \subseteq Invites \ {i} /\ \A j \in S : HoldsInvite(u, j)
  BY <1>1 DEF RevokedInvites, Revocable, HoldsInvite, SentInvite
<1>3. invites' = WithState(WithState(invites, S, "revoked"), {i}, "accepted")
  BY DEF CommitAccept, RevokedInvites
<1> HIDE DEF S, u
<1>4. \A j \in Invites :
        invites'[j] = IF j = i THEN [invites[i] EXCEPT !.state = "accepted"]
                      ELSE IF j \in S THEN [invites[j] EXCEPT !.state = "revoked"]
                      ELSE invites[j]
  BY <1>t, <1>2, <1>3 DEF WithState
<1>5. \A j \in S \cup {i} : invites[j] \in InviteRows
  BY <1>t, <1>1, <1>2 DEF TypeOK, HoldsInvite, SentInvite
<1>6. \A j \in S : /\ invites'[j] # None /\ invites'[j].state = "revoked"
                   /\ invites'[j].user = invites[j].user
  <2>1. \A j \in S : invites'[j] = [invites[j] EXCEPT !.state = "revoked"]
    BY <1>2, <1>4
  <2> QED
    BY <1>5, <2>1, InviteRow
<1>7. /\ invites'[i] # None /\ invites'[i].state = "accepted"
      /\ invites'[i].user = invites[i].user
  <2>1. invites'[i] = [invites[i] EXCEPT !.state = "accepted"]
    BY <1>4
  <2> QED
    BY <1>5, <2>1, InviteRow
<1>8. \A j \in Invites \ (S \cup {i}) : invites'[j] = invites[j]
  BY <1>4
<1> QED
  BY <1>1, <1>2, <1>6, <1>7, <1>8 DEF S, u

\* accept_invitation spends its invitation and voids what its UPDATE found of the person,
\* who becomes a member by it and was none before.
LEMMA AcceptSpends ==
  ASSUME IInv, KeptInv, NEW r \in Requests, NEW i \in Invites, CommitAccept(r, i)
  PROVE  \E u \in Users, S \in SUBSET Invites :
           S \subseteq Invitation!OpenTokens(u) /\ Invitation!Spend(i, u, S)
<1>t. TypeOK
  BY DEF IInv
<1>1. PICK u \in Users : u = request[r].user
  BY DEF IInv, RequestInv, RequestFits, At, CommitAccept
<1> DEFINE S == RevokedInvites(r)
<1>2. /\ membership[u] = None /\ HoldsInvite(u, i)
      /\ S \subseteq Invites \ {i} /\ \A j \in S : HoldsInvite(u, j)
      /\ invites'[i] # None /\ invites'[i].state = "accepted"
      /\ invites'[i].user = invites[i].user
      /\ \A j \in S : /\ invites'[j] # None /\ invites'[j].state = "revoked"
                      /\ invites'[j].user = invites[j].user
      /\ \A j \in Invites \ (S \cup {i}) : invites'[j] = invites[j]
  BY <1>1, AcceptRows
<1> HIDE DEF S
<1>3. S \subseteq Invitation!OpenTokens(u) /\ i \in Invitation!OpenTokens(u)
  <2>1. \A j \in Invites : HoldsInvite(u, j) => j \in Invitation!OpenTokens(u)
    BY PhaseFacts DEF HoldsInvite, SentInvite, InvitePhase, InviteHolder, Invitation!OpenTokens
  <2> QED
    BY <1>2, <2>1
<1>4. InvitePhase' = [Invitation!Voided(S) EXCEPT ![i] = "spent"]
  <2>1. \A j \in Invites : Phase(invites'[j]) = IF j = i THEN "spent"
                                               ELSE IF j \in S THEN "void"
                                               ELSE Phase(invites[j])
    BY <1>2, PhaseFacts
  <2> QED
    BY <2>1 DEF InvitePhase, Invitation!Voided
<1>5. InviteHolder' = InviteHolder
  <2>1. \A j \in S \cup {i} : invites[j] # None
    BY <1>2 DEF HoldsInvite, SentInvite
  <2>2. \A j \in Invites : HolderOf(invites'[j]) = HolderOf(invites[j])
    BY <1>2, <2>1, PhaseFacts
  <2> QED
    BY <2>2 DEF InviteHolder
<1>6. Joined[u] = 0 /\ Joined' = [Joined EXCEPT ![u] = @ + 1]
  <2> DEFINE row == Row(invites[i].role, invites[i].business, TRUE)
  <2>1. membership' = [membership EXCEPT ![u] = row] /\ row # None
    <3>1. row \in Rows
      BY <1>t, <1>2 DEF Row, Rows, InviteRows, TypeOK, HoldsInvite, SentInvite
    <3> QED
      BY <1>1, <3>1, AccessAssumption DEF CommitAccept
  <2> HIDE DEF row
  <2>2. membership'[u] # None /\ \A v \in Users \ {u} : membership'[v] = membership[v]
    BY <1>t, <2>1 DEF TypeOK
  <2>3. membership[u] = None /\ InitialMembership[u] = None
    BY <1>2 DEF KeptInv
  <2>4. Joined[u] = 0 /\ Joined'[u] = 1
    BY <2>2, <2>3 DEF Joined
  <2>5. \A v \in Users \ {u} : Joined'[v] = Joined[v]
    BY <2>2 DEF Joined
  <2>6. /\ Joined = [v \in Users |-> Joined[v]]
        /\ Joined' = [v \in Users |-> Joined'[v]]
    BY DEF Joined
  <2> QED
    BY <2>4, <2>5, <2>6
<1>7. Invitation!Spend(i, u, S)
  BY <1>3, <1>4, <1>5, <1>6 DEF Invitation!Spend
<1> QED
  BY <1>2, <1>3, <1>7

\* The expiry of an invitation is no step of the contract: it stays open to be revoked.
LEMMA ExpiryStutters ==
  ASSUME IInv, NEW i \in Invites, ExpireInvite(i)
  PROVE  UNCHANGED Invitation!tokenVars
<1>1. /\ invites[i] # None /\ Unsettled(invites[i]) /\ invites[i] \in InviteRows
      /\ membership' = membership
      /\ invites' = WithState(invites, {i}, "expired") /\ DOMAIN invites = Invites
  BY DEF ExpireInvite, IInv, TypeOK, accountVars, Unsettled
<1>2. /\ invites'[i] # None /\ Unsettled(invites'[i])
      /\ invites'[i].user = invites[i].user
      /\ \A j \in Invites \ {i} : invites'[j] = invites[j]
  BY <1>1, InviteRow DEF WithState, Unsettled
<1>3. InvitePhase' = InvitePhase /\ InviteHolder' = InviteHolder
  <2>1. ASSUME NEW j \in Invites
        PROVE  Phase(invites'[j]) = Phase(invites[j]) /\ HolderOf(invites'[j]) = HolderOf(invites[j])
    <3>1. CASE j = i
      <4>1. Phase(invites'[i]) = "open" /\ Phase(invites[i]) = "open"
        BY <1>1, <1>2, PhaseFacts
      <4>2. HolderOf(invites'[i]) = HolderOf(invites[i])
        BY <1>1, <1>2, PhaseFacts
      <4> QED
        BY <3>1, <4>1, <4>2
    <3> QED
      BY <1>2, <3>1
  <2> QED
    BY <2>1 DEF InvitePhase, InviteHolder
<1> QED
  BY <1>1, <1>3 DEF Joined, Invitation!tokenVars

\* An update of a member neither makes nor unmakes one.
LEMMA UpdateStutters ==
  ASSUME IInv, NEW r \in Requests, CommitUpdate(r)
  PROVE  UNCHANGED Invitation!tokenVars
<1>t. TypeOK /\ RequestInv
  BY DEF IInv
<1> DEFINE q == request[r]
<1>1. q.user \in Users /\ membership[q.user] \in Rows /\ q.row \in Rows /\ q.next \in Rows
  BY <1>t DEF CommitUpdate, RequestInv, RequestFits, At, TypeOK
<1>2. Written(membership[q.user], q.row, q.next) # None /\ membership[q.user] # None
  BY <1>1, WrittenTyped, AccessAssumption
<1>3. \A u \in Users : membership'[u] = None <=> membership[u] = None
  BY <1>t, <1>1, <1>2 DEF CommitUpdate, TypeOK
<1>4. invites' = invites
  BY DEF CommitUpdate, tokenVars
<1> QED
  BY <1>3, <1>4 DEF Joined, InvitePhase, InviteHolder, Invitation!tokenVars

\* Every step issues, spends or withdraws an invitation, or leaves them to themselves.
LEMMA InvitationStep ==
  IInv /\ KeptInv /\ [Next]_vars => [Invitation!Next]_(Invitation!tokenVars)
<1> SUFFICES ASSUME IInv, KeptInv, [Next]_vars
             PROVE  [Invitation!Next]_(Invitation!tokenVars)
  OBVIOUS
<1>1. ASSUME NEW r \in Requests, NEW i \in Invites, CreateInvite(r, i) PROVE Invitation!Next
  <2>1. PICK u \in Users : Invitation!Issue(i, u, {})
    BY <1>1, CreateIssues
  <2>2. {} \in SUBSET Invitation!OpenTokens(u)
    OBVIOUS
  <2> QED
    BY <2>1, <2>2 DEF Invitation!Next
<1>2. ASSUME NEW r \in Requests, NEW i \in Invites, RevokeInvite(r, i) PROVE Invitation!Next
  BY <1>2, RevokeWithdraws DEF Invitation!Next
<1>3. ASSUME NEW r \in Requests, NEW i \in Invites, CommitAccept(r, i) PROVE Invitation!Next
  <2>1. PICK u \in Users, S \in SUBSET Invites :
          S \subseteq Invitation!OpenTokens(u) /\ Invitation!Spend(i, u, S)
    BY <1>3, AcceptSpends
  <2> QED
    BY <2>1 DEF Invitation!Next
<1>4. ASSUME NEW i \in Invites, ExpireInvite(i) PROVE UNCHANGED Invitation!tokenVars
  BY <1>4, ExpiryStutters
<1>5. ASSUME NEW r \in Requests, CommitUpdate(r) PROVE UNCHANGED Invitation!tokenVars
  BY <1>5, UpdateStutters
<1>6. CASE UNCHANGED <<membership, invites>>
  BY <1>6 DEF Invitation!tokenVars, InvitePhase, InviteHolder, Joined
<1>7. ASSUME NEW r \in Requests, SessionStep(r) \/ MemberStep(r) \/ Refuse(r)
      PROVE  UNCHANGED <<membership, invites>> \/ CommitUpdate(r)
  BY <1>7 DEF SessionStep, MemberStep, Refuse, ReadAccount, IssueSession, Authenticate,
              ReadMember, CountAdmins, accountVars, tokenVars
<1>8. ASSUME NEW r \in Requests, InviteStep(r)
      PROVE  \/ UNCHANGED <<membership, invites>>
             \/ \E i \in Invites : CreateInvite(r, i) \/ RevokeInvite(r, i) \/ CommitAccept(r, i)
  BY <1>8 DEF InviteStep, SeekMember, SeekInvite, InsertMember, FindSiblings, LockInvite,
              accountVars, tokenVars
<1>9. ASSUME NEW r \in Requests, ResetStep(r) PROVE UNCHANGED <<membership, invites>>
  BY <1>9 DEF ResetStep, StartRecovery, FindResets, FindOthers, CommitRecovery, LockReset,
              CommitReset, accountVars, tokenVars
<1>10. ASSUME (\E b \in Businesses : ArchiveBusiness(b)) \/ UNCHANGED vars
       PROVE  UNCHANGED <<membership, invites>>
  BY <1>10 DEF ArchiveBusiness, accountVars, tokenVars, vars
<1> QED
  BY <1>1, <1>2, <1>3, <1>4, <1>5, <1>6, <1>7, <1>8, <1>9, <1>10 DEF Next

\* accept_invitation, create_invitation and revoke_invitation, in any number of requests
\* at the same time, keep the promise of a one-time token: each person joins by one
\* invitation at most, whatever else is still open, and an invitation that was accepted
\* or revoked never opens again.
THEOREM InvitationRefinement == Spec => ImplementsInvitationContract
<1>1. Init => KeptInv
  BY DEF Init, KeptInv
<1>2. Spec => []KeptInv
  BY Invariance, <1>1, KeptStep, PTL DEF Spec
<1> QED
  BY Invariance, <1>2, InvitationInit, InvitationStep, PTL
     DEF Spec, ImplementsInvitationContract, Invitation!Spec

-----------------------------------------------------------------------------
(* Password resets.                                                        *)

LEMMA RecoveryInit == Init => Recovery!Init
BY DEF Init, ResetPhase, ResetHolder, Phase, HolderOf, Recovery!Init

\* What the UPDATE of r still finds to revoke is open and of the person of r.
LEMMA RevokedFacts ==
  ASSUME IInv, NEW r \in Requests, request[r].step \in {"reissuing", "replacing"}
  PROVE  /\ RevokedResets(r) \subseteq Resets /\ request[r].user \in Users
         /\ \A x \in RevokedResets(r) : HoldsReset(request[r].user, x)
BY DEF IInv, RequestInv, RequestFits, RevokedResets, Revocable, HoldsReset, SentReset

\* request_password_recovery revokes tokens of its person and adds a new one.
LEMMA RecoveryRows ==
  ASSUME IInv, NEW r \in Requests, NEW t \in Resets, CommitRecovery(r, t)
  PROVE  /\ resets[t] = None /\ t \notin RevokedResets(r)
         /\ resets'[t] # None /\ resets'[t].user = request[r].user /\ Unsettled(resets'[t])
         /\ \A x \in RevokedResets(r) : /\ resets'[x] # None /\ resets'[x].state = "revoked"
                                        /\ resets'[x].user = resets[x].user
         /\ \A x \in Resets \ (RevokedResets(r) \cup {t}) : resets'[x] = resets[x]
<1>t. TypeOK /\ DOMAIN resets = Resets
  BY DEF IInv, TypeOK
<1> DEFINE u == request[r].user
           S == RevokedResets(r)
           row == [user |-> u, state |-> "pending"]
<1>1. S \subseteq Resets /\ \A x \in S : HoldsReset(u, x)
  BY RevokedFacts DEF CommitRecovery, At
<1>2. /\ resets[t] = None
      /\ resets' = [WithState(resets, S, "revoked") EXCEPT ![t] = row]
  BY DEF CommitRecovery, RevokedResets
<1>3. t \notin S /\ \A x \in S : resets[x] \in ResetRows
  BY <1>t, <1>1, <1>2 DEF TypeOK, HoldsReset, SentReset
<1>4. row # None /\ row.user = u /\ Unsettled(row)
  <2>1. row \in ResetRows
    BY RevokedFacts DEF CommitRecovery, At, ResetRows
  <2> QED
    BY <2>1, AccessAssumption DEF Unsettled
<1> HIDE DEF S, row, u
<1>5. \A x \in Resets : resets'[x] = IF x = t THEN row
                                     ELSE IF x \in S THEN [resets[x] EXCEPT !.state = "revoked"]
                                     ELSE resets[x]
  BY <1>t, <1>2 DEF WithState
<1>6. \A x \in S : /\ resets'[x] # None /\ resets'[x].state = "revoked"
                   /\ resets'[x].user = resets[x].user
  <2>1. \A x \in S : resets'[x] = [resets[x] EXCEPT !.state = "revoked"]
    BY <1>1, <1>3, <1>5
  <2> QED
    BY <1>3, <2>1, ResetRow
<1>7. resets'[t] = row /\ \A x \in Resets \ (S \cup {t}) : resets'[x] = resets[x]
  BY <1>5
<1> QED
  BY <1>2, <1>3, <1>4, <1>6, <1>7 DEF S, u

\* request_password_recovery sends a new token and voids those its UPDATE found, which
\* are open tokens of the same person.
LEMMA RecoveryIssues ==
  ASSUME IInv, NEW r \in Requests, NEW t \in Resets, CommitRecovery(r, t)
  PROVE  \E u \in Users, S \in SUBSET Resets :
           S \subseteq Recovery!OpenTokens(u) /\ Recovery!Issue(t, u, S)
<1>1. PICK u \in Users : u = request[r].user
  BY RevokedFacts DEF CommitRecovery, At
<1> DEFINE S == RevokedResets(r)
<1>2. S \subseteq Resets /\ \A x \in S : HoldsReset(u, x)
  BY <1>1, RevokedFacts DEF CommitRecovery, At
<1>3. /\ resets[t] = None /\ t \notin S
      /\ resets'[t] # None /\ resets'[t].user = u /\ Unsettled(resets'[t])
      /\ \A x \in S : /\ resets'[x] # None /\ resets'[x].state = "revoked"
                      /\ resets'[x].user = resets[x].user
      /\ \A x \in Resets \ (S \cup {t}) : resets'[x] = resets[x]
  BY <1>1, RecoveryRows
<1> HIDE DEF S
<1>4. ResetPhase[t] = "unissued" /\ S \subseteq Recovery!OpenTokens(u)
  BY <1>2, <1>3, PhaseFacts
     DEF ResetPhase, ResetHolder, Recovery!OpenTokens, HoldsReset, SentReset
<1>5. ResetPhase' = [Recovery!Voided(S) EXCEPT ![t] = "open"]
  <2>1. \A x \in Resets : Phase(resets'[x]) = IF x = t THEN "open"
                                             ELSE IF x \in S THEN "void" ELSE Phase(resets[x])
    BY <1>3, PhaseFacts
  <2> QED
    BY <2>1 DEF ResetPhase, Recovery!Voided
<1>6. ResetHolder' = [ResetHolder EXCEPT ![t] = u]
  <2>1. \A x \in Resets : HolderOf(resets'[x]) = IF x = t THEN u ELSE HolderOf(resets[x])
    BY <1>2, <1>3, PhaseFacts DEF HoldsReset, SentReset
  <2> QED
    BY <2>1 DEF ResetHolder
<1>7. password' = password
  BY DEF CommitRecovery, accountVars
<1>8. Recovery!Issue(t, u, S)
  BY <1>4, <1>5, <1>6, <1>7 DEF Recovery!Issue
<1> QED
  BY <1>2, <1>4, <1>8

\* reset_password settles its token and others of the same person.
LEMMA ResetRowsAfter ==
  ASSUME IInv, NEW r \in Requests, NEW t \in Resets, CommitReset(r, t)
  PROVE  /\ HoldsReset(request[r].user, t) /\ t \notin RevokedResets(r)
         /\ resets'[t] # None /\ resets'[t].state = "used"
         /\ resets'[t].user = resets[t].user
         /\ \A x \in RevokedResets(r) : /\ resets'[x] # None /\ resets'[x].state = "revoked"
                                        /\ resets'[x].user = resets[x].user
         /\ \A x \in Resets \ (RevokedResets(r) \cup {t}) : resets'[x] = resets[x]
<1>t. TypeOK /\ DOMAIN resets = Resets
  BY DEF IInv, TypeOK
<1> DEFINE u == request[r].user
           S == RevokedResets(r)
<1>0. RequestFits(r) /\ request[r].step = "replacing" /\ t = request[r].token
  BY DEF IInv, RequestInv, CommitReset, At
<1>1. HoldsReset(u, t) /\ t \notin S
  BY <1>0 DEF RequestFits, Resetting, RevokedResets, Revocable
<1>2. S \subseteq Resets /\ \A x \in S : HoldsReset(u, x)
  BY <1>0, RevokedFacts
<1>3. resets' = WithState(WithState(resets, S, "revoked"), {t}, "used")
  BY DEF CommitReset, RevokedResets
<1> HIDE DEF S, u
<1>4. \A x \in Resets :
        resets'[x] = IF x = t THEN [resets[t] EXCEPT !.state = "used"]
                     ELSE IF x \in S THEN [resets[x] EXCEPT !.state = "revoked"]
                     ELSE resets[x]
  BY <1>t, <1>1, <1>3 DEF WithState
<1>5. \A x \in S \cup {t} : resets[x] \in ResetRows
  BY <1>t, <1>1, <1>2 DEF TypeOK, HoldsReset, SentReset
<1>6. \A x \in S : /\ resets'[x] # None /\ resets'[x].state = "revoked"
                   /\ resets'[x].user = resets[x].user
  <2>1. \A x \in S : resets'[x] = [resets[x] EXCEPT !.state = "revoked"]
    BY <1>1, <1>2, <1>4
  <2> QED
    BY <1>5, <2>1, ResetRow
<1>7. /\ resets'[t] # None /\ resets'[t].state = "used"
      /\ resets'[t].user = resets[t].user
  <2>1. resets'[t] = [resets[t] EXCEPT !.state = "used"]
    BY <1>4
  <2> QED
    BY <1>5, <2>1, ResetRow
<1>8. \A x \in Resets \ (S \cup {t}) : resets'[x] = resets[x]
  BY <1>4
<1> QED
  BY <1>1, <1>6, <1>7, <1>8 DEF S, u

\* reset_password spends its token, voids what its UPDATE found of the person, and
\* replaces the password once.
LEMMA ResetSpends ==
  ASSUME IInv, NEW r \in Requests, NEW t \in Resets, CommitReset(r, t)
  PROVE  \E u \in Users, S \in SUBSET Resets :
           S \subseteq Recovery!OpenTokens(u) /\ Recovery!Spend(t, u, S)
<1>1. PICK u \in Users : u = request[r].user
  BY RevokedFacts DEF CommitReset, At
<1> DEFINE S == RevokedResets(r)
<1>2. S \subseteq Resets /\ \A x \in S : HoldsReset(u, x)
  BY <1>1, RevokedFacts DEF CommitReset, At
<1>3. /\ HoldsReset(u, t) /\ t \notin S
      /\ resets'[t] # None /\ resets'[t].state = "used" /\ resets'[t].user = resets[t].user
      /\ \A x \in S : /\ resets'[x] # None /\ resets'[x].state = "revoked"
                      /\ resets'[x].user = resets[x].user
      /\ \A x \in Resets \ (S \cup {t}) : resets'[x] = resets[x]
  BY <1>1, ResetRowsAfter
<1> HIDE DEF S
<1>4. S \subseteq Recovery!OpenTokens(u) /\ t \in Recovery!OpenTokens(u)
  <2>1. \A x \in Resets : HoldsReset(u, x) => x \in Recovery!OpenTokens(u)
    BY PhaseFacts DEF HoldsReset, SentReset, ResetPhase, ResetHolder, Recovery!OpenTokens
  <2> QED
    BY <1>2, <1>3, <2>1
<1>5. ResetPhase' = [Recovery!Voided(S) EXCEPT ![t] = "spent"]
  <2>1. \A x \in Resets : Phase(resets'[x]) = IF x = t THEN "spent"
                                             ELSE IF x \in S THEN "void"
                                             ELSE Phase(resets[x])
    BY <1>3, PhaseFacts
  <2> QED
    BY <2>1 DEF ResetPhase, Recovery!Voided
<1>6. ResetHolder' = ResetHolder
  <2>1. \A x \in S \cup {t} : resets[x] # None
    BY <1>2, <1>3 DEF HoldsReset, SentReset
  <2>2. \A x \in Resets : HolderOf(resets'[x]) = HolderOf(resets[x])
    BY <1>3, <2>1, PhaseFacts
  <2> QED
    BY <2>2 DEF ResetHolder
<1>7. password' = [password EXCEPT ![u] = @ + 1]
  BY <1>1 DEF CommitReset
<1>8. Recovery!Spend(t, u, S)
  BY <1>4, <1>5, <1>6, <1>7 DEF Recovery!Spend
<1> QED
  BY <1>2, <1>4, <1>8

\* Every step issues or spends a reset token, or leaves them to themselves.
LEMMA RecoveryContractStep == IInv /\ [Next]_vars => [Recovery!Next]_(Recovery!tokenVars)
<1> SUFFICES ASSUME IInv, [Next]_vars PROVE [Recovery!Next]_(Recovery!tokenVars)
  OBVIOUS
<1>1. ASSUME NEW r \in Requests, NEW t \in Resets, CommitRecovery(r, t) PROVE Recovery!Next
  <2>1. PICK u \in Users, S \in SUBSET Resets :
          S \subseteq Recovery!OpenTokens(u) /\ Recovery!Issue(t, u, S)
    BY <1>1, RecoveryIssues
  <2> QED
    BY <2>1 DEF Recovery!Next
<1>2. ASSUME NEW r \in Requests, NEW t \in Resets, CommitReset(r, t) PROVE Recovery!Next
  <2>1. PICK u \in Users, S \in SUBSET Resets :
          S \subseteq Recovery!OpenTokens(u) /\ Recovery!Spend(t, u, S)
    BY <1>2, ResetSpends
  <2> QED
    BY <2>1 DEF Recovery!Next
<1>3. CASE UNCHANGED <<resets, password>>
  BY <1>3 DEF Recovery!tokenVars, ResetPhase, ResetHolder
<1>4. ASSUME NEW r \in Requests, SessionStep(r) \/ MemberStep(r) \/ Refuse(r)
      PROVE  UNCHANGED <<resets, password>>
  BY <1>4 DEF SessionStep, MemberStep, Refuse, ReadAccount, IssueSession, Authenticate,
              ReadMember, CountAdmins, CommitUpdate, accountVars, tokenVars
<1>5. ASSUME NEW r \in Requests, InviteStep(r) PROVE UNCHANGED <<resets, password>>
  BY <1>5 DEF InviteStep, SeekMember, SeekInvite, InsertMember, FindSiblings, CreateInvite,
              RevokeInvite, LockInvite, CommitAccept, accountVars, tokenVars
<1>6. ASSUME NEW r \in Requests, ResetStep(r)
      PROVE  \/ UNCHANGED <<resets, password>>
             \/ \E t \in Resets : CommitRecovery(r, t) \/ CommitReset(r, t)
  BY <1>6 DEF ResetStep, StartRecovery, FindResets, FindOthers, LockReset, accountVars,
              tokenVars
<1>7. ASSUME (\E i \in Invites : ExpireInvite(i)) \/ (\E b \in Businesses : ArchiveBusiness(b))
             \/ UNCHANGED vars
      PROVE  UNCHANGED <<resets, password>>
  BY <1>7 DEF ExpireInvite, ArchiveBusiness, accountVars, tokenVars, vars
<1> QED
  BY <1>1, <1>2, <1>3, <1>4, <1>5, <1>6, <1>7 DEF Next

\* request_password_recovery and reset_password, in any number of requests at the same
\* time, keep the promise of a one-time token: a token replaces the password once, and one
\* that was used or revoked never opens again.
THEOREM RecoveryRefinement == Spec => ImplementsRecoveryContract
BY Invariance, RecoveryInit, RecoveryContractStep, PTL
   DEF Spec, ImplementsRecoveryContract, Recovery!Spec

-----------------------------------------------------------------------------
\* The two promises are kept together: a request that joins, resets, issues or revokes
\* settles the tokens of one kind and leaves those of the other as they are.
THEOREM TokenRefinement == Spec => ImplementsTokenContracts
<1> QED
  BY InvitationRefinement, RecoveryRefinement
     DEF ImplementsTokenContracts, ImplementsInvitationContract, ImplementsRecoveryContract

-----------------------------------------------------------------------------
(* What the UPDATEs are for.                                               *)

\* The UPDATE of an accept or a reset has found all that is open for its person.
FoundFits(r) ==
  /\ At(r, "superseding") => Siblings(request[r].token) \subseteq request[r].found
  /\ At(r, "replacing") =>
       OpenResets(request[r].user) \ {request[r].token} \subseteq request[r].found

FoundInv == \A r \in Requests : FoundFits(r)

\* Who changes an invitation.
LEMMA InviteChanges ==
  ASSUME [Next]_vars
  PROVE  \/ invites' = invites
         \/ \E r \in Requests, i \in Invites :
              CreateInvite(r, i) \/ RevokeInvite(r, i) \/ CommitAccept(r, i)
         \/ \E i \in Invites : ExpireInvite(i)
<1>1. ASSUME NEW r \in Requests, SessionStep(r) \/ MemberStep(r) \/ ResetStep(r) \/ Refuse(r)
      PROVE  invites' = invites
  BY <1>1 DEF SessionStep, MemberStep, ResetStep, Refuse, ReadAccount, IssueSession,
              Authenticate, ReadMember, CountAdmins, CommitUpdate, StartRecovery, FindResets,
              FindOthers, CommitRecovery, LockReset, CommitReset, tokenVars
<1>2. ASSUME NEW r \in Requests, InviteStep(r)
      PROVE  \/ invites' = invites
             \/ \E i \in Invites : CreateInvite(r, i) \/ RevokeInvite(r, i) \/ CommitAccept(r, i)
  BY <1>2 DEF InviteStep, SeekMember, SeekInvite, InsertMember, FindSiblings, LockInvite,
              tokenVars
<1>3. ASSUME (\E b \in Businesses : ArchiveBusiness(b)) \/ UNCHANGED vars
      PROVE  invites' = invites
  BY <1>3 DEF ArchiveBusiness, tokenVars, vars
<1> QED
  BY <1>1, <1>2, <1>3 DEF Next

\* Who changes a reset token.
LEMMA ResetChanges ==
  ASSUME [Next]_vars
  PROVE  \/ resets' = resets
         \/ \E r \in Requests, t \in Resets : CommitRecovery(r, t) \/ CommitReset(r, t)
<1>1. ASSUME NEW r \in Requests, SessionStep(r) \/ MemberStep(r) \/ InviteStep(r) \/ Refuse(r)
      PROVE  resets' = resets
  BY <1>1 DEF SessionStep, MemberStep, InviteStep, Refuse, ReadAccount, IssueSession,
              Authenticate, ReadMember, CountAdmins, CommitUpdate, SeekMember, SeekInvite,
              InsertMember, FindSiblings, CreateInvite, RevokeInvite, LockInvite,
              CommitAccept, tokenVars
<1>2. ASSUME NEW r \in Requests, ResetStep(r)
      PROVE  \/ resets' = resets
             \/ \E t \in Resets : CommitRecovery(r, t) \/ CommitReset(r, t)
  BY <1>2 DEF ResetStep, StartRecovery, FindResets, FindOthers, LockReset, tokenVars
<1>3. ASSUME \/ \E i \in Invites : ExpireInvite(i)
             \/ \E b \in Businesses : ArchiveBusiness(b)
             \/ UNCHANGED vars
      PROVE  resets' = resets
  BY <1>3 DEF ExpireInvite, ArchiveBusiness, tokenVars, vars
<1> QED
  BY <1>1, <1>2, <1>3 DEF Next

\* A request is about to issue a token to u.
InvitesNow(u) == \E r \in Requests : At(r, "inviting") /\ request[r].user = u
RecoversNow(u) == \E r \in Requests : At(r, "reissuing") /\ request[r].user = u

\* A token that is open after a step was so before, or was issued by it.
LEMMA OpenBefore ==
  ASSUME IInv, [Next]_vars, NEW u
  PROVE  /\ \A j : HoldsInvite(u, j)' => HoldsInvite(u, j) \/ InvitesNow(u)
         /\ \A x : HoldsReset(u, x)' => HoldsReset(u, x) \/ RecoversNow(u)
<1>t. invites \in [Invites -> InviteRows \cup {None}]
  BY DEF IInv, TypeOK
<1> USE DEF HoldsInvite, HoldsReset, SentInvite, SentReset
<1>1. ASSUME NEW r \in Requests, NEW i \in Invites, CreateInvite(r, i),
             NEW j, HoldsInvite(u, j)'
      PROVE  HoldsInvite(u, j) \/ InvitesNow(u)
  <2>1. PICK row : row.user = request[r].user /\ invites' = [invites EXCEPT ![i] = row]
    BY <1>1 DEF CreateInvite
  <2>2. invites'[i] = row /\ \A k \in Invites \ {i} : invites'[k] = invites[k]
    BY <1>t, <2>1
  <2>3. At(r, "inviting")
    BY <1>1 DEF CreateInvite
  <2> QED
    BY <1>1, <2>1, <2>2, <2>3 DEF InvitesNow
<1>2. ASSUME NEW r \in Requests, NEW i \in Invites, RevokeInvite(r, i),
             NEW j, HoldsInvite(u, j)'
      PROVE  HoldsInvite(u, j)
  <2>1. /\ invites[i] \in InviteRows
        /\ invites'[i] = [invites[i] EXCEPT !.state = "revoked"]
        /\ \A k \in Invites \ {i} : invites'[k] = invites[k]
    BY <1>t, <1>2 DEF RevokeInvite, WithState
  <2>2. ~Unsettled(invites'[i])
    BY <2>1, InviteRow DEF Unsettled
  <2> QED
    BY <1>2, <2>1, <2>2
<1>3. ASSUME NEW r \in Requests, NEW i \in Invites, CommitAccept(r, i),
             NEW j, HoldsInvite(u, j)'
      PROVE  HoldsInvite(u, j)
  BY <1>3, AcceptRows DEF Unsettled
<1>4. ASSUME NEW i \in Invites, ExpireInvite(i), NEW j, HoldsInvite(u, j)'
      PROVE  HoldsInvite(u, j)
  <2>1. /\ invites[i] \in InviteRows /\ invites[i] # None /\ invites[i].state = "pending"
        /\ invites'[i] = [invites[i] EXCEPT !.state = "expired"]
        /\ \A k \in Invites \ {i} : invites'[k] = invites[k]
    BY <1>t, <1>4 DEF ExpireInvite, WithState
  <2>2. invites'[i].user = invites[i].user /\ Unsettled(invites[i])
    BY <2>1, InviteRow DEF Unsettled
  <2> QED
    BY <1>4, <2>1, <2>2
<1>5. ASSUME NEW r \in Requests, NEW t \in Resets, CommitRecovery(r, t),
             NEW x, HoldsReset(u, x)'
      PROVE  HoldsReset(u, x) \/ RecoversNow(u)
  <2>1. At(r, "reissuing")
    BY <1>5 DEF CommitRecovery
  <2>2. x \notin RevokedResets(r)
    BY <1>5, RecoveryRows DEF Unsettled
  <2>3. x = t \/ resets'[x] = resets[x]
    BY <1>5, <2>2, RecoveryRows
  <2>4. resets'[t].user = request[r].user
    BY <1>5, RecoveryRows
  <2> QED
    BY <1>5, <2>1, <2>3, <2>4 DEF RecoversNow
<1>6. ASSUME NEW r \in Requests, NEW t \in Resets, CommitReset(r, t),
             NEW x, HoldsReset(u, x)'
      PROVE  HoldsReset(u, x)
  BY <1>6, ResetRowsAfter DEF Unsettled
<1>7. \A j : HoldsInvite(u, j)' => HoldsInvite(u, j) \/ InvitesNow(u)
  <2>1. CASE invites' = invites
    BY <2>1
  <2> QED
    BY <1>1, <1>2, <1>3, <1>4, <2>1, InviteChanges
<1>8. \A x : HoldsReset(u, x)' => HoldsReset(u, x) \/ RecoversNow(u)
  <2>1. CASE resets' = resets
    BY <2>1
  <2> QED
    BY <1>5, <1>6, <2>1, ResetChanges
<1> QED
  BY <1>7, <1>8

\* A request that is about to spend its token has just found the others, or waits.
LEMMA SpendingStep ==
  ASSUME IInv, [Next]_vars, NEW q \in Requests,
         request'[q].step \in {"superseding", "replacing"}
  PROVE  request'[q] = request[q] \/ FindSiblings(q) \/ FindOthers(q)
<1>t. TypeOK
  BY DEF IInv
<1>1. CASE Still
  BY <1>1 DEF Still
<1>2. ASSUME NEW r \in Requests, OthersStay(r), r # q PROVE request'[q] = request[q]
  BY <1>2 DEF OthersStay
<1>3. ASSUME NEW r \in Requests, OthersStay(r), request'[r].step \notin {"superseding", "replacing"}
      PROVE  request'[q] = request[q]
  BY <1>3 DEF OthersStay
<1>4. ASSUME NEW r \in Requests, Bystander(r) PROVE request'[q] = request[q] \/ FindSiblings(q)
  <2>1. CASE r = q
    BY <1>t, <1>4, <2>1, BystanderStep DEF VersionSteps
  <2> QED
    BY <1>t, <1>2, <1>4, <2>1, BystanderStep
<1>5. ASSUME NEW r \in Requests,
             \/ IssueSession(r) \/ CommitUpdate(r)
             \/ \E i \in Invites : CommitAccept(r, i)
             \/ \E t \in Resets : CommitReset(r, t)
      PROVE  request'[q] = request[q]
  <2>1. Done(r)
    BY <1>5 DEF IssueSession, CommitUpdate, CommitAccept, CommitReset
  <2> QED
    BY <1>t, <1>3, <2>1, DoneStep
<1>6. ASSUME NEW r \in Requests, CountAdmins(r) PROVE request'[q] = request[q]
  BY <1>3, <1>6, CountStep
<1>7. ASSUME NEW r \in Requests, FindOthers(r) PROVE request'[q] = request[q] \/ FindOthers(q)
  BY <1>2, <1>7, OthersStep
<1>8. ASSUME NEW r \in Requests, NEW u \in Users, NEW next \in Wishes, ReadMember(r, u, next)
      PROVE  request'[q] = request[q]
  BY <1>3, <1>8, ReadMemberStep
<1>9. ASSUME NEW r \in Requests,
             (\E u \in Users : ReadAccount(r, u)) \/ \E t \in Resets : LockReset(r, t)
      PROVE  request'[q] = request[q]
  <2>1. ASSUME NEW u \in Users, ReadAccount(r, u)
        PROVE  OthersStay(r) /\ request'[r].step = "login"
    BY <1>t, <2>1 DEF ReadAccount, NoRequest, OthersStay, TypeOK
  <2>2. ASSUME NEW t \in Resets, LockReset(r, t)
        PROVE  OthersStay(r) /\ request'[r].step = "resetting"
    BY <1>t, <2>2 DEF LockReset, NoRequest, OthersStay, TypeOK
  <2> QED
    BY <1>3, <1>9, <2>1, <2>2
<1> QED
  BY <1>1, <1>4, <1>5, <1>6, <1>7, <1>8, <1>9, StepKinds

\* What is issued to other people leaves what was found complete.
LEMMA FoundStep == IInv /\ FoundInv /\ TokensApart /\ [Next]_vars => FoundInv'
<1> SUFFICES ASSUME IInv, FoundInv, TokensApart, [Next]_vars, NEW q \in Requests,
                    request'[q].step \in {"superseding", "replacing"}
             PROVE  FoundFits(q)'
  BY DEF FoundInv, FoundFits, At
<1>1. CASE request'[q] = request[q]
  <2>0. PICK u, t : u = request[q].user /\ t = request[q].token
    OBVIOUS
  <2>1. RequestFits(q) /\ RequestFits(q)' /\ FoundFits(q)
    BY NextIInv DEF IInv, RequestInv, FoundInv
  <2>2. CASE At(q, "superseding")
    <3>1. HoldsInvite(u, t) /\ HoldsInvite(u, t)'
      BY <1>1, <2>0, <2>1, <2>2 DEF RequestFits, Accepting, At
    <3>2. ~InvitesNow(u)
      BY <2>0, <2>2 DEF TokensApart, InvitesNow
    <3>3. ASSUME NEW j \in Siblings(t)' PROVE j \in Siblings(t)
      <4>1. HoldsInvite(u, j)' /\ j # t /\ j \in Invites
        BY <3>1, <3>3 DEF Siblings, HoldsInvite, SentInvite
      <4>2. HoldsInvite(u, j)
        BY <3>2, <4>1, OpenBefore
      <4> QED
        BY <3>1, <4>1, <4>2 DEF Siblings, HoldsInvite, SentInvite
    <3> QED
      BY <1>1, <2>0, <2>1, <2>2, <3>3 DEF FoundFits, At
  <2>3. CASE At(q, "replacing")
    <3>1. ~RecoversNow(u)
      BY <2>0, <2>3 DEF TokensApart, RecoversNow
    <3>2. ASSUME NEW x \in OpenResets(u)' PROVE x \in OpenResets(u)
      <4>1. HoldsReset(u, x)'
        BY <3>2 DEF OpenResets, HoldsReset, SentReset
      <4>2. HoldsReset(u, x)
        BY <3>1, <4>1, OpenBefore
      <4> QED
        BY <4>2 DEF OpenResets, HoldsReset, SentReset
    <3> QED
      BY <1>1, <2>0, <2>1, <2>3, <3>2 DEF FoundFits, At
  <2> QED
    BY <1>1, <2>2, <2>3 DEF At
<1>2. CASE FindSiblings(q) \/ FindOthers(q)
  <2>1. invites' = invites /\ resets' = resets
    BY <1>2 DEF FindSiblings, FindOthers, tokenVars
  <2>2. \/ /\ request'[q].step = "superseding"
           /\ request'[q].found = Siblings(request'[q].token)
        \/ /\ request'[q].step = "replacing"
           /\ request'[q].found = OpenResets(request'[q].user) \ {request'[q].token}
    BY <1>2, FindStep
  <2> QED
    BY <2>1, <2>2 DEF FoundFits, At, Siblings, OpenResets
<1> QED
  BY <1>1, <1>2, SpendingStep

\* accept_invitation and reset_password leave no other token of their person open, whatever
\* else is under way, as long as nobody is about to commit a new token for that very person
\* between their UPDATE and their COMMIT.
THEOREM SpendEndsOthersUnlessOverlapped == Spec /\ []TokensApart => SpendEndsOthers
<1> DEFINE InvitesEnd ==
             \A i, j \in Invites :
               i # j /\ InvitePhase[i] # "spent" /\ InvitePhase'[i] = "spent"
                 /\ InvitePhase'[j] = "open" => InviteHolder'[j] # InviteHolder'[i]
           ResetsEnd ==
             \A t, x \in Resets :
               t # x /\ ResetPhase[t] # "spent" /\ ResetPhase'[t] = "spent"
                 /\ ResetPhase'[x] = "open" => ResetHolder'[x] # ResetHolder'[t]
<1>1. ASSUME IInv, FoundInv, [Next]_vars PROVE InvitesEnd
  <2> SUFFICES ASSUME NEW i \in Invites, NEW j \in Invites, i # j,
                      Phase(invites[i]) # "spent", Phase(invites'[i]) = "spent",
                      Phase(invites'[j]) = "open"
               PROVE  HolderOf(invites'[j]) # HolderOf(invites'[i])
    BY DEF InvitePhase, InviteHolder
  <2>0. invites'[j] # None /\ Unsettled(invites'[j])
    BY PhaseFacts
  <2>1. PICK r \in Requests : CommitAccept(r, i)
    <3>1. ASSUME NEW r \in Requests, NEW k \in Invites, CommitAccept(r, k), k # i PROVE FALSE
      <4>1. i \in RevokedInvites(r) \/ invites'[i] = invites[i]
        BY <1>1, <3>1, AcceptRows
      <4>2. i \in RevokedInvites(r) => invites'[i] # None /\ invites'[i].state = "revoked"
        BY <1>1, <3>1, AcceptRows
      <4> QED
        BY <4>1, <4>2, PhaseFacts
    <3>2. ASSUME NEW r \in Requests, NEW k \in Invites, CreateInvite(r, k) PROVE FALSE
      BY <1>1, <3>2, PhaseFacts DEF CreateInvite, IInv, TypeOK, Unsettled
    <3>3. ASSUME NEW k \in Invites, NEW state \in {"revoked", "expired"}, invites[k] # None,
                 invites' = WithState(invites, {k}, state)
          PROVE  FALSE
      <4>1. /\ invites[k] \in InviteRows
            /\ invites'[k] = [invites[k] EXCEPT !.state = state]
            /\ \A l \in Invites \ {k} : invites'[l] = invites[l]
        BY <1>1, <3>3 DEF WithState, IInv, TypeOK
      <4>2. invites'[k] # None /\ invites'[k].state = state
        BY <4>1, InviteRow
      <4> QED
        BY <4>1, <4>2, PhaseFacts DEF Unsettled
    <3> QED
      BY <1>1, <3>1, <3>2, <3>3, InviteChanges DEF RevokeInvite, ExpireInvite
  <2>2. SUFFICES ASSUME HolderOf(invites'[j]) = HolderOf(invites'[i]) PROVE FALSE
    OBVIOUS
  <2>3. j \notin RevokedInvites(r) /\ invites'[j] = invites[j]
    BY <1>1, <2>0, <2>1, AcceptRows DEF Unsettled
  <2>4. invites[j].user = invites[i].user
    BY <1>1, <2>0, <2>1, <2>2, <2>3, AcceptRows, PhaseFacts
  <2>5. j \in Siblings(i)
    BY <2>0, <2>3, <2>4 DEF Siblings
  <2>6. j \in request[r].found
    BY <1>1, <2>1, <2>5 DEF FoundInv, FoundFits, CommitAccept
  <2> QED
    BY <2>0, <2>3, <2>6 DEF RevokedInvites, Revocable
<1>2. ASSUME IInv, FoundInv, [Next]_vars PROVE ResetsEnd
  <2> SUFFICES ASSUME NEW t \in Resets, NEW x \in Resets, t # x,
                      Phase(resets[t]) # "spent", Phase(resets'[t]) = "spent",
                      Phase(resets'[x]) = "open"
               PROVE  HolderOf(resets'[x]) # HolderOf(resets'[t])
    BY DEF ResetPhase, ResetHolder
  <2>0. resets'[x] # None /\ Unsettled(resets'[x])
    BY PhaseFacts
  <2>1. PICK r \in Requests : CommitReset(r, t)
    <3>1. ASSUME NEW r \in Requests, NEW k \in Resets, CommitReset(r, k), k # t PROVE FALSE
      BY <1>2, <3>1, ResetRowsAfter, PhaseFacts
    <3>2. ASSUME NEW r \in Requests, NEW k \in Resets, CommitRecovery(r, k) PROVE FALSE
      BY <1>2, <3>2, RecoveryRows, PhaseFacts
    <3> QED
      BY <1>2, <3>1, <3>2, ResetChanges
  <2>2. SUFFICES ASSUME HolderOf(resets'[x]) = HolderOf(resets'[t]) PROVE FALSE
    OBVIOUS
  <2>3. x \notin RevokedResets(r) /\ resets'[x] = resets[x]
    BY <1>2, <2>0, <2>1, ResetRowsAfter DEF Unsettled
  <2>4. resets[x].user = request[r].user
    BY <1>2, <2>0, <2>1, <2>2, <2>3, ResetRowsAfter, PhaseFacts DEF HoldsReset, SentReset
  <2>5. x \in OpenResets(request[r].user) \ {t}
    BY <2>0, <2>3, <2>4 DEF OpenResets
  <2>6. x \in request[r].found
    BY <1>2, <2>1, <2>5 DEF FoundInv, FoundFits, CommitReset
  <2> QED
    BY <2>0, <2>3, <2>6 DEF RevokedResets, Revocable
<1>3. Init => FoundInv
  BY DEF Init, FoundInv, FoundFits, At, NoRequest
<1>4. IInv /\ FoundInv /\ [Next]_vars => [InvitesEnd /\ ResetsEnd]_vars
  BY <1>1, <1>2
<1> QED
  BY Invariance, FoundStep, <1>3, <1>4, PTL DEF Spec, SpendEndsOthers
================================================================================
