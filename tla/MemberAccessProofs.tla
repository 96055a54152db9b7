------------------------- MODULE MemberAccessProofs -------------------------
(***************************************************************************)
(* Proofs about MemberAccess: for every set of people, invitations, reset  *)
(* tokens and requests in progress, a person joins once, a reset token     *)
(* replaces the password once, tokens that ended stay that way and the     *)
(* access of a client stays limited to a business.                         *)
(***************************************************************************)
EXTENDS MemberAccess, FiniteSetTheorems, TLAPS

-----------------------------------------------------------------------------
(* The inductive invariant.                                                *)

\* What a client's role gives is limited to one business.
Limited(row) == row.role \in BusinessScopedRoles => row.business # None

\* Tokens that were sent to a person, and those among them that can still be settled.
SentInvite(u, i) == i \in Invites /\ invites[i] # None /\ invites[i].user = u
SentReset(u, t) == t \in Resets /\ resets[t] # None /\ resets[t].user = u
HoldsInvite(u, i) == SentInvite(u, i) /\ Unsettled(invites[i])
HoldsReset(u, t) == SentReset(u, t) /\ Unsettled(resets[t])

\* The steps of accept_invitation and of reset_password, with the token locked.
Accepting == {"accepting", "joined", "superseding"}
Resetting == {"resetting", "replacing"}

\* What a request has read, locked and found, step by step.
RequestFits(r) ==
  LET q == request[r]
  IN /\ q.step \in {"open", "counting", "updating", "seeking", "inviting"} => q.actor \in Rows
     /\ q.step \notin {"none", "open"} => q.user \in Users
     /\ q.step \in {"login", "counting", "updating"} => membership[q.user] # None
     /\ q.step \in {"counting", "updating"} => q.row \in Rows /\ q.next \in Rows
     /\ q.step \in {"seeking", "inviting"} => q.next \in Rows /\ Limited(q.next)
     /\ Inserting(r) => membership[q.user] = None
     /\ q.step \in Accepting => HoldsInvite(q.user, q.token)
     /\ q.step \in Resetting => HoldsReset(q.user, q.token)
     /\ q.step \in Accepting \cup Resetting \/ q.token = None
     /\ q.step = "superseding" => \A i \in q.found : SentInvite(q.user, i)
     /\ q.step \in {"reissuing", "replacing"} => \A t \in q.found : SentReset(q.user, t)
     /\ q.step \in {"superseding", "replacing"} => q.token \notin q.found

RequestInv == \A r \in Requests : RequestFits(r)

\* No two requests lock one row or insert one person.
Apart(r, q) ==
  /\ request[r].token = request[q].token => request[r].token = None
  /\ Inserting(r) /\ Inserting(q) => request[r].user # request[q].user

ExclusionInv == \A r, q \in Requests : r # q => Apart(r, q)

\* An invitation never gives a client's role without a business.
InviteInv == \A i \in Invites : invites[i] # None => Limited(invites[i])

\* The reset tokens of a person that were used.
UsedResets(u) ==
  {t \in Resets : resets[t] # None /\ resets[t].user = u /\ resets[t].state = "used"}

IInv ==
  /\ TypeOK /\ RequestInv /\ ExclusionInv /\ InviteInv
  /\ ActiveClientHasBusiness /\ JoinedOnce /\ PasswordChangesOnce

-----------------------------------------------------------------------------
(* Rows and sets of rows.                                                  *)

\* A request that is over, or has not begun, fits.
LEMMA NoRequestTyped ==
  NoRequest \in RequestRows /\ NoRequest.step = "none" /\ NoRequest.token = None
  BY AccessAssumption DEF NoRequest, RequestRows, Steps

\* What the CHECK and the UPDATE of the ORM leave behind is a row.
LEMMA WrittenTyped ==
  ASSUME NEW now \in Rows, NEW row \in Rows, NEW next \in Rows
  PROVE  Written(now, row, next) \in Rows
  BY DEF Written, Rows

\* The number of used tokens never exceeds the number of tokens.
LEMMA UsedBounded ==
  \A u \in Users :
    IsFiniteSet(UsedResets(u)) /\ Cardinality(UsedResets(u)) \in 0..Cardinality(Resets)
<1> SUFFICES ASSUME NEW u \in Users
             PROVE  /\ IsFiniteSet(UsedResets(u))
                    /\ Cardinality(UsedResets(u)) \in 0..Cardinality(Resets)
  OBVIOUS
<1>1. UsedResets(u) \subseteq Resets
  BY DEF UsedResets
<1>2. IsFiniteSet(Resets)
  BY AccessAssumption
<1>3. IsFiniteSet(UsedResets(u)) /\ Cardinality(UsedResets(u)) <= Cardinality(Resets)
  BY <1>1, <1>2, FS_Subset
<1>4. Cardinality(UsedResets(u)) \in Nat /\ Cardinality(Resets) \in Nat
  BY <1>2, <1>3, FS_CardinalityType
<1> QED
  BY <1>3, <1>4

-----------------------------------------------------------------------------
(* The initial states.                                                     *)

LEMMA InitIInv == Init => IInv
<1> SUFFICES ASSUME Init PROVE IInv
  OBVIOUS
<1>1. \A u \in Users : UsedResets(u) = {}
  BY DEF Init, UsedResets
<1>2. PasswordChangesOnce
  BY <1>1, FS_EmptySet DEF Init, PasswordChangesOnce, UsedResets
<1>3. TypeOK
  <2>1. password \in [Users -> 0..Cardinality(Resets)]
    BY <1>1, UsedBounded, FS_EmptySet DEF Init
  <2> QED
    BY <2>1, NoRequestTyped, AccessAssumption DEF Init, TypeOK
<1>4. RequestInv /\ ExclusionInv
  BY NoRequestTyped
     DEF Init, RequestInv, RequestFits, ExclusionInv, Apart, Inserting, Accepting, Resetting
<1>5. InviteInv /\ JoinedOnce
  BY DEF Init, InviteInv, JoinedOnce
<1>6. ActiveClientHasBusiness
  BY AccessAssumption DEF Init, ActiveClientHasBusiness
<1> QED
  BY <1>2, <1>3, <1>4, <1>5, <1>6 DEF IInv

-----------------------------------------------------------------------------
(* What a step leaves to the other requests.                               *)

\* A token that was sent stays, with the person it was sent to.
TokensStay ==
  /\ \A i \in Invites : invites[i] # None =>
       invites'[i] # None /\ invites'[i].user = invites[i].user
  /\ \A t \in Resets : resets[t] # None =>
       resets'[t] # None /\ resets'[t].user = resets[t].user

\* The tokens that the requests other than r lock keep their rows.
LocksStay(r) ==
  \A q \in Requests \ {r} :
    /\ request[q].token \in Invites => invites'[request[q].token] = invites[request[q].token]
    /\ request[q].token \in Resets => resets'[request[q].token] = resets[request[q].token]

\* Members stay members, and nobody becomes one whom a request other than r inserts.
MembersStay(r) ==
  /\ \A u \in Users : membership[u] # None => membership'[u] # None
  /\ \A q \in Requests \ {r} : Inserting(q) => membership'[request[q].user] = None

\* A request keeps what it has read, locked and found while another one moves to x, as
\* long as that one touches neither its token nor the person it is inserting.
LEMMA OthersFit ==
  ASSUME IInv, NEW r \in Requests, NEW x \in RequestRows,
         request' = [request EXCEPT ![r] = x],
         RequestFits(r)',
         \A q \in Requests \ {r} : x.token = request[q].token => x.token = None,
         \A q \in Requests \ {r} :
           x.step \in {"joined", "superseding"} /\ Inserting(q) => request[q].user # x.user,
         TokensStay, LocksStay(r), MembersStay(r)
  PROVE  RequestInv' /\ ExclusionInv'
<1>1. TypeOK /\ RequestInv /\ ExclusionInv
  BY DEF IInv
<1>2. request'[r] = x /\ \A q \in Requests \ {r} : request'[q] = request[q]
  BY <1>1 DEF TypeOK
<1>3. ASSUME NEW q \in Requests \ {r} PROVE RequestFits(q)'
  <2>1. RequestFits(q) /\ request'[q] = request[q]
    BY <1>1, <1>2 DEF RequestInv
  <2>2. /\ \A u, i : SentInvite(u, i) => SentInvite(u, i)'
        /\ \A u, t : SentReset(u, t) => SentReset(u, t)'
    BY DEF SentInvite, SentReset, TokensStay
  <2>3. request[q].step \in Accepting => HoldsInvite(request[q].user, request[q].token)'
    <3>1. SUFFICES ASSUME request[q].step \in Accepting
                   PROVE  HoldsInvite(request[q].user, request[q].token)'
      BY <2>1
    <3>2. HoldsInvite(request[q].user, request[q].token)
      BY <2>1, <3>1 DEF RequestFits
    <3> QED
      BY <2>1, <3>2 DEF HoldsInvite, SentInvite, Unsettled, LocksStay
  <2>4. request[q].step \in Resetting => HoldsReset(request[q].user, request[q].token)'
    <3>1. SUFFICES ASSUME request[q].step \in Resetting
                   PROVE  HoldsReset(request[q].user, request[q].token)'
      BY <2>1
    <3>2. HoldsReset(request[q].user, request[q].token)
      BY <2>1, <3>1 DEF RequestFits
    <3> QED
      BY <2>1, <3>2 DEF HoldsReset, SentReset, Unsettled, LocksStay
  <2>5. Inserting(q) => membership'[request[q].user] = None
    BY DEF MembersStay
  <2>6. request[q].step \in {"login", "counting", "updating"} =>
          membership'[request[q].user] # None
    BY <2>1 DEF RequestFits, MembersStay
  <2>7. /\ request[q].step = "superseding" =>
             \A i \in request[q].found : SentInvite(request[q].user, i)'
        /\ request[q].step \in {"reissuing", "replacing"} =>
             \A t \in request[q].found : SentReset(request[q].user, t)'
    BY <2>1, <2>2 DEF RequestFits
  <2> QED
    BY <2>1, <2>3, <2>4, <2>5, <2>6, <2>7
       DEF RequestFits, Inserting, Accepting, Resetting, Limited, HoldsInvite, HoldsReset,
           SentInvite, SentReset, Unsettled
<1>4. RequestInv'
  BY <1>3 DEF RequestInv
<1>5. ASSUME NEW p \in Requests, NEW q \in Requests, p # q PROVE Apart(p, q)'
  <2>1. Apart(p, q) /\ Apart(q, p)
    BY <1>1, <1>5 DEF ExclusionInv
  <2>2. CASE p = r
    BY <1>2, <1>5, <2>2 DEF Apart, Inserting
  <2>3. CASE q = r
    <3>1. q # p /\ p \in Requests \ {r}
      BY <1>5, <2>3
    <3>2. request'[q] = x /\ request'[p] = request[p]
      BY <1>2, <2>3, <3>1
    <3> QED
      BY <3>1, <3>2 DEF Apart, Inserting
  <2>4. CASE p # r /\ q # r
    BY <1>2, <2>1, <2>4 DEF Apart, Inserting
  <2> QED
    BY <2>2, <2>3, <2>4
<1> QED
  BY <1>4, <1>5 DEF ExclusionInv

\* A step that only moves one request on.
LEMMA ReadingStep ==
  ASSUME IInv, NEW r \in Requests, NEW x \in RequestRows,
         request' = [request EXCEPT ![r] = x],
         UNCHANGED <<accountVars, businessActive, sessions, tokenVars>>,
         RequestFits(r)',
         \A q \in Requests \ {r} : x.token = request[q].token => x.token = None,
         \A q \in Requests \ {r} :
           x.step \in {"joined", "superseding"} /\ Inserting(q) => request[q].user # x.user
  PROVE  IInv'
<1> USE DEF accountVars, tokenVars
<1>1. TypeOK /\ RequestInv
  BY DEF IInv
<1>2. TypeOK'
  BY <1>1 DEF TypeOK
<1>3. TokensStay /\ LocksStay(r) /\ MembersStay(r)
  BY <1>1 DEF RequestInv, RequestFits, TokensStay, LocksStay, MembersStay
<1>4. RequestInv' /\ ExclusionInv'
  BY <1>3, OthersFit
<1>5. (InviteInv /\ ActiveClientHasBusiness /\ JoinedOnce /\ PasswordChangesOnce)'
  BY DEF IInv, InviteInv, ActiveClientHasBusiness, JoinedOnce, PasswordChangesOnce, Limited
<1> QED
  BY <1>2, <1>4, <1>5 DEF IInv

-----------------------------------------------------------------------------
(* The steps that only move a request on.                                  *)

\* A request ends without a change.
LEMMA RefuseStep == ASSUME IInv, NEW r \in Requests, Refuse(r) PROVE IInv'
<1>1. RequestFits(r)'
  <2>1. request'[r] = NoRequest
    BY DEF Refuse, Done, IInv, TypeOK
  <2> QED
    BY <2>1, NoRequestTyped DEF RequestFits, Inserting, Accepting, Resetting
<1> QED
  BY <1>1, NoRequestTyped, ReadingStep DEF Refuse, Done

\* login, get_current_context and request_password_recovery begin.
LEMMA OpeningStep ==
  ASSUME IInv, NEW r \in Requests,
         \/ \E u \in Users : ReadAccount(r, u) \/ StartRecovery(r, u)
         \/ \E s \in sessions : Authenticate(r, s)
  PROVE  IInv'
<1>t. TypeOK
  BY DEF IInv
<1> USE AccessAssumption
<1>1. ASSUME NEW u \in Users, ReadAccount(r, u) PROVE IInv'
  <2> DEFINE x == [NoRequest EXCEPT !.step = "login", !.user = u, !.number = version[u],
                                    !.password = password[u]]
  <2>0. version[u] \in 1..MaxVersion /\ password[u] \in Nat
    BY <1>t, FS_CardinalityType DEF TypeOK
  <2>1. x \in RequestRows /\ x.step = "login" /\ x.user = u /\ x.token = None
    BY <2>0, NoRequestTyped DEF RequestRows, Steps
  <2>2. request' = [request EXCEPT ![r] = x] /\ membership' = membership
        /\ membership[u] # None
    BY <1>1 DEF ReadAccount, accountVars
  <2> HIDE DEF x
  <2>3. RequestFits(r)'
    BY <1>t, <2>1, <2>2 DEF RequestFits, TypeOK, Inserting, Accepting, Resetting
  <2> QED
    BY <1>1, <2>1, <2>2, <2>3, ReadingStep DEF ReadAccount
<1>2. ASSUME NEW u \in Users, StartRecovery(r, u) PROVE IInv'
  <2> DEFINE x == [NoRequest EXCEPT !.step = "recovering", !.user = u]
  <2>1. x \in RequestRows /\ x.step = "recovering" /\ x.user = u /\ x.token = None
    BY NoRequestTyped DEF RequestRows, Steps
  <2>2. request' = [request EXCEPT ![r] = x]
    BY <1>2 DEF StartRecovery
  <2> HIDE DEF x
  <2>3. RequestFits(r)'
    BY <1>t, <2>1, <2>2 DEF RequestFits, TypeOK, Inserting, Accepting, Resetting
  <2> QED
    BY <1>2, <2>1, <2>2, <2>3, ReadingStep DEF StartRecovery
<1>3. ASSUME NEW s \in sessions, Authenticate(r, s) PROVE IInv'
  <2> DEFINE x == [NoRequest EXCEPT !.step = "open", !.by = s.user,
                                    !.actor = membership[s.user]]
  <2>1. s.user \in Users /\ membership[s.user] \in Rows
    BY <1>t, <1>3 DEF TypeOK, SessionRows, Authenticate, Admitted
  <2>2. x \in RequestRows /\ x.step = "open" /\ x.actor \in Rows /\ x.token = None
    BY <2>1, NoRequestTyped DEF RequestRows, Steps
  <2>3. request' = [request EXCEPT ![r] = x]
    BY <1>3 DEF Authenticate
  <2> HIDE DEF x
  <2>4. RequestFits(r)'
    BY <1>t, <2>2, <2>3 DEF RequestFits, TypeOK, Inserting, Accepting, Resetting
  <2> QED
    BY <1>3, <2>2, <2>3, <2>4, ReadingStep DEF Authenticate
<1> QED
  BY <1>1, <1>2, <1>3

\* A request in progress reads and checks.
LEMMA CheckingStep ==
  ASSUME IInv, NEW r \in Requests,
         \/ \E u \in Users, next \in Wishes : ReadMember(r, u, next) \/ SeekMember(r, u, next)
         \/ CountAdmins(r) \/ SeekInvite(r) \/ InsertMember(r)
  PROVE  IInv'
<1>t. TypeOK /\ RequestFits(r) /\ request[r] \in RequestRows
  BY DEF IInv, RequestInv, TypeOK
<1>e. ExclusionInv
  BY DEF IInv
<1> USE AccessAssumption
<1>1. ASSUME NEW u \in Users, NEW next \in Wishes, ReadMember(r, u, next) PROVE IInv'
  <2> DEFINE row == membership[u]
             step == IF RemovesAdmin(row, next) THEN "counting" ELSE "updating"
             x == [request[r] EXCEPT !.step = step, !.user = u, !.row = row, !.next = next,
                                     !.number = version[u]]
  <2>1. /\ At(r, "open") /\ row # None /\ row \in Rows /\ next \in Rows
        /\ request' = [request EXCEPT ![r] = x] /\ membership' = membership
    BY <1>t, <1>1 DEF ReadMember, TypeOK, accountVars
  <2>2. /\ x \in RequestRows /\ x.step \in {"counting", "updating"} /\ x.user = u
        /\ x.row = row /\ x.next = next /\ x.actor = request[r].actor /\ x.token = None
    <3>1. request[r].token = None
      BY <1>t, <2>1 DEF RequestFits, At, Accepting, Resetting
    <3>2. version[u] \in 1..MaxVersion /\ step \in {"counting", "updating"}
      BY <1>t DEF TypeOK
    <3>3. request[r] \in RequestRows /\ step \in Steps
      BY <1>t, <3>2 DEF TypeOK, Steps
    <3> HIDE DEF row, step
    <3>4. x \in RequestRows
      BY <2>1, <3>2, <3>3 DEF RequestRows
    <3>5. /\ x.step = step /\ x.user = u /\ x.row = row /\ x.next = next
          /\ x.actor = request[r].actor /\ x.token = request[r].token
      BY <3>3 DEF RequestRows
    <3> QED
      BY <3>1, <3>2, <3>4, <3>5
  <2> HIDE DEF x, step
  <2>3. RequestFits(r)'
    BY <1>t, <2>1, <2>2 DEF RequestFits, TypeOK, At, Inserting, Accepting, Resetting
  <2> QED
    BY <1>1, <2>1, <2>2, <2>3, ReadingStep DEF ReadMember
<1>2. ASSUME NEW u \in Users, NEW next \in Wishes, SeekMember(r, u, next) PROVE IInv'
  <2> DEFINE x == [request[r] EXCEPT !.step = "seeking", !.user = u, !.next = next]
  <2>1. /\ At(r, "open") /\ next \in Rows /\ Limited(next)
        /\ request' = [request EXCEPT ![r] = x]
    BY <1>t, <1>2 DEF SeekMember, Grantable, Limited
  <2>2. /\ x \in RequestRows /\ x.step = "seeking" /\ x.user = u
        /\ x.next = next /\ x.actor = request[r].actor /\ x.token = None
    BY <1>t, <2>1 DEF RequestRows, Steps, TypeOK, RequestFits, At, Accepting, Resetting
  <2> HIDE DEF x
  <2>3. RequestFits(r)'
    BY <1>t, <2>1, <2>2 DEF RequestFits, TypeOK, At, Limited, Inserting, Accepting, Resetting
  <2> QED
    BY <1>2, <2>1, <2>2, <2>3, ReadingStep DEF SeekMember
<1>3. ASSUME CountAdmins(r) \/ SeekInvite(r) PROVE IInv'
  <2> DEFINE step == IF At(r, "counting") THEN "updating" ELSE "inviting"
             x == [request[r] EXCEPT !.step = step]
  <2>1. /\ At(r, "counting") \/ At(r, "seeking")
        /\ request' = [request EXCEPT ![r].step = step] /\ membership' = membership
    BY <1>3 DEF CountAdmins, SeekInvite, MoveTo, accountVars, At
  <2>2. request' = [request EXCEPT ![r] = x]
    BY <1>t, <2>1 DEF TypeOK
  <2>3. /\ x \in RequestRows /\ x.step = step /\ x.user = request[r].user
        /\ x.row = request[r].row /\ x.next = request[r].next
        /\ x.actor = request[r].actor /\ x.token = None
    BY <1>t, <2>1 DEF RequestRows, Steps, RequestFits, At, Accepting, Resetting
  <2> HIDE DEF x
  <2>4. RequestFits(r)'
    BY <1>t, <2>1, <2>2, <2>3 DEF RequestFits, TypeOK, At, Limited, Inserting, Accepting, Resetting
  <2> QED
    BY <1>3, <2>2, <2>3, <2>4, ReadingStep DEF CountAdmins, SeekInvite
<1>4. ASSUME InsertMember(r) PROVE IInv'
  <2> DEFINE x == [request[r] EXCEPT !.step = "joined"]
  <2>1. /\ At(r, "accepting") /\ membership[request[r].user] = None
        /\ request' = [request EXCEPT ![r].step = "joined"]
        /\ membership' = membership /\ invites' = invites
    BY <1>4 DEF InsertMember, MemberFree, MoveTo, accountVars, tokenVars
  <2>2. request' = [request EXCEPT ![r] = x]
    BY <1>t, <2>1 DEF TypeOK
  <2>3. /\ x \in RequestRows /\ x.step = "joined" /\ x.user = request[r].user
        /\ x.token = request[r].token
    BY <1>t DEF RequestRows, Steps
  <2>4. \A q \in Requests \ {r} :
          x.step \in {"joined", "superseding"} /\ Inserting(q) => request[q].user # x.user
    BY <1>4, <2>3 DEF InsertMember
  <2>5. \A q \in Requests \ {r} : x.token = request[q].token => x.token = None
    BY <1>e, <2>3 DEF ExclusionInv, Apart
  <2> HIDE DEF x
  <2>6. RequestFits(r)'
    BY <1>t, <2>1, <2>2, <2>3
       DEF RequestFits, TypeOK, At, Inserting, Accepting, Resetting, HoldsInvite, SentInvite
  <2> QED
    BY <1>4, <2>2, <2>3, <2>4, <2>5, <2>6, ReadingStep DEF InsertMember
<1> QED
  BY <1>1, <1>2, <1>3, <1>4

\* A token is locked.
LEMMA LockingStep ==
  ASSUME IInv, NEW r \in Requests,
         (\E i \in Invites : LockInvite(r, i)) \/ (\E t \in Resets : LockReset(r, t))
  PROVE  IInv'
<1>t. TypeOK
  BY DEF IInv
<1> USE AccessAssumption
<1>1. ASSUME NEW i \in Invites, LockInvite(r, i) PROVE IInv'
  <2> DEFINE x == [NoRequest EXCEPT !.step = "accepting", !.user = invites[i].user,
                                    !.token = i]
  <2>1. /\ invites[i] \in InviteRows /\ HoldsInvite(invites[i].user, i)
        /\ request' = [request EXCEPT ![r] = x] /\ invites' = invites
    BY <1>t, <1>1 DEF LockInvite, TypeOK, HoldsInvite, SentInvite, Usable, Unsettled, tokenVars
  <2>2. /\ x \in RequestRows /\ x.step = "accepting" /\ x.user = invites[i].user
        /\ x.token = i /\ invites[i].user \in Users
    <3>1. invites[i].user \in Users
      BY <2>1 DEF InviteRows
    <3> QED
      BY <3>1, NoRequestTyped DEF RequestRows, Steps
  <2> HIDE DEF x
  <2>3. RequestFits(r)'
    BY <1>t, <2>1, <2>2
       DEF RequestFits, TypeOK, Inserting, Accepting, Resetting, HoldsInvite, SentInvite
  <2>4. \A q \in Requests \ {r} : x.token # request[q].token
    BY <1>1, <2>2 DEF LockInvite, Unlocked
  <2> QED
    BY <1>1, <2>1, <2>2, <2>3, <2>4, ReadingStep DEF LockInvite
<1>2. ASSUME NEW t \in Resets, LockReset(r, t) PROVE IInv'
  <2> DEFINE u == resets[t].user
             x == [NoRequest EXCEPT !.step = "resetting", !.user = u,
                                    !.number = version[u], !.token = t]
  <2>1. /\ resets[t] \in ResetRows /\ HoldsReset(u, t)
        /\ request' = [request EXCEPT ![r] = x] /\ resets' = resets
    BY <1>t, <1>2 DEF LockReset, TypeOK, HoldsReset, SentReset, Usable, Unsettled, tokenVars
  <2>2. u \in Users /\ version[u] \in 1..MaxVersion
    BY <1>t, <2>1 DEF ResetRows, TypeOK
  <2>3. x \in RequestRows /\ x.step = "resetting" /\ x.user = u /\ x.token = t
    BY <2>2 DEF RequestRows, NoRequest, Steps
  <2> HIDE DEF x
  <2>4. RequestFits(r)'
    BY <1>t, <2>1, <2>2, <2>3
       DEF RequestFits, TypeOK, Inserting, Accepting, Resetting, HoldsReset, SentReset
  <2>5. \A q \in Requests \ {r} : x.token # request[q].token
    BY <1>2, <2>3 DEF LockReset, Unlocked
  <2> QED
    BY <1>2, <2>1, <2>3, <2>4, <2>5, ReadingStep DEF LockReset
<1> QED
  BY <1>1, <1>2

\* An UPDATE finds its rows, which are all the tokens of its person that are open now,
\* its own token aside.
LEMMA FindStep ==
  ASSUME IInv, NEW r \in Requests, FindSiblings(r) \/ FindResets(r) \/ FindOthers(r)
  PROVE  LET x == request'[r]
         IN /\ request' = [request EXCEPT ![r] = x] /\ x \in RequestRows
            /\ x.user = request[r].user /\ x.token = request[r].token
            /\ x.number = request[r].number
            /\ \/ /\ At(r, "joined") /\ x.step = "superseding"
                  /\ x.found = Siblings(x.token)
               \/ /\ At(r, "recovering") /\ x.step = "reissuing"
                  /\ x.found = OpenResets(x.user)
               \/ /\ At(r, "resetting") /\ x.step = "replacing"
                  /\ x.found = OpenResets(x.user) \ {x.token}
<1>t. request \in [Requests -> RequestRows] /\ request[r] \in RequestRows
  BY DEF IInv, TypeOK
<1>1. CASE FindSiblings(r)
  <2>1. Siblings(request[r].token) \in SUBSET (Invites \cup Resets)
    BY DEF Siblings
  <2> QED
    BY <1>t, <1>1, <2>1 DEF FindSiblings, RequestRows, Steps, At
<1>o. OpenResets(request[r].user) \in SUBSET (Invites \cup Resets)
  BY DEF OpenResets
<1>2. CASE FindResets(r)
  BY <1>t, <1>o, <1>2 DEF FindResets, RequestRows, Steps, At
<1>3. CASE FindOthers(r)
  BY <1>t, <1>o, <1>3 DEF FindOthers, RequestRows, Steps, At
<1> QED
  BY <1>1, <1>2, <1>3

LEMMA FindingStep ==
  ASSUME IInv, NEW r \in Requests, FindSiblings(r) \/ FindResets(r) \/ FindOthers(r)
  PROVE  IInv'
<1>t. TypeOK /\ RequestFits(r) /\ ExclusionInv
  BY DEF IInv, RequestInv
<1> DEFINE x == request'[r]
<1>1. UNCHANGED <<accountVars, businessActive, sessions, tokenVars>>
  BY DEF FindSiblings, FindResets, FindOthers
<1>2. \A q \in Requests \ {r} : x.token = request[q].token => x.token = None
  BY <1>t, FindStep DEF ExclusionInv, Apart
<1>3. \A q \in Requests \ {r} :
        x.step \in {"joined", "superseding"} /\ Inserting(q) => request[q].user # x.user
  BY <1>t, FindStep DEF ExclusionInv, Apart, Inserting, At
<1>4. RequestFits(r)'
  <2>1. membership' = membership /\ invites' = invites /\ resets' = resets
    BY <1>1 DEF accountVars, tokenVars
  <2>2. CASE At(r, "joined")
    <3>1. HoldsInvite(request[r].user, request[r].token)
      BY <1>t, <2>2 DEF RequestFits, At, Accepting
    <3>2. /\ \A i \in Siblings(request[r].token) : SentInvite(request[r].user, i)
          /\ request[r].token \notin Siblings(request[r].token)
      BY <3>1 DEF Siblings, HoldsInvite, SentInvite
    <3> QED
      BY <1>t, <2>1, <2>2, <3>1, <3>2, FindStep
         DEF RequestFits, At, Inserting, Accepting, Resetting, HoldsInvite, SentInvite
  <2>3. CASE At(r, "recovering") \/ At(r, "resetting")
    <3>1. \A t \in OpenResets(request[r].user) : SentReset(request[r].user, t)
      BY DEF OpenResets, SentReset
    <3> QED
      BY <1>t, <2>1, <2>3, <3>1, FindStep
         DEF RequestFits, At, Inserting, Accepting, Resetting, HoldsReset, SentReset
  <2> QED
    BY <2>2, <2>3, FindStep
<1>5. request' = [request EXCEPT ![r] = x] /\ x \in RequestRows
  BY FindStep
<1> HIDE DEF x
<1> QED
  BY <1>1, <1>2, <1>3, <1>4, <1>5, ReadingStep

-----------------------------------------------------------------------------
(* The steps that write and end their request.                             *)

\* When a request ends, the others fit as long as nobody who was a member stops being
\* one, nobody being inserted has become one, and locked tokens are untouched.
LEMMA EndingFits ==
  ASSUME IInv, NEW r \in Requests, Done(r), TokensStay, LocksStay(r), MembersStay(r)
  PROVE  RequestInv' /\ ExclusionInv' /\ request' \in [Requests -> RequestRows]
<1>1. request' = [request EXCEPT ![r] = NoRequest]
  BY DEF Done
<1>2. request' \in [Requests -> RequestRows] /\ request'[r] = NoRequest
  BY <1>1, NoRequestTyped DEF IInv, TypeOK
<1>3. RequestFits(r)'
  BY <1>2, NoRequestTyped DEF RequestFits, Inserting, Accepting, Resetting
<1>4. /\ NoRequest.token = None /\ NoRequest \in RequestRows
      /\ NoRequest.step \notin {"joined", "superseding"}
  BY NoRequestTyped
<1> QED
  BY <1>1, <1>2, <1>3, <1>4, OthersFit

\* What is not there is not locked.
LEMMA LockedThere ==
  ASSUME IInv, NEW r \in Requests
  PROVE  /\ request[r].token \in Invites => invites[request[r].token] # None
         /\ request[r].token \in Resets => resets[request[r].token] # None
<1>1. RequestFits(r)
  BY DEF IInv, RequestInv
<1> QED
  BY <1>1, AccessAssumption DEF RequestFits, HoldsInvite, HoldsReset, SentInvite, SentReset

\* login issues a session.
LEMMA IssueStep == ASSUME IInv, NEW r \in Requests, IssueSession(r) PROVE IInv'
<1> USE DEF accountVars, tokenVars
<1> DEFINE u == request[r].user
           row == membership[u]
           s == [user |-> u, role |-> row.role, business |-> row.business,
                 version |-> request[r].number, password |-> request[r].password]
<1>t. TypeOK /\ RequestInv /\ RequestFits(r) /\ request[r] \in RequestRows
  BY DEF IInv, RequestInv, TypeOK
<1>1. u \in Users /\ row \in Rows
  BY <1>t DEF IssueSession, RequestFits, At, TypeOK
<1>2. s \in SessionRows /\ sessions' = sessions \cup {s}
  BY <1>t, <1>1 DEF IssueSession, SessionRows, RequestRows, Rows
<1>3. /\ Done(r)
      /\ UNCHANGED <<membership, version, password, businessActive, invites, resets>>
  BY DEF IssueSession
<1>4. RequestInv' /\ ExclusionInv' /\ request' \in [Requests -> RequestRows]
  <2>1. TokensStay /\ LocksStay(r) /\ MembersStay(r)
    BY <1>t, <1>3 DEF RequestInv, RequestFits, TokensStay, LocksStay, MembersStay
  <2> QED
    BY <1>3, <2>1, EndingFits
<1>5. TypeOK'
  BY <1>t, <1>2, <1>3, <1>4 DEF TypeOK
<1>6. (InviteInv /\ ActiveClientHasBusiness /\ JoinedOnce /\ PasswordChangesOnce)'
  BY <1>3 DEF IInv, InviteInv, ActiveClientHasBusiness, JoinedOnce, PasswordChangesOnce, Limited
<1> QED
  BY <1>4, <1>5, <1>6 DEF IInv

\* update_member commits.
LEMMA UpdateStep == ASSUME IInv, NEW r \in Requests, CommitUpdate(r) PROVE IInv'
<1> USE DEF accountVars, tokenVars
<1> DEFINE q == request[r]
           written == Written(membership[q.user], q.row, q.next)
<1>t. TypeOK /\ RequestInv /\ RequestFits(r) /\ request[r] \in RequestRows
  BY DEF IInv, RequestInv, TypeOK
<1>1. q.user \in Users /\ membership[q.user] \in Rows /\ q.row \in Rows /\ q.next \in Rows
  BY <1>t DEF CommitUpdate, RequestFits, At, TypeOK
<1>2. written \in Rows
  BY <1>1, WrittenTyped
<1>3. /\ Storable(written) /\ q.number \in 1..MaxVersion /\ q.number < MaxVersion
      /\ membership' = [membership EXCEPT ![q.user] = written]
      /\ version' = [version EXCEPT ![q.user] =
           IF q.next # q.row THEN q.number + 1 ELSE version[q.user]]
      /\ Done(r) /\ UNCHANGED <<password, businessActive, sessions, invites, resets>>
  BY <1>t, <1>1 DEF CommitUpdate, TypeOK, RequestRows
<1> HIDE DEF written
<1>4. /\ \A u \in Users : membership[u] # None => membership'[u] # None
      /\ \A p \in Requests : Inserting(p) => membership'[request[p].user] = None
  <2>1. membership' \in [Users -> Rows \cup {None}]
        /\ \A u \in Users : membership'[u] = IF u = q.user THEN written ELSE membership[u]
    BY <1>t, <1>2, <1>3 DEF TypeOK
  <2>2. None \notin Rows
    BY AccessAssumption
  <2>3. \A p \in Requests : Inserting(p) =>
          request[p].user \in Users /\ membership[request[p].user] = None
    BY <1>t DEF RequestInv, RequestFits, Inserting
  <2> QED
    BY <1>1, <1>2, <2>1, <2>2, <2>3
<1>5. RequestInv' /\ ExclusionInv' /\ request' \in [Requests -> RequestRows]
  <2>1. TokensStay /\ LocksStay(r) /\ MembersStay(r)
    BY <1>3, <1>4 DEF TokensStay, LocksStay, MembersStay
  <2> QED
    BY <1>3, <2>1, EndingFits
<1>6. TypeOK'
  <2>1. membership' \in [Users -> Rows \cup {None}]
    BY <1>t, <1>2, <1>3 DEF TypeOK
  <2>2. q.number + 1 \in 1..MaxVersion /\ version \in [Users -> 1..MaxVersion]
    BY <1>t, <1>3, AccessAssumption DEF TypeOK
  <2>3. version[q.user] \in 1..MaxVersion
    BY <1>1, <2>2
  <2>4. version' \in [Users -> 1..MaxVersion]
    BY <1>3, <2>2, <2>3
  <2> QED
    BY <1>t, <1>3, <1>5, <2>1, <2>4 DEF TypeOK
<1>7. ActiveClientHasBusiness'
  BY <1>t, <1>1, <1>3 DEF IInv, ActiveClientHasBusiness, Storable, TypeOK
<1>8. JoinedOnce'
  BY <1>t, <1>3, <1>4 DEF IInv, JoinedOnce, TypeOK, InviteRows
<1>9. (InviteInv /\ PasswordChangesOnce)'
  BY <1>3 DEF IInv, InviteInv, PasswordChangesOnce, Limited
<1> QED
  BY <1>5, <1>6, <1>7, <1>8, <1>9 DEF IInv

\* create_invitation commits.
LEMMA CreateStep ==
  ASSUME IInv, NEW r \in Requests, NEW i \in Invites, CreateInvite(r, i)
  PROVE  IInv'
<1> USE DEF accountVars, tokenVars
<1> DEFINE q == request[r]
           invite == [user |-> q.user, role |-> q.next.role,
                      business |-> q.next.business, state |-> "pending"]
<1>t. TypeOK /\ RequestInv /\ RequestFits(r)
  BY DEF IInv, RequestInv
<1>1. q.user \in Users /\ q.next \in Rows /\ Limited(q.next)
  BY <1>t DEF CreateInvite, RequestFits, At
<1>2. invite \in InviteRows /\ invite.state = "pending" /\ Limited(invite)
  BY <1>1 DEF InviteRows, Rows, Limited
<1>3. /\ invites[i] = None /\ invites' = [invites EXCEPT ![i] = invite] /\ Done(r)
      /\ UNCHANGED <<membership, version, password, businessActive, sessions, resets>>
  BY DEF CreateInvite
<1> HIDE DEF invite
<1>4. /\ invites' \in [Invites -> InviteRows \cup {None}]
      /\ invites'[i] = invite /\ \A j \in Invites \ {i} : invites'[j] = invites[j]
  BY <1>t, <1>2, <1>3 DEF TypeOK
<1>5. \A p \in Requests : request[p].token # i
  BY <1>3, LockedThere
<1>6. RequestInv' /\ ExclusionInv' /\ request' \in [Requests -> RequestRows]
  <2>1. TokensStay /\ LocksStay(r) /\ MembersStay(r)
    BY <1>t, <1>3, <1>4, <1>5
       DEF RequestInv, RequestFits, TokensStay, LocksStay, MembersStay
  <2> QED
    BY <1>3, <2>1, EndingFits
<1>7. TypeOK'
  BY <1>t, <1>3, <1>4, <1>6 DEF TypeOK
<1>8. InviteInv' /\ JoinedOnce'
  BY <1>2, <1>3, <1>4 DEF IInv, InviteInv, JoinedOnce, Limited
<1>9. (ActiveClientHasBusiness /\ PasswordChangesOnce)'
  BY <1>3 DEF IInv, ActiveClientHasBusiness, PasswordChangesOnce
<1> QED
  BY <1>6, <1>7, <1>8, <1>9 DEF IInv

\* Rows of invitations whose state changes keep their shape, their person and their
\* access.
LEMMA InviteStates ==
  ASSUME TypeOK, NEW S \in SUBSET Invites, \A i \in S : invites[i] # None,
         NEW state \in {"pending", "expired", "accepted", "revoked"}
  PROVE  LET after == WithState(invites, S, state)
         IN /\ after \in [Invites -> InviteRows \cup {None}]
            /\ \A i \in Invites \ S : after[i] = invites[i]
            /\ \A i \in S : /\ after[i] # None /\ after[i].state = state
                            /\ after[i].user = invites[i].user
                            /\ after[i].role = invites[i].role
                            /\ after[i].business = invites[i].business
<1>1. invites \in [Invites -> InviteRows \cup {None}] /\ DOMAIN invites = Invites
  BY DEF TypeOK
<1>2. \A i \in S : [invites[i] EXCEPT !.state = state] \in InviteRows
  BY <1>1 DEF InviteRows
<1>3. None \notin InviteRows
  BY AccessAssumption
<1>4. \A i \in S : invites[i] \in InviteRows
  BY <1>1
<1> QED
  BY <1>1, <1>2, <1>3, <1>4 DEF WithState, InviteRows

\* revoke_invitation commits.
LEMMA RevokeStep ==
  ASSUME IInv, NEW r \in Requests, NEW i \in Invites, RevokeInvite(r, i)
  PROVE  IInv'
<1> USE DEF accountVars, tokenVars
<1>t. TypeOK /\ RequestInv
  BY DEF IInv
<1>1. /\ invites[i] # None /\ Unlocked(i) /\ Unsettled(invites[i])
      /\ invites' = WithState(invites, {i}, "revoked") /\ Done(r)
      /\ UNCHANGED <<membership, version, password, businessActive, sessions, resets>>
  BY DEF RevokeInvite
<1>2. /\ invites' \in [Invites -> InviteRows \cup {None}]
      /\ invites'[i] # None /\ invites'[i].state = "revoked"
      /\ invites'[i].user = invites[i].user /\ invites'[i].role = invites[i].role
      /\ invites'[i].business = invites[i].business
      /\ \A j \in Invites \ {i} : invites'[j] = invites[j]
  BY <1>t, <1>1, InviteStates
<1>3. RequestInv' /\ ExclusionInv' /\ request' \in [Requests -> RequestRows]
  <2>1. TokensStay /\ LocksStay(r) /\ MembersStay(r)
    BY <1>t, <1>1, <1>2
       DEF RequestInv, RequestFits, Unlocked, TokensStay, LocksStay, MembersStay
  <2> QED
    BY <1>1, <2>1, EndingFits
<1>4. TypeOK'
  BY <1>t, <1>1, <1>2, <1>3 DEF TypeOK
<1>5. InviteInv' /\ JoinedOnce'
  BY <1>1, <1>2 DEF IInv, InviteInv, JoinedOnce, Limited
<1>6. (ActiveClientHasBusiness /\ PasswordChangesOnce)'
  BY <1>1 DEF IInv, ActiveClientHasBusiness, PasswordChangesOnce
<1> QED
  BY <1>3, <1>4, <1>5, <1>6 DEF IInv

\* expires_at of an invitation passes, whoever has it locked.
LEMMA ExpireStep == ASSUME IInv, NEW i \in Invites, ExpireInvite(i) PROVE IInv'
<1> USE DEF accountVars, tokenVars
<1>t. TypeOK /\ RequestInv /\ ExclusionInv
  BY DEF IInv
<1>1. /\ invites[i] # None /\ invites[i].state = "pending"
      /\ invites' = WithState(invites, {i}, "expired")
      /\ UNCHANGED <<membership, version, password, businessActive, sessions, resets, request>>
  BY DEF ExpireInvite
<1>2. /\ invites' \in [Invites -> InviteRows \cup {None}]
      /\ invites'[i] # None /\ invites'[i].state = "expired"
      /\ invites'[i].user = invites[i].user /\ invites'[i].role = invites[i].role
      /\ invites'[i].business = invites[i].business
      /\ \A j \in Invites \ {i} : invites'[j] = invites[j]
  BY <1>t, <1>1, InviteStates
<1>3. RequestInv'
  <2>1. ASSUME NEW r \in Requests PROVE RequestFits(r)'
    <3>1. RequestFits(r) /\ request'[r] = request[r]
      BY <1>t, <1>1 DEF RequestInv
    <3>2. \A u, j : /\ SentInvite(u, j) => SentInvite(u, j)'
                    /\ HoldsInvite(u, j) => HoldsInvite(u, j)'
      BY <1>1, <1>2 DEF SentInvite, HoldsInvite, Unsettled
    <3>3. \A u, t : /\ SentReset(u, t) => SentReset(u, t)'
                    /\ HoldsReset(u, t) => HoldsReset(u, t)'
      BY <1>1 DEF SentReset, HoldsReset, Unsettled
    <3>4. /\ request[r].step \in Accepting =>
               HoldsInvite(request[r].user, request[r].token)'
          /\ request[r].step \in Resetting =>
               HoldsReset(request[r].user, request[r].token)'
          /\ request[r].step = "superseding" =>
               \A j \in request[r].found : SentInvite(request[r].user, j)'
          /\ request[r].step \in {"reissuing", "replacing"} =>
               \A t \in request[r].found : SentReset(request[r].user, t)'
      BY <3>1, <3>2, <3>3 DEF RequestFits
    <3> QED
      BY <1>1, <3>1, <3>4
         DEF RequestFits, HoldsInvite, HoldsReset, SentInvite, SentReset, Unsettled, Limited,
             Inserting, Accepting, Resetting
  <2> QED
    BY <2>1 DEF RequestInv
<1>4. TypeOK' /\ ExclusionInv'
  BY <1>t, <1>1, <1>2 DEF TypeOK, ExclusionInv, Apart, Inserting
<1>5. InviteInv' /\ JoinedOnce'
  <2>1. InviteInv'
    BY <1>1, <1>2 DEF IInv, InviteInv, Limited
  <2>2. \A j \in Invites : invites'[j] # None /\ invites'[j].state = "accepted" =>
          invites'[j] = invites[j]
    BY <1>2
  <2>3. JoinedOnce
    BY DEF IInv
  <2>4. membership' = membership
    BY <1>1
  <2>5. JoinedOnce'
    BY <2>2, <2>3, <2>4 DEF JoinedOnce
  <2> QED
    BY <2>1, <2>5
<1>6. (ActiveClientHasBusiness /\ PasswordChangesOnce)'
  BY <1>1 DEF IInv, ActiveClientHasBusiness, PasswordChangesOnce
<1> QED
  BY <1>3, <1>4, <1>5, <1>6 DEF IInv

\* accept_invitation commits: the person had no membership, so no other invitation of
\* the person was accepted.
LEMMA AcceptStep ==
  ASSUME IInv, NEW r \in Requests, NEW i \in Invites, CommitAccept(r, i)
  PROVE  IInv'
<1> USE DEF accountVars, tokenVars
<1> DEFINE q == request[r]
           siblings == Revocable(invites, q.found)
           row == Row(invites[i].role, invites[i].business, TRUE)
           revoked == WithState(invites, siblings, "revoked")
<1>t. TypeOK /\ RequestInv /\ RequestFits(r) /\ ExclusionInv /\ JoinedOnce
  BY DEF IInv, RequestInv
<1>1. /\ At(r, "superseding") /\ i = q.token /\ Done(r)
      /\ \A j \in q.found : Unlocked(j)
      /\ membership' = [membership EXCEPT ![q.user] = row]
      /\ invites' = WithState(revoked, {i}, "accepted")
      /\ UNCHANGED <<version, password, businessActive, sessions, resets>>
  BY DEF CommitAccept
<1>2. /\ q.user \in Users /\ membership[q.user] = None
      /\ HoldsInvite(q.user, i) /\ invites[i] \in InviteRows
  BY <1>t, <1>1
     DEF RequestFits, At, Inserting, Accepting, HoldsInvite, SentInvite, TypeOK
<1>3. row \in Rows /\ row # None /\ Limited(row)
  <2>1. row \in Rows
    BY <1>2 DEF Row, Rows, InviteRows
  <2>2. None \notin Rows
    BY AccessAssumption
  <2>3. Limited(row)
    BY <1>2 DEF Row, Limited, IInv, InviteInv, HoldsInvite, SentInvite
  <2> QED
    BY <2>1, <2>2, <2>3
<1>4. /\ siblings \subseteq Invites \ {i}
      /\ \A j \in siblings : j \in q.found /\ invites[j] # None /\ Unsettled(invites[j])
  BY <1>t, <1>1 DEF Revocable, RequestFits, At, SentInvite
<1> HIDE DEF siblings, row
<1>5. /\ revoked \in [Invites -> InviteRows \cup {None}]
      /\ \A j \in Invites \ siblings : revoked[j] = invites[j]
      /\ \A j \in siblings : /\ revoked[j] # None /\ revoked[j].state = "revoked"
                             /\ revoked[j].user = invites[j].user
                             /\ revoked[j].role = invites[j].role
                             /\ revoked[j].business = invites[j].business
  BY <1>t, <1>4, InviteStates
<1> HIDE DEF revoked
<1>6. /\ invites' \in [Invites -> InviteRows \cup {None}]
      /\ invites'[i] = [invites[i] EXCEPT !.state = "accepted"]
      /\ invites'[i] \in InviteRows
      /\ \A j \in Invites \ {i} : invites'[j] = revoked[j]
  <2>1. DOMAIN revoked = Invites /\ revoked[i] = invites[i]
    BY <1>4, <1>5
  <2>2. [invites[i] EXCEPT !.state = "accepted"] \in InviteRows
    BY <1>2 DEF InviteRows
  <2> QED
    BY <1>1, <1>5, <2>1, <2>2 DEF WithState
<1>7. /\ invites'[i].user = q.user /\ invites'[i].role = invites[i].role
      /\ invites'[i].business = invites[i].business /\ invites[i].user = q.user
  BY <1>2, <1>6 DEF InviteRows, HoldsInvite, SentInvite
<1>8. /\ membership' \in [Users -> Rows \cup {None}] /\ membership'[q.user] = row
      /\ \A u \in Users \ {q.user} : membership'[u] = membership[u]
  BY <1>t, <1>1, <1>2, <1>3 DEF TypeOK
<1>9. RequestInv' /\ ExclusionInv' /\ request' \in [Requests -> RequestRows]
  <2>1. \A u \in Users : membership[u] # None => membership'[u] # None
    BY <1>3, <1>8
  <2>2. \A p \in Requests \ {r} : Inserting(p) => membership'[request[p].user] = None
    <3>1. \A p \in Requests \ {r} : Inserting(p) => request[p].user # q.user
      BY <1>t, <1>1 DEF ExclusionInv, Apart, Inserting, At
    <3>2. \A p \in Requests : Inserting(p) =>
            request[p].user \in Users /\ membership[request[p].user] = None
      BY <1>t DEF RequestInv, RequestFits, Inserting
    <3> QED
      BY <1>8, <3>1, <3>2
  <2>3. \A p \in Requests \ {r} : request[p].token \in Invites =>
          invites'[request[p].token] = invites[request[p].token]
    <3>1. \A p \in Requests \ {r} : request[p].token \in Invites => request[p].token # i
      BY <1>t, <1>1, AccessAssumption DEF ExclusionInv, Apart
    <3>2. \A p \in Requests : request[p].token \notin siblings
      BY <1>1, <1>4 DEF Unlocked
    <3> QED
      BY <1>5, <1>6, <3>1, <3>2
  <2>4. TokensStay
    <3>1. invites'[i] # None /\ invites'[i].user = invites[i].user
      BY <1>6, <1>7, AccessAssumption
    <3>2. \A j \in Invites \ {i} : invites[j] # None =>
            invites'[j] # None /\ invites'[j].user = invites[j].user
      BY <1>5, <1>6
    <3> QED
      BY <1>1, <3>1, <3>2 DEF TokensStay
  <2>5. LocksStay(r) /\ MembersStay(r)
    BY <1>1, <2>1, <2>2, <2>3 DEF LocksStay, MembersStay
  <2> QED
    BY <1>1, <2>4, <2>5, EndingFits
<1>10. TypeOK'
  BY <1>t, <1>1, <1>6, <1>8, <1>9 DEF TypeOK
<1>11. InviteInv'
  <2>1. \A j \in Invites : invites[j] # None => Limited(invites[j])
    BY DEF IInv, InviteInv
  <2>2. Limited(invites'[i])
    BY <1>2, <1>7, <2>1 DEF HoldsInvite, SentInvite, Limited
  <2>3. \A j \in Invites \ {i} : revoked[j] # None => Limited(revoked[j])
    BY <1>4, <1>5, <2>1 DEF Limited
  <2> QED
    BY <1>6, <2>2, <2>3 DEF InviteInv, Limited
<1>12. ActiveClientHasBusiness'
  BY <1>3, <1>8 DEF IInv, ActiveClientHasBusiness, Limited
<1>13. JoinedOnce'
  <2>1. \A j \in Invites \ {i} : invites'[j] # None /\ invites'[j].state = "accepted" =>
          /\ invites'[j] = invites[j] /\ invites[j] # None /\ invites[j].state = "accepted"
    BY <1>5, <1>6
  <2>2. \A j \in Invites : invites[j] # None /\ invites[j].state = "accepted" =>
          /\ invites[j].user \in Users /\ invites[j].user # q.user
          /\ membership[invites[j].user] # None
    BY <1>t, <1>2 DEF JoinedOnce, TypeOK, InviteRows
  <2>3. ASSUME NEW j \in Invites, invites'[j] # None, invites'[j].state = "accepted"
        PROVE  /\ membership'[invites'[j].user] # None
               /\ \A k \in Invites \ {j} : invites'[k] # None /\ invites'[k].state = "accepted"
                    => invites'[k].user # invites'[j].user
    <3>1. CASE j = i
      BY <1>3, <1>7, <1>8, <2>1, <2>2, <3>1
    <3>2. CASE j # i
      BY <1>t, <1>7, <1>8, <2>1, <2>2, <2>3, <3>2 DEF JoinedOnce
    <3> QED
      BY <3>1, <3>2
  <2> QED
    BY <2>3 DEF JoinedOnce
<1>14. PasswordChangesOnce'
  BY <1>1 DEF IInv, PasswordChangesOnce
<1> QED
  BY <1>9, <1>10, <1>11, <1>12, <1>13, <1>14 DEF IInv

\* Rows of reset tokens whose state changes keep their shape and their person.
LEMMA ResetStates ==
  ASSUME NEW rows \in [Resets -> ResetRows \cup {None}],
         NEW S \in SUBSET Resets, \A t \in S : rows[t] # None,
         NEW state \in {"pending", "used", "revoked"}
  PROVE  LET after == WithState(rows, S, state)
         IN /\ after \in [Resets -> ResetRows \cup {None}]
            /\ \A t \in Resets \ S : after[t] = rows[t]
            /\ \A t \in S : /\ after[t] # None /\ after[t].state = state
                            /\ after[t].user = rows[t].user
<1>1. \A t \in S : rows[t] \in ResetRows /\ [rows[t] EXCEPT !.state = state] \in ResetRows
  BY DEF ResetRows
<1>2. None \notin ResetRows
  BY AccessAssumption
<1> QED
  BY <1>1, <1>2 DEF WithState, ResetRows

\* request_password_recovery commits: no used token is touched.
LEMMA RecoveryStep ==
  ASSUME IInv, NEW r \in Requests, NEW t \in Resets, CommitRecovery(r, t)
  PROVE  IInv'
<1> USE DEF accountVars, tokenVars
<1> DEFINE q == request[r]
           token == [user |-> q.user, state |-> "pending"]
           found == Revocable(resets, q.found)
           revoked == WithState(resets, found, "revoked")
<1>t. TypeOK /\ RequestInv /\ RequestFits(r) /\ ExclusionInv
  BY DEF IInv, RequestInv
<1>1. /\ At(r, "reissuing") /\ resets[t] = None /\ Done(r)
      /\ \A x \in q.found : Unlocked(x)
      /\ resets' = [revoked EXCEPT ![t] = token]
      /\ UNCHANGED <<membership, version, password, businessActive, sessions, invites>>
  BY DEF CommitRecovery
<1>2. /\ q.user \in Users /\ found \subseteq Resets
      /\ \A x \in found : x \in q.found /\ resets[x] # None /\ Unsettled(resets[x])
  BY <1>t, <1>1 DEF RequestFits, At, SentReset, Revocable
<1> HIDE DEF found
<1>3. token \in ResetRows /\ token.state = "pending"
  BY <1>2 DEF ResetRows
<1>4. /\ revoked \in [Resets -> ResetRows \cup {None}]
      /\ \A x \in Resets \ found : revoked[x] = resets[x]
      /\ \A x \in found : /\ revoked[x] # None /\ revoked[x].state = "revoked"
                          /\ revoked[x].user = resets[x].user
  BY <1>t, <1>2, ResetStates DEF TypeOK
<1> HIDE DEF revoked, token
<1>5. /\ resets' \in [Resets -> ResetRows \cup {None}]
      /\ resets'[t] = token /\ \A x \in Resets \ {t} : resets'[x] = revoked[x]
  BY <1>1, <1>3, <1>4
<1>6. RequestInv' /\ ExclusionInv' /\ request' \in [Requests -> RequestRows]
  <2>1. \A p \in Requests : request[p].token \notin found /\ request[p].token # t
    BY <1>1, <1>2, LockedThere DEF Unlocked
  <2>2. TokensStay
    BY <1>1, <1>4, <1>5 DEF TokensStay
  <2>3. LocksStay(r)
    BY <1>1, <1>4, <1>5, <2>1 DEF LocksStay
  <2>4. MembersStay(r)
    BY <1>t, <1>1 DEF RequestInv, RequestFits, MembersStay
  <2> QED
    BY <1>1, <2>2, <2>3, <2>4, EndingFits
<1>7. TypeOK'
  BY <1>t, <1>1, <1>5, <1>6 DEF TypeOK
<1>8. PasswordChangesOnce'
  <2>1. \A x \in Resets : \/ resets'[x] = resets[x]
                          \/ /\ resets'[x] # None => resets'[x].state # "used"
                             /\ resets[x] # None => resets[x].state # "used"
    BY <1>1, <1>2, <1>3, <1>4, <1>5 DEF Unsettled
  <2>2. \A u \in Users : UsedResets(u)' = UsedResets(u)
    BY <2>1 DEF UsedResets
  <2> QED
    BY <1>1, <2>2 DEF IInv, PasswordChangesOnce, UsedResets
<1>9. (InviteInv /\ ActiveClientHasBusiness /\ JoinedOnce)'
  BY <1>1 DEF IInv, InviteInv, ActiveClientHasBusiness, JoinedOnce, Limited
<1> QED
  BY <1>6, <1>7, <1>8, <1>9 DEF IInv

\* reset_password commits: one more password, one more used token.
LEMMA ResetStepKeeps ==
  ASSUME IInv, NEW r \in Requests, NEW t \in Resets, CommitReset(r, t)
  PROVE  IInv'
<1> USE DEF accountVars, tokenVars
<1>t. /\ TypeOK /\ RequestInv /\ RequestFits(r) /\ ExclusionInv
      /\ request[r] \in RequestRows
  BY DEF IInv, RequestInv, TypeOK
<1>u. PICK u \in Users : u = request[r].user
  BY <1>t DEF CommitReset, RequestFits, At
<1> DEFINE q == request[r]
           others == Revocable(resets, q.found)
           revoked == WithState(resets, others, "revoked")
<1>1. /\ At(r, "replacing") /\ t = q.token /\ Done(r)
      /\ \A x \in q.found : Unlocked(x)
      /\ q.number < MaxVersion
      /\ password' = [password EXCEPT ![u] = password[u] + 1]
      /\ version' = [version EXCEPT ![u] = q.number + 1]
      /\ resets' = WithState(revoked, {t}, "used")
      /\ UNCHANGED <<membership, businessActive, sessions, invites>>
  BY <1>u DEF CommitReset
<1>2. /\ u \in Users /\ resets[t] # None /\ resets[t].user = u /\ Unsettled(resets[t])
  BY <1>t, <1>u, <1>1 DEF RequestFits, At, Resetting, HoldsReset, SentReset
<1>3. /\ others \subseteq Resets \ {t}
      /\ \A x \in others : x \in q.found /\ resets[x] # None /\ Unsettled(resets[x])
  BY <1>t, <1>1 DEF Revocable, RequestFits, At, SentReset
<1> HIDE DEF others
<1>4. /\ revoked \in [Resets -> ResetRows \cup {None}]
      /\ \A x \in Resets \ others : revoked[x] = resets[x]
      /\ \A x \in others : /\ revoked[x] # None /\ revoked[x].state = "revoked"
                           /\ revoked[x].user = resets[x].user
  BY <1>t, <1>3, ResetStates DEF TypeOK
<1> HIDE DEF revoked
<1>5. revoked[t] # None /\ revoked[t].user = u
  BY <1>2, <1>3, <1>4
<1>6. /\ resets' \in [Resets -> ResetRows \cup {None}]
      /\ resets'[t] # None /\ resets'[t].state = "used" /\ resets'[t].user = u
      /\ \A x \in Resets \ {t} : resets'[x] = revoked[x]
  <2>1. /\ WithState(revoked, {t}, "used") \in [Resets -> ResetRows \cup {None}]
        /\ \A x \in Resets \ {t} : WithState(revoked, {t}, "used")[x] = revoked[x]
        /\ \A x \in {t} : /\ WithState(revoked, {t}, "used")[x] # None
                          /\ WithState(revoked, {t}, "used")[x].state = "used"
                          /\ WithState(revoked, {t}, "used")[x].user = revoked[x].user
    <3>1. {t} \in SUBSET Resets /\ \A x \in {t} : revoked[x] # None
      BY <1>5
    <3> QED
      BY <1>4, <3>1, ResetStates
  <2> QED
    BY <1>1, <1>5, <2>1
<1>7. RequestInv' /\ ExclusionInv' /\ request' \in [Requests -> RequestRows]
  <2>1. \A p \in Requests \ {r} : request[p].token \in Resets =>
          request[p].token # t /\ request[p].token \notin others
    <3>1. \A p \in Requests \ {r} : request[p].token \in Resets => request[p].token # t
      BY <1>t, <1>1, AccessAssumption DEF ExclusionInv, Apart
    <3>2. \A p \in Requests : request[p].token \notin others
      BY <1>1, <1>3 DEF Unlocked
    <3> QED
      BY <3>1, <3>2
  <2>2. TokensStay
    <3>1. invites' = invites
      BY <1>1
    <3>2. ASSUME NEW x \in Resets, resets[x] # None
          PROVE  resets'[x] # None /\ resets'[x].user = resets[x].user
      <4>1. CASE x = t
        BY <1>2, <1>6, <4>1
      <4>2. CASE x \in others
        BY <1>3, <1>4, <1>6, <4>2
      <4>3. CASE x \notin others /\ x # t
        BY <1>4, <1>6, <3>2, <4>3
      <4> QED
        BY <4>1, <4>2, <4>3
    <3> QED
      BY <3>1, <3>2 DEF TokensStay
  <2>3. LocksStay(r)
    BY <1>1, <1>4, <1>6, <2>1 DEF LocksStay
  <2>4. MembersStay(r)
    BY <1>t, <1>1 DEF RequestInv, RequestFits, MembersStay
  <2> QED
    BY <1>1, <2>2, <2>3, <2>4, EndingFits
<1>8. PasswordChangesOnce' /\ password' \in [Users -> 0..Cardinality(Resets)]
  <2>1. UsedResets(u)' = UsedResets(u) \cup {t} /\ t \notin UsedResets(u)
    <3>1. \A x \in Resets \ {t} :
            \/ resets'[x] = resets[x]
            \/ /\ resets'[x] # None => resets'[x].state # "used"
               /\ resets[x] # None => resets[x].state # "used"
      BY <1>3, <1>4, <1>6 DEF Unsettled
    <3>2. t \notin UsedResets(u) /\ t \in UsedResets(u)'
      BY <1>2, <1>6 DEF UsedResets, Unsettled
    <3>3. \A x \in Resets \ {t} : x \in UsedResets(u)' <=> x \in UsedResets(u)
      BY <3>1 DEF UsedResets
    <3>4. UsedResets(u) \subseteq Resets /\ UsedResets(u)' \subseteq Resets
      BY DEF UsedResets
    <3> QED
      BY <3>2, <3>3, <3>4
  <2>2. \A w \in Users \ {u} : UsedResets(w)' = UsedResets(w)
    <3>1. \A x \in Resets \ {t} :
            \/ resets'[x] = resets[x]
            \/ /\ resets'[x] # None => resets'[x].state # "used"
               /\ resets[x] # None => resets[x].state # "used"
      BY <1>3, <1>4, <1>6 DEF Unsettled
    <3> QED
      BY <1>2, <1>6, <3>1 DEF UsedResets
  <2>3. \A w \in Users : password[w] = Cardinality(UsedResets(w))
    BY DEF IInv, PasswordChangesOnce, UsedResets
  <2>4. Cardinality(UsedResets(u)') = Cardinality(UsedResets(u)) + 1
    BY <2>1, <1>2, UsedBounded, FS_AddElement
  <2>5. \A w \in Users : password'[w] = Cardinality(UsedResets(w)')
    <3>1. password'[u] = Cardinality(UsedResets(u)')
      BY <1>t, <1>1, <1>2, <2>3, <2>4 DEF TypeOK
    <3>2. ASSUME NEW w \in Users, w # u PROVE password'[w] = Cardinality(UsedResets(w)')
      <4>1. password'[w] = password[w] /\ UsedResets(w)' = UsedResets(w)
        BY <1>t, <1>1, <2>2, <3>2 DEF TypeOK
      <4> QED
        BY <2>3, <4>1
    <3> QED
      BY <3>1, <3>2
  <2>6. \A w \in Users : Cardinality(UsedResets(w)') \in 0..Cardinality(Resets)
    <3>1. \A w \in Users : UsedResets(w)' \subseteq Resets
      BY DEF UsedResets
    <3>2. \A w \in Users : IsFiniteSet(UsedResets(w)')
                           /\ Cardinality(UsedResets(w)') <= Cardinality(Resets)
      BY <3>1, FS_Subset, AccessAssumption
    <3> QED
      BY <3>2, FS_CardinalityType, AccessAssumption
  <2>7. password' \in [Users -> 0..Cardinality(Resets)]
    <3>1. DOMAIN password' = Users /\ password' = [w \in Users |-> password'[w]]
      BY <1>t, <1>1 DEF TypeOK
    <3> QED
      BY <2>5, <2>6, <3>1
  <2>8. PasswordChangesOnce'
    BY <2>5 DEF PasswordChangesOnce, UsedResets
  <2> QED
    BY <2>7, <2>8
<1>9. TypeOK'
  <2>1. version' \in [Users -> 1..MaxVersion]
    <3>1. q.number + 1 \in 1..MaxVersion
      BY <1>t, <1>1, AccessAssumption DEF RequestRows
    <3> QED
      BY <1>t, <1>1, <3>1 DEF TypeOK
  <2> QED
    BY <1>t, <1>1, <1>6, <1>7, <1>8, <2>1 DEF TypeOK
<1>10. (InviteInv /\ ActiveClientHasBusiness /\ JoinedOnce)'
  BY <1>1 DEF IInv, InviteInv, ActiveClientHasBusiness, JoinedOnce, Limited
<1> QED
  BY <1>7, <1>8, <1>9, <1>10 DEF IInv

\* A business is archived, or nothing happens.
LEMMA StillStep ==
  ASSUME IInv, (\E b \in Businesses : ArchiveBusiness(b)) \/ UNCHANGED vars
  PROVE  IInv'
<1> USE DEF vars, accountVars, tokenVars
<1>1. /\ UNCHANGED <<membership, version, password, sessions, invites, resets, request>>
      /\ businessActive' \in [Businesses -> BOOLEAN]
  BY DEF ArchiveBusiness, IInv, TypeOK
<1>2. TypeOK'
  BY <1>1 DEF IInv, TypeOK
<1>3. RequestInv'
  BY <1>1 DEF IInv, RequestInv, RequestFits, HoldsInvite, HoldsReset, SentInvite, SentReset,
              Unsettled, Limited, Inserting
<1>4. (ExclusionInv /\ InviteInv)'
  BY <1>1 DEF IInv, ExclusionInv, Apart, Inserting, InviteInv, Limited
<1>5. (ActiveClientHasBusiness /\ JoinedOnce /\ PasswordChangesOnce)'
  BY <1>1 DEF IInv, ActiveClientHasBusiness, JoinedOnce, PasswordChangesOnce
<1> QED
  BY <1>2, <1>3, <1>4, <1>5 DEF IInv

-----------------------------------------------------------------------------
(* The theorems.                                                           *)

\* Every step preserves the inductive invariant.
LEMMA NextIInv == IInv /\ [Next]_vars => IInv'
<1> SUFFICES ASSUME IInv, [Next]_vars PROVE IInv'
  OBVIOUS
<1>1. ASSUME NEW r \in Requests, SessionStep(r) PROVE IInv'
  BY <1>1, OpeningStep, IssueStep DEF SessionStep
<1>2. ASSUME NEW r \in Requests, MemberStep(r) PROVE IInv'
  BY <1>2, CheckingStep, UpdateStep DEF MemberStep
<1>3. ASSUME NEW r \in Requests, InviteStep(r) PROVE IInv'
  BY <1>3, CheckingStep, LockingStep, FindingStep, CreateStep, RevokeStep, AcceptStep
     DEF InviteStep
<1>4. ASSUME NEW r \in Requests, ResetStep(r) PROVE IInv'
  BY <1>4, OpeningStep, LockingStep, FindingStep, RecoveryStep, ResetStepKeeps
     DEF ResetStep
<1>5. ASSUME NEW r \in Requests, Refuse(r) PROVE IInv'
  BY <1>5, RefuseStep
<1>6. ASSUME NEW i \in Invites, ExpireInvite(i) PROVE IInv'
  BY <1>6, ExpireStep
<1>7. ASSUME (\E b \in Businesses : ArchiveBusiness(b)) \/ UNCHANGED vars PROVE IInv'
  BY <1>7, StillStep
<1> QED
  BY <1>1, <1>2, <1>3, <1>4, <1>5, <1>6, <1>7 DEF Next

\* What requests have read and locked, what tokens became and what members may reach
\* agree in every reachable state.
THEOREM Invariance == Spec => []IInv
<1> QED
  BY InitIInv, NextIInv, PTL DEF Spec

\* Every reachable state is well typed.
THEOREM TypeCorrect == Spec => []TypeOK
<1>1. IInv => TypeOK
  BY DEF IInv
<1> QED
  BY <1>1, Invariance, PTL

\* models/identity.py:40: an active member with a client's role has a business,
\* whatever two updates of that member write.
THEOREM ClientsLimited == Spec => []ActiveClientHasBusiness
<1>1. IInv => ActiveClientHasBusiness
  BY DEF IInv
<1> QED
  BY <1>1, Invariance, PTL

\* accept_invitation: of all invitations of a person at most one is ever accepted.
THEOREM JoinsOnce == Spec => []JoinedOnce
<1>1. IInv => JoinedOnce
  BY DEF IInv
<1> QED
  BY <1>1, Invariance, PTL

\* reset_password: the password was replaced once for each used token.
THEOREM PasswordOnce == Spec => []PasswordChangesOnce
<1>1. IInv => PasswordChangesOnce
  BY DEF IInv
<1> QED
  BY <1>1, Invariance, PTL

\* Invitations and reset tokens that ended keep their row, in every step: what a
\* request settles is locked by it, or by nobody, and unsettled when it commits.
THEOREM TokensFinal == Spec => TokensEndOnce
<1> DEFINE KeepInvites ==
             \A i \in Invites : invites[i] # None /\ invites[i].state \in {"accepted", "revoked"} =>
               invites'[i] = invites[i]
           KeepResets ==
             \A t \in Resets : resets[t] # None /\ resets[t].state \in {"used", "revoked"} =>
               resets'[t] = resets[t]
<1>1. ASSUME IInv, Next PROVE KeepInvites
  <2>t. TypeOK /\ RequestInv /\ DOMAIN invites = Invites
    BY <1>1 DEF IInv, TypeOK
  <2>1. ASSUME NEW r \in Requests, NEW i \in Invites, CreateInvite(r, i) PROVE KeepInvites
    BY <2>1 DEF CreateInvite
  <2>2. ASSUME NEW r \in Requests, NEW i \in Invites, RevokeInvite(r, i) PROVE KeepInvites
    BY <2>t, <2>2 DEF RevokeInvite, WithState, Unsettled
  <2>3. ASSUME NEW r \in Requests, NEW i \in Invites, CommitAccept(r, i) PROVE KeepInvites
    <3> DEFINE S == Revocable(invites, request[r].found)
    <3>1. HoldsInvite(request[r].user, i)
      BY <2>t, <2>3 DEF CommitAccept, RequestInv, RequestFits, At, Accepting
    <3>2. \A j \in S \cup {i} : Unsettled(invites[j])
      BY <3>1 DEF Revocable, HoldsInvite
    <3>3. \A j \in Invites \ (S \cup {i}) : invites'[j] = invites[j]
      BY <2>t, <2>3 DEF CommitAccept, WithState
    <3> QED
      BY <3>2, <3>3 DEF Unsettled
  <2>4. ASSUME NEW i \in Invites, ExpireInvite(i) PROVE KeepInvites
    BY <2>t, <2>4 DEF ExpireInvite, WithState
  <2>5. ASSUME NEW r \in Requests, SessionStep(r) \/ MemberStep(r) \/ Refuse(r)
        PROVE  UNCHANGED invites
    BY <2>5 DEF SessionStep, MemberStep, Refuse, ReadAccount, IssueSession, Authenticate,
                ReadMember, CountAdmins, CommitUpdate, tokenVars
  <2>6. ASSUME NEW r \in Requests, ResetStep(r) PROVE UNCHANGED invites
    BY <2>6 DEF ResetStep, StartRecovery, FindResets, FindOthers, CommitRecovery,
                LockReset, CommitReset, tokenVars
  <2>7. ASSUME NEW r \in Requests, InviteStep(r) PROVE KeepInvites
    BY <2>1, <2>2, <2>3, <2>7
       DEF InviteStep, SeekMember, SeekInvite, InsertMember, FindSiblings, LockInvite,
           tokenVars
  <2>8. ASSUME NEW b \in Businesses, ArchiveBusiness(b) PROVE UNCHANGED invites
    BY <2>8 DEF ArchiveBusiness, tokenVars
  <2> QED
    BY <1>1, <2>4, <2>5, <2>6, <2>7, <2>8 DEF Next
<1>2. ASSUME IInv, Next PROVE KeepResets
  <2>t. TypeOK /\ RequestInv /\ DOMAIN resets = Resets
    BY <1>2 DEF IInv, TypeOK
  <2>1. ASSUME NEW r \in Requests, NEW t \in Resets, CommitRecovery(r, t) PROVE KeepResets
    <3> DEFINE S == Revocable(resets, request[r].found)
    <3>1. \A x \in S : Unsettled(resets[x])
      BY DEF Revocable
    <3>2. \A x \in Resets \ (S \cup {t}) : resets'[x] = resets[x]
      BY <2>t, <2>1 DEF CommitRecovery, WithState
    <3> QED
      BY <2>1, <3>1, <3>2 DEF CommitRecovery, Unsettled
  <2>2. ASSUME NEW r \in Requests, NEW t \in Resets, CommitReset(r, t) PROVE KeepResets
    <3> DEFINE S == Revocable(resets, request[r].found)
    <3>1. HoldsReset(request[r].user, t)
      BY <2>t, <2>2 DEF CommitReset, RequestInv, RequestFits, At, Resetting
    <3>2. \A x \in S \cup {t} : Unsettled(resets[x])
      BY <3>1 DEF Revocable, HoldsReset
    <3>3. \A x \in Resets \ (S \cup {t}) : resets'[x] = resets[x]
      BY <2>t, <2>2 DEF CommitReset, WithState
    <3> QED
      BY <3>2, <3>3 DEF Unsettled
  <2>3. ASSUME NEW r \in Requests, SessionStep(r) \/ MemberStep(r) \/ Refuse(r)
        PROVE  UNCHANGED resets
    BY <2>3 DEF SessionStep, MemberStep, Refuse, ReadAccount, IssueSession, Authenticate,
                ReadMember, CountAdmins, CommitUpdate, tokenVars
  <2>4. ASSUME NEW r \in Requests, InviteStep(r) PROVE UNCHANGED resets
    BY <2>4 DEF InviteStep, SeekMember, SeekInvite, CreateInvite, RevokeInvite, LockInvite,
                InsertMember, FindSiblings, CommitAccept, tokenVars
  <2>5. ASSUME NEW r \in Requests, ResetStep(r) PROVE KeepResets
    BY <2>1, <2>2, <2>5 DEF ResetStep, StartRecovery, FindResets, FindOthers, LockReset,
                               tokenVars
  <2>6. ASSUME (\E i \in Invites : ExpireInvite(i)) \/ (\E b \in Businesses : ArchiveBusiness(b))
        PROVE  UNCHANGED resets
    BY <2>6 DEF ExpireInvite, ArchiveBusiness, tokenVars
  <2> QED
    BY <1>2, <2>3, <2>4, <2>5, <2>6 DEF Next
<1>3. IInv /\ [Next]_vars => [KeepInvites /\ KeepResets]_vars
  BY <1>1, <1>2
<1> QED
  BY Invariance, <1>3, PTL DEF Spec, TokensEndOnce
-----------------------------------------------------------------------------
(* The kinds of steps, as far as access and session versions depend on     *)
(* them.                                                                   *)

\* A request that neither reads a row to change it later nor writes the access or the
\* password of a person.
Bystander(r) ==
  \/ \E s \in sessions : Authenticate(r, s)
  \/ \E u \in Users, next \in Wishes : SeekMember(r, u, next)
  \/ SeekInvite(r) \/ InsertMember(r) \/ FindSiblings(r)
  \/ \E i \in Invites : CreateInvite(r, i) \/ RevokeInvite(r, i) \/ LockInvite(r, i)
  \/ \E u \in Users : StartRecovery(r, u)
  \/ FindResets(r)
  \/ \E t \in Resets : CommitRecovery(r, t)
  \/ Refuse(r)

OthersStay(r) == \A q \in Requests \ {r} : request'[q] = request[q]

Still == UNCHANGED <<membership, version, password, sessions, request>>

\* Where a request is that will write a session version it has read.
VersionSteps == {"counting", "updating", "resetting", "replacing"}

LEMMA StepKinds ==
  ASSUME [Next]_vars
  PROVE  \/ Still
         \/ \E r \in Requests :
              \/ Bystander(r) \/ IssueSession(r) \/ CountAdmins(r) \/ CommitUpdate(r)
              \/ FindOthers(r)
              \/ \E u \in Users : ReadAccount(r, u)
              \/ \E u \in Users, next \in Wishes : ReadMember(r, u, next)
              \/ \E i \in Invites : CommitAccept(r, i)
              \/ \E t \in Resets : LockReset(r, t) \/ CommitReset(r, t)
BY DEF Next, SessionStep, MemberStep, InviteStep, ResetStep, Bystander, Still, ExpireInvite,
       ArchiveBusiness, vars, accountVars

\* A request that is over does not update.
LEMMA DoneStep ==
  ASSUME TypeOK, NEW r \in Requests, Done(r)
  PROVE  request'[r].step = "none" /\ OthersStay(r)
BY NoRequestTyped DEF TypeOK, Done, OthersStay

\* A bystander leaves access, passwords and sessions alone and does not begin to update;
\* where it is about to accept an invitation it has just found the others.
LEMMA BystanderStep ==
  ASSUME TypeOK, NEW r \in Requests, Bystander(r)
  PROVE  /\ UNCHANGED <<membership, version, password, sessions>>
         /\ request'[r].step \notin VersionSteps \cup {"login"}
         /\ request'[r].step = "superseding" => FindSiblings(r)
         /\ OthersStay(r)
<1>t. request \in [Requests -> RequestRows]
  BY DEF TypeOK
<1>1. UNCHANGED <<membership, version, password, sessions>>
  BY DEF Bystander, Authenticate, SeekMember, SeekInvite, InsertMember, CreateInvite,
         RevokeInvite, LockInvite, StartRecovery, FindSiblings, FindResets,
         CommitRecovery, Refuse, accountVars
<1> DEFINE Moved == /\ request'[r].step \notin VersionSteps \cup {"login"}
                    /\ request'[r].step = "superseding" => FindSiblings(r)
                    /\ OthersStay(r)
<1> USE DEF OthersStay, VersionSteps
<1>2. CASE SeekInvite(r) \/ InsertMember(r)
  BY <1>t, <1>1, <1>2 DEF SeekInvite, InsertMember, MoveTo, RequestRows
<1>3. ASSUME NEW s \in sessions, Authenticate(r, s) PROVE Moved
  BY <1>t, <1>3 DEF Authenticate, NoRequest
<1>4. ASSUME NEW i \in Invites, LockInvite(r, i) PROVE Moved
  BY <1>t, <1>4 DEF LockInvite, NoRequest
<1>5. ASSUME NEW u \in Users, StartRecovery(r, u) PROVE Moved
  BY <1>t, <1>5 DEF StartRecovery, NoRequest
<1>6. ASSUME NEW u \in Users, NEW next \in Wishes, SeekMember(r, u, next) PROVE Moved
  BY <1>t, <1>6 DEF SeekMember, RequestRows
<1>7. ASSUME FindSiblings(r) \/ FindResets(r) PROVE Moved
  <2>1. request[r] \in RequestRows /\ DOMAIN request = Requests
    BY <1>t
  <2>2. CASE FindSiblings(r)
    <3>1. request' = [request EXCEPT ![r] =
            [request[r] EXCEPT !.step = "superseding", !.found = Siblings(request[r].token)]]
      BY <2>2 DEF FindSiblings
    <3>2. request'[r].step = "superseding" /\ OthersStay(r)
      BY <2>1, <3>1 DEF RequestRows
    <3> QED
      BY <2>2, <3>2
  <2>3. CASE FindResets(r)
    <3>1. request' = [request EXCEPT ![r] =
            [request[r] EXCEPT !.step = "reissuing", !.found = OpenResets(request[r].user)]]
      BY <2>3 DEF FindResets
    <3>2. request'[r].step = "reissuing" /\ OthersStay(r)
      BY <2>1, <3>1 DEF RequestRows
    <3> QED
      BY <3>2
  <2> QED
    BY <1>7, <2>2, <2>3
<1>8. CASE \/ \E i \in Invites : CreateInvite(r, i) \/ RevokeInvite(r, i)
           \/ \E t \in Resets : CommitRecovery(r, t)
           \/ Refuse(r)
  <2>1. Done(r)
    BY <1>8 DEF CreateInvite, RevokeInvite, CommitRecovery, Refuse
  <2> QED
    BY <1>1, <2>1, DoneStep
<1> QED
  BY <1>1, <1>2, <1>3, <1>4, <1>5, <1>6, <1>7, <1>8 DEF Bystander

\* What update_member reads.
LEMMA ReadMemberStep ==
  ASSUME IInv, NEW r \in Requests, NEW u \in Users, NEW next \in Wishes, ReadMember(r, u, next)
  PROVE  /\ UNCHANGED <<membership, version, password, sessions>> /\ OthersStay(r)
         /\ request'[r].user = u /\ request'[r].row = membership[u]
         /\ request'[r].next = next /\ request'[r].number = version[u]
         /\ request'[r].step =
              IF RemovesAdmin(membership[u], next) THEN "counting" ELSE "updating"
         /\ membership[u] \in Rows
BY DEF ReadMember, IInv, TypeOK, RequestRows, OthersStay, accountVars

\* What the count of administrators lets through is the same request.
LEMMA CountStep ==
  ASSUME IInv, NEW r \in Requests, CountAdmins(r)
  PROVE  /\ UNCHANGED <<membership, version, password, sessions>> /\ OthersStay(r)
         /\ request[r].step = "counting" /\ request'[r].step = "updating"
         /\ request'[r].user = request[r].user /\ request'[r].row = request[r].row
         /\ request'[r].next = request[r].next /\ request'[r].number = request[r].number
BY DEF CountAdmins, MoveTo, At, IInv, TypeOK, RequestRows, OthersStay, accountVars

\* reset_password goes on with the session version it has read.
LEMMA OthersStep ==
  ASSUME IInv, NEW r \in Requests, FindOthers(r)
  PROVE  /\ UNCHANGED <<membership, version, password, sessions>> /\ OthersStay(r)
         /\ request[r].step = "resetting" /\ request'[r].step = "replacing"
         /\ request'[r].user = request[r].user /\ request'[r].number = request[r].number
BY DEF FindOthers, At, IInv, TypeOK, RequestRows, OthersStay, accountVars

-----------------------------------------------------------------------------
(* The last administrator.                                                 *)

\* What an update has read is still so, and whoever is about to take an administrator
\* away leaves another one.
UpdateFits(r) ==
  /\ Updating(r) => membership[request[r].user] = request[r].row
  /\ At(r, "updating") /\ TakesAdmin(r) => \E a \in ActiveAdmins : a # request[r].user

AdminInv == LastAdminKept /\ \A r \in Requests : UpdateFits(r)

\* An update whose reading is still so writes what it wants.
LEMMA WrittenFresh ==
  ASSUME NEW row \in Rows, NEW next \in Rows
  PROVE  Written(row, row, next) = next
BY DEF Written, Rows

\* Where the access of members stays or grows, updates stay right.
LEMMA AdminsStay ==
  ASSUME IInv, AdminInv, NEW q \in Requests, request'[q] = request[q],
         Updating(q) => membership'[request[q].user] = membership[request[q].user],
         ActiveAdmins \subseteq ActiveAdmins'
  PROVE  UpdateFits(q)'
<1>1. UpdateFits(q)
  BY DEF AdminInv
<1> QED
  BY <1>1 DEF UpdateFits, Updating, TakesAdmin, At

LEMMA AdminStep == IInv /\ AdminInv /\ UpdatesApart /\ [Next]_vars => AdminInv'
<1> SUFFICES ASSUME IInv, AdminInv, UpdatesApart, [Next]_vars PROVE AdminInv'
  OBVIOUS
<1>t. TypeOK /\ RequestInv
  BY DEF IInv
<1>a. LastAdminKept /\ \A r \in Requests : UpdateFits(r)
  BY DEF AdminInv
<1>1. ASSUME NEW r \in Requests, OthersStay(r), membership' = membership, UpdateFits(r)'
      PROVE  AdminInv'
  <2>1. ActiveAdmins' = ActiveAdmins
    BY <1>1 DEF ActiveAdmins
  <2>2. \A q \in Requests \ {r} : UpdateFits(q)'
    BY <1>1, <2>1, AdminsStay DEF OthersStay
  <2> QED
    BY <1>1, <1>a, <2>1, <2>2 DEF AdminInv, LastAdminKept
<1>2. ASSUME NEW r \in Requests, membership' = membership, OthersStay(r),
             request'[r].step \notin {"counting", "updating"}
      PROVE  AdminInv'
  BY <1>1, <1>2 DEF UpdateFits, Updating, At
<1>3. ASSUME Still PROVE AdminInv'
  <2>1. ActiveAdmins' = ActiveAdmins
    BY <1>3 DEF Still, ActiveAdmins
  <2>2. \A q \in Requests : UpdateFits(q)'
    BY <1>3, <2>1, AdminsStay DEF Still
  <2> QED
    BY <1>a, <2>1, <2>2 DEF AdminInv, LastAdminKept
<1>4. ASSUME NEW r \in Requests, Bystander(r) \/ FindOthers(r) PROVE AdminInv'
  BY <1>t, <1>2, <1>4, BystanderStep, OthersStep DEF VersionSteps
<1>5. ASSUME NEW r \in Requests, IssueSession(r) \/ \E t \in Resets : CommitReset(r, t)
      PROVE  AdminInv'
  <2>1. Done(r) /\ membership' = membership
    BY <1>5 DEF IssueSession, CommitReset, accountVars
  <2> QED
    BY <1>t, <1>2, <2>1, DoneStep
<1>6. ASSUME NEW r \in Requests,
             (\E u \in Users : ReadAccount(r, u)) \/ \E t \in Resets : LockReset(r, t)
      PROVE  AdminInv'
  <2>1. ASSUME NEW u \in Users, ReadAccount(r, u)
        PROVE  /\ OthersStay(r) /\ request'[r].step = "login" /\ membership' = membership
    BY <1>t, <2>1 DEF ReadAccount, NoRequest, OthersStay, TypeOK, accountVars
  <2>2. ASSUME NEW t \in Resets, LockReset(r, t)
        PROVE  /\ OthersStay(r) /\ request'[r].step = "resetting" /\ membership' = membership
    BY <1>t, <2>2 DEF LockReset, NoRequest, OthersStay, TypeOK, accountVars
  <2> QED
    BY <1>2, <1>6, <2>1, <2>2
<1>7. ASSUME NEW r \in Requests, NEW u \in Users, NEW next \in Wishes, ReadMember(r, u, next)
      PROVE  AdminInv'
  <2>1. UpdateFits(r)'
    BY <1>7, ReadMemberStep DEF UpdateFits, Updating, TakesAdmin, At
  <2> QED
    BY <1>1, <1>7, <2>1, ReadMemberStep
<1>8. ASSUME NEW r \in Requests, CountAdmins(r) PROVE AdminInv'
  <2>1. \E a \in ActiveAdmins : a # request[r].user
    <3>1. ActiveAdmins # {} /\ Cardinality(ActiveAdmins) # 1
      BY <1>a, <1>8 DEF LastAdminKept, CountAdmins
    <3>2. Cardinality({request[r].user}) = 1
      BY FS_Singleton
    <3> QED
      BY <3>1, <3>2
  <2>2. UpdateFits(r)'
    BY <1>a, <1>8, <2>1, CountStep DEF UpdateFits, Updating, At, ActiveAdmins
  <2> QED
    BY <1>1, <1>8, <2>2, CountStep
<1>9. ASSUME NEW r \in Requests, CommitUpdate(r) PROVE AdminInv'
  <2> PICK u \in Users : u = request[r].user
    BY <1>t, <1>9 DEF CommitUpdate, RequestInv, RequestFits, At
  <2>1. /\ Updating(r) /\ membership[u] = request[r].row
        /\ request[r].row \in Rows /\ request[r].next \in Rows
    BY <1>t, <1>a, <1>9 DEF CommitUpdate, RequestInv, RequestFits, At, Updating, UpdateFits
  <2>2. membership' = [membership EXCEPT ![u] = request[r].next]
    BY <1>9, <2>1, WrittenFresh DEF CommitUpdate
  <2>3. /\ membership'[u] = request[r].next
        /\ \A v \in Users \ {u} : membership'[v] = membership[v]
    BY <1>t, <2>2 DEF TypeOK
  <2>4. OthersStay(r) /\ request'[r].step = "none"
    BY <1>t, <1>9, DoneStep DEF CommitUpdate
  <2>5. UpdateFits(r)'
    BY <2>4 DEF UpdateFits, Updating, At
  <2>6. ASSUME NEW q \in Requests \ {r}, Updating(q)
        PROVE  /\ request[q].user \in Users /\ request[q].user # u
               /\ membership'[request[q].user] = membership[request[q].user]
    <3>1. request[q].user \in Users
      BY <1>t, <2>6 DEF RequestInv, RequestFits, Updating
    <3>2. request[q].user # u
      BY <2>1, <2>6 DEF UpdatesApart
    <3> QED
      BY <2>3, <3>1, <3>2
  <2>7. CASE ~TakesAdmin(r)
    <3>1. ~RemovesAdmin(request[r].row, request[r].next)
      BY <2>1, <2>7 DEF TakesAdmin
    <3>2. None \notin Rows
      BY AccessAssumption
    <3>3. ActiveAdmins \subseteq ActiveAdmins'
      BY <2>1, <2>3, <3>1, <3>2 DEF ActiveAdmins, RemovesAdmin
    <3>4. \A q \in Requests \ {r} : UpdateFits(q)'
      BY <2>4, <2>6, <3>3, AdminsStay DEF OthersStay
    <3> QED
      BY <1>a, <2>5, <3>3, <3>4 DEF AdminInv, LastAdminKept
  <2>8. CASE TakesAdmin(r)
    <3>1. PICK a \in ActiveAdmins : a # u
      BY <1>a, <1>9, <2>8 DEF CommitUpdate, UpdateFits
    <3>2. a \in ActiveAdmins'
      BY <2>3, <3>1 DEF ActiveAdmins
    <3>3. ASSUME NEW q \in Requests \ {r} PROVE UpdateFits(q)'
      <4>1. request'[q] = request[q] /\ ~TakesAdmin(q)
        BY <2>1, <2>4, <2>8 DEF OthersStay, UpdatesApart, TakesAdmin
      <4>2. Updating(q) => membership'[request[q].user] = request[q].row
        BY <1>a, <2>6 DEF UpdateFits
      <4> QED
        BY <4>1, <4>2 DEF UpdateFits, Updating, TakesAdmin
    <3> QED
      BY <2>5, <3>2, <3>3 DEF AdminInv, LastAdminKept
  <2> QED
    BY <2>7, <2>8
<1>10. ASSUME NEW r \in Requests, NEW i \in Invites, CommitAccept(r, i) PROVE AdminInv'
  <2>0. RequestFits(r) /\ request[r].step = "superseding"
    BY <1>t, <1>10 DEF CommitAccept, RequestInv, At
  <2> PICK u \in Users : u = request[r].user
    BY <2>0 DEF RequestFits
  <2>1. /\ membership[u] = None
        /\ \A v \in Users \ {u} : membership'[v] = membership[v]
    <3>1. membership[u] = None
      BY <2>0 DEF RequestFits, Inserting
    <3>2. \E row : membership' = [membership EXCEPT ![u] = row]
      BY <1>10 DEF CommitAccept
    <3> QED
      BY <1>t, <3>1, <3>2 DEF TypeOK
  <2>2. OthersStay(r) /\ request'[r].step = "none"
    BY <1>t, <1>10, DoneStep DEF CommitAccept
  <2>3. ActiveAdmins \subseteq ActiveAdmins'
    BY <2>1 DEF ActiveAdmins
  <2>4. ASSUME NEW q \in Requests, Updating(q)
        PROVE  membership'[request[q].user] = membership[request[q].user]
    <3>1. request[q].user \in Users /\ membership[request[q].user] # None
      BY <1>t, <2>4 DEF RequestInv, RequestFits, Updating
    <3> QED
      BY <2>1, <3>1
  <2>5. \A q \in Requests \ {r} : UpdateFits(q)'
    BY <2>2, <2>3, <2>4, AdminsStay DEF OthersStay
  <2>6. UpdateFits(r)'
    BY <2>2 DEF UpdateFits, Updating, At
  <2> QED
    BY <1>a, <2>3, <2>5, <2>6 DEF AdminInv, LastAdminKept
<1> QED
  BY <1>3, <1>4, <1>5, <1>6, <1>7, <1>8, <1>9, <1>10, StepKinds

\* Overlapping updates are the only way to lose the last administrator: an organization
\* that has one keeps one as long as no two updates of one member, and no two that each
\* take an administrator away, are under way together.
THEOREM LastAdminUnlessOverlapped ==
  Spec /\ LastAdminKept /\ []UpdatesApart => []LastAdminKept
<1>1. Init /\ LastAdminKept => AdminInv
  BY DEF Init, AdminInv, UpdateFits, Updating, At, NoRequest
<1>2. AdminInv => LastAdminKept
  BY DEF AdminInv
<1>3. IInv /\ AdminInv /\ UpdatesApart /\ [Next]_vars => AdminInv'
  BY AdminStep
<1> QED
  BY Invariance, <1>1, <1>2, <1>3, PTL DEF Spec

-----------------------------------------------------------------------------
(* Sessions after a reset.                                                 *)

\* A version that was read, or that a session carries, is not ahead, and where it is
\* current, so is the password that came with it.
Dated(u, number, pass) ==
  number <= version[u] /\ (number = version[u] => pass = password[u])

DatesFit(r) ==
  /\ At(r, "login") => Dated(request[r].user, request[r].number, request[r].password)
  /\ WritesVersion(r) => request[r].number = version[request[r].user]

DatesInv ==
  /\ \A s \in sessions : Dated(s.user, s.version, s.password)
  /\ \A r \in Requests : DatesFit(r)

\* A step that writes no version and no password leaves what requests have read right.
LEMMA DatesStay ==
  ASSUME DatesInv, NEW q \in Requests, request'[q] = request[q],
         UNCHANGED <<version, password>>
  PROVE  DatesFit(q)'
BY DEF DatesInv, DatesFit, Dated, WritesVersion, Updating, At

\* Whoever has read the current version and raises it leaves every other version behind.
LEMMA RaisingStep ==
  ASSUME IInv, DatesInv, VersionWritersApart, NEW r \in Requests, NEW u \in Users,
         WritesVersion(r), request[r].user = u,
         version' = [version EXCEPT ![u] = request[r].number + 1],
         \A w \in Users \ {u} : password'[w] = password[w],
         sessions' = sessions, Done(r)
  PROVE  DatesInv'
<1>t. TypeOK /\ RequestInv
  BY DEF IInv
<1>1. /\ \A w \in Users : version[w] \in Nat
      /\ version'[u] = version[u] + 1
      /\ \A w \in Users \ {u} : version'[w] = version[w]
  BY <1>t DEF TypeOK, DatesInv, DatesFit
<1>2. ASSUME NEW w \in Users, NEW number \in Nat, NEW pass, Dated(w, number, pass)
      PROVE  Dated(w, number, pass)'
  BY <1>1, <1>2 DEF Dated
<1>3. \A s \in sessions' : Dated(s.user, s.version, s.password)'
  <2>1. ASSUME NEW s \in sessions PROVE Dated(s.user, s.version, s.password)'
    <3>1. s.user \in Users /\ s.version \in Nat
      BY <1>t DEF TypeOK, SessionRows
    <3> QED
      BY <1>2, <3>1 DEF DatesInv
  <2> QED
    BY <2>1
<1>4. OthersStay(r) /\ request'[r].step = "none"
  BY <1>t, DoneStep
<1>5. ASSUME NEW q \in Requests \ {r} PROVE DatesFit(q)'
  <2>1. request'[q] = request[q] /\ request[q].number \in Nat /\ DatesFit(q)
    BY <1>t, <1>4 DEF OthersStay, TypeOK, RequestRows, DatesInv
  <2>2. ASSUME At(q, "login")
        PROVE  Dated(request[q].user, request[q].number, request[q].password)'
    <3>1. request[q].user \in Users
      BY <1>t, <2>2 DEF RequestInv, RequestFits, At
    <3> QED
      BY <1>2, <2>1, <2>2, <3>1 DEF DatesFit, Dated
  <2>3. ASSUME WritesVersion(q) PROVE request[q].number = version'[request[q].user]
    <3>1. request[q].user \in Users
      BY <1>t, <2>3 DEF RequestInv, RequestFits, WritesVersion, Updating, At
    <3>2. request[q].user # u
      BY <2>3 DEF VersionWritersApart
    <3> QED
      BY <1>1, <2>1, <2>3, <3>1, <3>2 DEF DatesFit
  <2> QED
    BY <2>1, <2>2, <2>3 DEF DatesFit, Dated, WritesVersion, Updating, At
<1>6. DatesFit(r)'
  BY <1>4 DEF DatesFit, WritesVersion, Updating, At
<1> QED
  BY <1>3, <1>5, <1>6 DEF DatesInv

LEMMA DatesStep == IInv /\ DatesInv /\ VersionWritersApart /\ [Next]_vars => DatesInv'
<1> SUFFICES ASSUME IInv, DatesInv, VersionWritersApart, [Next]_vars PROVE DatesInv'
  OBVIOUS
<1>t. TypeOK /\ RequestInv
  BY DEF IInv
<1>n. \A u \in Users : version[u] \in Nat
  BY <1>t DEF TypeOK
<1>1. ASSUME NEW r \in Requests, OthersStay(r),
             UNCHANGED <<version, password, sessions>>, DatesFit(r)'
      PROVE  DatesInv'
  <2>1. \A q \in Requests \ {r} : DatesFit(q)'
    BY <1>1, DatesStay DEF OthersStay
  <2>2. \A s \in sessions : Dated(s.user, s.version, s.password)'
    BY <1>1 DEF DatesInv, Dated
  <2> QED
    BY <1>1, <2>1, <2>2 DEF DatesInv, Dated
<1>2. ASSUME Still PROVE DatesInv'
  BY <1>2 DEF Still, DatesInv, Dated, DatesFit, WritesVersion, Updating, At
<1>3. ASSUME NEW r \in Requests, Bystander(r) PROVE DatesInv'
  <2>1. DatesFit(r)'
    BY <1>t, <1>3, BystanderStep DEF VersionSteps, DatesFit, WritesVersion, Updating, At
  <2> QED
    BY <1>t, <1>1, <1>3, <2>1, BystanderStep
<1>4. ASSUME NEW r \in Requests, NEW u \in Users, ReadAccount(r, u) PROVE DatesInv'
  <2>1. /\ request'[r].step = "login" /\ request'[r].user = u
        /\ request'[r].number = version[u] /\ request'[r].password = password[u]
        /\ OthersStay(r) /\ UNCHANGED <<version, password, sessions>>
    BY <1>t, <1>4 DEF ReadAccount, NoRequest, OthersStay, TypeOK, accountVars
  <2>2. DatesFit(r)'
    BY <1>n, <2>1 DEF DatesFit, Dated, WritesVersion, Updating, At
  <2> QED
    BY <1>1, <2>1, <2>2
<1>5. ASSUME NEW r \in Requests, IssueSession(r) PROVE DatesInv'
  <2> DEFINE row == membership[request[r].user]
             s == [user |-> request[r].user, role |-> row.role, business |-> row.business,
                   version |-> request[r].number, password |-> request[r].password]
  <2>0. /\ sessions' = sessions \cup {s} /\ s.user = request[r].user
        /\ s.version = request[r].number /\ s.password = request[r].password
    BY <1>5 DEF IssueSession
  <2> HIDE DEF s
  <2>1. /\ OthersStay(r) /\ request'[r].step = "none" /\ UNCHANGED <<version, password>>
    BY <1>t, <1>5, DoneStep DEF IssueSession, accountVars
  <2>2. Dated(s.user, s.version, s.password)
    BY <1>5, <2>0 DEF IssueSession, DatesInv, DatesFit
  <2>3. \A x \in sessions' : Dated(x.user, x.version, x.password)'
    <3>1. \A x \in sessions' : Dated(x.user, x.version, x.password)
      BY <2>0, <2>2 DEF DatesInv
    <3> QED
      BY <2>1, <3>1 DEF Dated
  <2>4. \A q \in Requests \ {r} : DatesFit(q)'
    BY <2>1, DatesStay DEF OthersStay
  <2>5. DatesFit(r)'
    BY <2>1 DEF DatesFit, WritesVersion, Updating, At
  <2> QED
    BY <2>3, <2>4, <2>5 DEF DatesInv
<1>6. ASSUME NEW r \in Requests, NEW u \in Users, NEW next \in Wishes, ReadMember(r, u, next)
      PROVE  DatesInv'
  <2>1. DatesFit(r)'
    BY <1>6, ReadMemberStep DEF DatesFit, WritesVersion, Updating, At
  <2> QED
    BY <1>1, <1>6, <2>1, ReadMemberStep
<1>7. ASSUME NEW r \in Requests, CountAdmins(r) \/ FindOthers(r) PROVE DatesInv'
  <2>1. DatesFit(r)'
    BY <1>7, CountStep, OthersStep DEF DatesInv, DatesFit, WritesVersion, Updating, At
  <2> QED
    BY <1>1, <1>7, <2>1, CountStep, OthersStep
<1>8. ASSUME NEW r \in Requests, NEW t \in Resets, LockReset(r, t) PROVE DatesInv'
  <2>1. /\ request'[r].step = "resetting" /\ request'[r].user = resets[t].user
        /\ request'[r].number = version[resets[t].user]
        /\ OthersStay(r) /\ UNCHANGED <<version, password, sessions>>
    BY <1>t, <1>8 DEF LockReset, NoRequest, OthersStay, TypeOK, accountVars
  <2>2. DatesFit(r)'
    BY <2>1 DEF DatesFit, WritesVersion, Updating, At
  <2> QED
    BY <1>1, <2>1, <2>2
<1>9. ASSUME NEW r \in Requests, CommitUpdate(r) PROVE DatesInv'
  <2> PICK u \in Users : u = request[r].user
    BY <1>t, <1>9 DEF CommitUpdate, RequestInv, RequestFits, At
  <2>1. WritesVersion(r) /\ Done(r) /\ UNCHANGED <<password, sessions>>
    BY <1>9 DEF CommitUpdate, WritesVersion, Updating, At
  <2>2. CASE request[r].next # request[r].row
    <3>1. version' = [version EXCEPT ![u] = request[r].number + 1]
      BY <1>9, <2>2 DEF CommitUpdate
    <3> QED
      BY <2>1, <3>1, RaisingStep
  <2>3. CASE request[r].next = request[r].row
    <3>1. version' = version
      BY <1>t, <1>9, <2>3 DEF CommitUpdate, TypeOK
    <3>2. OthersStay(r) /\ DatesFit(r)'
      BY <1>t, <2>1, DoneStep DEF DatesFit, WritesVersion, Updating, At
    <3> QED
      BY <1>1, <2>1, <3>1, <3>2
  <2> QED
    BY <2>2, <2>3
<1>10. ASSUME NEW r \in Requests, NEW i \in Invites, CommitAccept(r, i) PROVE DatesInv'
  <2>1. Done(r) /\ UNCHANGED <<version, password, sessions>>
    BY <1>10 DEF CommitAccept
  <2>2. OthersStay(r) /\ DatesFit(r)'
    BY <1>t, <2>1, DoneStep DEF DatesFit, WritesVersion, Updating, At
  <2> QED
    BY <1>1, <2>1, <2>2
<1>11. ASSUME NEW r \in Requests, NEW t \in Resets, CommitReset(r, t) PROVE DatesInv'
  <2> PICK u \in Users : u = request[r].user
    BY <1>t, <1>11 DEF CommitReset, RequestInv, RequestFits, At
  <2>1. /\ WritesVersion(r) /\ Done(r) /\ sessions' = sessions
        /\ version' = [version EXCEPT ![u] = request[r].number + 1]
        /\ password' = [password EXCEPT ![u] = @ + 1]
    BY <1>11 DEF CommitReset, WritesVersion, At
  <2>2. \A w \in Users \ {u} : password'[w] = password[w]
    BY <1>t, <2>1 DEF TypeOK
  <2> QED
    BY <2>1, <2>2, RaisingStep
<1> QED
  BY <1>2, <1>3, <1>4, <1>5, <1>6, <1>7, <1>8, <1>9, <1>10, <1>11, StepKinds

\* Overlapping writers of one person's session version are the only way for a session to
\* outlive a reset: where they keep apart, a session that is let in was opened with the
\* password of now.
THEOREM ResetEndsSessionsUnlessOverlapped ==
  Spec /\ []VersionWritersApart => []ResetEndsSessions
<1>1. Init => DatesInv
  BY DEF Init, DatesInv, DatesFit, WritesVersion, Updating, At, NoRequest
<1>2. DatesInv => ResetEndsSessions
  BY DEF DatesInv, Dated, ResetEndsSessions, Admitted
<1>3. IInv /\ DatesInv /\ VersionWritersApart /\ [Next]_vars => DatesInv'
  BY DatesStep
<1> QED
  BY Invariance, <1>1, <1>2, <1>3, PTL DEF Spec
=============================================================================
