---------------------------- MODULE MemberAccess ----------------------------
(***************************************************************************)
(* Who belongs to an organization and who is let in: sign-in and sessions, *)
(* changes of a member's access, invitations and password resets           *)
(* (backend/growthos/api/routes/auth.py, members.py and invitations.py).   *)
(*                                                                         *)
(* Every request is a READ COMMITTED transaction.  What it has read before *)
(* its last step may have changed by the time it commits: an update writes *)
(* the columns it changes, the session version included, from the rows it  *)
(* read.  The row of an invitation or of a reset token is locked while it  *)
(* is used up; the rows of users and memberships never are.                *)
(*                                                                         *)
(* An UPDATE of several tokens finds its rows when it starts, waits for    *)
(* those that are locked and looks at each again; a token that is inserted *)
(* meanwhile, or before the COMMIT, is not among them.  So the UPDATE and  *)
(* the COMMIT are two steps.  The rows that it has taken by then are       *)
(* nobody else's: to take them and to commit is one step.                  *)
(***************************************************************************)
EXTENDS Naturals, FiniteSets, Permissions

CONSTANTS
  Users,              \* people, by their e-mail address
  Invites,            \* ids of rows of organization_invites
  Resets,             \* ids of rows of password_reset_tokens
  Requests,           \* requests in progress at the same time
  Businesses,         \* client businesses of the organization
  InitialMembership,  \* membership of each person at the start, None: no account
  Wishes,             \* bound: the rows that updates and invitations ask for
  MaxVersion,         \* bound: session versions
  SignIns,            \* bound: the people who sign in
  Forgetful,          \* bound: the people who ask for a new password
  None                \* SQL NULL, no row

Rows == [role : Roles, business : Businesses \cup {None}, active : BOOLEAN]
InviteRows == [user : Users, role : Roles, business : Businesses \cup {None},
               state : {"pending", "expired", "accepted", "revoked"}]
ResetRows == [user : Users, state : {"pending", "used", "revoked"}]

ASSUME AccessAssumption ==
  /\ IsFiniteSet(Users) /\ IsFiniteSet(Resets)
  /\ Invites \cap Resets = {}
  /\ InitialMembership \in [Users -> Rows \cup {None}]
  /\ \A u \in Users : InitialMembership[u] # None /\ InitialMembership[u].active
                        /\ InitialMembership[u].role \in BusinessScopedRoles =>
       InitialMembership[u].business # None
  /\ Wishes \subseteq Rows
  /\ MaxVersion \in Nat \ {0}
  /\ SignIns \cup Forgetful \subseteq Users
  /\ None \notin Rows \cup InviteRows \cup ResetRows \cup Users \cup Businesses
                  \cup Invites \cup Resets

VARIABLES
  membership,      \* the user and membership rows of each person, or None
  businessActive,  \* businesses.is_active
  version,         \* users.session_version
  password,        \* how often users.password_hash has been replaced
  sessions,        \* claims of the session tokens issued, and the password used
  invites,         \* organization_invites
  resets,          \* password_reset_tokens
  request          \* where each request is, what it has read and what it locks

accountVars == <<membership, version, password>>
tokenVars == <<invites, resets>>
vars == <<accountVars, businessActive, sessions, tokenVars, request>>

SessionRows == [user : Users, role : Roles, business : Businesses \cup {None},
                version : 1..MaxVersion, password : Nat]

Steps == {"none", "login", "open", "counting", "updating", "seeking", "inviting",
          "accepting", "joined", "superseding", "recovering", "reissuing", "resetting",
          "replacing"}
RequestRows ==
  [step : Steps, by : Users \cup {None}, actor : Rows \cup {None},
   user : Users \cup {None}, row : Rows \cup {None}, next : Rows \cup {None},
   number : 1..MaxVersion, password : Nat, token : Invites \cup Resets \cup {None},
   found : SUBSET (Invites \cup Resets)]

\* A request: its step, who makes it and with which access, whom it is about, the
\* row it has read and the one it wants, the session version and the password it
\* has read, the token it uses up and the tokens its UPDATE has found.
NoRequest == [step |-> "none", by |-> None, actor |-> None, user |-> None, row |-> None,
              next |-> None, number |-> 1, password |-> 0, token |-> None, found |-> {}]

-----------------------------------------------------------------------------
(* Rows and who may change them.                                           *)

Row(role, business, active) == [role |-> role, business |-> business, active |-> active]

\* membership_has_active_scope
HasActiveScope(row) ==
  row.role \in BusinessScopedRoles => row.business # None /\ businessActive[row.business]

\* get_current_context: the claims of a session against the rows of now.
Admitted(s) ==
  LET row == membership[s.user]
  IN /\ row # None
     /\ row.active /\ HasActiveScope(row)
     /\ s.role = row.role /\ s.business = row.business
     /\ s.version = version[s.user]

\* get_scoped_business
ReachesBusiness(actor, b) ==
  /\ businessActive[b]
  /\ actor.role \in BusinessScopedRoles => actor.business # None
  /\ actor.business \in {None, b}

\* _validate_management_scope and the look-up of the business.
Grantable(actor, row) ==
  /\ row.role # "SUPER_ADMIN"
  /\ IF HasCapability(actor.role, "MEMBERSHIP_MANAGE")
     THEN row.role \in BusinessScopedRoles <=> row.business # None
     ELSE /\ row.role \in {"CLIENT_REVIEWER", "VIEWER"}
          /\ row.business # None /\ row.business = actor.business
  /\ row.business # None => ReachesBusiness(actor, row.business)

MayManage(actor) ==
  \/ HasCapability(actor.role, "MEMBERSHIP_MANAGE")
  \/ HasCapability(actor.role, "CLIENT_MEMBERSHIP_MANAGE")

MayInvite(actor) ==
  \/ HasCapability(actor.role, "INVITATION_MANAGE")
  \/ HasCapability(actor.role, "CLIENT_INVITATION_MANAGE")

ActiveAdmins ==
  {u \in Users : membership[u] # None /\ membership[u].active
                 /\ membership[u].role = "AGENCY_ADMIN"}

\* The update takes the last administrator away, as far as it has read.
RemovesAdmin(row, next) ==
  row.role = "AGENCY_ADMIN" /\ (~next.active \/ next.role # "AGENCY_ADMIN")

\* The UPDATE of the ORM names the columns that differ from what was read.
Written(now, row, next) ==
  [c \in DOMAIN next |-> IF next[c] # row[c] THEN next[c] ELSE now[c]]

Storable_Anything(row) == TRUE

\* ck_membership_active_client_business
Storable(row) ==
  row.active /\ row.role \in BusinessScopedRoles => row.business # None

MemberFree_Unchecked(u) == TRUE

\* users.email and uq_membership_org_user: the person has no row yet.
MemberFree(u) == membership[u] = None

-----------------------------------------------------------------------------
(* Tokens.                                                                 *)

Unlocked_Never(x) == TRUE

\* Nobody holds the row FOR UPDATE.
Unlocked(x) == \A r \in Requests : request[r].token # x

\* verify_token: neither used nor revoked nor expired.
Usable_UntilRevoked(token) == token.state \notin {"expired", "revoked"}

Usable(token) == token.state = "pending"

\* Neither used nor revoked, whether or not expired.
Unsettled(token) == token.state \in {"pending", "expired"}

\* Other invitations to the same person and organization that can be revoked.
Siblings(i) ==
  {j \in Invites \ {i} : invites[j] # None /\ invites[j].user = invites[i].user
                         /\ Unsettled(invites[j])}

\* The reset tokens of a person that can be revoked.
OpenResets(u) ==
  {t \in Resets : resets[t] # None /\ resets[t].user = u /\ Unsettled(resets[t])}

Revocable_AllFound(rows, S) == S

\* The tokens that an UPDATE still finds to revoke when it has waited for them.
Revocable(rows, S) == {x \in S : Unsettled(rows[x])}

WithState(rows, S, state) ==
  [x \in DOMAIN rows |-> IF x \in S THEN [rows[x] EXCEPT !.state = state] ELSE rows[x]]

-----------------------------------------------------------------------------
Init ==
  /\ membership = InitialMembership
  /\ businessActive = [b \in Businesses |-> TRUE]
  /\ version = [u \in Users |-> 1]
  /\ password = [u \in Users |-> 0]
  /\ sessions = {}
  /\ invites = [i \in Invites |-> None]
  /\ resets = [t \in Resets |-> None]
  /\ request = [r \in Requests |-> NoRequest]

At(r, step) == request[r].step = step

MoveTo(r, step) == request' = [request EXCEPT ![r].step = step]

Done(r) == request' = [request EXCEPT ![r] = NoRequest]

\* Any refusal, a unique key or a CHECK that is broken, a deadlock that the database
\* ends: the transaction rolls back and its locks are gone.
Refuse(r) ==
  /\ ~At(r, "none")
  /\ Done(r)
  /\ UNCHANGED <<accountVars, businessActive, sessions, tokenVars>>

-----------------------------------------------------------------------------
(* Sessions: login and get_current_context.                                *)

\* login reads the user and checks the password.
ReadAccount(r, u) ==
  /\ At(r, "none")
  /\ u \in SignIns /\ membership[u] # None
  /\ request' = [request EXCEPT ![r] =
       [NoRequest EXCEPT !.step = "login", !.user = u, !.number = version[u],
                         !.password = password[u]]]
  /\ UNCHANGED <<accountVars, businessActive, sessions, tokenVars>>

\* login reads the membership and issues the token, with the session version of the
\* user row read before.
IssueSession(r) ==
  LET u == request[r].user
      row == membership[u]
      s == [user |-> u, role |-> row.role, business |-> row.business,
            version |-> request[r].number, password |-> request[r].password]
  IN /\ At(r, "login")
     /\ row.active /\ HasActiveScope(row)
     /\ sessions' = sessions \cup {s}
     /\ Done(r)
     /\ UNCHANGED <<accountVars, businessActive, tokenVars>>

\* get_current_context lets a request in.
Authenticate(r, s) ==
  /\ At(r, "none")
  /\ Admitted(s)
  /\ request' = [request EXCEPT ![r] =
       [NoRequest EXCEPT !.step = "open", !.by = s.user, !.actor = membership[s.user]]]
  /\ UNCHANGED <<accountVars, businessActive, sessions, tokenVars>>

-----------------------------------------------------------------------------
(* update_member.  One's own access cannot be changed.                     *)

ReadMember(r, u, next) ==
  LET actor == request[r].actor
      row == membership[u]
  IN /\ At(r, "open") /\ MayManage(actor)
     /\ u # request[r].by
     /\ row # None /\ row.role # "SUPER_ADMIN"
     /\ Grantable(actor, next)
     /\ request' = [request EXCEPT ![r] =
          [@ EXCEPT !.step = IF RemovesAdmin(row, next) THEN "counting" ELSE "updating",
                    !.user = u, !.row = row, !.next = next, !.number = version[u]]]
     /\ UNCHANGED <<accountVars, businessActive, sessions, tokenVars>>

\* The organization keeps an active administrator: the count is not 1.
CountAdmins(r) ==
  /\ At(r, "counting")
  /\ Cardinality(ActiveAdmins) # 1
  /\ MoveTo(r, "updating")
  /\ UNCHANGED <<accountVars, businessActive, sessions, tokenVars>>

\* The flush and the commit.
CommitUpdate(r) ==
  LET q == request[r]
      written == Written(membership[q.user], q.row, q.next)
  IN /\ At(r, "updating")
     /\ Storable(written)
     /\ q.number < MaxVersion
     /\ membership' = [membership EXCEPT ![q.user] = written]
     /\ version' = [version EXCEPT ![q.user] = IF q.next # q.row THEN q.number + 1 ELSE @]
     /\ Done(r)
     /\ UNCHANGED <<password, businessActive, sessions, tokenVars>>

-----------------------------------------------------------------------------
(* Invitations.                                                            *)

\* create_invitation finds no member of that address.
SeekMember(r, u, next) ==
  /\ At(r, "open") /\ MayInvite(request[r].actor)
  /\ next.active /\ Grantable(request[r].actor, next)
  /\ membership[u] = None
  /\ request' = [request EXCEPT ![r] =
       [@ EXCEPT !.step = "seeking", !.user = u, !.next = next]]
  /\ UNCHANGED <<accountVars, businessActive, sessions, tokenVars>>

\* create_invitation finds no pending invitation.
SeekInvite(r) ==
  /\ At(r, "seeking")
  /\ \A i \in Invites :
       invites[i] # None /\ invites[i].user = request[r].user => ~Usable(invites[i])
  /\ MoveTo(r, "inviting")
  /\ UNCHANGED <<accountVars, businessActive, sessions, tokenVars>>

\* create_invitation commits.
CreateInvite(r, i) ==
  /\ At(r, "inviting")
  /\ invites[i] = None
  /\ invites' = [invites EXCEPT ![i] =
       [user |-> request[r].user, role |-> request[r].next.role,
        business |-> request[r].next.business, state |-> "pending"]]
  /\ Done(r)
  /\ UNCHANGED <<accountVars, businessActive, sessions, resets>>

\* revoke_invitation, for the invitations the actor can see.
RevokeInvite(r, i) ==
  LET actor == request[r].actor
  IN /\ At(r, "open") /\ MayInvite(actor)
     /\ invites[i] # None /\ Unlocked(i)
     /\ actor.role = "CLIENT_OWNER" => invites[i].business = actor.business
     /\ Unsettled(invites[i])
     /\ invites' = WithState(invites, {i}, "revoked")
     /\ Done(r)
     /\ UNCHANGED <<accountVars, businessActive, sessions, resets>>

\* accept_invitation locks and verifies the invitation.
LockInvite(r, i) ==
  /\ At(r, "none")
  /\ invites[i] # None /\ Unlocked(i)
  /\ Usable(invites[i])
  /\ request' = [request EXCEPT ![r] =
       [NoRequest EXCEPT !.step = "accepting", !.user = invites[i].user, !.token = i]]
  /\ UNCHANGED <<accountVars, businessActive, sessions, tokenVars>>

\* The user and the membership are inserted and not yet committed.
Inserting(r) == request[r].step \in {"joined", "superseding"}

\* accept_invitation inserts the user and the membership; an insert of the same person
\* that is not committed yet is waited for.
InsertMember(r) ==
  /\ At(r, "accepting")
  /\ MemberFree(request[r].user)
  /\ \A q \in Requests \ {r} : ~(Inserting(q) /\ request[q].user = request[r].user)
  /\ MoveTo(r, "joined")
  /\ UNCHANGED <<accountVars, businessActive, sessions, tokenVars>>

\* The UPDATE of accept_invitation finds the sibling invitations of now.
FindSiblings(r) ==
  /\ At(r, "joined")
  /\ request' = [request EXCEPT ![r] =
       [@ EXCEPT !.step = "superseding", !.found = Siblings(request[r].token)]]
  /\ UNCHANGED <<accountVars, businessActive, sessions, tokenVars>>

\* accept_invitation revokes those of them that can still be revoked, once nobody locks
\* them, and commits.
CommitAccept(r, i) ==
  LET q == request[r]
  IN /\ At(r, "superseding") /\ i = q.token
     /\ \A j \in q.found : Unlocked(j)
     /\ membership' = [membership EXCEPT ![q.user] =
          Row(invites[i].role, invites[i].business, TRUE)]
     /\ invites' = WithState(WithState(invites, Revocable(invites, q.found), "revoked"),
                             {i}, "accepted")
     /\ Done(r)
     /\ UNCHANGED <<version, password, businessActive, sessions, resets>>

\* expires_at of an invitation passes.
ExpireInvite(i) ==
  /\ invites[i] # None /\ invites[i].state = "pending"
  /\ invites' = WithState(invites, {i}, "expired")
  /\ UNCHANGED <<accountVars, businessActive, sessions, resets, request>>

-----------------------------------------------------------------------------
(* Password resets.                                                        *)

\* request_password_recovery finds an active member.
StartRecovery(r, u) ==
  /\ At(r, "none")
  /\ u \in Forgetful /\ membership[u] # None /\ membership[u].active
  /\ request' = [request EXCEPT ![r] = [NoRequest EXCEPT !.step = "recovering", !.user = u]]
  /\ UNCHANGED <<accountVars, businessActive, sessions, tokenVars>>

\* The UPDATE of request_password_recovery finds the tokens of now.
FindResets(r) ==
  /\ At(r, "recovering")
  /\ request' = [request EXCEPT ![r] =
       [@ EXCEPT !.step = "reissuing", !.found = OpenResets(request[r].user)]]
  /\ UNCHANGED <<accountVars, businessActive, sessions, tokenVars>>

\* request_password_recovery revokes those of them that can still be revoked, once
\* nobody locks them, and commits its new token.
CommitRecovery(r, t) ==
  LET q == request[r]
  IN /\ At(r, "reissuing")
     /\ resets[t] = None
     /\ \A x \in q.found : Unlocked(x)
     /\ resets' = [WithState(resets, Revocable(resets, q.found), "revoked") EXCEPT ![t] =
          [user |-> q.user, state |-> "pending"]]
     /\ Done(r)
     /\ UNCHANGED <<accountVars, businessActive, sessions, invites>>

\* reset_password locks and verifies the token and reads the user.  A token that has
\* expired is one whose request is not made: nothing else depends on its expiry.
LockReset(r, t) ==
  /\ At(r, "none")
  /\ resets[t] # None /\ Unlocked(t)
  /\ Usable(resets[t])
  /\ request' = [request EXCEPT ![r] =
       [NoRequest EXCEPT !.step = "resetting", !.user = resets[t].user,
                         !.number = version[resets[t].user], !.token = t]]
  /\ UNCHANGED <<accountVars, businessActive, sessions, tokenVars>>

\* The UPDATE of reset_password finds the other tokens of now.
FindOthers(r) ==
  /\ At(r, "resetting")
  /\ request' = [request EXCEPT ![r] =
       [@ EXCEPT !.step = "replacing",
                 !.found = OpenResets(request[r].user) \ {request[r].token}]]
  /\ UNCHANGED <<accountVars, businessActive, sessions, tokenVars>>

\* reset_password revokes those of them that can still be revoked, once nobody locks
\* them, and commits.
CommitReset(r, t) ==
  LET q == request[r]
  IN /\ At(r, "replacing") /\ t = q.token
     /\ \A x \in q.found : Unlocked(x)
     /\ q.number < MaxVersion
     /\ password' = [password EXCEPT ![q.user] = @ + 1]
     /\ version' = [version EXCEPT ![q.user] = q.number + 1]
     /\ resets' = WithState(WithState(resets, Revocable(resets, q.found), "revoked"),
                            {t}, "used")
     /\ Done(r)
     /\ UNCHANGED <<membership, businessActive, sessions, invites>>

\* archive_business
ArchiveBusiness(b) ==
  /\ businessActive[b]
  /\ businessActive' = [businessActive EXCEPT ![b] = FALSE]
  /\ UNCHANGED <<accountVars, sessions, tokenVars, request>>

-----------------------------------------------------------------------------
SessionStep(r) ==
  \/ \E u \in Users : ReadAccount(r, u)
  \/ IssueSession(r)
  \/ \E s \in sessions : Authenticate(r, s)

MemberStep(r) ==
  \/ \E u \in Users, next \in Wishes : ReadMember(r, u, next)
  \/ CountAdmins(r)
  \/ CommitUpdate(r)

InviteStep(r) ==
  \/ \E u \in Users, next \in Wishes : SeekMember(r, u, next)
  \/ SeekInvite(r) \/ InsertMember(r) \/ FindSiblings(r)
  \/ \E i \in Invites : \/ CreateInvite(r, i) \/ RevokeInvite(r, i)
                        \/ LockInvite(r, i) \/ CommitAccept(r, i)

ResetStep(r) ==
  \/ \E u \in Users : StartRecovery(r, u)
  \/ FindResets(r) \/ FindOthers(r)
  \/ \E t \in Resets : CommitRecovery(r, t) \/ LockReset(r, t) \/ CommitReset(r, t)

Next ==
  \/ \E r \in Requests : \/ SessionStep(r) \/ MemberStep(r) \/ InviteStep(r)
                         \/ ResetStep(r) \/ Refuse(r)
  \/ \E i \in Invites : ExpireInvite(i)
  \/ \E b \in Businesses : ArchiveBusiness(b)

Spec == Init /\ [][Next]_vars

-----------------------------------------------------------------------------
\* The type invariant.
TypeOK ==
  /\ membership \in [Users -> Rows \cup {None}]
  /\ businessActive \in [Businesses -> BOOLEAN]
  /\ version \in [Users -> 1..MaxVersion]
  /\ password \in [Users -> 0..Cardinality(Resets)]
  /\ sessions \subseteq SessionRows
  /\ invites \in [Invites -> InviteRows \cup {None}]
  /\ resets \in [Resets -> ResetRows \cup {None}]
  /\ request \in [Requests -> RequestRows]

\* What a client's role may reach is always limited to one business, although two
\* updates of a member can each write half of what they decided.
ActiveClientHasBusiness ==
  \A u \in Users : membership[u] # None /\ membership[u].active
                   /\ membership[u].role \in BusinessScopedRoles =>
    membership[u].business # None

\* docs/14-fase-2-versao-1.md:141: a person joins by one invitation, once, however
\* many invitations were sent and opened at the same time.
JoinedOnce ==
  \A i \in Invites : invites[i] # None /\ invites[i].state = "accepted" =>
    /\ membership[invites[i].user] # None
    /\ \A j \in Invites \ {i} : invites[j] # None /\ invites[j].state = "accepted" =>
         invites[j].user # invites[i].user

\* Each reset token that is used replaces the password exactly once.
PasswordChangesOnce ==
  \A u \in Users : password[u] =
    Cardinality({t \in Resets : resets[t] # None /\ resets[t].user = u
                                  /\ resets[t].state = "used"})

\* docs/04-modelo-de-dados.md:144: a token that was used or revoked stays that way,
\* whoever accepts, revokes, resets or issues at the same time.
TokensEndOnce ==
  [][/\ \A i \in Invites : invites[i] # None /\ invites[i].state \in {"accepted", "revoked"} =>
          invites'[i] = invites[i]
     /\ \A t \in Resets : resets[t] # None /\ resets[t].state \in {"used", "revoked"} =>
          resets'[t] = resets[t]]_vars

\* backend/growthos/api/routes/members.py:190: the organization keeps at least one
\* active administrator.
LastAdminKept == ActiveAdmins # {}

\* docs/04-modelo-de-dados.md:150: a reset invalidates the sessions issued before it.
ResetEndsSessions ==
  \A s \in sessions : Admitted(s) => s.password = password[s.user]

-----------------------------------------------------------------------------
(* The conditions under which the last two hold: the unlocked reads of two *)
(* requests do not overlap.                                                *)

Updating(r) == request[r].step \in {"counting", "updating"}

TakesAdmin(r) == Updating(r) /\ RemovesAdmin(request[r].row, request[r].next)

\* No two updates of one member, and no two that each take an administrator away,
\* are under way at the same time.
UpdatesApart ==
  \A r, q \in Requests : r # q /\ Updating(r) /\ Updating(q) =>
    request[r].user # request[q].user /\ ~(TakesAdmin(r) /\ TakesAdmin(q))

\* The requests that will write a session version they have read.
WritesVersion(r) == Updating(r) \/ request[r].step \in {"resetting", "replacing"}

\* No two of them are about one person at the same time.
VersionWritersApart ==
  \A r, q \in Requests : r # q /\ WritesVersion(r) /\ WritesVersion(q) =>
    request[r].user # request[q].user

-----------------------------------------------------------------------------
(* Invitations and password resets implement the contract of OneTimeToken. *)

Phase(token) ==
  IF token = None THEN "unissued"
  ELSE IF Unsettled(token) THEN "open"
  ELSE IF token.state = "revoked" THEN "void" ELSE "spent"

HolderOf(token) == IF token = None THEN None ELSE token.user

InvitePhase == [i \in Invites |-> Phase(invites[i])]
InviteHolder == [i \in Invites |-> HolderOf(invites[i])]
Joined == [u \in Users |-> IF InitialMembership[u] = None /\ membership[u] # None THEN 1 ELSE 0]

Invitation == INSTANCE OneTimeToken WITH
  Tokens <- Invites, Holders <- Users, Repeatable <- FALSE,
  phase <- InvitePhase, holder <- InviteHolder, effects <- Joined

ResetPhase == [t \in Resets |-> Phase(resets[t])]
ResetHolder == [t \in Resets |-> HolderOf(resets[t])]

Recovery == INSTANCE OneTimeToken WITH
  Tokens <- Resets, Holders <- Users, Repeatable <- TRUE,
  phase <- ResetPhase, holder <- ResetHolder, effects <- password

\* An accepted invitation makes its person a member, once, and no other invitation of
\* that person is accepted after it or opens again once it ended, however many requests
\* use, revoke and issue them at the same time.
ImplementsInvitationContract == Invitation!Spec

\* A used reset token replaces the password, once, and no token opens again once it ended.
ImplementsRecoveryContract == Recovery!Spec

\* Both at once: no request about one kind of token disturbs the promise of the other.
ImplementsTokenContracts == Invitation!Spec /\ Recovery!Spec

-----------------------------------------------------------------------------
(* The condition under which spending a token leaves no other one open: no *)
(* token is issued to a person while an UPDATE revokes the others.         *)

TokensApart ==
  \A r, q \in Requests :
    \/ At(r, "superseding") /\ At(q, "inviting")
    \/ At(r, "replacing") /\ At(q, "reissuing")
    => request[r].user # request[q].user

\* What the UPDATEs of accept_invitation (invitations.py:210) and reset_password (:358)
\* are for: when a token has been spent, its person has no other one that is open.
SpendEndsOthers ==
  [][/\ \A i, j \in Invites :
          i # j /\ InvitePhase[i] # "spent" /\ InvitePhase'[i] = "spent"
            /\ InvitePhase'[j] = "open" => InviteHolder'[j] # InviteHolder'[i]
     /\ \A t, x \in Resets :
          t # x /\ ResetPhase[t] # "spent" /\ ResetPhase'[t] = "spent"
            /\ ResetPhase'[x] = "open" => ResetHolder'[x] # ResetHolder'[t]]_vars
=============================================================================
