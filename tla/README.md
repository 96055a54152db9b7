# GrowthOS: specifications and proofs

GrowthOS is a portal in which an agency plans, produces, reviews and publishes content for its
clients. The backend (`src/backend/growthos`, FastAPI over PostgreSQL) keeps everything in one
database; a worker (`src/worker/src/growthos_worker`) drains a job table and sends e-mail; a
Next.js front end calls the backend. This directory holds TLA+ modules of the parts in which
requests, workers and people interact, the TLC configurations that check them on small instances,
and proofs, checked by TLAPS, that hold for every instance.

`PROJECT.json` is the index: components, runs, the source lines of every definition, the
mutations that each property detects, findings, hazards and theorems.

## The system

| Component | State it keeps | Operations | Where |
| --- | --- | --- | --- |
| Content review and publication | `content_items`, `content_versions`, `approvals`, publication key, link to a calendar entry | generate, submit, send to the client, approve or return a component, revise text or image, record a publication | `services/content/*`, `routes/contents.py` |
| Roles and capabilities | none (a table in code) | `has_capability` | `domain/permissions.py`, `domain/enums.py` |
| Request context | reads `users`, `memberships`, `businesses` | `get_current_context`, `require_capability`, `get_scoped_business` | `dependencies.py` |
| Strategies and their review | `content_strategies`, versions, `content_plans` | create, new version, submit, send, decide, plan | `routes/planning.py` |
| Content plans and calendar | `calendar_entries`, and what items keep of them | write, generate, edit, turn into content, publish | `routes/planning.py`, `services/content/generation_context.py` |
| Identity and access | `users`, `memberships`, `organization_invites`, `password_reset_tokens`, session tokens | login, change a member, invite, accept, revoke, recover and reset a password | `routes/auth.py`, `members.py`, `invitations.py` |
| Notification jobs and worker | `jobs`, delivery audit rows | enqueue, expire, claim, handle, finish | `services/email_jobs.py`, worker |
| Media assets | `media_assets`, files | upload, archive, open | `routes/media.py`, `services/storage.py` |
| Businesses, brand profile | `businesses`, `brand_profiles` | create, update, archive, upsert the profile | `routes/businesses.py` |
| Catalogs, visual presets | `services`, `audience_segments`, `marketing_objectives`, `visual_presets` with a version | create, edit, archive, generate a visual prompt | `routes/catalogs.py` |
| Notifications, audit, reports | rows written with what they describe | read, mark read | `routes/notifications.py`, `audit_logs.py`, `reports.py` |
| Generation | none (pure functions) | text, prompts, snapshots | `services/providers.py`, `visual_prompts.py` |
| Seed, configuration, migrations, web client | - | - | `seed.py`, `config.py`, `alembic/`, `src/frontend` |

How they interact:

- Every HTTP request is one database transaction at READ COMMITTED. It first loads the caller's
  user, membership and business (`get_current_context`), then runs a handler. A handler that
  changes a content item takes `FOR UPDATE` on the item and its business; one that changes a
  strategy locks the strategy only; one that changes a member, a user, a calendar entry, a catalog
  row, a profile or an image locks nothing; invitations and reset tokens are locked while they are
  used up, a calendar entry while it gets its content or is published with it.
- An image is in two stores, its row in the database and its file in the object storage, which no
  transaction spans.
- Releases and decisions insert e-mail jobs in their own transaction. Their idempotency keys are
  unique, so a key that is taken makes the whole request fail.
- Workers share only the job table. A worker that takes too long loses its lease and another one
  takes its job over; nothing tells the first one.
- Archiving a business and changing a membership affect requests that are already in progress.

What is hard in it: a request acts on a membership, a business, a count or a session version that
it read before it waited for a lock, or that it never locked; several people decide parts of one
version; a version, its approvals and the item's status are three tables that must agree; unique
keys are checked first and enforced later; workers crash, time out and answer late; tokens are
used twice or revoked while they are used. `PROJECT.json` lists each such place as a hazard, with
its line and the properties that watch it.

What makes each component correct:

- content: status and decisions agree, decisions are final, what was released or published is not
  edited, only what the client accepted is published, and only once;
- strategy: the client sees and approves what was sent, and plans come from approved versions;
- calendar: dates stay in their plan, entries and items are linked one to one, a generated calendar
  is whole and the only one;
- catalogs and media: presets belong to the one brand profile, a prompt names what it was made from,
  archived rows stay archived, every image row has its file;
- access: one person joins once, a token works once, client access is limited to a business, an
  administrator remains, a reset ends the old sessions;
- jobs: verdicts are honest, final and always reached; every send is on record.

## The modules

| Module | Models | Checked by | Proofs |
| --- | --- | --- | --- |
| `Permissions` | roles, and who holds the capabilities the other modules ask for | through its users | - |
| `ReviewContract` | what the review promises a client | `content_review` (as a refinement) | - |
| `ContentWorkflow` | the life of a content item | `content_review`, `content_publication`, `content_stale_role` | `ContentWorkflowProofs` |
| `StrategyContract` | what the planning promises a client | `strategy_review` (as a refinement) | - |
| `StrategyPlanning` | strategies, their review, plans | `strategy_*` | `StrategyPlanningProofs` |
| `ContentCalendar` | the entries of a plan, and their content | `content_calendar` | `ContentCalendarProofs` |
| `BrandCatalog` | brand profile, catalogs, visual presets, media in their two stores | `brand_catalog`, `preset_conflict` | `BrandCatalogProofs` |
| `OneTimeToken` | what an e-mailed link promises whoever it is sent to | `access_members` (as two refinements) | - |
| `MemberAccess` | accounts, sessions, invitations, resets | `access_*` | `MemberAccessProofs`, `TokenContractProofs` |
| `DeliveryContract` | what the queue promises whoever enqueues | `queue_workers` (as a refinement) | - |
| `JobQueue` | the job table and its workers | `queue_workers` | `JobQueueProofs` |
| `MC...` | the instances TLC checks | | |

How state and steps correspond to the code:

- A variable is a column or a table (`status`, `approval`, `membership`, `invites`), named as in
  the code. An e-mail job is its idempotency key, a version is its text, its visual part and its
  image; titles, hashtags, names and dates are left out, as no property tells them apart.
- A request is a record or a context per caller. `Authenticate` stores what `get_current_context`
  read. The steps after it end where the code reads something that another transaction may change
  before the commit, or waits for a lock: `ReadBusiness`, `CheckPublication`, `ReadMember`,
  `CountAdmins`, `InsertMember`, `Lock`... What a handler does to rows it has locked, up to the
  commit, is one action, since no other transaction sees it halfway. That covers locked rows, not rows
  that another transaction inserts: an UPDATE of several rows finds them at one moment and commits at
  another, and what is inserted in between is left out of it. Only `invitations.py` has such UPDATEs;
  `MemberAccess` gives them two steps.
- `Refuse` is every early return, failed check, broken unique key or deadlock the database ends:
  the transaction rolls back and nothing has changed. The guards of the other actions are the
  conditions under which the code does not refuse.
- In `ContentWorkflow` publication has two steps, check and commit: `CheckPublication` looks the
  key up, `CommitPublication` meets the unique constraint, `RollbackPublication` is its failure and
  `ReplayPublication` the repeated call with the same key.
- In `BrandCatalog` and `ContentCalendar` a request is a record (`Request`): what it is doing, the row
  it read and the row it will write. The reads of a handler are one step, its commit another;
  membership does not matter to what they promise, so the caller is a role. `Written` is the UPDATE of
  the columns that changed, and a broken unique key is a `Refuse`. In `BrandCatalog` the file store is
  the set `files`: `PutFile`, then `CommitUpload`, `FailUpload` (the commit is refused, the file
  deleted) or `CutUpload` (the process ends, the storage fails or the reply is lost, with either
  outcome); `held` is what a preset has been at each version. In `ContentCalendar` a date is a number of
  days, `calendars` and `overlapped` are histories: the calendars inserted, and the plans that two
  requests were generating at one time.
- In `MemberAccess` an UPDATE writes only the columns that differ from what the request read
  (`Written`), as the ORM does, and the session version is the number read plus one. Both matter:
  see the findings. The UPDATE with which an acceptance, a reset or a recovery revokes the other tokens
  of a person is a step that finds them (`FindSiblings`, `FindOthers`, `FindResets`); the step after it
  waits until nobody locks them, revokes those that still can be (`Revocable`) and commits. A token
  that is committed between the two stays as it is.
- In `JobQueue` each repository call is one action; the look-up, the audit row and the hand-over to
  the SMTP server are separate steps, and a worker may crash between any two. Time is two facts per
  job: its lease has run out, its back-off is over. `Deliver` is the server taking the message; the
  handler may still fail afterwards. A permanent failure (`RefuseMessage`) is possible at the look-up and
  at the send, after the audit row. The SMTP server itself is external.

## The runs

| Run | Instance | What it shows | Distinct states |
| --- | --- | --- | --- |
| `content_review` | 1 item, 2 versions, 1 image, an administrator, the client's owner and a reviewer who is suspended and restored | two review rounds, with two people deciding at once, keep statuses, decisions, versions and e-mail keys consistent and implement `ReviewContract` | 562,808 |
| `content_publication` | 2 items and images of 2 businesses, 2 keys, 1 version each, three people | publications that overlap keep their keys apart; nothing moves in an archived business | 356,400 |
| `content_calendar` | a plan of 8 days and one of a single day, 2 entries, 2 items, 1 preset, 2 requests | dates, links and publication of entries survive stale edits; calendars are whole; only overlapping requests make two | 797,244 |
| `brand_catalog` | 2 services, an audience, an objective, a preset of up to 3 versions, 1 image, 2 candidate profiles, an administrator and an editor | one profile, files as rows, prompts that name their preset, archived rows stay archived | 623,806 |
| `strategy_review` | 1 strategy, 3 versions, 1 plan, a strategist and two reviewers who come and go | what is shown was sent, approvals are final; implements `StrategyContract`: one version before the client at a time, plans from accepted ones | 687,936 |
| `access_members` | an administrator and a guest, 2 invitations, 2 reset tokens, 2 requests at a time | one join, one password per token, client access limited; invitations and resets each implement `OneTimeToken`: a token ends once, and what is spent voids other tokens of that person only | 476,302 |
| `queue_workers` | 2 jobs (one audited), 2 workers, batches of 2, 2 attempts, 1 crash, fairness | leases are fenced, verdicts honest and final, sends recorded; implements `DeliveryContract`; every enqueued job ends | 245,872 |

Five further runs end in a counterexample: `content_stale_role`, `preset_conflict`,
`strategy_resend`, `access_admins` and `access_reset`. See the findings.

### Bounds, and why they are enough

- `MaxVersions` (content): two versions give a rejection, a revision and a second release, which is
  where decisions of different rounds could mix; one where keys and entries are the
  question and rounds do not matter. `MaxVersions` (strategy): three, so that a version can be approved, its successor returned
  and a third one drafted.
- Reviewers: two in `content_review` and in `strategy_review`, as a component or a strategy is decided by
  whoever gets the lock first.
- Two items are enough for keys and entries, which are compared in pairs. In `content_publication`
  they belong to two businesses, so that no lock keeps the check of one and the commit of the other
  apart.
- Calendar: eight days are two weeks of which the second is one day, the boundary of the loop; a plan
  of one day lets two calendars fit in two entries. `Days` holds the last day of the longer plan and
  the day after it.
- Catalog: the table of services has two rows because names are unique in pairs; a state constraint
  (`OneTableAtATime`) lets rows of one table only exist at a time, since the tables share nothing with
  each other. Three versions are two edits after the creation; two looks tell an old from a new one;
  two candidate profiles are the two inserts that race. One image: uploads have ids of their own.
- `Texts`, `Visuals`: two texts, so that an edit in place would be seen; one visual, as both parts
  are copied alike.
- `MembershipOptions`: the reviewer is suspended or restored, in `content_stale_role` also demoted to
  `VIEWER`: the changes that the guards of a decision can see. `Wishes`: rows that differ in role, business and activity, so
  that two updates can each write half; among them `AGENCY_ADMIN`, so that administrators are
  counted.
- `Requests`: two at a time; each race the code is exposed to is between two. `SignIns` and
  `Forgetful` say who signs in and who asks for a new password, which keeps interchangeable people
  from doing the same.
- `MaxVersion` (session versions): three, for two changes of one person after the start.
- Queue: two attempts are one retry and one last attempt; two workers and a batch of two let a lease
  run out behind another job; one crash (`MaxCrashes`) at every point.
- Symmetry is used for requests and token ids (`access_members`), entries, items and requests
  (`content_calendar`), names, looks and profiles (`brand_catalog`), never in the run that checks
  liveness.

`CHECK_DEADLOCK FALSE` is set for `brand_catalog`, `preset_conflict` and `content_calendar`, which really
stop: once the business is archived every new request is refused. In the others a caller can always
come again.

### Fairness

Only `queue_workers` assumes any (and `EveryJobGetsAVerdict` alone needs it): weak fairness of each worker's own steps and of the clock.
`main.py:90-95` polls for ever and sleeps between empty polls; `execution_timeout` rings an alarm in
a handler that hangs; `docker-compose.yml` restarts a worker that died (`restart: unless-stopped`);
and time passes. Nothing makes the backend enqueue or a worker crash, and weak fairness of a worker
as a whole does not choose the outcome of a delivery: a job may fail each attempt.

## The findings

| Run | Property | What happens |
| --- | --- | --- |
| `content_stale_role` | `DeciderHoldsRole` | a reviewer suspended while the request waits for its lock still decides; the data model document says that the role is revalidated in the transaction |
| `preset_conflict` | `EditRaisesVersion` | of two overlapping edits of a preset the second overwrites the first, and both carry one version number; the data model document says that `version` is there to refuse it |
| `strategy_resend` | `ReviewersCanBeAsked` | the e-mail key of a strategy has no version, so the second round of a strategy cannot be sent to the same reviewer |
| `access_admins` | `LastAdminKept` | two administrators who demote each other at the same time leave none: the count is read without a lock |
| `access_reset` | `ResetEndsSessions` | a session version is incremented from an unlocked read; a reset that overlaps a change of access leaves a session of the old password valid |

Each has its source line and the sentence it contradicts in `PROJECT.json`.

## The proofs

The theorems hold for every number of items, versions, members, businesses, jobs, workers, requests
and tokens. What they assume is in the `...Assumption` of each module: bounds are positive, ids and
NULL differ, rows have their types, the initial memberships satisfy the CHECK of their table; that
users and reset tokens are finitely many is needed to count them. TLC evaluates the assumptions in
every run.

Each proof module follows one argument: an inductive invariant `IInv`, its truth in `Init`, its
preservation by each action, and the theorems as consequences.

- **ContentWorkflow.** `StatusFollowsDecisions` speaks of the current version only, so a revision
  could break it unless the next version is untouched. `ItemFits` says for every version what its
  decisions look like: unseen above the current one, returned below it, and on it what the status
  says. With `VersionsStored` (a version up to the current one has a row) this is inductive. It gives
  `PendingOnlyUnderReview`, `StatusFollowsDecisions`, `SupersededOnlyByRejection`,
  `PortalShowsReleasedVersion`, `DecisionsAreFinal`, `ReleasedVersionFrozen`, and the refinement of
  `ReviewContract`: each step is a release, a verdict, a publication or a stutter.
  `PublicationKeyUnique` is inductive by itself, with types.
  `ArchivedBusinessFrozen` needs `PublishersActive` (a publication that has checked its item holds the
  lock of an active business); `NotificationKeysAreFree` needs `MailInv` (a key in the job table names
  a version that has been sent, and a decision that has been taken).
- **ContentCalendar.** The links need `LocksApart` (an entry is locked by one request) and what
  `RequestInv` says of an edit under way: it will not change the columns that content and publication
  write, because `Written` leaves alone what the edit did not name. `CalendarIsWhole` is arithmetic,
  `WeeksCovered`: the days the loop visits and the numbers 0..((ends - starts) \div 7) correspond, for a
  period of any length; `CalendarsKept` then says that no edit moves an entry out of its plan.
  `OneCalendarUnlessOverlapped` follows from `FirstAndAlone`: unless two overlapped, who generates a plan
  is alone and the plan has no calendar yet.
- **BrandCatalog.** `RequestInv` relates what a request has read to the tables as they are now: the row
  exists, its profile is the only one (`OneProfile`), what a prompt was read from has been in the
  table (`held`). `UploadsApart` (two uploads are of two assets) gives `FilesMatchRows`.
- **StrategyPlanning.** `VersionInv` relates the approved and the current version to the audit
  trail: an approval on record is of an earlier version or of an approved strategy.
  `RequestInv` says that what `create_plan` read stays true until it commits, since approvals are
  never taken back; that is why its missing lock does no harm. The refinement maps the version under
  client review to `open`, the audit trail to `shown` and `accepted`; it needs `SentInv`, that no
  version later than the current one was ever sent. `PlanVersionWasReviewed` is a consequence of the
  contract and has a theorem of its own.
- **MemberAccess.** `RequestInv` says step by step what a request has read and locked: whoever is
  about to insert a person has a person without membership, whoever locks a token locks one that is
  unsettled, and what an UPDATE has found are tokens of the person it is about. `ExclusionInv` says that no two requests lock one row or insert one person. `JoinedOnce`
  follows because an accepted invitation has a member and the insert needs none;
  `PasswordChangesOnce` because the set of used tokens grows by exactly the locked one;
  `TokensEndOnce` because every write settles rows that are locked by the writer or by nobody.
- **TokenContractProofs.** Invitations and resets implement one contract, `OneTimeToken`, under two
  refinement mappings: the effect of an invitation is a membership that was not there at the start,
  that of a reset a new password. `KeptInv` (nobody who was a member at the start ceases to have a row)
  makes the first one count. `TokensEndOnce` adds to the contract that a settled row keeps its role and
  business too. The contract does not say that a spent token leaves no other of that person open: one
  committed between the UPDATE and the COMMIT stays. For an invitation this is harmless, as a person who
  has joined never spends another (`Repeatable` is false). `SpendEndsOthers` says it for requests that
  do not overlap; its `FoundInv` is that the tokens an UPDATE has found are, until its commit, all
  those that are open.
- **JobQueue.** `FinishIsFenced` needs that a batch never holds an attempt the row has not reached
  (`ClaimsInv`), `EverySendIsRecorded` needs what a handler has done so far (`HandlerInv`). The
  refinement maps the statuses to open, succeeded and failed. `NothingIsStranded` and
  `EffortOnlyFalls` are the part of the liveness of the queue that needs no fairness: a job without a
  verdict is always one that `claim` or `expire_exhausted` would take, or that the clock will hand to
  them, and every change of its row lowers a number that starts finite. The first rests on
  `FlowInv`: a job waiting for its first claim has no back-off, and a worker that goes on with its
  batch has something left in it.

### What the findings have in common

A counterexample shows one way in which a property fails. A theorem says what every way shares:
under a condition that rules one overlap out, the property of the finding holds for every
instance, so every counterexample has that overlap. The condition is an assumption about how requests happen to be spaced, which nothing in
the code enforces; it is not an assumption of any other theorem.

| Finding | Condition | Theorem |
| --- | --- | --- |
| `LastAdminKept` | `UpdatesApart`: no two updates of one member, and no two that each take an administrator away, are under way at one time; there is an administrator at the start | `LastAdminUnlessOverlapped` |
| `ResetEndsSessions` | `VersionWritersApart`: no two requests that write the session version of one person are under way at one time | `ResetEndsSessionsUnlessOverlapped` |
| `EditRaisesVersion` | `EditsApart`: no two requests that write one preset are between read and commit at one time | `VersionsRiseUnlessOverlapped` |
| `DeciderHoldsRole` | `AccessKeptDuringRequests`: nobody's access changes while a request of that person is in progress | `DeciderHoldsRoleUnlessChanged` |
| none, see below: `SpendEndsOthers` | `TokensApart`: no token about to be committed for a person while an acceptance or a reset of that person is between its UPDATE and its COMMIT | `SpendEndsOthersUnlessOverlapped` |
| `ReviewersCanBeAsked` | none; it holds of every strategy that has not been before the client yet (`FirstRoundCanBeSent`) | `FirstRoundSendable` |

`SpendEndsOthers` (whoever spends a token leaves no other one of theirs open) is no finding, since no
document or comment promises it; without the condition TLC refutes it in the same way as the others.

In each proof the condition makes one fact inductive that the races break: what a request has read
is still what the row says when it commits (`EditInv`, `ContextInv`, `AdminInv`, `DatesInv`, `FoundInv`), or, for
`FirstRoundCanBeSent`, that the keys in the job table are those of strategies that have been sent
(`KeysInv`).

### What stays with TLC

Liveness (`EveryJobGetsAVerdict`) depends on fairness and is beyond the prover, as are the
counterexamples. Every safety property of a passing run is also a theorem. Some theorems state
properties that no run spends its time on: `WaitingHasBudget`, `VerdictIsFinal`, `NothingIsStranded`
and `EffortOnlyFalls` of the queue, `ApprovedVersionOnlyAdvances`, `PlanVersionWasReviewed` and
`FirstRoundCanBeSent` of the strategies, `TokensEndOnce` and `SpendEndsOthers` of the tokens. Each of these, and each
condition above, was put to TLC on the instance of its module before it was proved.

## What is not modelled, and why

- Creating and renaming a business: writes of one row that no other request reads before it writes.
  `create_reviewer`: an account that only development settings create.
- The rate limiter: a dictionary of one process behind a lock, on which no row depends. Its limit is
  checked before an attempt and counted after it, which is listed as a hazard.
- The bytes of an upload (`validate_image_upload`), signed URLs and their expiry: what they decide is a
  `Refuse` or changes no state.
- The browser's session: its requests are those of the modules, in any order and number.
- In-app notifications, audit rows, reports: written in the transaction of what they describe, or
  read-only. Where a property needs them (decisions, releases) they are variables.
- Generation of text and prompts: pure functions whose result the modules treat as opaque. Of the links
  of a generated item, the strategy version, service, audience and objective are copied and never
  compared again.
- Columns an edit may set that nothing else depends on: titles and notes of an entry, descriptions of a
  catalog row, the fields of a brand profile. An edit of an entry leaves `scheduled_for` and the preset
  of an item already made from it as they were; the code promises nothing else.
- Seed script, settings, migrations: run by hand or once; what follows from them (isolation level,
  lease time, unique keys) is built into the actions.
- Statuses that no other request ever sees (`SCHEDULED` of an item, which a publication passes through
  within its transaction) or that no code writes (`FAILED` and `ARCHIVED` of an item, `REJECTED` of an
  approval): they are in the types and in no reachable state.

## Plan

In order of what matters most to the system; all but the last two are done.

1. `ContentWorkflow` with `ReviewContract`: review and publication, refinement, proofs.
2. `JobQueue` with `DeliveryContract`: leases, crashes, liveness, refinement, proofs.
3. `StrategyPlanning`: versions, review and plans, proofs.
4. `MemberAccess`: sessions, invitations, resets and roles, proofs.
5. `ContentCalendar`: entries written, generated and edited without a lock, against content and
   publication, which lock them; proofs.
6. `BrandCatalog`: preset versions read without a lock, two upserts of one profile, the two stores of an
   image; proofs.
7. Proofs of what the findings have in common, of the safety half of the liveness of the queue, and of
   two more contracts, `OneTimeToken` and `StrategyContract`.
8. A contract for the calendar: what a plan promises its entries and items, and that `ContentCalendar`
   implements it.
9. Composition: a release of `ContentWorkflow` and the jobs of `JobQueue` as one system, so that the
   client who is to decide is told, or the job has failed with a record of it.
