\* One item through up to two review rounds, with two reviewers of the client, one of
\* whom an administrator suspends and restores, and an image that is archived meanwhile.
SPECIFICATION Spec
CONSTANTS
  c1 = c1  c2 = c2  img1 = img1  img2 = img2  e1 = e1  e2 = e2  b1 = b1  b2 = b2
  admin = admin  reviewer = reviewer  owner = owner
  None = None
  Contents = {c1}
  MediaAssets = {img1}
  Entries = {}
  Businesses = {b1}
  Members = {admin, reviewer, owner}
  Texts = {"t1", "t2"}
  Visuals = {"plain"}
  Keys = {"k1"}
  MaxVersions = 2
  Owner <- OneBusiness
  InitialMembership <- SharedMembership
  MembershipOptions <- ReviewerSuspended
INVARIANTS
  TypeOK
  PendingOnlyUnderReview
  StatusFollowsDecisions
  SupersededOnlyByRejection
  PortalShowsReleasedVersion
  NotificationKeysAreFree
PROPERTIES
  ReleasedVersionFrozen
  DecisionsAreFinal
  PublishedItemFrozen
  ImplementsReviewContract
