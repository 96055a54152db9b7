\* Two items of two businesses, published with one key or two at the same time, while
\* either business may be archived; every item has one version.
SPECIFICATION Spec
CONSTANTS
  c1 = c1  c2 = c2  img1 = img1  img2 = img2  e1 = e1  e2 = e2  b1 = b1  b2 = b2
  admin = admin  reviewer = reviewer  owner = owner
  None = None
  Contents = {c1, c2}
  MediaAssets = {img1, img2}
  Entries = {e1}
  Businesses = {b1, b2}
  Members = {admin, reviewer, owner}
  Texts = {"t1"}
  Visuals = {"plain"}
  Keys = {"k1", "k2"}
  MaxVersions = 1
  Owner <- TwoBusinesses
  InitialMembership <- MCInitialMembership
  MembershipOptions <- NoChanges
INVARIANTS
  PublicationKeyUnique
PROPERTIES
  ArchivedBusinessFrozen
