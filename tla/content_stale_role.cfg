\* A reviewer whose access is changed while a request of theirs is in progress.
SPECIFICATION Spec
CONSTANTS
  c1 = c1  c2 = c2  img1 = img1  img2 = img2  e1 = e1  e2 = e2  b1 = b1  b2 = b2
  admin = admin  reviewer = reviewer  owner = owner
  None = None
  Contents = {c1}
  MediaAssets = {img1}
  Entries = {}
  Businesses = {b1}
  Members = {admin, reviewer}
  Texts = {"t1", "t2"}
  Visuals = {"plain"}
  Keys = {"k1"}
  MaxVersions = 2
  Owner <- OneBusiness
  InitialMembership <- MCInitialMembership
  MembershipOptions <- ReviewerChanges
PROPERTIES
  DeciderHoldsRole
