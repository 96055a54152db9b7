\* One strategy through up to three versions: a strategist drafts, sends and plans,
\* the owner and a reviewer decide, members come and go, the business is archived.
SPECIFICATION Spec
CONSTANTS
  s1 = s1  p1 = p1  b1 = b1
  strategist = strategist  reviewer = reviewer  owner = owner
  None = None
  Strategies = {s1}
  Plans = {p1}
  Businesses = {b1}
  Members = {strategist, reviewer, owner}
  MaxVersions = 3
  Owner <- OneBusiness
  Membership <- MCMembership
INVARIANTS
  TypeOK
  ApprovedIsCurrent
  PortalShowsSentVersion
PROPERTIES
  ReviewedVersionFrozen
  ApprovalIsFinal
  ImplementsStrategyContract
