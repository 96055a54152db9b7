\* The reviewer of a strategy that was sent once is to be asked about its revision.
SPECIFICATION Spec
CONSTANTS
  s1 = s1  p1 = p1  b1 = b1
  strategist = strategist  reviewer = reviewer  owner = owner
  None = None
  Strategies = {s1}
  Plans = {p1}
  Businesses = {b1}
  Members = {strategist, reviewer}
  MaxVersions = 2
  Owner <- OneBusiness
  Membership <- MCMembership
INVARIANTS
  ReviewersCanBeAsked
