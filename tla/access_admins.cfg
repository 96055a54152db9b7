\* Two administrators who take the access of each other away.
SPECIFICATION Spec
CONSTANTS
  admin = admin  partner = partner  client = client  guest = guest  b1 = b1
  q1 = q1  q2 = q2  i1 = i1  i2 = i2  t1 = t1  t2 = t2
  None = None
  Users = {admin, partner}
  Invites = {}
  Resets = {}
  Requests = {q1, q2}
  Businesses = {b1}
  Wishes <- AdminWishes
  MaxVersion = 2
  SignIns = {admin, partner}
  Forgetful = {}
  InitialMembership <- MCInitialMembership
INVARIANTS
  LastAdminKept
