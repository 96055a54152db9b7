\* A member whose access is changed while the member resets the password.
SPECIFICATION Spec
CONSTANTS
  admin = admin  partner = partner  client = client  guest = guest  b1 = b1
  q1 = q1  q2 = q2  i1 = i1  i2 = i2  t1 = t1  t2 = t2
  None = None
  Users = {admin, client}
  Invites = {}
  Resets = {t1}
  Requests = {q1, q2}
  Businesses = {b1}
  Wishes <- ClientWishes
  MaxVersion = 3
  SignIns = {admin, client}
  Forgetful = {client}
  InitialMembership <- MCInitialMembership
INVARIANTS
  ResetEndsSessions
