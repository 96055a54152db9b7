\* An administrator and a guest: two invitations of the guest, changes of the guest's
\* access up to a second administrator, two password resets, two requests at a time.
SPECIFICATION Spec
CONSTANTS
  admin = admin  partner = partner  client = client  guest = guest  b1 = b1
  q1 = q1  q2 = q2  i1 = i1  i2 = i2  t1 = t1  t2 = t2
  None = None
  Users = {admin, guest}
  Invites = {i1, i2}
  Resets = {t1, t2}
  Requests = {q1, q2}
  Businesses = {b1}
  Wishes <- MemberWishes
  MaxVersion = 3
  SignIns = {admin}
  Forgetful = {guest}
  InitialMembership <- MCInitialMembership
SYMMETRY Interchangeable
INVARIANTS
  TypeOK
  ActiveClientHasBusiness
  JoinedOnce
  PasswordChangesOnce
PROPERTIES
  ImplementsTokenContracts
