\* Two requests edit one preset: an edit need not move the version on.
SPECIFICATION Spec
CONSTANTS
  s1 = s1  s2 = s2  u1 = u1  o1 = o1  p1 = p1  admin = admin  editor = editor
  None = None
  Rows = {p1}
  Kind <- MCKind
  Names = {n1}
  Looks = {l1, l2}
  Assets = {a1}
  BrandIds = {b1}
  Requests = {admin, designer}
  Role <- AllAdmins
  MaxVersion = 3
CHECK_DEADLOCK FALSE
PROPERTIES
  EditRaisesVersion
