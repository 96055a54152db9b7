\* Two services, an audience, an objective, a preset of up to three versions, one asset:
\* an administrator and an editor read and commit in any order.
SPECIFICATION Spec
CONSTANTS
  s1 = s1  s2 = s2  u1 = u1  o1 = o1  p1 = p1  admin = admin  editor = editor
  None = None
  Rows = {s1, s2, u1, o1, p1}
  Kind <- MCKind
  Names = {n1, n2}
  Looks = {l1, l2}
  Assets = {a1}
  BrandIds = {b1, b2}
  Requests = {admin, editor}
  Role <- MCRole
  MaxVersion = 3
CONSTRAINT OneTableAtATime
SYMMETRY Interchangeable
CHECK_DEADLOCK FALSE
INVARIANTS
  TypeOK
  PresetBrandConsistent
  FilesMatchRows
  PromptNamesItsPreset
PROPERTIES
  ArchivedStaysArchived
