\* A plan of eight days and one of a single day, two entries, two items, one preset:
\* two requests generate, write, edit, link and publish in any order.
SPECIFICATION Spec
CONSTANTS
  p1 = p1  p2 = p2
  None = None
  Plans = {p1, p2}
  Period <- TwoPlans
  Days = {8, 9}
  Entries = {e1, e2}
  Contents = {c1, c2}
  Presets = {q1}
  Requests = {r1, r2}
  Role <- Strategist
SYMMETRY Interchangeable
CHECK_DEADLOCK FALSE
INVARIANTS
  TypeOK
  DatesInPlan
  EntryLinksAgree
  CalendarIsWhole
  OneCalendarUnlessOverlapped
