SPECIFICATION Spec
CONSTANTS
  None = None
  e1 = e1
  e2 = e2
  g1 = g1
  i1 = i1
  i2 = i2
  o1 = o1
  o2 = o2
  r1 = r1
  r2 = r2
  s1 = s1
  s2 = s2
  t1 = t1
  Table = {t1}
  SessionId = {s1, s2}
  RoundId = {r1, r2}
  ItemId = {i1, i2}
  OrderId = {o1, o2}
  Staff = {e1, e2}
  Guest = {g1}
  MaxQuantity = 1
  StaffRequests = {"start", "confirm", "reject", "close"}
  GuestRequests = {"add", "submit"}
  OrderMoves = {}
SYMMETRY MCSymmetry
INVARIANTS
  TypeOK
  RoundsBilledOnce
  OneOpenSessionPerTable
PROPERTIES
  RoundsDecidedOnce
CHECK_DEADLOCK FALSE
