SPECIFICATION Spec
CONSTANTS
  None = None
  e1 = e1
  g1 = g1
  g2 = g2
  i1 = i1
  o1 = o1
  r1 = r1
  s1 = s1
  t1 = t1
  Table = {t1}
  SessionId = {s1}
  RoundId = {r1}
  ItemId = {i1}
  OrderId = {o1}
  Staff = {e1}
  Guest = {g1, g2}
  MaxQuantity = 2
  StaffRequests = {"start", "confirm"}
  GuestRequests = {"add", "edit", "submit"}
  OrderMoves = {}
SYMMETRY MCSymmetry
INVARIANTS
  ConfirmedItemsFrozen
CHECK_DEADLOCK FALSE
