SPECIFICATION Spec
CONSTANTS
  None = None
  e1 = e1
  g1 = g1
  g2 = g2
  i1 = i1
  i2 = i2
  o1 = o1
  o2 = o2
  r1 = r1
  r2 = r2
  s1 = s1
  t1 = t1
  Table = {t1}
  SessionId = {s1}
  RoundId = {r1, r2}
  ItemId = {i1, i2}
  OrderId = {o1, o2}
  Staff = {e1}
  Guest = {g1, g2}
  MaxQuantity = 1
  StaffRequests = {"start", "confirm", "reject", "close"}
  GuestRequests = {"add", "edit", "submit"}
  OrderMoves = {"pay", "cancel", "advance"}
SYMMETRY MCSymmetry
INVARIANTS
  BilledNumbersUnique
  OneAppendableOrderPerSession
  ClosedSessionIsSettled
  ReturnedRoundIsNotBilled
CHECK_DEADLOCK FALSE
