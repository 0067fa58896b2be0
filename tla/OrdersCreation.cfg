SPECIFICATION Spec
CONSTANTS
  None = None
  CouponLimit <- MCCouponLimit
  c1 = c1
  c2 = c2
  k1 = k1
  o1 = o1
  o2 = o2
  o3 = o3
  p1 = p1
  w1 = w1
  OrderId = {o1, o2, o3}
  Writer = {w1}
  Creator = {c1, c2}
  Table = {}
  Coupon = {p1}
  Key = {k1}
  StartNumber = 1
  MaxRetries = 3
  MaxVersion = 2
  MaxDay = 2
  Requests = {"cancel"}
  Sources = {"QR"}
  Types = {"DINE_IN"}
  Stale = 1
  Guess = 0
SYMMETRY MCSymmetry
INVARIANTS
  NumbersGapless
  CouponAccounting
PROPERTIES
  KeyAnswersForOneOrder
CHECK_DEADLOCK FALSE
