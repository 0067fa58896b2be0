SPECIFICATION Spec
CONSTANTS
  None = None
  CouponLimit <- MCCouponLimit
  c1 = c1
  c2 = c2
  o1 = o1
  o2 = o2
  t1 = t1
  w1 = w1
  OrderId = {o1, o2}
  Writer = {w1}
  Creator = {c1, c2}
  Table = {t1}
  Coupon = {}
  Key = {}
  StartNumber = 1
  MaxRetries = 3
  MaxVersion = 2
  MaxDay = 1
  Requests = {"cancel"}
  Sources = {"CASHIER"}
  Types = {"DINE_IN"}
  Stale = 1
  Guess = 0
SYMMETRY MCSymmetry
INVARIANTS
  OneActiveOrderPerTable
CHECK_DEADLOCK FALSE
