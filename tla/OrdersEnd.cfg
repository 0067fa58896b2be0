SPECIFICATION FairSpec
CONSTANTS
  None = None
  CouponLimit <- MCCouponLimit
  c1 = c1
  c2 = c2
  k1 = k1
  o1 = o1
  o2 = o2
  t1 = t1
  w1 = w1
  w2 = w2
  OrderId = {o1, o2}
  Writer = {w1, w2}
  Creator = {c1, c2}
  Table = {t1}
  Coupon = {}
  Key = {k1}
  StartNumber = 1
  MaxRetries = 3
  MaxVersion = 3
  MaxDay = 1
  Requests = {"cancel"}
  Sources = {"CASHIER"}
  Types = {"DINE_IN"}
  Stale = 1
  Guess = 1
PROPERTIES
  RequestsEnd
CHECK_DEADLOCK FALSE
