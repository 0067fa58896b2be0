SPECIFICATION Spec
CONSTANTS
  None = None
  CouponLimit <- MCCouponLimit
  c1 = c1
  o1 = o1
  t1 = t1
  w1 = w1
  w2 = w2
  OrderId = {o1}
  Writer = {w1, w2}
  Creator = {c1}
  Table = {t1}
  Coupon = {}
  Key = {}
  StartNumber = 1
  MaxRetries = 3
  MaxVersion = 6
  MaxDay = 1
  Requests = {"status", "cancel", "pay", "refund", "append", "round"}
  Sources = {"QR"}
  Types = {"DINE_IN", "DELIVERY"}
  Stale = 1
  Guess = 0
INVARIANTS
  TypeOK
  ChargedTheTotal
PROPERTIES
  HistoryIsConnected
  ImplementsLifecycle
CHECK_DEADLOCK FALSE
