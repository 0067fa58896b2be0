SPECIFICATION Spec
CONSTANTS
  Areas = {"coupons"}
  m1 = m1  m2 = m2  o1 = o1  o2 = o2  c1 = c1
  \* menu
  Category = {c1, c2}
  Product = {p1}
  StartCategories <- MCStartCategories
  Manager = {m1, m2}
  Duties <- MCDuties
  None = None
  MaxMenuChanges = 2
  \* coupons
  CouponId = {k1}
  Checkout = {x1, x2}
  Editor = {e1}
  Absent = Absent
  Values = {50, 150}
  Limits = {Absent, 1}
  Minimums = {0, 250}
  Caps = {Absent, 60}
  Lines <- MCLines
  MaxUses = 1
  MaxCouponChanges = 2
  \* customers
  CustomerId = {u1, u2}
  Phone = {f1, f2}
  Caller = {a1, a2}
  Clerk = {l1}
  Nobody = Nobody
  MaxCustomerChanges = 3
  \* addresses
  AddressClerk = {l1}
  MaxAddresses = 4
  \* premises
  Branch = {b1, b2}
  Operator = {o1, o2}
  OperatorDuties <- MCOperatorDuties
  MaxConnections = 3
  NoBranch = NoBranch
  \* guests
  Guest = {g1, g2}
  Waiter = {w1, w2}
  MaxCalls = 2
  MaxMembers = 1
  MaxWrongPins = 3
  NoWaiter = NoWaiter
  \* notices
  Colleague = {s1, s2}
  NoticeType = {"ORDER_PAID"}
  MaxEvents = 2
INVARIANT PercentagesAtMost100
CHECK_DEADLOCK FALSE
