SPECIFICATION Spec
CONSTANTS
  None = None
  m1 = m1
  m2 = m2
  d1 = d1
  d2 = d2
  e1 = e1
  Item = Item
  Message = {m1, m2}
  Handler = {d1, d2}
  Employee = {e1}
  Outbound = {}
  Reports = {"DELIVERED", "READ"}
  Texts = {"confirm", "agent"}
  StaffRequests = {"handoff"}
  MaxFailures = 1
  EarlierPick <- MCEarlier
  StartConversations <- MCAboutToOrder
INVARIANTS
  OrdersAreConfirmed
  ProcessedIsStored
PROPERTIES
  AutomationSeesMessagesOnce
  EventsAreDecided
CHECK_DEADLOCK FALSE
