SPECIFICATION Spec
CONSTANTS
  None = None
  m1 = m1
  m2 = m2
  d1 = d1
  e1 = e1
  p1 = p1
  Item = Item
  Message = {m1, m2}
  Handler = {d1}
  Employee = {e1}
  Outbound = {p1}
  Reports = {"DELIVERED", "READ"}
  Texts = {"reset", "menu", "1", "2", "3", "6", "confirm", "other"}
  StaffRequests = {"reply", "resolve", "close", "assign", "takeover", "return", "reassign", "end"}
  MaxFailures = 0
  EarlierPick <- MCEarlier
  StartConversations <- MCStart
INVARIANTS
  TypeOK
  PicksOrderedOnce
  WaitingMessagesReachInbox
CHECK_DEADLOCK FALSE
