SPECIFICATION Spec
CONSTANTS
  None = None
  e1 = e1
  d1 = d1
  d2 = d2
  s1 = s1
  s2 = s2
  c1 = c1
  r1 = r1
  r2 = r2
  a1 = a1
  a2 = a2
  Employee = {e1}
  Device = {d1, d2}
  SessionId = {s1, s2}
  Client = {c1}
  Role = {r1, r2}
  StartRoles = {r1}
  Admin = {a1, a2}
  Requests = {"status", "password", "delete", "role", "grants", "force"}
  MaxPasswords = 1
  MaxChanges = 2
INVARIANTS
  TypeOK
  SessionsEndWithAccess
  ChangesAreInvalidated
PROPERTIES
  StalenessEnds
CHECK_DEADLOCK FALSE
