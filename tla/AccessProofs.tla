------------------------------ MODULE AccessProofs ------------------------------
(***************************************************************************)
(* For any number of employees, roles, sessions, administrators and        *)
(* requests: access that is withdrawn ends, in the sessions of the         *)
(* employee and in the cached permissions, unless a request stops half-way *)
(* or Redis fails.                                                         *)
(***************************************************************************)
EXTENDS Access, TLAPS

AdminTyped == admin \in [Admin -> AdminState]

-----------------------------------------------------------------------------
(* Cached permissions *)

\* The requests that will still delete the permissions cached for an employee: a request
\* that has yet to look up who holds a role finds those that hold it then.
Deletes(a, e) ==
  \/ admin[a].pc \in {"revoke", "invalidate"} /\ e \in admin[a].employees
  \/ admin[a].pc = "assigned" /\ role[e] = admin[a].role /\ Existing(e)

Explained(e) == (\E a \in Admin : Deletes(a, e)) \/ e \in tainted \/ e \in abandoned

\* Busy is not inductive: before the look-up a request is busy with every employee, and
\* the look-up lets go of most.
WrongIsExplained == \A e \in Employee : cache[e] # None /\ cache[e] # Current(e) => Explained(e)

CacheTyped ==
  /\ AdminTyped
  /\ cache \in [Employee -> Permission \cup {None}]
  /\ employee \in [Employee -> EmployeeRow]
  /\ role \in [Employee -> Role]

CacheInv == CacheTyped /\ WrongIsExplained

LEMMA CacheInit == Init => CacheInv
<1>1. IdleAdmin \in AdminState /\ NewEmployee \in EmployeeRow
  BY SessionsAssumption DEF IdleAdmin, AdminState, NewEmployee, EmployeeRow
<1> QED BY <1>1, AccessAssumption
         DEF Init, SessionsInit, CacheInv, CacheTyped, WrongIsExplained, AdminTyped

\* What an administrator's request records of itself.
LEMMA ThenTyped ==
  ASSUME AdminTyped, NEW a \in Admin, NEW pc \in {"idle", "revoke", "assigned", "invalidate"},
         NEW S \in SUBSET Employee, NEW r \in Role \cup {None}, Then(a, pc, S, r)
  PROVE  /\ AdminTyped'
         /\ admin'[a].pc = pc /\ admin'[a].employees = S /\ admin'[a].role = r
         /\ \A b \in Admin \ {a} : admin'[b] = admin[b]
<1> DEFINE row == [pc |-> pc, employees |-> S, role |-> r]
<1>1. row \in AdminState /\ row.pc = pc /\ row.employees = S /\ row.role = r
  BY DEF AdminState
<1>2. admin' = [admin EXCEPT ![a] = row]
  BY DEF Then
<1> HIDE DEF row
<1> QED BY <1>1, <1>2 DEF AdminTyped

\* A request that begins with a change of employees' rows and then has them to deal with.
LEMMA ChangeExplained ==
  ASSUME CacheInv, NEW a \in Admin, admin[a].pc = "idle",
         NEW pc \in {"revoke", "assigned", "invalidate"}, NEW S \in SUBSET Employee,
         NEW r \in Role \cup {None}, Then(a, pc, S, r), pc = "assigned" => S = {},
         employee' \in [Employee -> EmployeeRow], role' \in [Employee -> Role],
         UNCHANGED <<cache, tainted, abandoned>>,
         \A e \in Employee : Current(e)' # Current(e)
            => e \in S \/ (pc = "assigned" /\ role'[e] = r /\ Existing(e)'),
         \A e \in Employee : e \notin S => role'[e] = role[e] /\ employee'[e] = employee[e]
  PROVE  CacheInv'
<1>0. pc \in {"idle", "revoke", "assigned", "invalidate"} /\ AdminTyped
  BY DEF CacheInv, CacheTyped
<1>1. /\ AdminTyped'
      /\ admin'[a].pc = pc /\ admin'[a].employees = S /\ admin'[a].role = r
      /\ \A b \in Admin \ {a} : admin'[b] = admin[b]
  BY <1>0, ThenTyped
<1>2. ASSUME NEW e \in Employee, cache'[e] # None, cache'[e] # Current(e)'
      PROVE  Explained(e)'
  <2>1. CASE e \in S
    BY <1>1, <2>1 DEF Explained, Deletes
  <2>2. CASE e \notin S /\ Current(e)' # Current(e)
    BY <1>1, <2>2 DEF Explained, Deletes
  <2>3. CASE e \notin S /\ Current(e)' = Current(e)
    <3>1. Explained(e)
      BY <1>2, <2>3 DEF CacheInv, WrongIsExplained
    <3>2. CASE e \in tainted \/ e \in abandoned
      BY <3>2 DEF Explained
    <3>3. CASE \E b \in Admin : Deletes(b, e)
      <4>1. PICK b \in Admin : Deletes(b, e)
        BY <3>3
      <4>2. b # a
        BY <4>1 DEF Deletes
      <4>3. Deletes(b, e)'
        BY <1>1, <2>3, <4>1, <4>2 DEF Deletes, Existing
      <4> QED BY <4>3 DEF Explained
    <3> QED BY <3>1, <3>2, <3>3 DEF Explained
  <2> QED BY <2>1, <2>2, <2>3
<1> QED BY <1>1, <1>2 DEF CacheInv, CacheTyped, WrongIsExplained

\* A step that keeps every request's claim on every employee.
LEMMA ClaimsKept ==
  ASSUME CacheInv, AdminTyped', UNCHANGED <<employee, role, granted>>,
         cache' \in [Employee -> Permission \cup {None}],
         \A e \in Employee : cache'[e] # None /\ cache'[e] # Current(e) /\ Explained(e)
            => Explained(e)',
         \A e \in Employee : cache'[e] # cache[e] /\ cache'[e] # None /\ cache'[e] # Current(e)
            => Explained(e)'
  PROVE  CacheInv'
<1>1. ASSUME NEW e \in Employee, cache'[e] # None, cache'[e] # Current(e)'
      PROVE  Explained(e)'
  <2>1. Current(e)' = Current(e)
    BY DEF Current
  <2> QED BY <1>1, <2>1 DEF CacheInv, WrongIsExplained
<1> QED BY <1>1 DEF CacheInv, CacheTyped, WrongIsExplained

LEMMA CacheNext == CacheInv /\ [Next]_vars => CacheInv'
<1> SUFFICES ASSUME CacheInv, [Next]_vars PROVE CacheInv'
  OBVIOUS
<1>t. /\ AdminTyped /\ employee \in [Employee -> EmployeeRow] /\ role \in [Employee -> Role]
      /\ cache \in [Employee -> Permission \cup {None}]
  BY DEF CacheInv, CacheTyped
<1>1. ASSUME NEW c \in Client, ClientStep(c), UNCHANGED accessVars PROVE CacheInv'
  <2>1. UNCHANGED <<employee, accessVars>>
    BY <1>1 DEF ClientStep, Login, FindOther, RevokeOthers, FindSame, CreateSession,
       ReadForRefresh, ReadForLogout, EndSession, ClientFails
  <2> QED BY <2>1 DEF accessVars, CacheInv, CacheTyped, AdminTyped, WrongIsExplained, Explained,
             Deletes, Existing, Current
<1>2. ASSUME NEW e \in Employee, ReadPermissions(e) PROVE CacheInv'
  BY <1>2 DEF ReadPermissions, sessionVars, CacheInv, CacheTyped, AdminTyped, WrongIsExplained,
     Explained, Deletes, Existing, Current
<1>3. ASSUME NEW e \in Employee, StoreFill(e) PROVE CacheInv'
  BY <1>3, <1>t, ClaimsKept DEF StoreFill, sessionVars, AdminTyped, Explained, Deletes, Existing
<1>4. ASSUME NEW e \in Employee, Expire(e) PROVE CacheInv'
  BY <1>4, <1>t, ClaimsKept DEF Expire, sessionVars, AdminTyped, Explained, Deletes, Existing
<1>5. ASSUME NEW a \in Admin, NEW e \in Employee, NEW status \in {"ACTIVE", "INACTIVE"},
             SetStatus(a, e, status)
      PROVE  CacheInv'
  <2>1. employee' \in [Employee -> EmployeeRow]
        /\ \A f \in Employee : f # e => employee'[f] = employee[f]
    BY <1>5, <1>t DEF SetStatus, EmployeeRow
  <2> DEFINE pc == IF status = "ACTIVE" THEN "invalidate" ELSE "revoke"
  <2>2. /\ pc \in {"revoke", "assigned", "invalidate"} /\ pc # "assigned" /\ Then(a, pc, {e}, None)
        /\ admin[a].pc = "idle" /\ UNCHANGED <<role, granted, cache, tainted, abandoned>>
    BY <1>5 DEF SetStatus, Begin
  <2> HIDE DEF pc
  <2> QED BY <1>t, <2>1, <2>2, ChangeExplained DEF Current
<1>6. ASSUME NEW a \in Admin, NEW e \in Employee, ChangePassword(a, e) PROVE CacheInv'
  <2>1. employee' \in [Employee -> EmployeeRow]
        /\ \A f \in Employee : f # e => employee'[f] = employee[f]
    BY <1>6, <1>t, SessionsAssumption DEF ChangePassword, EmployeeRow
  <2>2. /\ Then(a, "revoke", {e}, None)
        /\ admin[a].pc = "idle" /\ UNCHANGED <<role, granted, cache, tainted, abandoned>>
    BY <1>6 DEF ChangePassword, Begin
  <2> QED BY <1>t, <2>1, <2>2, ChangeExplained DEF Current
<1>7. ASSUME NEW a \in Admin, NEW e \in Employee, DeleteEmployee(a, e) PROVE CacheInv'
  <2>1. employee' \in [Employee -> EmployeeRow]
        /\ \A f \in Employee : f # e => employee'[f] = employee[f]
    BY <1>7, <1>t DEF DeleteEmployee, EmployeeRow
  <2>2. /\ Then(a, "revoke", {e}, None)
        /\ admin[a].pc = "idle" /\ UNCHANGED <<role, granted, cache, tainted, abandoned>>
    BY <1>7 DEF DeleteEmployee, Begin
  <2> QED BY <1>t, <2>1, <2>2, ChangeExplained DEF Current
<1>8. ASSUME NEW a \in Admin, NEW e \in Employee, ForceLogout(a, e) PROVE CacheInv'
  <2>1. /\ Then(a, "invalidate", {e}, None) /\ UNCHANGED employee
        /\ admin[a].pc = "idle" /\ UNCHANGED <<role, granted, cache, tainted, abandoned>>
    BY <1>8 DEF ForceLogout, Begin
  <2> QED BY <1>t, <2>1, ChangeExplained DEF Current
<1>9. ASSUME NEW a \in Admin, NEW e \in Employee, NEW r \in Role, AssignRole(a, e, r)
      PROVE  CacheInv'
  <2>1. role' \in [Employee -> Role] /\ \A f \in Employee : f # e => role'[f] = role[f]
    BY <1>9, <1>t DEF AssignRole
  <2>2. /\ Then(a, "invalidate", {e}, None) /\ UNCHANGED employee
        /\ admin[a].pc = "idle" /\ UNCHANGED <<granted, cache, tainted, abandoned>>
    BY <1>9 DEF AssignRole, Begin, sessionVars
  <2> QED BY <1>t, <2>1, <2>2, ChangeExplained DEF Current
<1>10. ASSUME NEW a \in Admin, NEW r \in Role, SetGrants(a, r) PROVE CacheInv'
  <2>1. /\ Then(a, "assigned", {}, r) /\ UNCHANGED <<employee, role>>
        /\ admin[a].pc = "idle" /\ UNCHANGED <<cache, tainted, abandoned>>
        /\ granted' = granted \cup {r} \/ granted' = granted \ {r}
    BY <1>10 DEF SetGrants, Begin, sessionVars
  <2>2. ASSUME NEW e \in Employee, Current(e)' # Current(e)
        PROVE  role'[e] = r /\ Existing(e)'
    BY <2>1, <2>2 DEF Current, Existing
  <2> QED BY <1>t, <2>1, <2>2, ChangeExplained
<1>11. ASSUME NEW a \in Admin, FindAssigned(a) PROVE CacheInv'
  <2> DEFINE S == {e \in Employee : role[e] = admin[a].role /\ Existing(e)}
  <2>1. /\ admin[a].pc = "assigned" /\ Then(a, "invalidate", S, None)
        /\ UNCHANGED <<employee, role, granted, cache, tainted, abandoned>>
    BY <1>11 DEF FindAssigned, sessionVars
  <2>2. /\ AdminTyped'
        /\ admin'[a].pc = "invalidate" /\ admin'[a].employees = S
        /\ \A b \in Admin \ {a} : admin'[b] = admin[b]
    BY <1>t, <2>1, ThenTyped
  <2>3. ASSUME NEW e \in Employee, Explained(e) PROVE Explained(e)'
    <3>1. ASSUME NEW b \in Admin, Deletes(b, e) PROVE Deletes(b, e)'
      BY <2>1, <2>2, <3>1 DEF Deletes, Existing
    <3> QED BY <2>1, <2>3, <3>1 DEF Explained
  <2> QED BY <1>t, <2>1, <2>2, <2>3, ClaimsKept
<1>12. ASSUME NEW a \in Admin, Revoke(a) PROVE CacheInv'
  <2>1. /\ admin[a].pc = "revoke" /\ admin' = [admin EXCEPT ![a] = AfterRevoking(a)]
        /\ UNCHANGED <<employee, role, granted, cache, tainted, abandoned>>
    BY <1>12 DEF Revoke
  <2>2. /\ AfterRevoking(a) \in AdminState
        /\ AfterRevoking(a).pc = "invalidate"
        /\ AfterRevoking(a).employees = admin[a].employees
    BY <1>t DEF AfterRevoking, AdminTyped, AdminState
  <2>3. AdminTyped' /\ admin'[a] = AfterRevoking(a) /\ \A b \in Admin \ {a} : admin'[b] = admin[b]
    BY <1>t, <2>1, <2>2 DEF AdminTyped
  <2>4. ASSUME NEW e \in Employee, Explained(e) PROVE Explained(e)'
    <3>1. ASSUME NEW b \in Admin, Deletes(b, e) PROVE Deletes(b, e)'
      BY <2>1, <2>2, <2>3, <3>1 DEF Deletes, Existing
    <3> QED BY <2>1, <2>4, <3>1 DEF Explained
  <2> QED BY <1>t, <2>1, <2>3, <2>4, ClaimsKept
\* Both ways a request ends: it deletes what it is to delete, or says that it did not.
<1>13. ASSUME NEW a \in Admin, admin' = [admin EXCEPT ![a] = IdleAdmin],
              UNCHANGED <<employee, role, granted>>, cache' \in [Employee -> Permission \cup {None}],
              \A e \in Employee : cache'[e] = None \/ cache'[e] = cache[e],
              \A e \in Employee : cache'[e] # None =>
                /\ e \in tainted \cup abandoned => e \in tainted' \cup abandoned'
                /\ Deletes(a, e) => e \in tainted' \cup abandoned'
       PROVE  CacheInv'
  <2>1. IdleAdmin \in AdminState
    BY DEF IdleAdmin, AdminState
  <2>2. AdminTyped' /\ \A b \in Admin \ {a} : admin'[b] = admin[b]
    BY <1>t, <1>13, <2>1 DEF AdminTyped
  <2>3. ASSUME NEW e \in Employee, cache'[e] # None, Explained(e) PROVE Explained(e)'
    <3>1. ASSUME NEW b \in Admin \ {a}, Deletes(b, e) PROVE Deletes(b, e)'
      BY <1>13, <2>2, <3>1 DEF Deletes, Existing
    <3> QED BY <1>13, <2>3, <3>1 DEF Explained
  <2> QED BY <1>t, <1>13, <2>2, <2>3, ClaimsKept
<1>14. ASSUME NEW a \in Admin, Invalidate(a) PROVE CacheInv'
  <2>1. /\ admin[a].pc = "invalidate" /\ admin' = [admin EXCEPT ![a] = IdleAdmin]
        /\ UNCHANGED <<employee, role, granted, abandoned>>
        /\ \/ /\ cache' = [e \in Employee |-> IF e \in admin[a].employees THEN None ELSE cache[e]]
              /\ tainted' = tainted \ admin[a].employees
           \/ /\ tainted' = tainted \cup {e \in admin[a].employees : cache[e] # None}
              /\ UNCHANGED cache
    BY <1>14 DEF Invalidate, sessionVars
  <2>2. cache' \in [Employee -> Permission \cup {None}]
        /\ \A e \in Employee : cache'[e] = None \/ cache'[e] = cache[e]
    BY <1>t, <2>1
  <2>3. ASSUME NEW e \in Employee, cache'[e] # None
        PROVE  /\ e \in tainted \cup abandoned => e \in tainted' \cup abandoned'
               /\ Deletes(a, e) => e \in tainted' \cup abandoned'
    BY <2>1, <2>3 DEF Deletes
  <2> QED BY <1>13, <2>1, <2>2, <2>3
<1>15. ASSUME NEW a \in Admin, AdminFails(a) PROVE CacheInv'
  <2>1. /\ admin[a].pc # "idle" /\ admin' = [admin EXCEPT ![a] = IdleAdmin]
        /\ UNCHANGED <<employee, role, granted, tainted, cache>>
        /\ abandoned' = abandoned \cup Concerned(a)
    BY <1>15 DEF AdminFails, sessionVars
  <2>2. ASSUME NEW e \in Employee, Deletes(a, e) PROVE e \in Concerned(a)
    BY <2>2 DEF Deletes, Concerned
  <2> QED BY <1>13, <1>t, <2>1, <2>2
<1>16. CASE UNCHANGED vars
  BY <1>16 DEF vars, sessionVars, accessVars, CacheInv, CacheTyped, AdminTyped,
     WrongIsExplained, Explained, Deletes, Existing, Current
<1> QED
  BY <1>1, <1>2, <1>3, <1>4, <1>5, <1>6, <1>7, <1>8, <1>9, <1>10, <1>11, <1>12, <1>14, <1>15,
     <1>16 DEF Next, AdminStep, AdminFinishes

LEMMA CacheInvImplies == CacheInv => ChangesAreInvalidated
<1> SUFFICES ASSUME CacheInv, NEW e \in Employee, cache[e] # None, cache[e] # Current(e)
             PROVE  Busy(e) \/ e \in tainted \cup abandoned
  BY DEF ChangesAreInvalidated
<1>1. Explained(e)
  BY DEF CacheInv, WrongIsExplained
<1>2. ASSUME NEW a \in Admin, Deletes(a, e) PROVE admin[a].pc # "idle" /\ e \in Concerned(a)
  BY <1>2 DEF Deletes, Concerned
<1> QED BY <1>1, <1>2 DEF Explained, Busy

\* A cached permission that was right when it was stored is deleted by whoever changes it,
\* however many requests change roles, grants and employees at once.
THEOREM PermissionsAreInvalidated == Spec => []ChangesAreInvalidated
BY CacheInit, CacheNext, CacheInvImplies, PTL DEF Spec
-----------------------------------------------------------------------------
(* Sessions *)

\* What a login goes on with, and what it and a session record of the employee found.
SessionsTyped ==
  /\ AdminTyped
  /\ employee \in [Employee -> EmployeeRow]
  /\ client \in [Client -> ClientState]
  /\ session \in [SessionId -> SessionRow]
  /\ \A c \in Client :
       /\ client[c].pc \in {"other", "revoke", "same", "create"} => client[c].employee \in Employee
       /\ client[c].found.status = "ACTIVE"
  /\ \A s \in SessionId : Active(s) =>
       session[s].employee \in Employee /\ session[s].under.status = "ACTIVE"

\* The sessions of a request that revokes are those of one employee.
OneEmployee ==
  \A a \in Admin : admin[a].pc = "revoke" => \E e \in Employee : admin[a].employees = {e}

Revokes(a, e) == admin[a].pc = "revoke" /\ e \in admin[a].employees

\* A deleted employee has only sessions whose login was under way; one who changed in
\* another way may have more, but then a request has still to revoke them, or stopped.
LeftIsExplained ==
  \A s \in SessionId : Active(s) /\ ~session[s].late =>
    LET e == session[s].employee IN
      employee[e] # session[s].under =>
        employee[e].status # "DELETED" /\ ((\E a \in Admin : Revokes(a, e)) \/ e \in abandoned)

SessionInv == SessionsTyped /\ OneEmployee /\ LeftIsExplained

LEMMA RowsTyped ==
  /\ NewEmployee \in EmployeeRow /\ NewEmployee.status = "ACTIVE"
  /\ IdleClient \in ClientState /\ IdleClient.pc = "idle" /\ IdleClient.found = NewEmployee
  /\ IdleAdmin \in AdminState /\ IdleAdmin.pc = "idle"
  /\ NoSession \in SessionRow /\ NoSession.status = "NONE"
  /\ \A status \in {"ENDED", "FORCE_LOGGED_OUT"} :
       EndedRow(status) \in SessionRow /\ EndedRow(status).status = status
<1>1. NewEmployee \in EmployeeRow /\ NewEmployee.status = "ACTIVE"
  BY SessionsAssumption DEF NewEmployee, EmployeeRow
<1>2. NoSession \in SessionRow /\ NoSession.status = "NONE"
  BY <1>1 DEF NoSession, SessionRow
<1>3. ASSUME NEW status \in {"ENDED", "FORCE_LOGGED_OUT"}
      PROVE  EndedRow(status) \in SessionRow /\ EndedRow(status).status = status
  BY <1>2, <1>3 DEF EndedRow, SessionRow
<1>4. IdleClient \in ClientState /\ IdleClient.pc = "idle" /\ IdleClient.found = NewEmployee
  BY <1>1 DEF IdleClient, ClientState
<1> QED BY <1>1, <1>2, <1>3, <1>4 DEF IdleAdmin, AdminState

LEMMA SessionInit == Init => SessionInv
BY RowsTyped
   DEF Init, SessionsInit, SessionInv, SessionsTyped, OneEmployee, LeftIsExplained, AdminTyped,
       Active, IdleAdmin

\* Ending sessions leaves the others as they were, and none of those it is about.
LEMMA EndedSessions ==
  ASSUME session \in [SessionId -> SessionRow], NEW S,
         NEW status \in {"ENDED", "FORCE_LOGGED_OUT"}, session' = Ended(S, status)
  PROVE  /\ session' \in [SessionId -> SessionRow]
         /\ \A s \in SessionId : Active(s)' => Active(s) /\ s \notin S /\ session'[s] = session[s]
<1>1. ASSUME NEW s \in SessionId
      PROVE  /\ session'[s] \in SessionRow
             /\ Active(s)' => Active(s) /\ s \notin S /\ session'[s] = session[s]
  <2>1. CASE s \in S /\ Active(s)
    BY <2>1, RowsTyped DEF Ended, Active
  <2>2. CASE ~(s \in S /\ Active(s))
    BY <2>2 DEF Ended, Active
  <2> QED BY <2>1, <2>2
<1> QED BY <1>1 DEF Ended

\* A client's step that only ends sessions or goes on to another statement.
LEMMA ClientGoes ==
  ASSUME SessionInv, NEW c \in Client, NEW row \in ClientState,
         client' = [client EXCEPT ![c] = row], row.found.status = "ACTIVE",
         row.pc \in {"other", "revoke", "same", "create"} => row.employee \in Employee,
         session' \in [SessionId -> SessionRow],
         \A s \in SessionId : Active(s)' => Active(s) /\ session'[s] = session[s],
         UNCHANGED <<employee, admin, abandoned>>
  PROVE  SessionInv'
<1>1. SessionsTyped'
  BY DEF SessionInv, SessionsTyped, AdminTyped
<1> QED BY <1>1 DEF SessionInv, OneEmployee, LeftIsExplained, Revokes

LEMMA ClientStepInv ==
  ASSUME SessionInv, NEW c \in Client, ClientStep(c), UNCHANGED accessVars
  PROVE  SessionInv'
<1> USE RowsTyped
<1>t. /\ client \in [Client -> ClientState] /\ session \in [SessionId -> SessionRow]
      /\ client[c] \in ClientState /\ client[c].found.status = "ACTIVE"
      /\ employee \in [Employee -> EmployeeRow]
  BY DEF SessionInv, SessionsTyped
<1>0. UNCHANGED <<admin, abandoned>>
  BY DEF accessVars
<1>1. ASSUME NEW e \in Employee, NEW d \in Device, Login(c, e, d) PROVE SessionInv'
  <2> DEFINE row ==
    [pc |-> "other", employee |-> e, device |-> d, session |-> None, found |-> employee[e]]
  <2>1. /\ row \in ClientState /\ row.found = employee[e] /\ row.employee \in Employee
    BY <1>t DEF ClientState
  <2>2. /\ client' = [client EXCEPT ![c] = row] /\ employee[e].status = "ACTIVE"
        /\ UNCHANGED <<employee, session>>
    BY <1>1 DEF Login
  <2> HIDE DEF row
  <2> QED BY <1>0, <1>t, <2>1, <2>2, ClientGoes DEF Active
\* A client that goes on, or is answered, while sessions end or stay.
<1>2. ASSUME NEW pc \in {"revoke", "same", "create"}, Goto(c, pc), client[c].employee \in Employee,
             session' \in [SessionId -> SessionRow],
             \A s \in SessionId : Active(s)' => Active(s) /\ session'[s] = session[s],
             UNCHANGED employee
      PROVE  SessionInv'
  <2> DEFINE row == [client[c] EXCEPT !.pc = pc]
  <2>1. row \in ClientState /\ row.found = client[c].found /\ row.employee = client[c].employee
    BY <1>t DEF ClientState
  <2>2. client' = [client EXCEPT ![c] = row]
    BY <1>2 DEF Goto
  <2> HIDE DEF row
  <2> QED BY <1>0, <1>2, <1>t, <2>1, <2>2, ClientGoes
<1>3. ASSUME Answered(c), session' \in [SessionId -> SessionRow],
             \A s \in SessionId : Active(s)' => Active(s) /\ session'[s] = session[s],
             UNCHANGED employee
      PROVE  SessionInv'
  BY <1>0, <1>3, <1>t, ClientGoes DEF Answered
<1>4. CASE FindOther(c)
  <2>1. /\ client[c].employee \in Employee /\ UNCHANGED <<employee, session>>
        /\ Goto(c, "same") \/ Goto(c, "revoke") \/ Answered(c)
    BY <1>4 DEF FindOther, SessionInv, SessionsTyped
  <2> QED BY <1>2, <1>3, <1>t, <2>1 DEF Active
<1>5. CASE RevokeOthers(c)
  <2>1. /\ client[c].employee \in Employee /\ UNCHANGED employee /\ Goto(c, "same")
        /\ session' = Ended(SessionsOf(client[c].employee), "FORCE_LOGGED_OUT")
    BY <1>5 DEF RevokeOthers, RevokeAll, SessionInv, SessionsTyped
  <2>2. /\ session' \in [SessionId -> SessionRow]
        /\ \A s \in SessionId : Active(s)' => Active(s) /\ session'[s] = session[s]
    BY <1>t, <2>1, EndedSessions
  <2> QED BY <1>2, <2>1, <2>2
<1>6. CASE FindSame(c)
  <2>1. /\ client[c].employee \in Employee /\ UNCHANGED <<employee, session>>
        /\ Goto(c, "create") \/ Answered(c)
    BY <1>6 DEF FindSame, SessionInv, SessionsTyped
  <2> QED BY <1>2, <1>3, <1>t, <2>1 DEF Active
<1>7. CASE CreateSession(c)
  <2> DEFINE new == CHOOSE s \in Unused : TRUE
             e == client[c].employee
  <2>1. /\ e \in Employee /\ new \in SessionId
        /\ session' = [session EXCEPT ![new] = NewSession(c)]
        /\ Answered(c) /\ UNCHANGED employee
    BY <1>7 DEF CreateSession, SessionInv, SessionsTyped, Unused
  <2>2. /\ NewSession(c) \in SessionRow
        /\ NewSession(c).employee = e /\ NewSession(c).under = client[c].found
        /\ NewSession(c).late = (employee[e] # client[c].found)
    BY <1>t, <2>1 DEF NewSession, SessionRow, ClientState
  <2> HIDE DEF new, e
  <2>3. /\ session' \in [SessionId -> SessionRow] /\ session'[new] = NewSession(c)
        /\ \A s \in SessionId \ {new} : session'[s] = session[s]
    BY <1>t, <2>1, <2>2
  <2>4. /\ client' \in [Client -> ClientState]
        /\ \A b \in Client : client'[b] = client[b] \/ client'[b] = IdleClient
    BY <1>t, <2>1 DEF Answered
  <2>5. SessionsTyped'
    BY <1>0, <1>t, <2>1, <2>2, <2>3, <2>4 DEF SessionInv, SessionsTyped, AdminTyped, Active
  <2>6. LeftIsExplained'
    <3> SUFFICES ASSUME NEW s \in SessionId, Active(s)', ~session'[s].late,
                        employee'[session'[s].employee] # session'[s].under
                 PROVE  /\ employee'[session'[s].employee].status # "DELETED"
                        /\ \/ \E a \in Admin : Revokes(a, session[s].employee)'
                           \/ session'[s].employee \in abandoned'
      BY <1>0 DEF LeftIsExplained, Revokes
    <3>1. s # new
      BY <2>1, <2>2, <2>3
    <3> QED BY <1>0, <2>1, <2>3, <3>1 DEF SessionInv, LeftIsExplained, Revokes, Active
  <2> QED BY <1>0, <2>5, <2>6 DEF SessionInv, OneEmployee
<1>8. ASSUME NEW s \in SessionId, ReadForRefresh(c, s) \/ ReadForLogout(c, s) PROVE SessionInv'
  <2> DEFINE row == [IdleClient EXCEPT !.pc = "end", !.session = s]
  <2>1. row \in ClientState /\ row.pc = "end" /\ row.found.status = "ACTIVE"
    BY DEF IdleClient, ClientState
  <2>2. client' = [client EXCEPT ![c] = row] /\ UNCHANGED <<employee, session>>
    BY <1>8 DEF ReadForRefresh, ReadForLogout
  <2> HIDE DEF row
  <2> QED BY <1>0, <1>t, <2>1, <2>2, ClientGoes DEF Active
<1>9. CASE EndSession(c)
  <2>1. /\ session' = Ended({client[c].session}, "ENDED")
        /\ Answered(c) /\ UNCHANGED employee
    BY <1>9 DEF EndSession
  <2>2. /\ session' \in [SessionId -> SessionRow]
        /\ \A s \in SessionId : Active(s)' => Active(s) /\ session'[s] = session[s]
    BY <1>t, <2>1, EndedSessions
  <2> QED BY <1>3, <2>1, <2>2
<1>10. CASE ClientFails(c)
  BY <1>3, <1>10, <1>t DEF ClientFails, Active
<1> QED
  BY <1>1, <1>4, <1>5, <1>6, <1>7, <1>8, <1>9, <1>10 DEF ClientStep

\* A step that leaves employees alone, ends no claim on a session, and opens no session.
LEMMA SessionsKept ==
  ASSUME SessionInv, AdminTyped', UNCHANGED <<employee, client>>,
         OneEmployee', session' \in [SessionId -> SessionRow],
         \A s \in SessionId : Active(s)' => Active(s) /\ session'[s] = session[s],
         \A e \in Employee :
           ((\E a \in Admin : Revokes(a, e)) \/ e \in abandoned) =>
             \/ (\E a \in Admin : Revokes(a, e)') \/ e \in abandoned'
             \/ \A s \in SessionId : Active(s)' => session'[s].employee # e
  PROVE  SessionInv'
<1>1. SessionsTyped'
  BY DEF SessionInv, SessionsTyped
<1>2. LeftIsExplained'
  <2> SUFFICES ASSUME NEW s \in SessionId, Active(s)', ~session'[s].late,
                      employee'[session'[s].employee] # session'[s].under
               PROVE  /\ employee'[session'[s].employee].status # "DELETED"
                      /\ \/ \E a \in Admin : Revokes(a, session[s].employee)'
                         \/ session'[s].employee \in abandoned'
    BY DEF LeftIsExplained, Revokes
  <2> DEFINE e == session[s].employee
  <2>1. /\ e \in Employee /\ session'[s] = session[s] /\ employee[e].status # "DELETED"
        /\ (\E a \in Admin : Revokes(a, e)) \/ e \in abandoned
    BY DEF SessionInv, SessionsTyped, LeftIsExplained
  <2> QED BY <2>1 DEF Revokes
<1> QED BY <1>1, <1>2 DEF SessionInv

\* A request that begins by changing an employee, whose sessions it ends or will revoke.
LEMMA EmployeeChanged ==
  ASSUME SessionInv, NEW a \in Admin, admin[a].pc = "idle", NEW e \in Employee,
         NEW pc \in {"revoke", "invalidate"}, Then(a, pc, {e}, None),
         UNCHANGED <<client, abandoned>>, employee' \in [Employee -> EmployeeRow],
         \A f \in Employee \ {e} : employee'[f] = employee[f],
         session' \in [SessionId -> SessionRow],
         \A s \in SessionId : Active(s)' => Active(s) /\ session'[s] = session[s],
         \A s \in SessionId : Active(s)' /\ session[s].employee = e =>
           \/ pc = "revoke" /\ employee'[e].status # "DELETED"
           \/ employee'[e] = session[s].under
           \/ employee[e] # session[s].under /\ employee'[e].status # "DELETED"
  PROVE  SessionInv'
<1>1. /\ AdminTyped'
      /\ admin'[a].pc = pc /\ admin'[a].employees = {e}
      /\ \A b \in Admin \ {a} : admin'[b] = admin[b]
  <2> DEFINE row == [pc |-> pc, employees |-> {e}, role |-> None]
  <2>1. row \in AdminState /\ row.pc = pc /\ row.employees = {e}
    BY DEF AdminState
  <2>2. admin' = [admin EXCEPT ![a] = row] /\ AdminTyped
    BY DEF Then, SessionInv, SessionsTyped
  <2> HIDE DEF row
  <2> QED BY <2>1, <2>2 DEF AdminTyped
<1>2. SessionsTyped'
  BY <1>1 DEF SessionInv, SessionsTyped
<1>3. OneEmployee'
  BY <1>1 DEF SessionInv, OneEmployee
<1>4. LeftIsExplained'
  <2> SUFFICES ASSUME NEW s \in SessionId, Active(s)', ~session'[s].late,
                      employee'[session'[s].employee] # session'[s].under
               PROVE  /\ employee'[session'[s].employee].status # "DELETED"
                      /\ \/ \E b \in Admin : Revokes(b, session[s].employee)'
                         \/ session'[s].employee \in abandoned'
    BY DEF LeftIsExplained, Revokes
  <2> DEFINE f == session[s].employee
  <2>1. f \in Employee /\ session'[s] = session[s] /\ Active(s) /\ ~session[s].late
    BY DEF SessionInv, SessionsTyped
  <2>2. CASE f = e /\ pc = "revoke" /\ employee'[e].status # "DELETED"
    BY <1>1, <2>1, <2>2 DEF Revokes
  <2>3. CASE employee[f] # session[s].under /\ employee'[f].status # "DELETED"
    <3>1. (\E b \in Admin : Revokes(b, f)) \/ f \in abandoned
      BY <2>1, <2>3 DEF SessionInv, LeftIsExplained
    <3>2. ASSUME NEW b \in Admin, Revokes(b, f) PROVE b # a /\ Revokes(b, session[s].employee)'
      BY <1>1, <2>1, <3>2 DEF Revokes
    <3> QED BY <2>1, <2>3, <3>1, <3>2
  <2>4. CASE f # e
    <3>1. employee'[f] = employee[f] /\ employee[f].status # "DELETED"
      BY <2>1, <2>4 DEF SessionInv, LeftIsExplained
    <3> QED BY <2>1, <2>3, <3>1
  <2> QED BY <2>1, <2>2, <2>3, <2>4
<1> QED BY <1>2, <1>3, <1>4 DEF SessionInv

LEMMA SessionNext == SessionInv /\ [Next]_vars => SessionInv'
<1> SUFFICES ASSUME SessionInv, [Next]_vars PROVE SessionInv'
  OBVIOUS
<1>t. /\ AdminTyped /\ employee \in [Employee -> EmployeeRow]
      /\ session \in [SessionId -> SessionRow] /\ OneEmployee
  BY DEF SessionInv, SessionsTyped
<1>k. session' = session => session' \in [SessionId -> SessionRow]
        /\ \A s \in SessionId : Active(s)' => Active(s) /\ session'[s] = session[s]
  BY <1>t DEF Active
<1>1. ASSUME NEW c \in Client, ClientStep(c), UNCHANGED accessVars PROVE SessionInv'
  BY <1>1, ClientStepInv
<1>2. ASSUME NEW e \in Employee, ReadPermissions(e) \/ StoreFill(e) \/ Expire(e)
      PROVE  SessionInv'
  <2>1. UNCHANGED <<sessionVars, admin, abandoned>>
    BY <1>2 DEF ReadPermissions, StoreFill, Expire
  <2> QED BY <2>1 DEF sessionVars, SessionInv, SessionsTyped, AdminTyped, OneEmployee,
             LeftIsExplained, Revokes, Active
<1>3. ASSUME NEW a \in Admin, NEW e \in Employee, NEW status \in {"ACTIVE", "INACTIVE"},
             SetStatus(a, e, status)
      PROVE  SessionInv'
  <2> DEFINE pc == IF status = "ACTIVE" THEN "invalidate" ELSE "revoke"
  <2>1. /\ Then(a, pc, {e}, None) /\ admin[a].pc = "idle"
        /\ UNCHANGED <<session, client, abandoned>> /\ employee[e].status # "DELETED"
        /\ employee' = [employee EXCEPT ![e].status = status]
    BY <1>3 DEF SetStatus, Begin, Existing
  <2>2. /\ employee' \in [Employee -> EmployeeRow]
        /\ \A f \in Employee \ {e} : employee'[f] = employee[f]
        /\ employee'[e].status = status /\ employee'[e].password = employee[e].password
    BY <1>t, <2>1 DEF EmployeeRow
  <2>3. ASSUME NEW s \in SessionId, Active(s), session[s].employee = e,
               status = "ACTIVE", employee'[e] # session[s].under
        PROVE  employee[e] # session[s].under
    <3>1. /\ employee'[e] \in EmployeeRow /\ employee[e] \in EmployeeRow
          /\ session[s].under.status = "ACTIVE"
      BY <1>t, <2>2, <2>3 DEF SessionInv, SessionsTyped
    <3>2. employee[e].status = "ACTIVE" => employee'[e] = employee[e]
      BY <2>2, <2>3, <3>1 DEF EmployeeRow
    <3> QED BY <2>3, <3>1, <3>2
  <2>4. pc \in {"revoke", "invalidate"} /\ (pc # "revoke" => status = "ACTIVE")
    OBVIOUS
  <2> HIDE DEF pc
  <2>5. \A s \in SessionId : Active(s) /\ session[s].employee = e =>
           \/ pc = "revoke" /\ employee'[e].status # "DELETED"
           \/ employee'[e] = session[s].under
           \/ employee[e] # session[s].under /\ employee'[e].status # "DELETED"
    BY <2>2, <2>3, <2>4
  <2>6. \A s \in SessionId : Active(s)' => Active(s) /\ session'[s] = session[s]
    BY <1>k, <2>1
  <2>7. session' \in [SessionId -> SessionRow]
    BY <1>k, <2>1
  <2> QED BY <2>1, <2>2, <2>4, <2>5, <2>6, <2>7, EmployeeChanged
<1>4. ASSUME NEW a \in Admin, NEW e \in Employee, ChangePassword(a, e) PROVE SessionInv'
  <2>1. /\ Then(a, "revoke", {e}, None) /\ admin[a].pc = "idle"
        /\ UNCHANGED <<session, client, abandoned>> /\ employee[e].status # "DELETED"
        /\ employee' = [employee EXCEPT ![e].password = @ + 1]
        /\ employee[e].password < MaxPasswords
    BY <1>4 DEF ChangePassword, Begin, Existing
  <2>2. /\ employee' \in [Employee -> EmployeeRow]
        /\ \A f \in Employee \ {e} : employee'[f] = employee[f]
        /\ employee'[e].status # "DELETED"
    BY <1>t, <2>1, SessionsAssumption DEF EmployeeRow
  <2> QED BY <1>k, <2>1, <2>2, EmployeeChanged
<1>5. ASSUME NEW a \in Admin, NEW e \in Employee, DeleteEmployee(a, e) PROVE SessionInv'
  <2>1. /\ Then(a, "revoke", {e}, None) /\ admin[a].pc = "idle"
        /\ UNCHANGED <<client, abandoned>>
        /\ employee' = [employee EXCEPT ![e].status = "DELETED"]
        /\ session' = Ended(SessionsOf(e), "FORCE_LOGGED_OUT")
    BY <1>5 DEF DeleteEmployee, Begin, RevokedWith
  <2>2. /\ employee' \in [Employee -> EmployeeRow]
        /\ \A f \in Employee \ {e} : employee'[f] = employee[f]
    BY <1>t, <2>1 DEF EmployeeRow
  <2>3. /\ session' \in [SessionId -> SessionRow]
        /\ \A s \in SessionId : Active(s)' =>
             Active(s) /\ s \notin SessionsOf(e) /\ session'[s] = session[s]
    BY <1>t, <2>1, EndedSessions
  <2>4. \A s \in SessionId : Active(s)' => session[s].employee # e
    BY <2>3 DEF SessionsOf
  <2> QED BY <2>1, <2>2, <2>3, <2>4, EmployeeChanged
\* Requests that touch no employee and begin something that revokes nothing later.
<1>6. ASSUME NEW a \in Admin, NEW pc \in {"assigned", "invalidate"}, NEW S \in SUBSET Employee,
             NEW r \in Role \cup {None}, Then(a, pc, S, r), admin[a].pc # "revoke",
             UNCHANGED <<employee, client, abandoned>>,
             session' \in [SessionId -> SessionRow],
             \A s \in SessionId : Active(s)' => Active(s) /\ session'[s] = session[s]
      PROVE  SessionInv'
  <2>0. pc \in {"idle", "revoke", "assigned", "invalidate"}
    OBVIOUS
  <2>1. /\ AdminTyped' /\ admin'[a].pc = pc
        /\ \A b \in Admin \ {a} : admin'[b] = admin[b]
    BY <1>t, <1>6, <2>0, ThenTyped
  <2>2. OneEmployee'
    BY <1>t, <2>1 DEF OneEmployee
  <2>3. ASSUME NEW e \in Employee, NEW b \in Admin, Revokes(b, e) PROVE Revokes(b, e)'
    BY <1>6, <2>1, <2>3 DEF Revokes
  <2> QED BY <1>6, <2>1, <2>2, <2>3, SessionsKept
<1>7. ASSUME NEW a \in Admin, NEW e \in Employee, NEW r \in Role, AssignRole(a, e, r)
      PROVE  SessionInv'
  <2>1. /\ Then(a, "invalidate", {e}, None) /\ admin[a].pc = "idle"
        /\ UNCHANGED <<employee, client, session, abandoned>>
    BY <1>7 DEF AssignRole, Begin, sessionVars
  <2> QED BY <1>6, <1>k, <2>1
<1>8. ASSUME NEW a \in Admin, NEW r \in Role, SetGrants(a, r) PROVE SessionInv'
  <2>1. /\ Then(a, "assigned", {}, r) /\ admin[a].pc = "idle"
        /\ UNCHANGED <<employee, client, session, abandoned>>
    BY <1>8 DEF SetGrants, Begin, sessionVars
  <2> QED BY <1>6, <1>k, <2>1
<1>9. ASSUME NEW a \in Admin, NEW e \in Employee, ForceLogout(a, e) PROVE SessionInv'
  <2>1. /\ Then(a, "invalidate", {e}, None) /\ admin[a].pc = "idle"
        /\ UNCHANGED <<employee, client, abandoned>>
        /\ session' = Ended(SessionsOf(e), "FORCE_LOGGED_OUT")
    BY <1>9 DEF ForceLogout, Begin, RevokeAll
  <2>2. /\ session' \in [SessionId -> SessionRow]
        /\ \A s \in SessionId : Active(s)' => Active(s) /\ session'[s] = session[s]
    BY <1>t, <2>1, EndedSessions
  <2> QED BY <1>6, <2>1, <2>2
<1>10. ASSUME NEW a \in Admin, FindAssigned(a) PROVE SessionInv'
  <2> DEFINE S == {e \in Employee : role[e] = admin[a].role /\ Existing(e)}
  <2>1. /\ Then(a, "invalidate", S, None) /\ admin[a].pc = "assigned"
        /\ UNCHANGED <<employee, client, session, abandoned>>
    BY <1>10 DEF FindAssigned, sessionVars
  <2>2. S \in SUBSET Employee
    OBVIOUS
  <2> HIDE DEF S
  <2> QED BY <1>6, <1>k, <2>1, <2>2
<1>11. ASSUME NEW a \in Admin, Revoke(a) PROVE SessionInv'
  <2>1. PICK e \in Employee : admin[a].employees = {e} /\ admin[a].pc = "revoke"
    BY <1>11, <1>t DEF Revoke, OneEmployee
  <2>2. /\ session' = Ended(SessionsOf(e), "FORCE_LOGGED_OUT")
        /\ admin' = [admin EXCEPT ![a] = AfterRevoking(a)]
        /\ UNCHANGED <<employee, client, abandoned>>
    BY <1>11, <2>1 DEF Revoke, RevokeAll
  <2>3. /\ session' \in [SessionId -> SessionRow]
        /\ \A s \in SessionId : Active(s)' =>
             Active(s) /\ s \notin SessionsOf(e) /\ session'[s] = session[s]
    BY <1>t, <2>2, EndedSessions
  <2>4. AfterRevoking(a) \in AdminState /\ AfterRevoking(a).pc = "invalidate"
    BY <1>t DEF AfterRevoking, AdminTyped, AdminState
  <2>5. /\ AdminTyped' /\ admin'[a].pc = "invalidate"
        /\ \A b \in Admin \ {a} : admin'[b] = admin[b]
    BY <1>t, <2>2, <2>4 DEF AdminTyped
  <2>6. OneEmployee'
    BY <1>t, <2>5 DEF OneEmployee
  <2>7. \A s \in SessionId : Active(s)' => session'[s].employee # e
    BY <2>3 DEF SessionsOf
  <2>8. ASSUME NEW f \in Employee \ {e}, NEW b \in Admin, Revokes(b, f) PROVE Revokes(b, f)'
    BY <2>1, <2>5, <2>8 DEF Revokes
  <2>9. \A f \in Employee :
          ((\E b \in Admin : Revokes(b, f)) \/ f \in abandoned) =>
            \/ (\E b \in Admin : Revokes(b, f)') \/ f \in abandoned'
            \/ \A s \in SessionId : Active(s)' => session'[s].employee # f
    BY <2>2, <2>7, <2>8
  <2> QED BY <2>2, <2>3, <2>5, <2>6, <2>9, SessionsKept
\* Both ways a request ends.
<1>12. ASSUME NEW a \in Admin, admin' = [admin EXCEPT ![a] = IdleAdmin],
              UNCHANGED <<employee, client, session>>,
              \A e \in Employee : e \in abandoned \/ Revokes(a, e) => e \in abandoned'
       PROVE  SessionInv'
  <2>1. AdminTyped' /\ admin'[a].pc = "idle" /\ \A b \in Admin \ {a} : admin'[b] = admin[b]
    BY <1>t, <1>12, RowsTyped DEF AdminTyped
  <2>2. OneEmployee'
    BY <1>t, <2>1 DEF OneEmployee
  <2>3. ASSUME NEW e \in Employee, NEW b \in Admin \ {a}, Revokes(b, e) PROVE Revokes(b, e)'
    BY <2>1, <2>3 DEF Revokes
  <2> QED BY <1>12, <1>k, <2>1, <2>2, <2>3, SessionsKept
<1>13. ASSUME NEW a \in Admin, Invalidate(a) PROVE SessionInv'
  <2>1. /\ admin[a].pc = "invalidate" /\ admin' = [admin EXCEPT ![a] = IdleAdmin]
        /\ UNCHANGED <<employee, client, session, abandoned>>
    BY <1>13 DEF Invalidate, sessionVars
  <2> QED BY <1>12, <2>1 DEF Revokes
<1>14. ASSUME NEW a \in Admin, AdminFails(a) PROVE SessionInv'
  <2>1. /\ admin' = [admin EXCEPT ![a] = IdleAdmin]
        /\ UNCHANGED <<employee, client, session>>
        /\ abandoned' = abandoned \cup Concerned(a)
    BY <1>14 DEF AdminFails, sessionVars
  <2>2. ASSUME NEW e \in Employee, Revokes(a, e) PROVE e \in Concerned(a)
    BY <2>2 DEF Revokes, Concerned
  <2> QED BY <1>12, <2>1, <2>2
<1>15. CASE UNCHANGED vars
  BY <1>15 DEF vars, sessionVars, accessVars, SessionInv, SessionsTyped, AdminTyped, OneEmployee,
     LeftIsExplained, Revokes, Active
<1> QED
  BY <1>1, <1>2, <1>3, <1>4, <1>5, <1>7, <1>8, <1>9, <1>10, <1>11, <1>13, <1>14, <1>15
     DEF Next, AdminStep, AdminFinishes

LEMMA SessionInvImplies == SessionInv => SessionsEndWithAccess
BY DEF SessionInv, LeftIsExplained, SessionsEndWithAccess, Revokes, Busy, Concerned

\* Deactivating or deleting an employee, or changing the password, ends every session opened
\* before, for any number of employees and requests: what is left was being opened, or the
\* request that ends it is still to do so or stopped half-way; a deletion leaves nothing.
THEOREM AccessEndsSessions == Spec => []SessionsEndWithAccess
BY SessionInit, SessionNext, SessionInvImplies, PTL DEF Spec
-----------------------------------------------------------------------------
(* Types *)

\* What the two invariants above leave of the types.
RestTyped ==
  /\ granted \in SUBSET Role
  /\ fill \in [Employee -> Permission \cup {None}]
  /\ tainted \in SUBSET Employee
  /\ abandoned \in SUBSET Employee
  /\ changes \in 0..MaxChanges

LEMMA RestInit == Init => RestTyped
BY AccessAssumption DEF Init, RestTyped

LEMMA RestNext == RestTyped /\ AdminTyped /\ [Next]_vars => RestTyped'
<1> SUFFICES ASSUME RestTyped, AdminTyped, [Next]_vars PROVE RestTyped'
  OBVIOUS
<1> USE AccessAssumption
<1>1. ASSUME NEW e \in Employee, ReadPermissions(e) \/ StoreFill(e) \/ Expire(e)
      PROVE  RestTyped'
  BY <1>1 DEF ReadPermissions, StoreFill, Expire, FillAfter, Current, Permission, RestTyped
<1>2. ASSUME NEW a \in Admin, NEW request, Begin(a, request)
      PROVE  changes' \in 0..MaxChanges
  BY <1>2 DEF Begin, RestTyped
<1>3. ASSUME NEW a \in Admin, NEW e \in Employee,
             \/ \E status \in {"ACTIVE", "INACTIVE"} : SetStatus(a, e, status)
             \/ ChangePassword(a, e) \/ DeleteEmployee(a, e) \/ ForceLogout(a, e)
             \/ \E r \in Role : AssignRole(a, e, r)
      PROVE  RestTyped'
  <2>1. UNCHANGED <<granted, fill, tainted, abandoned>>
    BY <1>3 DEF SetStatus, ChangePassword, DeleteEmployee, ForceLogout, AssignRole
  <2>2. changes' \in 0..MaxChanges
    BY <1>2, <1>3 DEF SetStatus, ChangePassword, DeleteEmployee, ForceLogout, AssignRole
  <2> QED BY <2>1, <2>2 DEF RestTyped
<1>4. ASSUME NEW a \in Admin, NEW r \in Role, SetGrants(a, r) PROVE RestTyped'
  BY <1>2, <1>4 DEF SetGrants, RestTyped
<1>5. ASSUME NEW a \in Admin, admin[a].pc # "idle", AdminFinishes(a) \/ AdminFails(a)
      PROVE  RestTyped'
  <2>1. admin[a].employees \subseteq Employee
    BY DEF AdminTyped, AdminState
  <2> QED BY <1>5, <2>1 DEF AdminFinishes, FindAssigned, Revoke, Invalidate, AdminFails,
             Concerned, RestTyped
<1>6. ASSUME NEW a \in Admin, AdminFinishes(a) \/ AdminFails(a) PROVE admin[a].pc # "idle"
  BY <1>6 DEF AdminFinishes, FindAssigned, Revoke, Invalidate, AdminFails
<1>7. CASE UNCHANGED accessVars
  BY <1>7 DEF accessVars, RestTyped
<1> QED BY <1>1, <1>3, <1>4, <1>5, <1>6, <1>7 DEF Next, AdminStep, vars

\* Every variable keeps its type: a session, a login and a request record employees and
\* roles that exist, and what is cached or being read is an answer about the permission.
THEOREM AccessTypes == Spec => []TypeOK
<1>1. SessionInv /\ CacheInv /\ RestTyped => TypeOK
  BY DEF SessionInv, SessionsTyped, CacheInv, CacheTyped, AdminTyped, RestTyped, TypeOK,
     SessionsTypeOK
<1>2. CacheInv => AdminTyped
  BY DEF CacheInv, CacheTyped
<1> QED
  BY <1>1, <1>2, SessionInit, SessionNext, CacheInit, CacheNext, RestInit, RestNext, PTL DEF Spec
=============================================================================
