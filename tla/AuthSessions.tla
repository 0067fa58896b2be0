----------------------------- MODULE AuthSessions -----------------------------
(***************************************************************************)
(* Device sessions of employees: login, refresh, logout and revocation     *)
(* (auth.service.js over auth.repository.js).  A login reads the employee, *)
(* verifies the password, looks for sessions and creates one, each in a    *)
(* statement of its own; no index limits the sessions of an employee.      *)
(*                                                                         *)
(* Left out: tokens.  Refreshing replaces the hash of a session that it    *)
(* found active, and neither revives a session nor looks at it again.      *)
(***************************************************************************)
EXTENDS Integers

CONSTANTS
  Employee,      \* accounts
  Device,        \* devices employees log in from
  SessionId,     \* ids of sessions rows
  Client,        \* concurrent login and refresh requests
  None,          \* an absent value
  MaxPasswords   \* bound: changes of an employee's password

ASSUME SessionsAssumption ==
  /\ None \notin Employee \cup Device \cup SessionId
  /\ MaxPasswords \in Nat

VARIABLES
  employee,   \* status and password of employees
  session,    \* sessions
  client      \* local state of each login and refresh

sessionVars == <<employee, session, client>>

\* deletedAt set makes DELETED.
EmployeeRow == [status : {"ACTIVE", "INACTIVE", "DELETED"}, password : 0..MaxPasswords]

\* under: the employee as the login found it; late: whether the employee had changed
\* by the time the session was created.  Both are auxiliary.
SessionRow ==
  [status : {"NONE", "ACTIVE", "ENDED", "FORCE_LOGGED_OUT"}, employee : Employee \cup {None},
   device : Device \cup {None}, under : EmployeeRow, late : BOOLEAN]

\* pc names the next statement.
ClientState ==
  [pc : {"idle", "other", "revoke", "same", "create", "end"}, employee : Employee \cup {None},
   device : Device \cup {None}, session : SessionId \cup {None}, found : EmployeeRow]

NewEmployee == [status |-> "ACTIVE", password |-> 0]

NoSession ==
  [status |-> "NONE", employee |-> None, device |-> None, under |-> NewEmployee, late |-> FALSE]

IdleClient ==
  [pc |-> "idle", employee |-> None, device |-> None, session |-> None, found |-> NewEmployee]

SessionsTypeOK ==
  /\ employee \in [Employee -> EmployeeRow]
  /\ session \in [SessionId -> SessionRow]
  /\ client \in [Client -> ClientState]

SessionsInit ==
  /\ employee = [e \in Employee |-> NewEmployee]
  /\ session = [s \in SessionId |-> NoSession]
  /\ client = [c \in Client |-> IdleClient]

Active(s) == session[s].status = "ACTIVE"

ActiveSessions(e) == {s \in SessionId : Active(s) /\ session[s].employee = e}

\* Nothing else of a session is read once it is no longer active.
EndedRow(status) == [NoSession EXCEPT !.status = status]

\* Both updates that end sessions are conditional on ACTIVE.
Ended(S, status) ==
  [s \in SessionId |-> IF s \in S /\ Active(s) THEN EndedRow(status) ELSE session[s]]

SessionsOf(e) == {s \in SessionId : session[s].employee = e}

\* forceLogoutEmployee: every session of the employee that is active now.
RevokeAll(e) == session' = Ended(SessionsOf(e), "FORCE_LOGGED_OUT")

-----------------------------------------------------------------------------
(* login *)

Goto(c, pc) == client' = [client EXCEPT ![c] = [@ EXCEPT !.pc = pc]]

Answered(c) == client' = [client EXCEPT ![c] = IdleClient]

\* The employee is active as read, and the password is right.
Login(c, e, d) ==
  /\ client[c].pc = "idle"
  /\ employee[e].status = "ACTIVE"
  /\ client' = [client EXCEPT ![c] =
       [pc |-> "other", employee |-> e, device |-> d, session |-> None, found |-> employee[e]]]
  /\ UNCHANGED <<employee, session>>

OnOtherDevice(c) ==
  {s \in ActiveSessions(client[c].employee) : session[s].device # client[c].device}

\* A login that meets another device goes on only if forceLogin is set.
FindOther(c) ==
  /\ client[c].pc = "other"
  /\ IF OnOtherDevice(c) = {} THEN Goto(c, "same")
     ELSE \/ Goto(c, "revoke")
          \/ Answered(c)
  /\ UNCHANGED <<employee, session>>

RevokeOthers(c) ==
  /\ client[c].pc = "revoke"
  /\ RevokeAll(client[c].employee)
  /\ Goto(c, "same")
  /\ UNCHANGED employee

\* A session on this device is taken over: only its hash changes.
FindSame(c) ==
  /\ client[c].pc = "same"
  /\ IF \E s \in ActiveSessions(client[c].employee) : session[s].device = client[c].device
     THEN Answered(c)
     ELSE Goto(c, "create")
  /\ UNCHANGED <<employee, session>>

Unused == {s \in SessionId : session[s].status = "NONE"}

\* Seeded fault: employee and device change places.
SwappedSession(c) ==
  [status |-> "ACTIVE", employee |-> client[c].device, device |-> client[c].employee,
   under |-> client[c].found, late |-> FALSE]

NewSession(c) ==
  LET e == client[c].employee IN
    [status |-> "ACTIVE", employee |-> e, device |-> client[c].device,
     under |-> client[c].found, late |-> employee[e] # client[c].found]

CreateSession(c) ==
  /\ client[c].pc = "create"
  /\ Unused # {}
  /\ session' = [session EXCEPT ![CHOOSE s \in Unused : TRUE] = NewSession(c)]
  /\ Answered(c)
  /\ UNCHANGED employee

-----------------------------------------------------------------------------
(* refresh and logout *)

\* Only a refresh for an employee no longer active goes on to change anything.
ReadForRefresh(c, s) ==
  /\ client[c].pc = "idle"
  /\ Active(s)
  /\ employee[session[s].employee].status # "ACTIVE"
  /\ client' = [client EXCEPT ![c] = [IdleClient EXCEPT !.pc = "end", !.session = s]]
  /\ UNCHANGED <<employee, session>>

\* Logging out is the same statement, for the session the request was authenticated by.
ReadForLogout(c, s) ==
  /\ client[c].pc = "idle"
  /\ Active(s)
  /\ client' = [client EXCEPT ![c] = [IdleClient EXCEPT !.pc = "end", !.session = s]]
  /\ UNCHANGED <<employee, session>>

EndSession(c) ==
  /\ client[c].pc = "end"
  /\ session' = Ended({client[c].session}, "ENDED")
  /\ Answered(c)
  /\ UNCHANGED employee

\* A rejected statement, or the end of the process.
ClientFails(c) ==
  /\ client[c].pc # "idle"
  /\ Answered(c)
  /\ UNCHANGED <<employee, session>>

ClientStep(c) ==
  \/ \E e \in Employee, d \in Device : Login(c, e, d)
  \/ FindOther(c) \/ RevokeOthers(c) \/ FindSame(c) \/ CreateSession(c)
  \/ \E s \in SessionId : ReadForRefresh(c, s) \/ ReadForLogout(c, s)
  \/ EndSession(c) \/ ClientFails(c)
=============================================================================
