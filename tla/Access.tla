-------------------------------- MODULE Access --------------------------------
(***************************************************************************)
(* What an employee may do: roles and their permissions, the cache the     *)
(* permissions are served from (cache.js, authorize.middleware.js), and    *)
(* the requests of administrators that change roles and employees, revoke  *)
(* sessions (AuthSessions) and delete cached permissions, one statement    *)
(* after another.                                                          *)
(*                                                                         *)
(* A role is modelled by whether it grants one permission.  The server is  *)
(* one process: fills of one key in flight are shared.                     *)
(***************************************************************************)
EXTENDS AuthSessions

CONSTANTS
  Role,         \* roles of the restaurant
  StartRoles,   \* inputs: roles employees may have at the start
  Admin,        \* concurrent requests of administrators
  Requests,     \* inputs: requests administrators make
  MaxChanges    \* bound: requests administrators make

ASSUME AccessAssumption ==
  /\ StartRoles \subseteq Role
  /\ Requests \subseteq {"status", "password", "delete", "role", "grants", "force"}
  /\ MaxChanges \in Nat

VARIABLES
  role,        \* the role of each employee
  granted,     \* role_permissions: the roles that grant the permission
  cache,       \* Redis: permissions by employee
  fill,        \* the fill in flight for each employee
  admin,       \* local state of each administrator's request
  tainted,     \* auxiliary: entries wrong when stored, or whose deletion failed
  abandoned,   \* auxiliary: employees for whom a request stopped half-way
  changes      \* requests made so far

accessVars == <<role, granted, cache, fill, admin, tainted, abandoned, changes>>

vars == <<sessionVars, accessVars>>

Permission == {"granted", "denied"}

\* pc names the next statement.
AdminState ==
  [pc : {"idle", "revoke", "assigned", "invalidate"}, employees : SUBSET Employee,
   role : Role \cup {None}]

IdleAdmin == [pc |-> "idle", employees |-> {}, role |-> None]

TypeOK ==
  /\ SessionsTypeOK
  /\ role \in [Employee -> Role]
  /\ granted \in SUBSET Role
  /\ cache \in [Employee -> Permission \cup {None}]
  /\ fill \in [Employee -> Permission \cup {None}]
  /\ admin \in [Admin -> AdminState]
  /\ tainted \in SUBSET Employee
  /\ abandoned \in SUBSET Employee
  /\ changes \in 0..MaxChanges

Init ==
  /\ SessionsInit
  /\ role \in [Employee -> StartRoles]
  /\ granted = Role
  /\ cache = [e \in Employee |-> None]
  /\ fill = [e \in Employee |-> None]
  /\ admin = [a \in Admin |-> IdleAdmin]
  /\ tainted = {}
  /\ abandoned = {}
  /\ changes = 0

\* What the database says; an employee who is not active has no permissions to cache.
Current(e) ==
  IF employee[e].status # "ACTIVE" THEN None
  ELSE IF role[e] \in granted THEN "granted" ELSE "denied"

-----------------------------------------------------------------------------
(* The permission cache *)

\* A miss, or a read Redis refuses, starts a fill unless one is in flight, which the
\* request then shares.  The fill begins when it reads; for an employee without
\* permissions it ends there, in an error.
ReadPermissions(e) ==
  /\ fill[e] = None
  /\ Current(e) # None
  /\ fill' = [fill EXCEPT ![e] = Current(e)]
  /\ UNCHANGED <<sessionVars, role, granted, cache, admin, tainted, abandoned, changes>>

\* Seeded fault: a fill that ended stays the one in flight, and is shared for ever.
FillStays(e) == fill[e]

FillAfter(e) == None

\* What was read is stored, whatever happened since; Redis may refuse.
StoreFill(e) ==
  /\ fill[e] \in Permission
  /\ \/ /\ cache' = [cache EXCEPT ![e] = fill[e]]
        /\ tainted' = IF fill[e] = Current(e) THEN tainted \ {e} ELSE tainted \cup {e}
     \/ UNCHANGED <<cache, tainted>>
  /\ fill' = [fill EXCEPT ![e] = FillAfter(e)]
  /\ UNCHANGED <<sessionVars, role, granted, admin, abandoned, changes>>

\* Seeded fault: entries are stored without a time to live.
NeverExpires(e) == FALSE

Expires(e) == cache[e] # None

Expire(e) ==
  /\ Expires(e)
  /\ cache' = [cache EXCEPT ![e] = None]
  /\ tainted' = tainted \ {e}
  /\ UNCHANGED <<sessionVars, role, granted, fill, admin, abandoned, changes>>

-----------------------------------------------------------------------------
(* Requests of administrators: first the change, then what follows from it *)

Begin(a, request) ==
  /\ admin[a].pc = "idle"
  /\ request \in Requests
  /\ changes < MaxChanges
  /\ changes' = changes + 1

Then(a, pc, employees, r) ==
  admin' = [admin EXCEPT ![a] = [pc |-> pc, employees |-> employees, role |-> r]]

Existing(e) == employee[e].status # "DELETED"

\* updateEmployee: a status other than ACTIVE revokes the sessions.
SetStatus(a, e, status) ==
  /\ Begin(a, "status") /\ Existing(e)
  /\ employee' = [employee EXCEPT ![e].status = status]
  /\ Then(a, IF status = "ACTIVE" THEN "invalidate" ELSE "revoke", {e}, None)
  /\ UNCHANGED <<session, client, role, granted, cache, fill, tainted, abandoned>>

ChangePassword(a, e) ==
  /\ Begin(a, "password") /\ Existing(e)
  /\ employee[e].password < MaxPasswords
  /\ employee' = [employee EXCEPT ![e].password = @ + 1]
  /\ Then(a, "revoke", {e}, None)
  /\ UNCHANGED <<session, client, role, granted, cache, fill, tainted, abandoned>>

\* Seeded fault: the deletion leaves the sessions to the statement that follows.
RevokedLater(e) == session

RevokedWith(e) == Ended(SessionsOf(e), "FORCE_LOGGED_OUT")

\* The employee and the sessions go in one transaction, then the sessions once more.
DeleteEmployee(a, e) ==
  /\ Begin(a, "delete") /\ Existing(e)
  /\ employee' = [employee EXCEPT ![e].status = "DELETED"]
  /\ session' = RevokedWith(e)
  /\ Then(a, "revoke", {e}, None)
  /\ UNCHANGED <<client, role, granted, cache, fill, tainted, abandoned>>

AssignRole(a, e, r) ==
  /\ Begin(a, "role") /\ Existing(e)
  /\ role' = [role EXCEPT ![e] = r]
  /\ Then(a, "invalidate", {e}, None)
  /\ UNCHANGED <<sessionVars, granted, cache, fill, tainted, abandoned>>

\* roleService.updateRole: the employees who hold the role are looked up afterwards.
SetGrants(a, r) ==
  /\ Begin(a, "grants")
  /\ granted' \in {granted \cup {r}, granted \ {r}}
  /\ Then(a, "assigned", {}, r)
  /\ UNCHANGED <<sessionVars, role, cache, fill, tainted, abandoned>>

FindAssigned(a) ==
  /\ admin[a].pc = "assigned"
  /\ Then(a, "invalidate", {e \in Employee : role[e] = admin[a].role /\ Existing(e)}, None)
  /\ UNCHANGED <<sessionVars, role, granted, cache, fill, tainted, abandoned, changes>>

ForceLogout(a, e) ==
  /\ Begin(a, "force")
  /\ RevokeAll(e)
  /\ Then(a, "invalidate", {e}, None)
  /\ UNCHANGED <<employee, client, role, granted, cache, fill, tainted, abandoned>>

\* Seeded fault: revoking sessions ends the request.
DoneAfterRevoking(a) == IdleAdmin

AfterRevoking(a) == [admin[a] EXCEPT !.pc = "invalidate"]

Revoke(a) ==
  /\ admin[a].pc = "revoke"
  /\ \E e \in admin[a].employees : RevokeAll(e)
  /\ admin' = [admin EXCEPT ![a] = AfterRevoking(a)]
  /\ UNCHANGED <<employee, client, role, granted, cache, fill, tainted, abandoned, changes>>

\* Redis may refuse, which is logged and forgotten.
Invalidate(a) ==
  LET keys == admin[a].employees IN
    /\ admin[a].pc = "invalidate"
    /\ \/ /\ cache' = [e \in Employee |-> IF e \in keys THEN None ELSE cache[e]]
          /\ tainted' = tainted \ keys
       \/ /\ tainted' = tainted \cup {e \in keys : cache[e] # None}
          /\ UNCHANGED cache
    /\ admin' = [admin EXCEPT ![a] = IdleAdmin]
    /\ UNCHANGED <<sessionVars, role, granted, fill, abandoned, changes>>

\* The employees a request has still something to do for.
Concerned(a) ==
  IF admin[a].pc = "assigned" THEN Employee ELSE admin[a].employees

AdminFails(a) ==
  /\ admin[a].pc # "idle"
  /\ abandoned' = abandoned \cup Concerned(a)
  /\ admin' = [admin EXCEPT ![a] = IdleAdmin]
  /\ UNCHANGED <<sessionVars, role, granted, cache, fill, tainted, changes>>

AdminFinishes(a) == FindAssigned(a) \/ Revoke(a) \/ Invalidate(a)

AdminStep(a) ==
  \/ \E e \in Employee :
       \/ \E status \in {"ACTIVE", "INACTIVE"} : SetStatus(a, e, status)
       \/ ChangePassword(a, e) \/ DeleteEmployee(a, e) \/ ForceLogout(a, e)
       \/ \E r \in Role : AssignRole(a, e, r)
  \/ \E r \in Role : SetGrants(a, r)
  \/ AdminFinishes(a) \/ AdminFails(a)

Next ==
  \/ \E c \in Client : ClientStep(c) /\ UNCHANGED accessVars
  \/ \E e \in Employee : ReadPermissions(e) \/ StoreFill(e) \/ Expire(e)
  \/ \E a \in Admin : AdminStep(a)

\* Database and Redis answer, and Redis counts the seconds of every entry.
Fairness ==
  /\ \A e \in Employee : WF_vars(StoreFill(e)) /\ WF_vars(Expire(e))
  /\ \A a \in Admin : WF_vars(AdminFinishes(a))

Spec == Init /\ [][Next]_vars /\ Fairness

-----------------------------------------------------------------------------
(* Properties *)

Busy(e) == \E a \in Admin : admin[a].pc # "idle" /\ e \in Concerned(a)

\* Deactivating an employee, or changing the password, ends the sessions opened before:
\* what is still active afterwards is a session whose login was under way at the change.
\* For a deletion this holds even if the request stops half-way.
SessionsEndWithAccess ==
  \A s \in SessionId :
    LET e == session[s].employee IN
      (Active(s) /\ ~session[s].late /\ employee[e] # session[s].under) =>
        employee[e].status # "DELETED" /\ (Busy(e) \/ e \in abandoned)

\* A cached permission that was right when it was stored is deleted by whoever changes
\* it, whichever of role, grants and status that was and however requests overlap.
ChangesAreInvalidated ==
  \A e \in Employee :
    (cache[e] # None /\ cache[e] # Current(e)) => (Busy(e) \/ e \in tainted \cup abandoned)

\* Even when Redis fails, requests stop half-way, or a fill stores what it read before
\* the change: once changes stop, nobody is served a wrong permission for ever.
StalenessEnds ==
  <>[](\A e \in Employee : cache[e] # None => cache[e] = Current(e))
=============================================================================
