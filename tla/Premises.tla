------------------------------- MODULE Premises -------------------------------
(***************************************************************************)
(* What a restaurant is run from: its branches, one of them the main one,  *)
(* and its WhatsApp connections, of which the newest is the one that       *)
(* getConnection, sendMessage, updateConnection and disconnectAccount act  *)
(* on (branch.service.js, whatsapp.service.js and their repositories).     *)
(*                                                                         *)
(* A request reads what it checks first and writes in a later statement;   *)
(* a transaction is one step.  Codes, account ids and phone numbers are    *)
(* left out: a conflict over one ends the request without a change.        *)
(***************************************************************************)
EXTENDS Integers

CONSTANTS
  Branch,          \* ids of branches rows
  Operator,        \* concurrent requests of managers
  OperatorDuties,  \* what each of them does
  MaxConnections,  \* bound: WhatsApp accounts ever connected
  NoBranch         \* an absent value

OperatorRequests == {"create", "update", "connect", "connection"}

ASSUME PremisesAssumption ==
  /\ NoBranch \notin Branch
  /\ OperatorDuties \in [Operator -> SUBSET OperatorRequests]
  /\ MaxConnections \in Nat

ConnectionId == 1..MaxConnections

VARIABLES
  branch,      \* branches
  connection,  \* whatsapp_connections, by order of creation
  operator     \* local state of each request

premisesVars == <<branch, connection, operator>>

BranchStatus == {"ACTIVE", "INACTIVE"}

ConnectionStatus == {"ACTIVE", "DISCONNECTED", "FAILED"}

BranchRow == [status : BranchStatus \cup {"NONE"}, isMain : BOOLEAN]

\* status: what the payload asks for; asMain: the new branch is to be the main one.
OperatorState ==
  [pc : {"idle"} \cup OperatorRequests, branch : Branch \cup {NoBranch},
   connection : 0..MaxConnections, status : BranchStatus \cup ConnectionStatus, asMain : BOOLEAN]

NoOperation ==
  [pc |-> "idle", branch |-> NoBranch, connection |-> 0, status |-> "ACTIVE", asMain |-> FALSE]

PremisesTypeOK ==
  /\ branch \in [Branch -> BranchRow]
  /\ connection \in [ConnectionId -> ConnectionStatus \cup {"NONE"}]
  /\ operator \in [Operator -> OperatorState]

PremisesInit ==
  /\ branch = [b \in Branch |-> [status |-> "NONE", isMain |-> FALSE]]
  /\ connection = [c \in ConnectionId |-> "NONE"]
  /\ operator = [o \in Operator |-> NoOperation]

Branches == {b \in Branch : branch[b].status # "NONE"}

Connections == {c \in ConnectionId : connection[c] # "NONE"}

\* findConnectionByTenant: orderBy createdAt desc, whatever its status.
NewestConnection(c) == c \in Connections /\ \A d \in Connections : d <= c

Begin(o, request) ==
  /\ operator[o].pc = "idle"
  /\ request.pc \in OperatorDuties[o]
  /\ operator' = [operator EXCEPT ![o] = request]
  /\ UNCHANGED <<branch, connection>>

Finish(o) == operator' = [operator EXCEPT ![o] = NoOperation]

-----------------------------------------------------------------------------
(* Branches *)

MayBeMain(asMain) == asMain => \A b \in Branches : ~branch[b].isMain

ReadForBranch(o, asMain, status) ==
  /\ MayBeMain(asMain)
  /\ Begin(o, [NoOperation EXCEPT !.pc = "create", !.asMain = asMain, !.status = status])

CreateBranch(o) ==
  /\ operator[o].pc = "create"
  /\ \E b \in Branch \ Branches :
       branch' = [branch EXCEPT ![b] =
         [status |-> operator[o].status, isMain |-> operator[o].asMain]]
  /\ Finish(o)
  /\ UNCHANGED connection

MayBecome(b, status) == branch[b].isMain => status = "ACTIVE"

\* updateBranch, and deleteBranch, which deactivates.
ReadForBranchUpdate(o, b, status) ==
  /\ b \in Branches
  /\ MayBecome(b, status)
  /\ Begin(o, [NoOperation EXCEPT !.pc = "update", !.branch = b, !.status = status])

UpdateBranch(o) ==
  /\ operator[o].pc = "update"
  /\ branch' = [branch EXCEPT ![operator[o].branch].status = operator[o].status]
  /\ Finish(o)
  /\ UNCHANGED connection

-----------------------------------------------------------------------------
(* WhatsApp connections *)

ReadForConnect(o) == Begin(o, [NoOperation EXCEPT !.pc = "connect"])

\* Seeded fault: the connection that was ACTIVE before stays so.
NothingDisconnected(rows, kept) == rows

\* Every connection that is ACTIVE, except one, is disconnected.
Disconnected(rows, kept) ==
  [c \in ConnectionId |-> IF rows[c] = "ACTIVE" /\ c # kept THEN "DISCONNECTED" ELSE rows[c]]

CreateConnection(o) ==
  /\ operator[o].pc = "connect"
  /\ \E c \in ConnectionId :
       /\ connection[c] = "NONE"
       /\ \A d \in ConnectionId : d < c => connection[d] # "NONE"
       /\ connection' = [Disconnected(connection, c) EXCEPT ![c] = "ACTIVE"]
  /\ Finish(o)
  /\ UNCHANGED branch

\* updateConnection with a status, and disconnectAccount.
ReadForConnection(o, c, status) ==
  /\ NewestConnection(c)
  /\ Begin(o, [NoOperation EXCEPT !.pc = "connection", !.connection = c, !.status = status])

UpdateConnection(o) ==
  LET c    == operator[o].connection
      rows == IF operator[o].status = "ACTIVE" THEN Disconnected(connection, c) ELSE connection IN
    /\ operator[o].pc = "connection"
    /\ connection' = [rows EXCEPT ![c] = operator[o].status]
    /\ Finish(o)
    /\ UNCHANGED branch

OperatorFails(o) ==
  /\ operator[o].pc # "idle"
  /\ Finish(o)
  /\ UNCHANGED <<branch, connection>>

PremisesStep ==
  \E o \in Operator :
    \/ \E status \in BranchStatus :
         \/ \E asMain \in BOOLEAN : ReadForBranch(o, asMain, status)
         \/ \E b \in Branch : ReadForBranchUpdate(o, b, status)
    \/ CreateBranch(o) \/ UpdateBranch(o)
    \/ ReadForConnect(o) \/ CreateConnection(o)
    \/ \E c \in ConnectionId, status \in ConnectionStatus : ReadForConnection(o, c, status)
    \/ UpdateConnection(o) \/ OperatorFails(o)

-----------------------------------------------------------------------------
(* Properties *)

\* An active connection is the one that replies are sent by and that a disconnect ends,
\* and there is no other, as long as one manager at a time changes connections.
OnlyNewestIsActive == \A c \in ConnectionId : connection[c] = "ACTIVE" => NewestConnection(c)
=============================================================================
