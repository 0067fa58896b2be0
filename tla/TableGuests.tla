----------------------------- MODULE TableGuests -----------------------------
(***************************************************************************)
(* The guests of one table session beside their orders: joining it with    *)
(* the PIN, the lockout after wrong PINs, and calls for the waiter         *)
(* (table-session.service.js).  Each handler reads the session, or its     *)
(* oldest active call, and acts on what it read in later statements.       *)
(*                                                                         *)
(* The clock is one action that ends a lockout; how long it lasts is left  *)
(* out, and so is which PIN is the right one.                              *)
(***************************************************************************)
EXTENDS Integers, FiniteSets

CONSTANTS
  Guest,         \* concurrent requests of customers
  Waiter,        \* employees, each with one request at a time
  MaxCalls,      \* bound: calls ever made
  MaxMembers,    \* bound: members ever added
  MaxWrongPins,  \* bound: wrong PINs ever given
  NoWaiter       \* an absent employee

ASSUME GuestsAssumption ==
  /\ MaxCalls \in Nat
  /\ MaxMembers \in Nat
  /\ MaxWrongPins \in Nat
  /\ NoWaiter \notin Waiter

CallId == 1..MaxCalls

\* LOCKOUT_LEVELS
FailAfter == 3

VARIABLES
  seating,   \* the table_sessions row
  members,   \* how many table_session_members it has
  call,      \* table_session_waiter_calls, by order of creation
  guest,     \* local state of each customer's request
  waiter,    \* local state of each employee's request
  wrongPins  \* wrong PINs given since the session opened

guestVars == <<seating, members, call, guest, waiter, wrongPins>>

Seating == [open : BOOLEAN, failedAttempts : Nat, locked : BOOLEAN]

ActiveCall == {"PENDING", "ACCEPTED"}

CallRow ==
  [status : ActiveCall \cup {"NONE", "DISMISSED"}, acceptedBy : Waiter \cup {NoWaiter}]

\* failedAttempts: as the request read it.
GuestState == [pc : {"idle", "compare", "join", "introduce", "call"}, failedAttempts : Nat]

WaiterState == [pc : {"idle", "accept", "dismiss", "close"}, call : 0..MaxCalls]

NoGuest == [pc |-> "idle", failedAttempts |-> 0]

NoService == [pc |-> "idle", call |-> 0]

GuestsTypeOK ==
  /\ seating \in Seating
  /\ members \in 0..MaxMembers
  /\ call \in [CallId -> CallRow]
  /\ guest \in [Guest -> GuestState]
  /\ waiter \in [Waiter -> WaiterState]
  /\ wrongPins \in 0..MaxWrongPins

GuestsInit ==
  /\ seating = [open |-> TRUE, failedAttempts |-> 0, locked |-> FALSE]
  /\ members = 0
  /\ call = [c \in CallId |-> [status |-> "NONE", acceptedBy |-> NoWaiter]]
  /\ guest = [g \in Guest |-> NoGuest]
  /\ waiter = [w \in Waiter |-> NoService]
  /\ wrongPins = 0

GuestGoes(g, pc) == guest' = [guest EXCEPT ![g].pc = pc]

GuestDone(g) == guest' = [guest EXCEPT ![g] = NoGuest]

WaiterGoes(w, pc, c) == waiter' = [waiter EXCEPT ![w] = [pc |-> pc, call |-> c]]

WaiterDone(w) == waiter' = [waiter EXCEPT ![w] = NoService]

-----------------------------------------------------------------------------
(* Joining *)

ReadForJoin(g) ==
  /\ guest[g].pc = "idle"
  /\ seating.open /\ ~seating.locked
  /\ guest' = [guest EXCEPT ![g] =
       [pc |-> "compare", failedAttempts |-> seating.failedAttempts]]
  /\ UNCHANGED <<seating, members, call, waiter, wrongPins>>

\* Seeded fault: the last attempt that is still allowed already locks.
LocksEarly(failed) == failed + 1 >= FailAfter

Locks(failed) == failed >= FailAfter

\* The lockout is written as this request sees it, over what others wrote meanwhile.
RefusePin(g) ==
  LET failed == guest[g].failedAttempts + 1 IN
    /\ guest[g].pc = "compare"
    /\ wrongPins < MaxWrongPins
    /\ wrongPins' = wrongPins + 1
    /\ seating' = [seating EXCEPT !.failedAttempts = failed, !.locked = Locks(failed)]
    /\ GuestDone(g)
    /\ UNCHANGED <<members, call, waiter>>

AcceptPin(g) ==
  /\ guest[g].pc = "compare"
  /\ seating' = [seating EXCEPT !.failedAttempts = 0, !.locked = FALSE]
  /\ GuestGoes(g, "join")
  /\ UNCHANGED <<members, call, waiter, wrongPins>>

AddMember(g) ==
  /\ guest[g].pc \in {"join", "introduce"}
  /\ members < MaxMembers
  /\ members' = members + 1
  /\ IF guest[g].pc = "join" THEN GuestDone(g) ELSE GuestGoes(g, "call")
  /\ UNCHANGED <<seating, call, waiter, wrongPins>>

LockoutEnds ==
  /\ seating.locked
  /\ seating' = [seating EXCEPT !.locked = FALSE]
  /\ UNCHANGED <<members, call, guest, waiter, wrongPins>>

-----------------------------------------------------------------------------
(* Calls for the waiter *)

ActiveCalls == {c \in CallId : call[c].status \in ActiveCall}

\* findActiveWaiterCall: orderBy createdAt asc.
Oldest(c) == c \in ActiveCalls /\ \A d \in ActiveCalls : c <= d

\* A call is made in the name of a member, added first when the session has none.
ReadForCall(g) ==
  /\ guest[g].pc = "idle"
  /\ seating.open
  /\ ActiveCalls = {}
  /\ GuestGoes(g, IF members = 0 THEN "introduce" ELSE "call")
  /\ UNCHANGED <<seating, members, call, waiter, wrongPins>>

CreateCall(g) ==
  /\ guest[g].pc = "call"
  /\ \E c \in CallId :
       /\ call[c].status = "NONE"
       /\ \A d \in CallId : d < c => call[d].status # "NONE"
       /\ call' = [call EXCEPT ![c] = [status |-> "PENDING", acceptedBy |-> NoWaiter]]
  /\ GuestDone(g)
  /\ UNCHANGED <<seating, members, waiter, wrongPins>>

ReadForAccept(w) ==
  /\ waiter[w].pc = "idle"
  /\ \E c \in CallId : Oldest(c) /\ call[c].status = "PENDING" /\ WaiterGoes(w, "accept", c)
  /\ UNCHANGED <<seating, members, call, guest, wrongPins>>

\* Seeded fault: the update that accepts does not require the call to be pending.
AcceptsAny(c) == call[c].status # "NONE"

Accepts(c) == call[c].status = "PENDING"

\* The update is conditional; its count is not looked at.
AcceptCall(w) ==
  LET c == waiter[w].call IN
    /\ waiter[w].pc = "accept"
    /\ call' = IF Accepts(c)
               THEN [call EXCEPT ![c] = [status |-> "ACCEPTED", acceptedBy |-> w]]
               ELSE call
    /\ WaiterDone(w)
    /\ UNCHANGED <<seating, members, guest, wrongPins>>

ReadForDismiss(w) ==
  /\ waiter[w].pc = "idle"
  /\ \E c \in CallId : Oldest(c) /\ WaiterGoes(w, "dismiss", c)
  /\ UNCHANGED <<seating, members, call, guest, wrongPins>>

\* Seeded fault: a status the column (a plain string) takes but nothing reads.
DismissedAsClosed == "CLOSED"

DismissedStatus == "DISMISSED"

DismissCall(w) ==
  LET c == waiter[w].call IN
    /\ waiter[w].pc = "dismiss"
    /\ call' = IF call[c].status \in ActiveCall
               THEN [call EXCEPT ![c].status = DismissedStatus] ELSE call
    /\ WaiterDone(w)
    /\ UNCHANGED <<seating, members, guest, wrongPins>>

\* What closeSession does to the rows above: calls stay as they are.
ReadToClose(w) ==
  /\ waiter[w].pc = "idle"
  /\ seating.open
  /\ WaiterGoes(w, "close", 0)
  /\ UNCHANGED <<seating, members, call, guest, wrongPins>>

Close(w) ==
  /\ waiter[w].pc = "close"
  /\ seating' = [seating EXCEPT !.open = FALSE]
  /\ WaiterDone(w)
  /\ UNCHANGED <<members, call, guest, wrongPins>>

\* The process dies or the next statement of a request fails.
GuestFails(g) ==
  /\ guest[g].pc # "idle"
  /\ GuestDone(g)
  /\ UNCHANGED <<seating, members, call, waiter, wrongPins>>

WaiterFails(w) ==
  /\ waiter[w].pc # "idle"
  /\ WaiterDone(w)
  /\ UNCHANGED <<seating, members, call, guest, wrongPins>>

GuestsStep ==
  \/ \E g \in Guest :
       \/ ReadForJoin(g) \/ RefusePin(g) \/ AcceptPin(g) \/ AddMember(g)
       \/ ReadForCall(g) \/ CreateCall(g) \/ GuestFails(g)
  \/ \E w \in Waiter :
       \/ ReadForAccept(w) \/ AcceptCall(w) \/ ReadForDismiss(w) \/ DismissCall(w)
       \/ ReadToClose(w) \/ Close(w) \/ WaiterFails(w)
  \/ LockoutEnds

-----------------------------------------------------------------------------
(* Properties *)

\* A call belongs to the employee who accepted it first and a dismissed call stays
\* dismissed, although every employee acts on a call looked up before.
CallsDecidedOnce ==
  [][\A c \in CallId :
       /\ call[c].acceptedBy # NoWaiter => call'[c].acceptedBy = call[c].acceptedBy
       /\ call[c].status = "DISMISSED" => call'[c] = call[c]]_call

\* Requests count failures on what they read and write the count back over each other's,
\* but never count a PIN nobody got wrong: a table is locked only after three wrong PINs.
LockoutsAreEarned ==
  /\ seating.failedAttempts <= wrongPins
  /\ seating.locked => wrongPins >= FailAfter
=============================================================================
