---------------------------- MODULE TableSessions ----------------------------
(***************************************************************************)
(* Table sessions: table-session.service.js over                           *)
(* table-session.repository.js, composed with the order component, of      *)
(* which only the abstract specification OrderLifecycle is used.           *)
(*                                                                         *)
(* The guests of a table fill a shared cart and submit it as a numbered    *)
(* round; staff confirm the round, which bills it to an order, or return   *)
(* it, and finally close the session.  Only confirmation is a transaction: *)
(* every other handler is a sequence of separate statements, each of which *)
(* commits by itself and acts on what an earlier one read.                 *)
(*                                                                         *)
(* Left out: prices (a total is determined by the quantities billed), PINs *)
(* and members (see TableGuests), and the in-process start lock, which     *)
(* orders two callers only and leaves the guarantee to the database's      *)
(* unique index.                                                           *)
(***************************************************************************)
EXTENDS Integers, FiniteSets, OrderStates

CONSTANTS
  Table,        \* tables of the branch
  SessionId,    \* ids of table_sessions rows
  RoundId,      \* ids of table_session_orders rows
  ItemId,       \* ids of table_session_items rows
  OrderId,      \* ids of orders
  Staff,        \* concurrent requests of employees
  Guest,        \* concurrent requests of customers
  None,         \* an absent value
  MaxQuantity,  \* bound: quantity of an item
  StaffRequests, \* inputs: requests employees make, among start, confirm, reject, close
  GuestRequests, \* inputs: requests customers make, among add, edit, submit
  OrderMoves    \* inputs: what other handlers do to orders, among advance, cancel, pay

ASSUME SessionsAssumption ==
  /\ None \notin Table \cup SessionId \cup RoundId \cup ItemId \cup OrderId
  /\ MaxQuantity \in Nat \ {0}
  /\ StaffRequests \subseteq {"start", "confirm", "reject", "close"}
  /\ GuestRequests \subseteq {"add", "edit", "submit"}
  /\ OrderMoves \subseteq {"advance", "cancel", "pay"}

VARIABLES
  session,    \* table_sessions
  round,      \* table_session_orders
  item,       \* table_session_items
  table,      \* restaurant_tables.status
  handler,    \* local state of each request
  bill,       \* order_items: the table of each order and the rounds billed to it
  \* the order component
  orderStatus, orderPayment, orderTotal, collected

orderVars == <<orderStatus, orderPayment, orderTotal, collected>>

vars == <<session, round, item, table, handler, bill, orderStatus, orderPayment, orderTotal,
          collected>>

Order == INSTANCE OrderLifecycle WITH
  status <- orderStatus, payment <- orderPayment, total <- orderTotal,
  type <- [o \in OrderId |-> "DINE_IN"]

-----------------------------------------------------------------------------
(* Rows and local states *)

OpenStatus == {"ACTIVE", "AWAITING_CONFIRMATION"}

SessionRow ==
  [status : OpenStatus \cup {"NONE", "CLOSED"}, table : Table \cup {None},
   confirmedOrder : OrderId \cup {None}]

\* What a round is made of: the quantity of each item linked to it.
Quantities == [ItemId -> 0..MaxQuantity]

Nothing == [i \in ItemId |-> 0]

RoundRow ==
  [status : {"NONE", "AWAITING_CONFIRMATION", "CONFIRMED", "CANCELLED", "DELETED"},
   session : SessionId \cup {None}, orderNumber : Nat,
   order : OrderId \cup {None}, billed : Quantities]

NoRound ==
  [status |-> "NONE", session |-> None, orderNumber |-> 0, order |-> None, billed |-> Nothing]

\* A removed item keeps quantity 0.
ItemRow ==
  [session : SessionId \cup {None}, round : RoundId \cup {None}, quantity : 0..MaxQuantity]

Bill == [table : Table \cup {None}, rounds : SUBSET RoundId]

\* pc names the last step done: read... = the checks passed on what was read.
HandlerState ==
  [pc : {"idle", "readStart", "created",
         "readAdd", "readEdit",
         "readSubmit", "numbered", "inserted", "linked",
         "readConfirm", "locked",
         "readReject", "found", "unlinked", "deleted",
         "readClose", "settled", "cancelled", "closed"},
   table : Table \cup {None}, session : SessionId \cup {None},
   confirmedOrder : OrderId \cup {None}, item : ItemId \cup {None},
   round : RoundId \cup {None}, orderNumber : Nat,
   locks : SUBSET RoundId, items : Quantities]

Idle ==
  [pc |-> "idle", table |-> None, session |-> None, confirmedOrder |-> None, item |-> None,
   round |-> None, orderNumber |-> 0, locks |-> {}, items |-> Nothing]

TypeOK ==
  /\ session \in [SessionId -> SessionRow]
  /\ round \in [RoundId -> RoundRow]
  /\ item \in [ItemId -> ItemRow]
  /\ table \in [Table -> {"AVAILABLE", "OCCUPIED"}]
  /\ handler \in [Staff \cup Guest -> HandlerState]
  /\ bill \in [OrderId -> Bill]
  /\ Order!LifecycleTypeOK

Init ==
  /\ session = [s \in SessionId |-> [status |-> "NONE", table |-> None, confirmedOrder |-> None]]
  /\ round = [r \in RoundId |-> NoRound]
  /\ item = [i \in ItemId |-> [session |-> None, round |-> None, quantity |-> 0]]
  /\ table = [t \in Table |-> "AVAILABLE"]
  /\ handler = [h \in Staff \cup Guest |-> Idle]
  /\ bill = [o \in OrderId |-> [table |-> None, rounds |-> {}]]
  /\ Order!LifecycleInit

Open(s) == session[s].status \in OpenStatus

Known(s) == session[s].status # "NONE"

OpenOn(t) == {s \in SessionId : Open(s) /\ session[s].table = t}

\* Seeded fault: the round to decide is looked up whatever was decided about it.
PresentRounds(s) == {r \in RoundId : round[r].session = s /\ round[r].status # "DELETED"}

AwaitingRounds(s) ==
  {r \in RoundId : round[r].session = s /\ round[r].status = "AWAITING_CONFIRMATION"}

Cart(s) == {i \in ItemId : item[i].session = s /\ item[i].round = None /\ item[i].quantity > 0}

ItemsOf(r) == [i \in ItemId |-> IF item[i].round = r THEN item[i].quantity ELSE 0]

Appendable(o) == o # None /\ orderStatus[o] \in ActiveStatus /\ orderPayment[o] = "PENDING"

At(h, pc) == handler[h].pc = pc

Goto(h, pc) == handler' = [handler EXCEPT ![h] = [@ EXCEPT !.pc = pc]]

Done(h) == handler' = [handler EXCEPT ![h] = Idle]

\* A request that has read session s and passed its checks.
Begin(h, pc, s) ==
  handler' = [handler EXCEPT ![h] = [Idle EXCEPT !.pc = pc, !.session = s,
                                       !.confirmedOrder = session[s].confirmedOrder]]

\* Seeded fault: no unique index on open sessions.
MayAlwaysOpen(s, t) == TRUE

\* table_sessions_single_active_per_table: the row may be written as open.
MayOpen(s, t) == OpenOn(t) \ {s} = {}

\* setSessionStatus is unconditional; the unique index may refuse to reopen.
SetStatus(s, status) ==
  session' = IF status \in OpenStatus /\ ~MayOpen(s, session[s].table)
             THEN session
             ELSE [session EXCEPT ![s] = [@ EXCEPT !.status = status]]

\* Rows another request's confirmation transaction holds FOR UPDATE.
Locked(r) == \E h \in Staff : r \in handler[h].locks

rows == <<session, round, item, table, bill>>

-----------------------------------------------------------------------------
(* startSession *)

ReadForStart(h) ==
  /\ "start" \in StaffRequests
  /\ At(h, "idle")
  /\ \E t \in Table :
       /\ OpenOn(t) = {}
       /\ handler' = [handler EXCEPT ![h] = [Idle EXCEPT !.pc = "readStart", !.table = t]]
  /\ UNCHANGED <<rows, orderVars>>

CreateSession(h) ==
  LET t == handler[h].table IN
    /\ At(h, "readStart")
    /\ \E s \in SessionId :
         /\ ~Known(s)
         /\ IF MayOpen(s, t)
            THEN /\ session' = [session EXCEPT ![s] =
                      [status |-> "ACTIVE", table |-> t, confirmedOrder |-> None]]
                 /\ Goto(h, "created")
            ELSE Done(h) /\ UNCHANGED session
    /\ UNCHANGED <<round, item, table, bill, orderVars>>

OccupyTable(h) ==
  /\ At(h, "created")
  /\ table' = [table EXCEPT ![handler[h].table] = "OCCUPIED"]
  /\ Done(h)
  /\ UNCHANGED <<session, round, item, bill, orderVars>>

-----------------------------------------------------------------------------
(* addItem, updateItem, removeItem *)

ReadForAdd(h) ==
  /\ "add" \in GuestRequests
  /\ At(h, "idle")
  /\ \E s \in SessionId : session[s].status = "ACTIVE" /\ Begin(h, "readAdd", s)
  /\ UNCHANGED <<rows, orderVars>>

AddItem(h) ==
  /\ At(h, "readAdd")
  /\ \E i \in ItemId, q \in 1..MaxQuantity :
       /\ item[i].session = None
       /\ item' = [item EXCEPT ![i] = [session |-> handler[h].session, round |-> None,
                                       quantity |-> q]]
  /\ Done(h)
  /\ UNCHANGED <<session, round, table, bill, orderVars>>

\* assertItemEditable
Editable(i) ==
  item[i].round # None => round[item[i].round].status = "AWAITING_CONFIRMATION"

ReadForEdit(h) ==
  /\ "edit" \in GuestRequests
  /\ At(h, "idle")
  /\ \E i \in ItemId :
       /\ item[i].quantity > 0
       /\ Open(item[i].session)
       /\ Editable(i)
       /\ handler' = [handler EXCEPT ![h] = [Idle EXCEPT !.pc = "readEdit", !.item = i]]
  /\ UNCHANGED <<rows, orderVars>>

\* The write names the item only.
EditItem(h) ==
  LET i == handler[h].item IN
    /\ At(h, "readEdit")
    /\ \E q \in 0..MaxQuantity :
         item' = IF item[i].quantity = 0 THEN item
                                         ELSE [item EXCEPT ![i] = [@ EXCEPT !.quantity = q]]
    /\ Done(h)
    /\ UNCHANGED <<session, round, table, bill, orderVars>>

-----------------------------------------------------------------------------
(* submitDraft *)

ReadForSubmit(h) ==
  /\ "submit" \in GuestRequests
  /\ At(h, "idle")
  /\ \E s \in SessionId :
       /\ session[s].status = "ACTIVE"
       /\ Cart(s) # {}
       /\ Begin(h, "readSubmit", s)
  /\ UNCHANGED <<rows, orderVars>>

Stored(r) == round[r].status \notin {"NONE", "DELETED"}

RoundsOf(s) == {r \in RoundId : Stored(r) /\ round[r].session = s}

\* nextOrderNumber
NumberRound(h) ==
  LET s == handler[h].session IN
    /\ At(h, "readSubmit")
    /\ \E n \in 1..(Cardinality(RoundId) + 1) :
         /\ \A r \in RoundsOf(s) : round[r].orderNumber < n
         /\ n = 1 \/ \E r \in RoundsOf(s) : round[r].orderNumber = n - 1
         /\ handler' = [handler EXCEPT ![h] = [@ EXCEPT !.pc = "numbered", !.orderNumber = n]]
    /\ UNCHANGED <<rows, orderVars>>

NumberTaken(s, n) == \E r \in RoundsOf(s) : round[r].orderNumber = n

InsertRound(h) ==
  LET c == handler[h] IN
    /\ At(h, "numbered")
    /\ ~NumberTaken(c.session, c.orderNumber)
    /\ \E r \in RoundId :
         /\ round[r].status = "NONE"
         /\ round' = [round EXCEPT ![r] =
              [NoRound EXCEPT !.status = "AWAITING_CONFIRMATION", !.session = c.session,
                              !.orderNumber = c.orderNumber]]
         /\ handler' = [handler EXCEPT ![h] = [@ EXCEPT !.pc = "inserted", !.round = r]]
    /\ UNCHANGED <<session, item, table, bill, orderVars>>

RoundNumberTaken(h) ==
  /\ At(h, "numbered")
  /\ NumberTaken(handler[h].session, handler[h].orderNumber)
  /\ Done(h)
  /\ UNCHANGED <<rows, orderVars>>

\* linkItemsToOrder takes whatever is in the cart now; the foreign key waits for
\* a locked round and refuses a deleted one.
LinkItems(h) ==
  LET c == handler[h] IN
    /\ At(h, "inserted")
    /\ ~Locked(c.round)
    /\ IF Stored(c.round) \/ Cart(c.session) = {}
       THEN /\ item' = [i \in ItemId |-> IF i \in Cart(c.session)
                                         THEN [item[i] EXCEPT !.round = c.round]
                                         ELSE item[i]]
            /\ Goto(h, "linked")
       ELSE Done(h) /\ UNCHANGED item
    /\ UNCHANGED <<session, round, table, bill, orderVars>>

AwaitConfirmation(h) ==
  /\ At(h, "linked")
  /\ SetStatus(handler[h].session, "AWAITING_CONFIRMATION")
  /\ Done(h)
  /\ UNCHANGED <<round, item, table, bill, orderVars>>

-----------------------------------------------------------------------------
(* confirmSession *)

\* The session row, its confirmedOrderId included, is read before the transaction.
ReadForConfirm(h) ==
  /\ "confirm" \in StaffRequests
  /\ At(h, "idle")
  /\ \E s \in SessionId : Open(s) /\ Begin(h, "readConfirm", s)
  /\ UNCHANGED <<rows, orderVars>>

\* SELECT ... FOR UPDATE locks every awaiting round and the first is taken; then
\* its items are read.
LockRounds(h) ==
  LET awaiting == AwaitingRounds(handler[h].session) IN
    /\ At(h, "readConfirm")
    /\ \A r \in awaiting : ~Locked(r)
    /\ \/ \E r \in awaiting :
            /\ ItemsOf(r) # Nothing
            /\ handler' = [handler EXCEPT ![h] =
                 [@ EXCEPT !.pc = "locked", !.round = r, !.locks = awaiting,
                           !.items = ItemsOf(r)]]
       \/ /\ awaiting = {} \/ \E r \in awaiting : ItemsOf(r) = Nothing
          /\ Done(h)
    /\ UNCHANGED <<rows, orderVars>>

\* Seeded fault: appending raises the order's total but writes no order items.
BillFirstRoundOnly(o, t, r) ==
  bill' = IF bill[o].rounds = {} THEN [bill EXCEPT ![o] = [table |-> t, rounds |-> {r}]] ELSE bill

BillTo(o, t, r) == bill' = [bill EXCEPT ![o] = [table |-> t, rounds |-> bill[o].rounds \cup {r}]]

\* createOrderTransaction places a CONFIRMED order and occupies the table.
PlaceOrder(o, t) ==
  /\ Order!Place(o)
  /\ orderStatus'[o] = "CONFIRMED"
  /\ table' = [table EXCEPT ![t] = "OCCUPIED"]

\* Seeded fault: a round always gets an order of its own.
ExtendsNoOrder(c) == FALSE

ExtendsOrder(c) == Appendable(c.confirmedOrder)

\* Seeded fault: the session itself is marked as confirmed.
ConfirmedSessionStatus == "CONFIRMED"

StatusAfterConfirm == "ACTIVE"

CommitConfirm(h) ==
  LET c == handler[h]
      s == c.session
  IN
    /\ At(h, "locked")
    /\ MayOpen(s, session[s].table)
    /\ \E o \in OrderId :
         /\ IF ExtendsOrder(c)
            THEN o = c.confirmedOrder /\ Order!AddRound(o) /\ UNCHANGED table
            ELSE PlaceOrder(o, session[s].table)
         /\ BillTo(o, session[s].table, c.round)
         /\ round' = [round EXCEPT ![c.round] =
              [@ EXCEPT !.status = "CONFIRMED", !.order = o, !.billed = c.items]]
         /\ session' = [session EXCEPT ![s] =
              [@ EXCEPT !.status = StatusAfterConfirm, !.confirmedOrder = o]]
    /\ Done(h)
    /\ UNCHANGED item

-----------------------------------------------------------------------------
(* rejectPendingOrder *)

ReadForReject(h) ==
  /\ "reject" \in StaffRequests
  /\ At(h, "idle")
  /\ \E s \in SessionId : Open(s) /\ Begin(h, "readReject", s)
  /\ UNCHANGED <<rows, orderVars>>

FindPendingOrder(h) ==
  LET awaiting == AwaitingRounds(handler[h].session) IN
    /\ At(h, "readReject")
    /\ \/ \E r \in awaiting :
            handler' = [handler EXCEPT ![h] = [@ EXCEPT !.pc = "found", !.round = r]]
       \/ awaiting = {} /\ Done(h)
    /\ UNCHANGED <<rows, orderVars>>

Unlinked(r) == [i \in ItemId |-> IF item[i].round = r THEN [item[i] EXCEPT !.round = None]
                                                      ELSE item[i]]

UnlinkItems(h) ==
  /\ At(h, "found")
  /\ item' = Unlinked(handler[h].round)
  /\ Goto(h, "unlinked")
  /\ UNCHANGED <<session, round, table, bill, orderVars>>

\* The delete names the id only; the foreign key unlinks items linked since.
DeleteRound(h) ==
  LET r == handler[h].round IN
    /\ At(h, "unlinked")
    /\ ~Locked(r)
    /\ round' = [round EXCEPT ![r] = [@ EXCEPT !.status = "DELETED"]]
    /\ item' = Unlinked(r)
    /\ Goto(h, "deleted")
    /\ UNCHANGED <<session, table, bill, orderVars>>

Reactivate(h) ==
  /\ At(h, "deleted")
  /\ SetStatus(handler[h].session, "ACTIVE")
  /\ Done(h)
  /\ UNCHANGED <<round, item, table, bill, orderVars>>

-----------------------------------------------------------------------------
(* closeSession *)

ReadForClose(h) ==
  /\ "close" \in StaffRequests
  /\ At(h, "idle")
  /\ \E s \in SessionId : Open(s) /\ Begin(h, "readClose", s)
  /\ UNCHANGED <<rows, orderVars>>

Settled(o) == orderPayment[o] # "PENDING" \/ orderStatus[o] = "CANCELLED"

\* Seeded fault: an order that was served counts as settled.
MayCloseWhenServed(o) == o # None => Settled(o) \/ orderStatus[o] = "DELIVERED"

\* The latest confirmed order, as read with the session, must be settled.
MayClose(o) == o # None => Settled(o)

CheckSettled(h) ==
  LET o == handler[h].confirmedOrder IN
    /\ At(h, "readClose")
    /\ IF MayClose(o) THEN Goto(h, "settled") ELSE Done(h)
    /\ UNCHANGED <<rows, orderVars>>

\* Seeded fault: the update that cancels rounds does not look at their status.
CancelsEveryRound(s) == RoundsOf(s)

CancelsRounds(s) == AwaitingRounds(s)

CancelPendingOrders(h) ==
  LET s == handler[h].session IN
    /\ At(h, "settled")
    /\ \A r \in CancelsRounds(s) : ~Locked(r)
    /\ round' = [r \in RoundId |-> IF r \in CancelsRounds(s)
                                   THEN [round[r] EXCEPT !.status = "CANCELLED"]
                                   ELSE round[r]]
    /\ Goto(h, "cancelled")
    /\ UNCHANGED <<session, item, table, bill, orderVars>>

CloseSession(h) ==
  /\ At(h, "cancelled")
  /\ SetStatus(handler[h].session, "CLOSED")
  /\ Goto(h, "closed")
  /\ UNCHANGED <<round, item, table, bill, orderVars>>

FreeTable(h) ==
  /\ At(h, "closed")
  /\ table' = [table EXCEPT ![session[handler[h].session].table] = "AVAILABLE"]
  /\ Done(h)
  /\ UNCHANGED <<session, round, item, bill, orderVars>>

-----------------------------------------------------------------------------
(* The rest of the system *)

\* A handler's next statement fails (product withdrawn, order or number taken by
\* a concurrent transaction, connection lost) or its process dies: a transaction
\* rolls back, statements that committed by themselves stay.
Fails(h) ==
  /\ ~At(h, "idle")
  /\ Done(h)
  /\ UNCHANGED <<rows, orderVars>>

OtherActiveOrders(o) ==
  {p \in OrderId \ {o} : bill[p].table = bill[o].table /\ orderStatus[p] \in ActiveStatus}

\* What the order endpoints do to an order meanwhile; one that ends frees the
\* table unless another order is active on it.
OrderMoved(o) ==
  /\ \/ "advance" \in OrderMoves /\ Order!Advance(o)
     \/ "cancel" \in OrderMoves /\ Order!Cancel(o)
     \/ "pay" \in OrderMoves /\ Order!Pay(o)
  /\ table' =
       IF orderStatus'[o] \in Terminal /\ OtherActiveOrders(o) = {}
       THEN [table EXCEPT ![bill[o].table] = "AVAILABLE"]
       ELSE table
  /\ UNCHANGED <<session, round, item, handler, bill>>

StartStep(h) == ReadForStart(h) \/ CreateSession(h) \/ OccupyTable(h)

ItemStep(h) == ReadForAdd(h) \/ AddItem(h) \/ ReadForEdit(h) \/ EditItem(h)

SubmitStep(h) ==
  \/ ReadForSubmit(h) \/ NumberRound(h) \/ InsertRound(h) \/ RoundNumberTaken(h)
  \/ LinkItems(h) \/ AwaitConfirmation(h)

ConfirmStep(h) == ReadForConfirm(h) \/ LockRounds(h) \/ CommitConfirm(h)

RejectStep(h) ==
  ReadForReject(h) \/ FindPendingOrder(h) \/ UnlinkItems(h) \/ DeleteRound(h) \/ Reactivate(h)

CloseStep(h) ==
  \/ ReadForClose(h) \/ CheckSettled(h) \/ CancelPendingOrders(h) \/ CloseSession(h)
  \/ FreeTable(h)

Next ==
  \/ \E h \in Staff : \/ StartStep(h) \/ ConfirmStep(h) \/ RejectStep(h) \/ CloseStep(h)
                      \/ Fails(h)
  \/ \E h \in Guest : ItemStep(h) \/ SubmitStep(h) \/ Fails(h)
  \/ \E o \in OrderId : OrderMoved(o)

Spec == Init /\ [][Next]_vars

-----------------------------------------------------------------------------
(* Properties *)

\* At most one session of a table is open, whichever starts overlap and although
\* submitting, confirming and returning a round write the status without looking
\* at it, and so reopen a session closed meanwhile.
OneOpenSessionPerTable == \A t \in Table : Cardinality(OpenOn(t)) <= 1

\* The rounds on one bill have different numbers, which is all that tells their items
\* apart (confirmSession, tests/table-sessions.test.js:284), although a number is computed
\* before the insert and a returned round gives its own back: as long as one employee at a
\* time decides.
BilledNumbersUnique ==
  \A o \in OrderId : \A r1, r2 \in bill[o].rounds :
    round[r1].orderNumber = round[r2].orderNumber => r1 = r2

\* Bills and rounds agree, whatever confirmations, returns and closings overlap: a
\* round is billed to one order only, an order's total counts exactly the rounds
\* billed to it, all of one session, and a confirmed round is on the order it names.
RoundsBilledOnce ==
  /\ \A o \in OrderId :
       /\ orderTotal[o] = Cardinality(bill[o].rounds)
       /\ \A r1, r2 \in bill[o].rounds : round[r1].session = round[r2].session
       /\ \A p \in OrderId \ {o} : bill[o].rounds \cap bill[p].rounds = {}
  /\ \A r \in RoundId : round[r].status = "CONFIRMED" => r \in bill[round[r].order].rounds

\* The decision about a round is made once: a confirmed round is never cancelled
\* or confirmed again, a cancelled one never confirmed, and a returned one never
\* comes back, while confirm, return and close run on the same round.
RoundsDecidedOnce ==
  [][\A r \in RoundId :
       /\ round[r].status = "CONFIRMED" => round'[r].status \in {"CONFIRMED", "DELETED"}
       /\ round[r].status = "CANCELLED" => round'[r].status \in {"CANCELLED", "DELETED"}
       /\ round[r].status = "DELETED" => round'[r].status = "DELETED"
       /\ round[r].order # None => round'[r].order = round[r].order]_round

\* "Confirming round #2 keeps the history of both orders in ONE real order"
\* (tests/table-sessions.test.js:255): a session never has two orders that could
\* still take a round, as long as one employee at a time confirms.
OneAppendableOrderPerSession ==
  \A s \in SessionId :
    Cardinality({o \in OrderId : /\ Appendable(o)
                                 /\ \E r \in bill[o].rounds : round[r].session = s}) <= 1

\* "Cannot close session while linked confirmed order is unpaid"
\* (table-session.service.js:528), of the order the session row names.
ClosedSessionIsSettled ==
  \A s \in SessionId :
    session[s].status = "CLOSED" /\ session[s].confirmedOrder # None
      => Settled(session[s].confirmedOrder)

\* "Cannot modify an item of a confirmed order" (table-session.service.js:252):
\* the items of a confirmed round stay what was billed.
ConfirmedItemsFrozen ==
  \A r \in RoundId : round[r].status = "CONFIRMED" => ItemsOf(r) = round[r].billed

\* "a round only counts as an order once the waiter confirms it"
\* (table-session.service.js:572): a returned round is on no bill, as long as one
\* employee at a time decides.
ReturnedRoundIsNotBilled ==
  \A r \in RoundId : round[r].status = "DELETED" => \A o \in OrderId : r \notin bill[o].rounds
=============================================================================
