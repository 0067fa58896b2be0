-------------------------------- MODULE Orders --------------------------------
(***************************************************************************)
(* The order component: order.service.js over order.repository.js, one     *)
(* branch, PostgreSQL at READ COMMITTED.                                   *)
(*                                                                         *)
(* A request is a sequence of steps and any number of requests interleave. *)
(* A writer (status change, cancellation, payment, refund, appended round) *)
(* reads the order, validates what it read, and only then opens a          *)
(* transaction whose UPDATE is conditional on the version its client sent. *)
(* The UPDATE takes the row lock: until the transaction ends, other        *)
(* UPDATEs of that row wait, while readers still see the committed row.    *)
(* A creator runs the order-creation transaction with its retries.         *)
(*                                                                         *)
(* The order's bill is counted in rounds: 1 when placed, +1 per append.    *)
(***************************************************************************)
EXTENDS Integers, FiniteSets, OrderStates

CONSTANTS
  OrderId,      \* ids the orders may take
  Writer,       \* concurrent requests that change an order
  Creator,      \* concurrent requests that create an order
  Table,        \* tables of the branch
  Coupon,       \* coupons of the restaurant
  Key,          \* idempotency keys clients send
  None,         \* an absent value
  CouponLimit,  \* usageLimit of each coupon
  StartNumber,  \* branch settings: dailyOrderStartNumber
  MaxRetries,   \* MAX_RETRIES of createOrderTransaction
  MaxVersion,   \* bound: no order is written beyond this version
  MaxDay,       \* bound: business days that pass
  Requests,     \* inputs: the kinds of request that arrive, beside plain creation
  Sources,      \* inputs: the order sources used, among CASHIER and QR
  Types,        \* inputs: the order types used
  Stale,        \* bound: how many versions behind a client's copy may be
  Guess         \* how many versions ahead of its copy a client may guess

ASSUME OrdersAssumption ==
  /\ None \notin OrderId \cup Table \cup Coupon \cup Key
  /\ CouponLimit \in [Coupon -> Nat]
  /\ {StartNumber, MaxRetries, MaxVersion, MaxDay} \subseteq Nat \ {0}
  /\ {Stale, Guess} \subseteq Nat
  /\ Sources \subseteq {"CASHIER", "QR"}
  /\ Types \subseteq OrderType

VARIABLES
  order,      \* the orders table: one row per id, version 0 while not created
  history,    \* each order's newest order_status_history row (older ones stay)
  table,      \* restaurant_tables.status
  timesUsed,  \* coupons.times_used
  idem,       \* idempotency_keys: the order a key's stored response is about
  fresh,      \* keys stored less than 24 hours ago
  today,      \* the business day of the branch
  writer,     \* local state of each writer
  creator,    \* local state of each creator
  collected   \* auxiliary: what each order's customer was charged

vars == <<order, history, table, timesUsed, idem, fresh, today, writer, creator, collected>>

-----------------------------------------------------------------------------
(* Rows and local states *)

OrderRow ==
  [status : OrderStatus, paymentStatus : PaymentStatus, version : Nat, total : Nat,
   orderNumber : Nat, orderDate : Nat, type : OrderType,
   tableId : Table \cup {None}, couponId : Coupon \cup {None}]

NoRow ==
  [status |-> "PENDING", paymentStatus |-> "PENDING", version |-> 0, total |-> 0,
   orderNumber |-> 0, orderDate |-> 0, type |-> "DINE_IN",
   tableId |-> None, couponId |-> None]

HistoryRow == [from : OrderStatus \cup {None}, to : OrderStatus]

NoHistory == [from |-> None, to |-> "PENDING"]

Op == {"status", "pay", "refund", "append"}

\* pc: validated = the service's checks passed, its transaction has not begun;
\* ready = about to run the conditional UPDATE; locked = it matched, the row is
\* locked, the rest of the transaction is about to commit.
WriterState ==
  [pc : {"idle", "validated", "ready", "locked"}, op : Op, id : OrderId \cup {None},
   expectedVersion : Nat, from : OrderStatus, to : OrderStatus, amount : Nat,
   releases : BOOLEAN]

IdleWriter ==
  [pc |-> "idle", op |-> "status", id |-> None, expectedVersion |-> 0,
   from |-> "PENDING", to |-> "PENDING", amount |-> 0, releases |-> FALSE]

CreatorState ==
  [pc : {"idle", "begun", "checked", "numbered"}, id : OrderId \cup {None},
   source : {"CASHIER", "QR"}, type : OrderType, status : FirstStatus,
   tableId : Table \cup {None}, couponId : Coupon \cup {None}, key : Key \cup {None},
   orderDate : Nat, orderNumber : Nat, attempt : Nat]

IdleCreator ==
  [pc |-> "idle", id |-> None, source |-> "CASHIER", type |-> "DINE_IN",
   status |-> "PENDING", tableId |-> None, couponId |-> None, key |-> None,
   orderDate |-> 0, orderNumber |-> 0, attempt |-> 0]

TypeOK ==
  /\ order \in [OrderId -> OrderRow]
  /\ history \in [OrderId -> HistoryRow]
  /\ table \in [Table -> {"AVAILABLE", "OCCUPIED"}]
  /\ timesUsed \in [Coupon -> Nat]
  /\ idem \in [Key -> OrderId \cup {None}]
  /\ fresh \in SUBSET Key
  /\ today \in Nat
  /\ writer \in [Writer -> WriterState]
  /\ creator \in [Creator -> CreatorState]
  /\ collected \in [OrderId -> Nat]

Init ==
  /\ order = [o \in OrderId |-> NoRow]
  /\ history = [o \in OrderId |-> NoHistory]
  /\ table = [t \in Table |-> "AVAILABLE"]
  /\ timesUsed = [c \in Coupon |-> 0]
  /\ idem = [k \in Key |-> None]
  /\ fresh = {}
  /\ today = 1
  /\ writer = [w \in Writer |-> IdleWriter]
  /\ creator = [c \in Creator |-> IdleCreator]
  /\ collected = [o \in OrderId |-> 0]

Placed(o) == order[o].version > 0

ActiveOn(t) == {o \in OrderId : /\ Placed(o)
                               /\ order[o].tableId = t
                               /\ order[o].status \in ActiveStatus}

-----------------------------------------------------------------------------
(* Writers: the read and its checks *)

\* The versions a client may send: one it has seen, which is at most the one the
\* service is about to read, or up to Guess beyond.  Every older version behaves
\* like the oldest admitted here: versions only grow.
Sendable(o) ==
  {v \in 1..MaxVersion : /\ v < MaxVersion
                         /\ order[o].version <= v + Stale
                         /\ v <= order[o].version + Guess}

Accept(w, pc, op, o, expected, from, to, amount) ==
  writer' = [writer EXCEPT ![w] =
    [pc |-> pc, op |-> op, id |-> o, expectedVersion |-> expected,
     from |-> from, to |-> to, amount |-> amount, releases |-> FALSE]]

tables == <<order, history, table, timesUsed, idem, fresh, today, creator, collected>>

\* updateOrderStatus up to its transaction.
ReadForStatus(w) ==
  /\ "status" \in Requests
  /\ writer[w].pc = "idle"
  /\ \E o \in OrderId, newStatus \in OrderStatus \ {"CANCELLED"} :
       /\ Placed(o)
       /\ ValidStateTransition(order[o].status, newStatus, order[o].type)
       /\ \E v \in Sendable(o) :
            Accept(w, "ready", "status", o, v, order[o].status, newStatus, 0)
  /\ UNCHANGED tables

\* cancelOrder up to its transaction: the payment status is not looked at.
ReadForCancel(w) ==
  /\ "cancel" \in Requests
  /\ writer[w].pc = "idle"
  /\ \E o \in OrderId :
       /\ Placed(o)
       /\ order[o].status \notin Terminal
       /\ \E v \in Sendable(o) :
            Accept(w, "ready", "status", o, v, order[o].status, "CANCELLED", 0)
  /\ UNCHANGED tables

Payable(o) ==
  /\ order[o].status # "CANCELLED"
  /\ order[o].paymentStatus = "PENDING"

\* processOrderPayment up to its transaction: the amount must equal the total
\* of the order as read, whatever version the client sent.
ReadForPayment(w) ==
  /\ "pay" \in Requests
  /\ writer[w].pc = "idle"
  /\ \E o \in OrderId :
       /\ Placed(o)
       /\ Payable(o)
       /\ \E v \in Sendable(o) :
            Accept(w, "validated", "pay", o, v,
                   order[o].status, order[o].status, order[o].total)
  /\ UNCHANGED tables

Refundable(o) == order[o].paymentStatus = "PAID"

ReadForRefund(w) ==
  /\ "refund" \in Requests
  /\ writer[w].pc = "idle"
  /\ \E o \in OrderId :
       /\ Placed(o)
       /\ Refundable(o)
       /\ \E v \in Sendable(o) :
            Accept(w, "validated", "refund", o, v, order[o].status, order[o].status, 0)
  /\ UNCHANGED tables

\* orderBefore: payments and refunds read the status again inside the
\* transaction, for the history row only.
ReadInTransaction(w) ==
  /\ writer[w].pc = "validated"
  /\ LET st == order[writer[w].id].status IN
       writer' = [writer EXCEPT ![w] = [@ EXCEPT !.pc = "ready", !.from = st, !.to = st]]
  /\ UNCHANGED tables

Appendable(o) ==
  /\ order[o].paymentStatus = "PENDING"
  /\ order[o].status \in ActiveStatus

\* appendItemsToOrder: its own read supplies the version it expects.
ReadForAppend(w) ==
  /\ "append" \in Requests
  /\ writer[w].pc = "idle"
  /\ \E o \in OrderId :
       /\ Placed(o)
       /\ order[o].version < MaxVersion
       /\ Appendable(o)
       /\ Accept(w, "ready", "append", o, order[o].version,
                 order[o].status, order[o].status, order[o].total)
  /\ UNCHANGED tables

-----------------------------------------------------------------------------
(* Writers: the transaction *)

Locked(o) == \E w \in Writer : writer[w].pc = "locked" /\ writer[w].id = o

\* Seeded fault: the UPDATE is not conditional on the version.
MatchesAnyVersion(u) ==
  u.op \in {"pay", "append"} => order[u.id].paymentStatus = "PENDING"

\* The WHERE clause of the conditional UPDATE of each kind of request.
Matches(u) ==
  /\ order[u.id].version = u.expectedVersion
  /\ u.op \in {"pay", "append"} => order[u.id].paymentStatus = "PENDING"
  /\ u.op = "append" => order[u.id].status \in ActiveStatus

\* Whether the transaction goes on to free the order's table: no other order is
\* committed as active on it.
Releases(u) ==
  LET t == order[u.id].tableId IN
    /\ t # None
    /\ \/ u.op = "status" /\ u.to \in Terminal
       \/ u.op = "pay" /\ u.from = "DELIVERED"
    /\ ActiveOn(t) \ {u.id} = {}

Update(w) ==
  /\ writer[w].pc = "ready"
  /\ ~Locked(writer[w].id)
  /\ Matches(writer[w])
  /\ writer' = [writer EXCEPT ![w] = [@ EXCEPT !.pc = "locked",
                                               !.releases = Releases(writer[w])]]
  /\ UNCHANGED tables

\* count = 0: ConflictError, the transaction rolls back.
UpdateMisses(w) ==
  /\ writer[w].pc = "ready"
  /\ ~Locked(writer[w].id)
  /\ ~Matches(writer[w])
  /\ writer' = [writer EXCEPT ![w] = IdleWriter]
  /\ UNCHANGED tables

RecordHistory(u) ==
  history' = [history EXCEPT ![u.id] = [from |-> u.from, to |-> u.to]]

\* Seeded fault: the order's tableId is not checked before its table is freed.
ReleaseAnyTable(u) ==
  LET t == order[u.id].tableId IN
    table' = IF u.to \in Terminal
             THEN [x \in Table \cup {t} |-> IF x = t THEN "AVAILABLE" ELSE table[x]]
             ELSE table

ReleaseTable(u) ==
  table' = IF u.releases THEN [table EXCEPT ![order[u.id].tableId] = "AVAILABLE"]
                         ELSE table

\* Seeded fault: cancelling an order does not return its coupon use.
ReturnNoCoupon(u) == timesUsed' = timesUsed

ReturnCoupon(u) ==
  LET c == order[u.id].couponId IN
    timesUsed' = IF u.to = "CANCELLED" /\ c # None /\ timesUsed[c] > 0
                 THEN [timesUsed EXCEPT ![c] = @ - 1]
                 ELSE timesUsed

Committing(w, op) == writer[w].pc = "locked" /\ writer[w].op = op

CommitStatus(w) ==
  LET u == writer[w] IN
    /\ Committing(w, "status")
    /\ order' = [order EXCEPT ![u.id] = [@ EXCEPT !.status = u.to,
                                                  !.version = u.expectedVersion + 1]]
    /\ RecordHistory(u)
    /\ ReturnCoupon(u)
    /\ ReleaseTable(u)
    /\ writer' = [writer EXCEPT ![w] = IdleWriter]
    /\ UNCHANGED <<idem, fresh, today, creator, collected>>

CommitPayment(w) ==
  LET u == writer[w] IN
    /\ Committing(w, "pay")
    /\ order' = [order EXCEPT ![u.id] = [@ EXCEPT !.paymentStatus = "PAID",
                                                  !.version = u.expectedVersion + 1]]
    /\ RecordHistory(u)
    /\ ReleaseTable(u)
    /\ collected' = [collected EXCEPT ![u.id] = @ + u.amount]
    /\ writer' = [writer EXCEPT ![w] = IdleWriter]
    /\ UNCHANGED <<timesUsed, idem, fresh, today, creator>>

CommitRefund(w) ==
  LET u == writer[w] IN
    /\ Committing(w, "refund")
    /\ order' = [order EXCEPT ![u.id] = [@ EXCEPT !.paymentStatus = "REFUNDED",
                                                  !.version = u.expectedVersion + 1]]
    /\ RecordHistory(u)
    /\ writer' = [writer EXCEPT ![w] = IdleWriter]
    /\ UNCHANGED <<table, timesUsed, idem, fresh, today, creator, collected>>

CommitAppend(w) ==
  LET u == writer[w] IN
    /\ Committing(w, "append")
    /\ order' = [order EXCEPT ![u.id] = [@ EXCEPT !.total = u.amount + 1,
                                                  !.version = u.expectedVersion + 1]]
    /\ RecordHistory(u)
    /\ writer' = [writer EXCEPT ![w] = IdleWriter]
    /\ UNCHANGED <<table, timesUsed, idem, fresh, today, creator, collected>>

\* The process or its database connection dies, or the transaction times out:
\* whatever it has not committed is rolled back.
WriterDies(w) ==
  /\ writer[w].pc # "idle"
  /\ writer' = [writer EXCEPT ![w] = IdleWriter]
  /\ UNCHANGED tables

-----------------------------------------------------------------------------
(* Creators *)

others == <<order, history, table, timesUsed, idem, fresh, today, writer, collected>>

\* Ids are unique (cuid): one no order has and no other creator is about to use.
Unused(o) == ~Placed(o) /\ \A c \in Creator : creator[c].id # o

CreateRequest(o, s, ty, t, cp, k) ==
  [IdleCreator EXCEPT !.pc = "begun", !.id = o, !.source = s, !.type = ty,
     !.tableId = t, !.couponId = cp, !.key = k, !.orderDate = today]

\* createOrder from the endpoints.  A key whose response is stored and fresh is
\* answered from the store and goes no further.  The business day is fixed here,
\* before the first attempt.
BeginCreate(c) ==
  /\ creator[c].pc = "idle"
  /\ \E o \in OrderId, s \in Sources, ty \in Types,
        t \in Table \cup {None}, cp \in Coupon \cup {None}, k \in Key \cup {None} :
       /\ Unused(o)
       /\ k # None => ~(idem[k] # None /\ k \in fresh)
       /\ creator' = [creator EXCEPT ![c] = CreateRequest(o, s, ty, t, cp, k)]
  /\ UNCHANGED others

\* createOrderTransaction called by confirmSession inside its own transaction.
BeginRound(c) ==
  /\ "round" \in Requests
  /\ creator[c].pc = "idle"
  /\ \E o \in OrderId, t \in Table :
       /\ Unused(o)
       /\ creator' = [creator EXCEPT ![c] =
            [IdleCreator EXCEPT !.pc = "begun", !.id = o, !.source = "QR",
               !.status = "CONFIRMED", !.tableId = t, !.orderDate = today]]
  /\ UNCHANGED others

\* QR orders are not checked.
TableTaken(c) ==
  /\ creator[c].tableId # None
  /\ creator[c].source # "QR"
  /\ ActiveOn(creator[c].tableId) # {}

CheckTable(c) ==
  /\ creator[c].pc = "begun"
  /\ creator' = [creator EXCEPT ![c] = IF TableTaken(c)
                                       THEN IdleCreator
                                       ELSE [@ EXCEPT !.pc = "checked"]]
  /\ UNCHANGED others

OrdersOn(day) == {o \in OrderId : Placed(o) /\ order[o].orderDate = day}

\* findNextOrderNumber: one more than the day's highest number (orderBy desc).
IsNextNumber(n, day) ==
  \/ /\ OrdersOn(day) = {}
     /\ n = StartNumber
  \/ \E last \in OrdersOn(day) :
       /\ \A o \in OrdersOn(day) : order[o].orderNumber <= order[last].orderNumber
       /\ n = order[last].orderNumber + 1

NumberRange == StartNumber .. (StartNumber + Cardinality(OrderId))

ReadNumber(c) ==
  /\ creator[c].pc = "checked"
  /\ \E n \in NumberRange :
       /\ IsNextNumber(n, creator[c].orderDate)
       /\ creator' = [creator EXCEPT ![c] = [@ EXCEPT !.pc = "numbered",
                                                      !.orderNumber = n]]
  /\ UNCHANGED others

\* applyCouponForOrderInTransaction: the row is locked, then its limit checked.
CouponExhausted(cp) == cp # None /\ timesUsed[cp] >= CouponLimit[cp]

\* Seeded fault: no unique index on orders (branch_id, order_date, order_number).
ViolatesKeyOnly(c) == creator[c].key # None /\ idem[creator[c].key] # None

\* Seeded fault: no unique index on idempotency_keys (restaurant_id, key).
ViolatesNumberOnly(c) ==
  \E o \in OrdersOn(creator[c].orderDate) : order[o].orderNumber = creator[c].orderNumber

\* P2002: orders (branch_id, order_date, order_number) or, later in the same
\* transaction, idempotency_keys (restaurant_id, key), which never expires.
ViolatesUnique(c) ==
  \/ \E o \in OrdersOn(creator[c].orderDate) :
       order[o].orderNumber = creator[c].orderNumber
  \/ creator[c].key # None /\ idem[creator[c].key] # None

CouponRefused(c) ==
  /\ creator[c].pc = "numbered"
  /\ CouponExhausted(creator[c].couponId)
  /\ creator' = [creator EXCEPT ![c] = IdleCreator]
  /\ UNCHANGED others

\* A round is created inside its caller's transaction, which is not retried.
MayRetry(c) ==
  /\ creator[c].status # "CONFIRMED"
  /\ creator[c].attempt < MaxRetries - 1

\* Seeded fault: the attempt counter is not advanced.
SameAttempt(n) == n

NextAttempt(n) == n + 1

InsertFails(c) ==
  /\ creator[c].pc = "numbered"
  /\ ~CouponExhausted(creator[c].couponId)
  /\ ViolatesUnique(c)
  /\ creator' = [creator EXCEPT ![c] =
       IF MayRetry(c)
       THEN [@ EXCEPT !.pc = "begun", !.orderNumber = 0,
                      !.attempt = NextAttempt(creator[c].attempt)]
       ELSE IdleCreator]
  /\ UNCHANGED others

Insert(c) ==
  LET r == creator[c] IN
    /\ r.pc = "numbered"
    /\ ~CouponExhausted(r.couponId)
    /\ ~ViolatesUnique(c)
    /\ order' = [order EXCEPT ![r.id] =
         [NoRow EXCEPT !.status = r.status, !.version = 1, !.total = 1,
            !.orderNumber = r.orderNumber, !.orderDate = r.orderDate,
            !.type = r.type, !.tableId = r.tableId, !.couponId = r.couponId]]
    /\ history' = [history EXCEPT ![r.id] = [from |-> None, to |-> r.status]]
    /\ table' = [t \in Table |-> IF t = r.tableId THEN "OCCUPIED" ELSE table[t]]
    /\ timesUsed' = [cp \in Coupon |->
                       IF cp = r.couponId THEN timesUsed[cp] + 1 ELSE timesUsed[cp]]
    /\ idem' = [k \in Key |-> IF k = r.key THEN r.id ELSE idem[k]]
    /\ fresh' = fresh \cup ({r.key} \ {None})
    /\ creator' = [creator EXCEPT ![c] = IdleCreator]
    /\ UNCHANGED <<today, writer, collected>>

CreatorDies(c) ==
  /\ creator[c].pc # "idle"
  /\ creator' = [creator EXCEPT ![c] = IdleCreator]
  /\ UNCHANGED others

-----------------------------------------------------------------------------
(* Time *)

\* A stored response is more than 24 hours old; its row is never deleted.
KeyExpires(k) ==
  /\ k \in fresh
  /\ fresh' = fresh \ {k}
  /\ UNCHANGED <<order, history, table, timesUsed, idem, today, writer, creator, collected>>

NextDay ==
  /\ today < MaxDay
  /\ today' = today + 1
  /\ UNCHANGED <<order, history, table, timesUsed, idem, fresh, writer, creator, collected>>

WriterStep(w) ==
  \/ ReadInTransaction(w) \/ Update(w) \/ UpdateMisses(w)
  \/ CommitStatus(w) \/ CommitPayment(w) \/ CommitRefund(w) \/ CommitAppend(w)

CreatorStep(c) ==
  CheckTable(c) \/ ReadNumber(c) \/ CouponRefused(c) \/ InsertFails(c) \/ Insert(c)

Next ==
  \/ \E w \in Writer : \/ ReadForStatus(w) \/ ReadForCancel(w) \/ ReadForPayment(w)
                       \/ ReadForRefund(w) \/ ReadForAppend(w)
                       \/ WriterStep(w) \/ WriterDies(w)
  \/ \E c \in Creator : BeginCreate(c) \/ BeginRound(c) \/ CreatorStep(c) \/ CreatorDies(c)
  \/ \E k \in Key : KeyExpires(k)
  \/ NextDay

Spec == Init /\ [][Next]_vars

\* A handler that has begun is run to its end: the event loop schedules every
\* settled promise.  PostgreSQL queues the waiters of a row lock in order, so an
\* UPDATE that keeps meeting a locked row is not passed over forever.
Fairness ==
  /\ \A w \in Writer : WF_vars(WriterStep(w)) /\ SF_vars(Update(w) \/ UpdateMisses(w))
  /\ \A c \in Creator : WF_vars(CreatorStep(c))

FairSpec == Spec /\ Fairness

-----------------------------------------------------------------------------
(* Properties *)

\* The audit trail of an order is complete and connected: every version is
\* written together with one history row, which starts at the status the order
\* had and ends at the status it gets.  fromStatus is taken from a read made before
\* the UPDATE (updateOrderStatus, cancelOrder) or before its row lock (payment,
\* refund), so a stale read that got past the version check would break the chain.
HistoryIsConnected ==
  [][\A o \in OrderId : order'[o] # order[o] =>
       /\ order'[o].version = order[o].version + 1
       /\ history'[o] = [from |-> IF Placed(o) THEN order[o].status ELSE None,
                         to |-> order'[o].status]]_order

\* A customer is charged exactly once and exactly the total of the order: nothing
\* while payment is pending, and afterwards the total as it then still stands.
\* processOrderPayment compares the amount with a total read before the
\* transaction, while rounds appended by table sessions raise it.
ChargedTheTotal ==
  \A o \in OrderId :
    collected[o] = IF order[o].paymentStatus = "PENDING" THEN 0 ELSE order[o].total

\* The order numbers of one business day are unique and without gaps, counting
\* from the branch's start number, although each is computed from a read that
\* other creations may have overtaken by the time it is inserted.
NumbersGapless ==
  \A day \in 1..today :
    {order[o].orderNumber : o \in OrdersOn(day)}
      = StartNumber .. (StartNumber + Cardinality(OrdersOn(day)) - 1)

\* A coupon's use count is the number of orders that hold it and are not
\* cancelled, and it stays within the limit: no use is lost, counted twice, or
\* given back twice, whatever creations and cancellations overlap.
CouponAccounting ==
  \A c \in Coupon :
    /\ timesUsed[c] = Cardinality({o \in OrderId : /\ Placed(o)
                                                   /\ order[o].couponId = c
                                                   /\ order[o].status # "CANCELLED"})
    /\ timesUsed[c] <= CouponLimit[c]

\* The order an idempotency key answers for never changes: every creation with a
\* key records it, so a key creates at most one order, however many requests with
\* it overlap and also once the 24-hour look-up window has passed.
KeyAnswersForOneOrder ==
  [][\A k \in Key : idem[k] # None => idem'[k] = idem[k]]_idem

\* Every request that has begun ends: waiting for row locks and retrying the
\* creation transaction both come to an end.
RequestsEnd ==
  /\ \A w \in Writer : writer[w].pc # "idle" ~> writer[w].pc = "idle"
  /\ \A c \in Creator : creator[c].pc # "idle" ~> creator[c].pc = "idle"

ShownStatus(o) == IF Placed(o) THEN order[o].status ELSE "NONE"

Lifecycle == INSTANCE OrderLifecycle WITH
  status    <- [o \in OrderId |-> ShownStatus(o)],
  type      <- [o \in OrderId |-> order[o].type],
  payment   <- [o \in OrderId |-> order[o].paymentStatus],
  total     <- [o \in OrderId |-> order[o].total]

\* The handlers, versions and transactions implement the order life cycle: only
\* legal status changes, no way out of a terminal status, no payment of a
\* cancelled order, one payment, refunds of paid orders only.
ImplementsLifecycle == Lifecycle!LifecycleSpec

\* "A table can only have one active order at a time" (order.repository.js:189).
OneActiveOrderPerTable ==
  \A t \in Table : Cardinality(ActiveOn(t)) <= 1
=============================================================================
