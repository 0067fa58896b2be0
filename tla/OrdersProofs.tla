----------------------------- MODULE OrdersProofs -----------------------------
(***************************************************************************)
(* What holds of Orders for any number of orders, handlers, tables,        *)
(* coupons and keys, and whatever versions clients guess: the types, what  *)
(* idempotency keys answer for, and the numbers of a day's orders.         *)
(***************************************************************************)
EXTENDS Orders, FiniteSetTheorems, TLAPS

\* A writer's local state is well formed: a writer that is busy has an order.
BusyHasOrder == \A w \in Writer : writer[w].pc # "idle" => writer[w].id \in OrderId

CreatorHasOrder == \A c \in Creator : creator[c].pc # "idle" => creator[c].id \in OrderId

Typed == TypeOK /\ BusyHasOrder /\ CreatorHasOrder

-----------------------------------------------------------------------------
(* Record updates, proved once with every field's type left opaque *)

LEMMA RowUpdates ==
  ASSUME NEW row \in OrderRow, NEW s \in OrderStatus, NEW p \in PaymentStatus,
         NEW n \in Nat, NEW m \in Nat
  PROVE  /\ [row EXCEPT !.status = s, !.version = n] \in OrderRow
         /\ [row EXCEPT !.paymentStatus = p, !.version = n] \in OrderRow
         /\ [row EXCEPT !.total = m, !.version = n] \in OrderRow
BY DEF OrderRow

LEMMA CreatorUpdates ==
  ASSUME NEW r \in CreatorState, NEW n \in Nat, NEW m \in Nat
  PROVE  /\ [r EXCEPT !.pc = "checked"] \in CreatorState
         /\ [r EXCEPT !.pc = "numbered", !.orderNumber = n] \in CreatorState
         /\ [r EXCEPT !.pc = "begun", !.orderNumber = 0, !.attempt = m] \in CreatorState
         /\ [r EXCEPT !.pc = "checked"].id = r.id
         /\ [r EXCEPT !.pc = "numbered", !.orderNumber = n].id = r.id
         /\ [r EXCEPT !.pc = "begun", !.orderNumber = 0, !.attempt = m].id = r.id
BY DEF CreatorState

-----------------------------------------------------------------------------
\* Typed is inductive.
LEMMA TypedStep == Typed /\ [Next]_vars => Typed'
<1> USE OrdersAssumption DEF OrderRow, HistoryRow, WriterState, CreatorState, Op,
      PaymentStatus, OrderType, FirstStatus
<1> SUFFICES ASSUME Typed, [Next]_vars PROVE Typed'
  OBVIOUS
<1> USE DEF Typed
<1>1. ASSUME NEW w \in Writer, ReadForStatus(w) PROVE Typed'
  BY <1>1 DEF ReadForStatus, Accept, tables, TypeOK, BusyHasOrder, CreatorHasOrder, Sendable
<1>2. ASSUME NEW w \in Writer, ReadForCancel(w) PROVE Typed'
  BY <1>2 DEF ReadForCancel, Accept, tables, TypeOK, BusyHasOrder, CreatorHasOrder,
              Sendable, OrderStatus
<1>3. ASSUME NEW w \in Writer, ReadForPayment(w) PROVE Typed'
  BY <1>3 DEF ReadForPayment, Accept, tables, TypeOK, BusyHasOrder, CreatorHasOrder, Sendable
<1>4. ASSUME NEW w \in Writer, ReadForRefund(w) PROVE Typed'
  BY <1>4 DEF ReadForRefund, Accept, tables, TypeOK, BusyHasOrder, CreatorHasOrder, Sendable
<1>5. ASSUME NEW w \in Writer, ReadForAppend(w) PROVE Typed'
  BY <1>5 DEF ReadForAppend, Accept, tables, TypeOK, BusyHasOrder, CreatorHasOrder
<1>6. ASSUME NEW w \in Writer, ReadInTransaction(w) PROVE Typed'
  <2>1. writer[w] \in WriterState /\ writer[w].id \in OrderId
    BY <1>6 DEF ReadInTransaction, TypeOK, BusyHasOrder
  <2>2. order[writer[w].id].status \in OrderStatus
    BY <2>1 DEF TypeOK
  <2>3. writer' = [writer EXCEPT ![w] = [@ EXCEPT !.pc = "ready",
             !.from = order[writer[w].id].status, !.to = order[writer[w].id].status]]
    BY <1>6 DEF ReadInTransaction
  <2>4. writer' \in [Writer -> WriterState]
    BY <2>1, <2>2, <2>3 DEF TypeOK
  <2> QED BY <1>6, <2>1, <2>3, <2>4 DEF ReadInTransaction, tables, TypeOK, BusyHasOrder, CreatorHasOrder
<1>7. ASSUME NEW w \in Writer, Update(w) PROVE Typed'
  <2>1. Releases(writer[w]) \in BOOLEAN
    BY Zenon DEF Releases
  <2> DEFINE r == [writer[w] EXCEPT !.pc = "locked", !.releases = Releases(writer[w])]
  <2>2. writer[w] \in WriterState /\ writer[w].id \in OrderId
    BY <1>7 DEF Update, TypeOK, BusyHasOrder
  <2>3. r \in WriterState /\ r.id \in OrderId
    BY <2>1, <2>2
  <2>4. writer' = [writer EXCEPT ![w] = r] /\ UNCHANGED tables
    BY <1>7 DEF Update
  <2> HIDE DEF r
  <2> QED BY <2>3, <2>4 DEF tables, TypeOK, BusyHasOrder, CreatorHasOrder
<1>8. ASSUME NEW w \in Writer, UpdateMisses(w) \/ WriterDies(w) PROVE Typed'
  <2>1. IdleWriter \in WriterState
    BY DEF IdleWriter, OrderStatus
  <2>2. writer' = [writer EXCEPT ![w] = IdleWriter] /\ UNCHANGED tables
    BY <1>8 DEF UpdateMisses, WriterDies
  <2> QED BY <2>1, <2>2 DEF tables, TypeOK, BusyHasOrder, CreatorHasOrder, IdleWriter
<1>9. ASSUME NEW w \in Writer,
             CommitStatus(w) \/ CommitPayment(w) \/ CommitRefund(w) \/ CommitAppend(w)
      PROVE  Typed'
  <2> DEFINE u == writer[w]
  <2>1. u \in WriterState /\ u.id \in OrderId /\ order[u.id] \in OrderRow
    BY <1>9 DEF CommitStatus, CommitPayment, CommitRefund, CommitAppend, Committing,
                TypeOK, BusyHasOrder
  <2>2. \E row \in OrderRow : order' = [order EXCEPT ![u.id] = row]
    <3> DEFINE row == order[u.id]
               n == u.expectedVersion + 1
    <3>0. /\ row \in OrderRow /\ n \in Nat /\ u.amount + 1 \in Nat
          /\ u.to \in OrderStatus /\ {"PAID", "REFUNDED"} \subseteq PaymentStatus
      BY <2>1
    <3> HIDE DEF OrderRow, HistoryRow, WriterState, CreatorState, Op, PaymentStatus, OrderType, FirstStatus
    <3>1. CASE CommitStatus(w)
      <4>1. [row EXCEPT !.status = u.to, !.version = n] \in OrderRow
        BY <3>0, RowUpdates
      <4> QED BY <3>1, <4>1 DEF CommitStatus
    <3>2. CASE CommitPayment(w)
      <4>1. [row EXCEPT !.paymentStatus = "PAID", !.version = n] \in OrderRow
        BY <3>0, RowUpdates
      <4> QED BY <3>2, <4>1 DEF CommitPayment
    <3>3. CASE CommitRefund(w)
      <4>1. [row EXCEPT !.paymentStatus = "REFUNDED", !.version = n] \in OrderRow
        BY <3>0, RowUpdates
      <4> QED BY <3>3, <4>1 DEF CommitRefund
    <3>4. CASE CommitAppend(w)
      <4>1. [row EXCEPT !.total = u.amount + 1, !.version = n] \in OrderRow
        BY <3>0, RowUpdates
      <4> QED BY <3>4, <4>1 DEF CommitAppend
    <3> QED BY <1>9, <3>1, <3>2, <3>3, <3>4
  <2>3. order' \in [OrderId -> OrderRow]
    BY <2>1, <2>2 DEF TypeOK
  <2>4. [from |-> u.from, to |-> u.to] \in HistoryRow
    BY <2>1
  <2>5. history' \in [OrderId -> HistoryRow]
    BY <1>9, <2>1, <2>4 DEF CommitStatus, CommitPayment, CommitRefund, CommitAppend,
                            RecordHistory, TypeOK
  <2>6. IdleWriter \in WriterState /\ IdleWriter.pc = "idle"
    BY DEF IdleWriter, OrderStatus
  <2>7. writer' = [writer EXCEPT ![w] = IdleWriter]
    BY <1>9 DEF CommitStatus, CommitPayment, CommitRefund, CommitAppend
  <2>8. table' \in [Table -> {"AVAILABLE", "OCCUPIED"}]
    BY <1>9, <2>1 DEF CommitStatus, CommitPayment, CommitRefund, CommitAppend,
                      ReleaseTable, TypeOK
  <2>9. timesUsed' \in [Coupon -> Nat]
    BY <1>9, <2>1 DEF CommitStatus, CommitPayment, CommitRefund, CommitAppend,
                      ReturnCoupon, TypeOK
  <2>10. collected' \in [OrderId -> Nat]
    BY <1>9, <2>1 DEF CommitStatus, CommitPayment, CommitRefund, CommitAppend, TypeOK
  <2>11. UNCHANGED <<idem, fresh, today, creator>>
    BY <1>9 DEF CommitStatus, CommitPayment, CommitRefund, CommitAppend
  <2> QED
    BY <2>3, <2>5, <2>6, <2>7, <2>8, <2>9, <2>10, <2>11
       DEF TypeOK, BusyHasOrder, CreatorHasOrder
<1>10. ASSUME NEW c \in Creator, BeginCreate(c) \/ BeginRound(c) PROVE Typed'
  <2>1. \E r \in CreatorState : r.id \in OrderId /\ creator' = [creator EXCEPT ![c] = r]
    <3> HIDE DEF OrderRow, HistoryRow, WriterState, CreatorState, Op, PaymentStatus, OrderType, FirstStatus
    <3>1. CASE BeginCreate(c)
      <4>1. PICK o \in OrderId, s \in Sources, ty \in Types, t \in Table \cup {None},
                 cp \in Coupon \cup {None}, k \in Key \cup {None} :
              creator' = [creator EXCEPT ![c] = CreateRequest(o, s, ty, t, cp, k)]
        BY <3>1, Zenon DEF BeginCreate
      <4> DEFINE r == CreateRequest(o, s, ty, t, cp, k)
      <4>2. r \in CreatorState /\ r.id = o
        BY DEF CreateRequest, IdleCreator, TypeOK, CreatorState, FirstStatus
      <4> QED BY <4>1, <4>2
    <3>2. CASE BeginRound(c)
      BY <3>2 DEF BeginRound, IdleCreator, TypeOK, CreatorState, FirstStatus, OrderType
    <3> QED BY <1>10, <3>1, <3>2
  <2>2. UNCHANGED others
    BY <1>10 DEF BeginCreate, BeginRound
  <2> QED BY <2>1, <2>2 DEF others, TypeOK, BusyHasOrder, CreatorHasOrder
<1>11. ASSUME NEW c \in Creator,
              CheckTable(c) \/ ReadNumber(c) \/ CouponRefused(c) \/ InsertFails(c)
                \/ CreatorDies(c)
       PROVE  Typed'
  <2>1. IdleCreator \in CreatorState /\ IdleCreator.pc = "idle"
    BY DEF IdleCreator
  <2>2. \E r \in CreatorState : /\ r.pc # "idle" => r.id \in OrderId
                               /\ creator' = [creator EXCEPT ![c] = r]
    <3> HIDE DEF OrderRow, HistoryRow, WriterState, CreatorState, Op, PaymentStatus, OrderType, FirstStatus
    <3>1. CASE CheckTable(c)
      <4> DEFINE r == [creator[c] EXCEPT !.pc = "checked"]
      <4>1. creator[c] \in CreatorState /\ creator[c].id \in OrderId
        BY <3>1 DEF CheckTable, TypeOK, CreatorHasOrder
      <4>2. r \in CreatorState /\ r.id \in OrderId
        BY <4>1, CreatorUpdates
      <4>3. creator' = [creator EXCEPT ![c] = IF TableTaken(c) THEN IdleCreator ELSE r]
        BY <3>1 DEF CheckTable
      <4> QED BY <2>1, <4>2, <4>3
    <3>2. CASE ReadNumber(c)
      <4>1. creator[c] \in CreatorState /\ creator[c].id \in OrderId
        BY <3>2 DEF ReadNumber, TypeOK, CreatorHasOrder
      <4>2. PICK n \in NumberRange :
              /\ IsNextNumber(n, creator[c].orderDate)
              /\ creator' = [creator EXCEPT ![c] =
                              [@ EXCEPT !.pc = "numbered", !.orderNumber = n]]
        BY <3>2 DEF ReadNumber
      <4>3. n \in Nat
        BY <4>2 DEF IsNextNumber, OrdersOn, TypeOK, OrderRow
      <4> DEFINE r == [creator[c] EXCEPT !.pc = "numbered", !.orderNumber = n]
      <4>4. r \in CreatorState /\ r.id \in OrderId
        BY <4>1, <4>3, CreatorUpdates
      <4>5. creator' = [creator EXCEPT ![c] = r]
        BY <4>2
      <4> HIDE DEF r
      <4> QED BY <4>4, <4>5
    <3>3. CASE CouponRefused(c) \/ CreatorDies(c)
      BY <2>1, <3>3 DEF CouponRefused, CreatorDies
    <3>4. CASE InsertFails(c)
      <4> DEFINE r == [creator[c] EXCEPT !.pc = "begun", !.orderNumber = 0,
                                         !.attempt = NextAttempt(creator[c].attempt)]
      <4>0. /\ creator[c] \in CreatorState /\ creator[c].id \in OrderId
            /\ NextAttempt(creator[c].attempt) \in Nat
        BY <3>4 DEF InsertFails, NextAttempt, TypeOK, CreatorHasOrder, CreatorState
      <4>1. r \in CreatorState /\ r.id \in OrderId
        BY <4>0, CreatorUpdates
      <4>2. creator' = [creator EXCEPT ![c] = IF MayRetry(c) THEN r ELSE IdleCreator]
        BY <3>4 DEF InsertFails
      <4> QED BY <2>1, <4>1, <4>2
    <3> QED BY <1>11, <3>1, <3>2, <3>3, <3>4
  <2>3. UNCHANGED others
    BY <1>11 DEF CheckTable, ReadNumber, CouponRefused, InsertFails, CreatorDies
  <2> QED BY <2>2, <2>3 DEF others, TypeOK, BusyHasOrder, CreatorHasOrder
<1>12. ASSUME NEW c \in Creator, Insert(c) PROVE Typed'
  <2> DEFINE r == creator[c]
  <2>1. r \in CreatorState /\ r.id \in OrderId
    BY <1>12 DEF Insert, TypeOK, CreatorHasOrder
  <2>2. order' \in [OrderId -> OrderRow]
    BY <1>12, <2>1 DEF Insert, TypeOK, NoRow, OrderStatus
  <2>3. history' \in [OrderId -> HistoryRow]
    BY <1>12, <2>1 DEF Insert, TypeOK, OrderStatus
  <2>4. /\ table' \in [Table -> {"AVAILABLE", "OCCUPIED"}]
        /\ timesUsed' \in [Coupon -> Nat]
        /\ idem' \in [Key -> OrderId \cup {None}]
        /\ fresh' \in SUBSET Key
    BY <1>12, <2>1 DEF Insert, TypeOK
  <2>5. creator' = [creator EXCEPT ![c] = IdleCreator] /\ UNCHANGED <<today, writer, collected>>
    BY <1>12 DEF Insert
  <2>6. IdleCreator \in CreatorState /\ IdleCreator.pc = "idle"
    BY DEF IdleCreator
  <2> QED BY <2>2, <2>3, <2>4, <2>5, <2>6 DEF TypeOK, BusyHasOrder, CreatorHasOrder
<1>13. ASSUME NEW k \in Key, KeyExpires(k) PROVE Typed'
  BY <1>13 DEF KeyExpires, TypeOK, BusyHasOrder, CreatorHasOrder
<1>14. CASE NextDay
  BY <1>14 DEF NextDay, TypeOK, BusyHasOrder, CreatorHasOrder
<1>15. CASE UNCHANGED vars
  BY <1>15 DEF vars, TypeOK, BusyHasOrder, CreatorHasOrder
<1> QED
  BY <1>1, <1>2, <1>3, <1>4, <1>5, <1>6, <1>7, <1>8, <1>9, <1>10, <1>11, <1>12,
     <1>13, <1>14, <1>15 DEF Next, WriterStep, CreatorStep

LEMMA TypedInvariant == Spec => []Typed
<1>1. Init => Typed
  BY OrdersAssumption
     DEF Init, Typed, TypeOK, BusyHasOrder, CreatorHasOrder, NoRow, NoHistory, IdleWriter,
         IdleCreator, OrderStatus, OrderRow, HistoryRow, WriterState, CreatorState, Op,
         PaymentStatus, OrderType, FirstStatus
<1> QED BY <1>1, TypedStep, PTL DEF Spec

\* Every variable keeps its type, in every interleaving of any number of
\* requests and for any version a client sends (order.repository.js writes
\* expectedVersion + 1, whatever the expected version was).
THEOREM TypeCorrect == Spec => []TypeOK
<1>1. Typed => TypeOK
  BY DEF Typed
<1> QED
  BY <1>1, TypedInvariant, PTL

\* A key answers for the order it was first stored with, for ever: the unique
\* index makes a later creation with it fail, whether or not the key is still
\* inside the 24-hour window of findIdempotencyKey.
THEOREM KeysAnswerOnce == Spec => KeyAnswersForOneOrder
<1>1. ASSUME Typed, [Next]_vars, NEW k \in Key, idem[k] # None
      PROVE  idem'[k] = idem[k]
  <2>1. CASE UNCHANGED idem
    BY <2>1
  <2>2. ASSUME NEW c \in Creator, Insert(c) PROVE idem'[k] = idem[k]
    <3>1. idem' = [x \in Key |-> IF x = creator[c].key THEN creator[c].id ELSE idem[x]]
      BY <2>2 DEF Insert
    <3>2. k # creator[c].key
      BY <1>1, <2>2, OrdersAssumption DEF Insert, ViolatesUnique, OrdersAssumption
    <3> QED BY <3>1, <3>2
  <2>3. UNCHANGED idem \/ \E c \in Creator : Insert(c)
    <3>1. ASSUME NEW w \in Writer,
                 \/ ReadForStatus(w) \/ ReadForCancel(w) \/ ReadForPayment(w)
                 \/ ReadForRefund(w) \/ ReadForAppend(w) \/ WriterStep(w) \/ WriterDies(w)
          PROVE  UNCHANGED idem
      BY <3>1 DEF ReadForStatus, ReadForCancel, ReadForPayment, ReadForRefund, ReadForAppend,
           WriterStep, ReadInTransaction, Update, UpdateMisses, CommitStatus, CommitPayment,
           CommitRefund, CommitAppend, WriterDies, tables
    <3>2. ASSUME NEW c \in Creator,
                 BeginCreate(c) \/ BeginRound(c) \/ CreatorStep(c) \/ CreatorDies(c)
          PROVE  UNCHANGED idem \/ Insert(c)
      BY <3>2 DEF BeginCreate, BeginRound, CreatorStep, CheckTable, ReadNumber, CouponRefused,
           InsertFails, CreatorDies, others
    <3>3. ASSUME NEW x \in Key, KeyExpires(x) PROVE UNCHANGED idem
      BY <3>3 DEF KeyExpires
    <3>4. NextDay \/ UNCHANGED vars => UNCHANGED idem
      BY DEF NextDay, vars
    <3> QED BY <1>1, <3>1, <3>2, <3>3, <3>4 DEF Next
  <2> QED BY <2>1, <2>2, <2>3
<1>2. Typed /\ [Next]_vars
        => [\A k \in Key : idem[k] # None => idem'[k] = idem[k]]_idem
  BY <1>1
<1> QED
  BY <1>2, TypedInvariant, PTL DEF Spec, KeyAnswersForOneOrder

-----------------------------------------------------------------------------
(* Steps of requests that change no order *)

\* A creator's id is its own until its order is inserted.
CreatorInv ==
  /\ \A c \in Creator : creator[c].pc # "idle" => ~Placed(creator[c].id)
  /\ \A c, d \in Creator : creator[c].pc # "idle" /\ creator[c].id = creator[d].id => c = d

\* Before its insert a creator keeps its id, and the number it has read was the next one.
LEMMA CreatorGoes ==
  ASSUME Typed, NEW c \in Creator,
         \/ BeginCreate(c) \/ BeginRound(c) \/ CheckTable(c) \/ ReadNumber(c)
         \/ CouponRefused(c) \/ InsertFails(c) \/ CreatorDies(c)
  PROVE  \E r : /\ creator' = [creator EXCEPT ![c] = r]
                /\ \/ r.pc = "idle" /\ r.id = None
                   \/ creator[c].pc # "idle" /\ r.id = creator[c].id
                   \/ r.id \in OrderId /\ Unused(r.id)
                /\ r.pc # "numbered" \/ IsNextNumber(r.orderNumber, r.orderDate)
<1>1. IdleCreator.pc = "idle" /\ IdleCreator.id = None
  BY DEF IdleCreator
<1>2. creator[c] \in CreatorState
  BY DEF Typed, TypeOK
<1>3. CASE BeginCreate(c)
  <2>1. PICK o \in OrderId, s \in Sources, ty \in Types, t \in Table \cup {None},
             cp \in Coupon \cup {None}, k \in Key \cup {None} :
          /\ Unused(o)
          /\ creator' = [creator EXCEPT ![c] = CreateRequest(o, s, ty, t, cp, k)]
    BY <1>3, Zenon DEF BeginCreate
  <2>2. CreateRequest(o, s, ty, t, cp, k).id = o /\ CreateRequest(o, s, ty, t, cp, k).pc = "begun"
    BY DEF CreateRequest, IdleCreator
  <2>3. PICK r : r = CreateRequest(o, s, ty, t, cp, k)
    OBVIOUS
  <2> QED BY <2>1, <2>2, <2>3
<1>4. CASE BeginRound(c)
  <2>1. PICK o \in OrderId, t \in Table :
          /\ Unused(o)
          /\ creator' = [creator EXCEPT ![c] =
               [IdleCreator EXCEPT !.pc = "begun", !.id = o, !.source = "QR",
                  !.status = "CONFIRMED", !.tableId = t, !.orderDate = today]]
    BY <1>4 DEF BeginRound
  <2> DEFINE r == [IdleCreator EXCEPT !.pc = "begun", !.id = o, !.source = "QR",
                     !.status = "CONFIRMED", !.tableId = t, !.orderDate = today]
  <2>2. r.id = o /\ r.pc = "begun"
    BY DEF IdleCreator
  <2>3. creator' = [creator EXCEPT ![c] = r]
    BY <2>1
  <2> HIDE DEF r
  <2> QED BY <2>1, <2>2, <2>3
<1>5. CASE CheckTable(c)
  <2> DEFINE r == [creator[c] EXCEPT !.pc = "checked"]
  <2>1. r.id = creator[c].id /\ r.pc = "checked"
    BY <1>2, CreatorUpdates DEF CreatorState
  <2>2. creator' = [creator EXCEPT ![c] = IF TableTaken(c) THEN IdleCreator ELSE r]
    BY <1>5 DEF CheckTable
  <2>3. creator[c].pc # "idle"
    BY <1>5 DEF CheckTable
  <2> HIDE DEF r
  <2> QED BY <1>1, <2>1, <2>2, <2>3
<1>6. CASE ReadNumber(c)
  <2>1. PICK n \in NumberRange :
          /\ IsNextNumber(n, creator[c].orderDate)
          /\ creator' = [creator EXCEPT ![c] =
                [creator[c] EXCEPT !.pc = "numbered", !.orderNumber = n]]
    BY <1>6 DEF ReadNumber
  <2> DEFINE r == [creator[c] EXCEPT !.pc = "numbered", !.orderNumber = n]
  <2>2. r.id = creator[c].id /\ r.orderNumber = n /\ r.orderDate = creator[c].orderDate
    BY <1>2 DEF CreatorState
  <2>3. creator[c].pc # "idle" /\ creator' = [creator EXCEPT ![c] = r]
    BY <1>6, <2>1 DEF ReadNumber
  <2> HIDE DEF r
  <2> QED BY <2>1, <2>2, <2>3
<1>7. CASE InsertFails(c)
  <2> DEFINE r == [creator[c] EXCEPT !.pc = "begun", !.orderNumber = 0,
                                     !.attempt = NextAttempt(creator[c].attempt)]
  <2>1. r.id = creator[c].id /\ r.pc = "begun"
    BY <1>2 DEF CreatorState
  <2>2. /\ creator' = [creator EXCEPT ![c] = IF MayRetry(c) THEN r ELSE IdleCreator]
        /\ creator[c].pc # "idle"
    BY <1>7 DEF InsertFails
  <2> HIDE DEF r
  <2> QED BY <1>1, <2>1, <2>2
<1>8. CASE CouponRefused(c) \/ CreatorDies(c)
  BY <1>1, <1>8 DEF CouponRefused, CreatorDies
<1> QED BY <1>3, <1>4, <1>5, <1>6, <1>7, <1>8

LEMMA CreatorKeepsIds ==
  ASSUME Typed, CreatorInv, NEW c \in Creator,
         \/ BeginCreate(c) \/ BeginRound(c) \/ CheckTable(c) \/ ReadNumber(c)
         \/ CouponRefused(c) \/ InsertFails(c) \/ CreatorDies(c)
  PROVE  CreatorInv' /\ UNCHANGED <<order, writer, collected>>
<1>1. UNCHANGED <<order, writer, collected>>
  BY DEF BeginCreate, BeginRound, CheckTable, ReadNumber, CouponRefused, InsertFails,
         CreatorDies, others
<1>2. PICK r : /\ creator' = [creator EXCEPT ![c] = r]
               /\ \/ r.pc = "idle" /\ r.id = None
                  \/ creator[c].pc # "idle" /\ r.id = creator[c].id
                  \/ r.id \in OrderId /\ Unused(r.id)
  BY CreatorGoes
<1>3. creator \in [Creator -> CreatorState]
  BY DEF Typed, TypeOK
<1>4. \A d \in Creator : creator[d].pc # "idle" => creator[d].id \in OrderId
  BY DEF Typed, CreatorHasOrder
<1> QED BY <1>1, <1>2, <1>3, <1>4, OrdersAssumption DEF CreatorInv, Unused, Placed

\* The row an order is created with.
LEMMA InsertedRow ==
  ASSUME Typed, CreatorInv, NEW c \in Creator, Insert(c)
  PROVE  /\ creator[c].id \in OrderId /\ ~Placed(creator[c].id)
         /\ creator' = [creator EXCEPT ![c] = IdleCreator]
         /\ IdleCreator.pc = "idle" /\ IdleCreator.id = None
         /\ UNCHANGED <<writer, collected>>
         /\ \E row \in OrderRow :
              /\ order' = [order EXCEPT ![creator[c].id] = row]
              /\ row.version = 1 /\ row.paymentStatus = "PENDING" /\ row.total = 1
              /\ row.status = creator[c].status /\ row.type = creator[c].type
              /\ row.orderNumber = creator[c].orderNumber
              /\ row.orderDate = creator[c].orderDate
              /\ row.couponId = creator[c].couponId
<1> DEFINE row == [NoRow EXCEPT !.status = creator[c].status, !.version = 1, !.total = 1,
            !.orderNumber = creator[c].orderNumber, !.orderDate = creator[c].orderDate,
            !.type = creator[c].type, !.tableId = creator[c].tableId,
            !.couponId = creator[c].couponId]
<1>1. creator[c] \in CreatorState
  BY DEF Typed, TypeOK
<1>2. row \in OrderRow
  BY <1>1 DEF CreatorState, NoRow, OrderRow, FirstStatus, OrderStatus, PaymentStatus
<1>3. /\ row.version = 1 /\ row.paymentStatus = "PENDING" /\ row.total = 1
      /\ row.status = creator[c].status /\ row.type = creator[c].type
      /\ row.orderNumber = creator[c].orderNumber /\ row.orderDate = creator[c].orderDate
      /\ row.couponId = creator[c].couponId
  BY DEF NoRow
<1>4. order' = [order EXCEPT ![creator[c].id] = row]
  BY DEF Insert
<1>5. /\ creator' = [creator EXCEPT ![c] = IdleCreator]
      /\ IdleCreator.pc = "idle" /\ IdleCreator.id = None
      /\ UNCHANGED <<writer, collected>>
  BY DEF Insert, IdleCreator
<1>6. creator[c].id \in OrderId /\ ~Placed(creator[c].id)
  BY DEF Insert, Typed, CreatorHasOrder, CreatorInv
<1> HIDE DEF row
<1> QED BY <1>2, <1>3, <1>4, <1>5, <1>6

LEMMA InsertKeepsIds ==
  ASSUME Typed, CreatorInv, NEW c \in Creator, Insert(c)
  PROVE  CreatorInv'
<1> DEFINE o == creator[c].id
<1>1. PICK row \in OrderRow : order' = [order EXCEPT ![o] = row]
  BY InsertedRow
<1>2. /\ creator' = [creator EXCEPT ![c] = IdleCreator]
      /\ IdleCreator.pc = "idle" /\ IdleCreator.id = None
  BY InsertedRow
<1>3. order \in [OrderId -> OrderRow] /\ creator \in [Creator -> CreatorState]
  BY DEF Typed, TypeOK
<1>4. \A d \in Creator : d # c /\ creator[d].pc # "idle" => creator[d].id # o
  BY DEF CreatorInv
<1>5. \A d \in Creator : creator[d].pc # "idle" => creator[d].id \in OrderId
  BY DEF Typed, CreatorHasOrder
<1> QED BY <1>1, <1>2, <1>3, <1>4, <1>5, OrdersAssumption DEF CreatorInv, Placed

\* A writer that has not committed keeps its order, or has just read it.
LEMMA WriterGoes ==
  ASSUME Typed, NEW w \in Writer,
         \/ ReadForStatus(w) \/ ReadForCancel(w) \/ ReadForPayment(w)
         \/ ReadForRefund(w) \/ ReadForAppend(w)
         \/ ReadInTransaction(w) \/ Update(w) \/ UpdateMisses(w) \/ WriterDies(w)
  PROVE  /\ UNCHANGED tables
         /\ \E u : /\ writer' = [writer EXCEPT ![w] = u]
                   /\ \/ u.pc = "idle"
                      \/ u.id \in OrderId /\ Placed(u.id)
                      \/ writer[w].pc # "idle" /\ u.id = writer[w].id
<1>0. writer[w] \in WriterState /\ IdleWriter.pc = "idle"
  BY DEF Typed, TypeOK, IdleWriter
<1>1. CASE \/ ReadForStatus(w) \/ ReadForCancel(w) \/ ReadForPayment(w)
           \/ ReadForRefund(w) \/ ReadForAppend(w)
  <2>1. /\ UNCHANGED tables
        /\ \E o \in OrderId : \E pc, op, expected, from, to, amount :
             Placed(o) /\ Accept(w, pc, op, o, expected, from, to, amount)
    BY <1>1, Zenon DEF ReadForStatus, ReadForCancel, ReadForPayment, ReadForRefund, ReadForAppend
  <2>2. PICK o \in OrderId : \E pc, op, expected, from, to, amount :
          Placed(o) /\ Accept(w, pc, op, o, expected, from, to, amount)
    BY <2>1
  <2>4. PICK pc, op, expected, from, to, amount :
          Placed(o) /\ Accept(w, pc, op, o, expected, from, to, amount)
    BY <2>2
  <2> DEFINE u == [pc |-> pc, op |-> op, id |-> o, expectedVersion |-> expected,
                   from |-> from, to |-> to, amount |-> amount, releases |-> FALSE]
  <2>3. u.id = o /\ writer' = [writer EXCEPT ![w] = u]
    BY <2>4 DEF Accept
  <2> HIDE DEF u
  <2> QED BY <2>1, <2>3, <2>4
<1>2. CASE ReadInTransaction(w)
  <2> DEFINE st == order[writer[w].id].status
             u == [writer[w] EXCEPT !.pc = "ready", !.from = st, !.to = st]
  <2>1. /\ UNCHANGED tables /\ writer[w].pc # "idle" /\ writer' = [writer EXCEPT ![w] = u]
    BY <1>2 DEF ReadInTransaction
  <2>2. u.id = writer[w].id
    BY <1>0 DEF WriterState
  <2> HIDE DEF u
  <2> QED BY <2>1, <2>2
<1>3. CASE Update(w)
  <2> DEFINE u == [writer[w] EXCEPT !.pc = "locked", !.releases = Releases(writer[w])]
  <2>1. /\ UNCHANGED tables /\ writer[w].pc # "idle" /\ writer' = [writer EXCEPT ![w] = u]
    BY <1>3 DEF Update
  <2>2. u.id = writer[w].id
    BY <1>0 DEF WriterState
  <2> HIDE DEF u
  <2> QED BY <2>1, <2>2
<1>4. CASE UpdateMisses(w) \/ WriterDies(w)
  BY <1>0, <1>4 DEF UpdateMisses, WriterDies
<1> QED BY <1>1, <1>2, <1>3, <1>4

\* The four kinds of commit, as changes of one row.
Commits(w) == CommitStatus(w) \/ CommitPayment(w) \/ CommitRefund(w) \/ CommitAppend(w)

\* A commit changes neither the number nor the day nor the coupon of its order.
LEMMA CommittedRow ==
  ASSUME Typed, NEW w \in Writer, Commits(w)
  PROVE  LET o == writer[w].id IN
           /\ o \in OrderId /\ writer[w].pc = "locked"
           /\ writer' = [writer EXCEPT ![w] = IdleWriter] /\ creator' = creator
           /\ \E row \in OrderRow :
                /\ order' = [order EXCEPT ![o] = row]
                /\ row.version = writer[w].expectedVersion + 1 /\ row.version > 0
                /\ row.orderNumber = order[o].orderNumber /\ row.orderDate = order[o].orderDate
                /\ row.couponId = order[o].couponId
                /\ row.status = IF CommitStatus(w) THEN writer[w].to ELSE order[o].status
<1> DEFINE u == writer[w]
           old == order[u.id]
           n == u.expectedVersion + 1
<1>1. /\ u \in WriterState /\ u.pc = "locked" /\ u.id \in OrderId /\ old \in OrderRow
      /\ writer' = [writer EXCEPT ![w] = IdleWriter] /\ creator' = creator
  BY DEF Commits, CommitStatus, CommitPayment, CommitRefund, CommitAppend, Committing,
         Typed, TypeOK, BusyHasOrder
<1>2. /\ n \in Nat /\ n > 0 /\ u.amount + 1 \in Nat /\ u.to \in OrderStatus
      /\ {"PAID", "REFUNDED"} \subseteq PaymentStatus
  BY <1>1 DEF WriterState, PaymentStatus
<1>3. CASE CommitStatus(w)
  <2> DEFINE row == [old EXCEPT !.status = u.to, !.version = n]
  <2>1. row \in OrderRow
    BY <1>1, <1>2, RowUpdates
  <2>2. /\ row.version = n /\ row.orderNumber = old.orderNumber /\ row.orderDate = old.orderDate
        /\ row.couponId = old.couponId /\ row.status = u.to
    BY <1>1 DEF OrderRow
  <2>3. order' = [order EXCEPT ![u.id] = row]
    BY <1>3 DEF CommitStatus
  <2> HIDE DEF row
  <2> QED BY <1>1, <1>2, <1>3, <2>1, <2>2, <2>3
<1>4. ASSUME NEW row \in OrderRow, ~CommitStatus(w), order' = [order EXCEPT ![u.id] = row],
             row.version = n, row.orderNumber = old.orderNumber, row.orderDate = old.orderDate,
             row.couponId = old.couponId, row.status = old.status
      PROVE  \E r \in OrderRow :
               /\ order' = [order EXCEPT ![u.id] = r]
               /\ r.version = n /\ r.version > 0
               /\ r.orderNumber = old.orderNumber /\ r.orderDate = old.orderDate
               /\ r.couponId = old.couponId
               /\ r.status = IF CommitStatus(w) THEN u.to ELSE old.status
  BY <1>2, <1>4
<1>5. CASE CommitPayment(w) \/ CommitRefund(w)
  <2> DEFINE paid == IF CommitPayment(w) THEN "PAID" ELSE "REFUNDED"
             row == [old EXCEPT !.paymentStatus = paid, !.version = n]
  <2>0. paid \in PaymentStatus
    BY <1>2
  <2>1. /\ order' = [order EXCEPT ![u.id] = row] /\ ~CommitStatus(w)
    BY <1>5 DEF CommitPayment, CommitRefund, CommitStatus, Committing
  <2> HIDE DEF paid
  <2>2. row \in OrderRow
    BY <1>1, <1>2, <2>0, RowUpdates
  <2>3. /\ row.version = n /\ row.orderNumber = old.orderNumber /\ row.orderDate = old.orderDate
        /\ row.couponId = old.couponId /\ row.status = old.status
    BY <1>1 DEF OrderRow
  <2> HIDE DEF row
  <2> QED BY <1>1, <1>4, <2>1, <2>2, <2>3
<1>6. CASE CommitAppend(w)
  <2> DEFINE row == [old EXCEPT !.total = u.amount + 1, !.version = n]
  <2>1. /\ order' = [order EXCEPT ![u.id] = row] /\ ~CommitStatus(w)
    BY <1>6 DEF CommitAppend, CommitStatus, Committing
  <2>2. row \in OrderRow
    BY <1>1, <1>2, RowUpdates
  <2>3. /\ row.version = n /\ row.orderNumber = old.orderNumber /\ row.orderDate = old.orderDate
        /\ row.couponId = old.couponId /\ row.status = old.status
    BY <1>1 DEF OrderRow
  <2> HIDE DEF row
  <2> QED BY <1>1, <1>4, <2>1, <2>2, <2>3
<1> QED BY <1>3, <1>5, <1>6 DEF Commits

-----------------------------------------------------------------------------
(* Order numbers *)

PlacedOrders == {o \in OrderId : Placed(o)}

\* A number that a creator has read is at most the next one: others may have inserted since,
\* and then the unique index refuses it.
NumbersInv ==
  /\ CreatorInv
  /\ \A w \in Writer : writer[w].pc # "idle" => Placed(writer[w].id)
  /\ IsFiniteSet(PlacedOrders)
  /\ \A day \in Nat :
       {order[o].orderNumber : o \in OrdersOn(day)}
         = StartNumber .. (StartNumber + Cardinality(OrdersOn(day)) - 1)
  /\ \A c \in Creator : creator[c].pc = "numbered" =>
       /\ StartNumber <= creator[c].orderNumber
       /\ creator[c].orderNumber <= StartNumber + Cardinality(OrdersOn(creator[c].orderDate))

LEMMA DaysAreFinite ==
  ASSUME IsFiniteSet(PlacedOrders), NEW day
  PROVE  IsFiniteSet(OrdersOn(day)) /\ Cardinality(OrdersOn(day)) \in Nat
<1>1. OrdersOn(day) \subseteq PlacedOrders
  BY DEF OrdersOn, PlacedOrders
<1> QED BY <1>1, FS_Subset, FS_CardinalityType

LEMMA NumbersStart == Init => NumbersInv
<1> SUFFICES ASSUME Init PROVE NumbersInv
  OBVIOUS
<1>1. /\ \A o \in OrderId : ~Placed(o)
      /\ \A c \in Creator : creator[c].pc = "idle"
      /\ \A w \in Writer : writer[w].pc = "idle"
  BY DEF Init, NoRow, Placed, IdleCreator, IdleWriter
<1>2. PlacedOrders = {} /\ \A day : OrdersOn(day) = {}
  BY <1>1 DEF PlacedOrders, OrdersOn
<1>3. IsFiniteSet({}) /\ Cardinality({}) = 0
  BY FS_EmptySet
<1>4. StartNumber .. (StartNumber + 0 - 1) = {}
  BY OrdersAssumption
<1>5. CreatorInv
  BY <1>1 DEF CreatorInv
<1> QED BY <1>1, <1>2, <1>3, <1>4, <1>5 DEF NumbersInv

\* The next number is one of those a creator may have.
LEMMA NextNumberFits ==
  ASSUME Typed, NumbersInv, NEW day \in Nat, NEW n, IsNextNumber(n, day)
  PROVE  StartNumber <= n /\ n <= StartNumber + Cardinality(OrdersOn(day))
<1>1. Cardinality(OrdersOn(day)) \in Nat /\ StartNumber \in Nat
  BY DaysAreFinite, OrdersAssumption DEF NumbersInv
<1>2. CASE n = StartNumber
  BY <1>1, <1>2
<1>3. ASSUME NEW last \in OrdersOn(day), n = order[last].orderNumber + 1
      PROVE  StartNumber <= n /\ n <= StartNumber + Cardinality(OrdersOn(day))
  <2>1. order[last].orderNumber \in StartNumber .. (StartNumber + Cardinality(OrdersOn(day)) - 1)
    BY DEF NumbersInv
  <2> QED BY <1>1, <1>3, <2>1
<1> QED BY <1>2, <1>3 DEF IsNextNumber

LEMMA NumbersInsert ==
  ASSUME Typed, NumbersInv, NEW c \in Creator, Insert(c)
  PROVE  NumbersInv'
<1> DEFINE many(day) == Cardinality(OrdersOn(day))
<1>a. PICK o, date, n :
        o = creator[c].id /\ date = creator[c].orderDate /\ n = creator[c].orderNumber
  OBVIOUS
<1>1. PICK row \in OrderRow :
        /\ order' = [order EXCEPT ![o] = row]
        /\ row.version = 1 /\ row.orderNumber = n /\ row.orderDate = date
  BY <1>a, InsertedRow DEF NumbersInv
<1>2. /\ o \in OrderId /\ ~Placed(o) /\ writer' = writer
      /\ creator' = [creator EXCEPT ![c] = IdleCreator] /\ IdleCreator.pc = "idle"
  BY <1>a, InsertedRow DEF NumbersInv
<1>3. /\ order \in [OrderId -> OrderRow] /\ creator \in [Creator -> CreatorState]
      /\ date \in Nat /\ n \in Nat /\ StartNumber \in Nat
  BY <1>a, OrdersAssumption DEF Typed, TypeOK, CreatorState
<1>4. /\ creator[c].pc = "numbered" /\ \A p \in OrdersOn(date) : order[p].orderNumber # n
  BY <1>a DEF Insert, ViolatesUnique
<1>5. /\ order'[o] = row /\ \A p \in OrderId \ {o} : order'[p] = order[p]
      /\ Placed(o)' /\ \A p \in OrderId \ {o} : Placed(p)' <=> Placed(p)
  BY <1>1, <1>2, <1>3 DEF Placed
<1>6. /\ PlacedOrders' = PlacedOrders \cup {o}
      /\ OrdersOn(date)' = OrdersOn(date) \cup {o} /\ o \notin OrdersOn(date)
      /\ \A day : day # date => OrdersOn(day)' = OrdersOn(day)
  BY <1>1, <1>2, <1>5 DEF PlacedOrders, OrdersOn
<1>7. /\ IsFiniteSet(PlacedOrders) /\ \A day : IsFiniteSet(OrdersOn(day)) /\ many(day) \in Nat
  BY DaysAreFinite DEF NumbersInv
<1>8. IsFiniteSet(PlacedOrders')
  BY <1>6, <1>7, FS_AddElement
<1>9. many(date)' = many(date) + 1 /\ \A day : day # date => many(day)' = many(day)
  <2>1. Cardinality(OrdersOn(date) \cup {o}) = Cardinality(OrdersOn(date)) + 1
    BY <1>6, <1>7, FS_AddElement
  <2> QED BY <1>6, <2>1
<1>10. n = StartNumber + many(date)
  <2>1. /\ StartNumber <= n /\ n <= StartNumber + many(date)
        /\ {order[p].orderNumber : p \in OrdersOn(date)}
             = StartNumber .. (StartNumber + many(date) - 1)
    BY <1>a, <1>3, <1>4 DEF NumbersInv
  <2>2. n \notin StartNumber .. (StartNumber + many(date) - 1)
    BY <1>4, <2>1
  <2>3. many(date) \in Nat
    BY <1>7
  <2> HIDE DEF many
  <2> QED BY <1>3, <2>1, <2>2, <2>3
<1>11. ASSUME NEW day \in Nat
       PROVE  {order'[p].orderNumber : p \in OrdersOn(day)'}
                = StartNumber .. (StartNumber + many(day)' - 1)
  <2>1. {order[p].orderNumber : p \in OrdersOn(day)} = StartNumber .. (StartNumber + many(day) - 1)
    BY DEF NumbersInv
  <2>2. CASE day # date
    <3>1. OrdersOn(day)' = OrdersOn(day) /\ many(day)' = many(day) /\ o \notin OrdersOn(day)
      BY <1>2, <1>6, <1>9, <2>2 DEF OrdersOn
    <3>2. \A p \in OrdersOn(day) : order'[p] = order[p]
      BY <1>5, <3>1 DEF OrdersOn
    <3> QED BY <2>1, <3>1, <3>2
  <2>3. CASE day = date
    <3>1. \A p \in OrdersOn(date) : order'[p] = order[p]
      BY <1>5, <1>6 DEF OrdersOn
    <3>2. {order'[p].orderNumber : p \in OrdersOn(date)'}
            = {order[p].orderNumber : p \in OrdersOn(date)} \cup {n}
      BY <1>1, <1>5, <1>6, <3>1
    <3>3. {order[p].orderNumber : p \in OrdersOn(date)} \cup {n}
            = (StartNumber .. (StartNumber + many(date) - 1)) \cup {StartNumber + many(date)}
      BY <1>10, <2>1, <2>3
    <3>4. many(date) \in Nat /\ many(date)' = many(date) + 1
      BY <1>7, <1>9
    <3>5. (StartNumber .. (StartNumber + many(date) - 1)) \cup {StartNumber + many(date)}
            = StartNumber .. (StartNumber + (many(date) + 1) - 1)
      <4> HIDE DEF many
      <4> QED BY <1>3, <3>4
    <3> QED BY <2>3, <3>2, <3>3, <3>4, <3>5
  <2> QED BY <2>2, <2>3
<1>12. ASSUME NEW d \in Creator, creator'[d].pc = "numbered"
       PROVE  /\ StartNumber <= creator'[d].orderNumber
              /\ creator'[d].orderNumber <= StartNumber + Cardinality(OrdersOn(creator[d].orderDate)')
  <2>1. creator'[d] = creator[d]
    BY <1>2, <1>3, <1>12
  <2>2. PICK day : day = creator[d].orderDate
    OBVIOUS
  <2>3. /\ StartNumber <= creator[d].orderNumber
        /\ creator[d].orderNumber <= StartNumber + many(day)
    BY <1>12, <2>1, <2>2 DEF NumbersInv
  <2>4. /\ many(day) \in Nat /\ creator[d].orderNumber \in Nat
        /\ many(day)' \in {many(day), many(day) + 1}
    BY <1>3, <1>7, <1>9 DEF CreatorState
  <2>5. creator[d].orderNumber <= StartNumber + many(day)'
    <3> HIDE DEF many
    <3> QED BY <1>3, <2>3, <2>4
  <2> QED BY <2>1, <2>2, <2>3, <2>5
<1>13. (\A w \in Writer : writer[w].pc # "idle" => Placed(writer[w].id))'
  <2>1. ASSUME NEW w \in Writer, writer[w].pc # "idle", NEW p, p = writer[w].id
        PROVE  Placed(p)'
    BY <1>2, <1>5, <2>1 DEF NumbersInv, Typed, BusyHasOrder
  <2> QED BY <1>2, <2>1
<1>14. CreatorInv'
  BY InsertKeepsIds DEF NumbersInv
<1> QED BY <1>8, <1>11, <1>12, <1>13, <1>14 DEF NumbersInv

LEMMA NumbersStep == Typed /\ NumbersInv /\ [Next]_vars => NumbersInv'
<1> SUFFICES ASSUME Typed, NumbersInv, [Next]_vars PROVE NumbersInv'
  OBVIOUS
<1>t. Typed'
  BY TypedStep
\* The orders keep their numbers and days.
<1>0. ASSUME \A o \in OrderId : /\ Placed(o)' <=> Placed(o)
                                /\ order'[o].orderNumber = order[o].orderNumber
                                /\ order'[o].orderDate = order[o].orderDate
      PROVE  /\ PlacedOrders' = PlacedOrders
             /\ \A day : /\ OrdersOn(day)' = OrdersOn(day)
                         /\ \A n : IsNextNumber(n, day)' <=> IsNextNumber(n, day)
                         /\ {order'[o].orderNumber : o \in OrdersOn(day)'}
                              = {order[o].orderNumber : o \in OrdersOn(day)}
  <2>1. PlacedOrders' = PlacedOrders /\ \A day : OrdersOn(day)' = OrdersOn(day)
    BY <1>0 DEF PlacedOrders, OrdersOn
  <2>2. \A day : \A o \in OrdersOn(day) : order'[o].orderNumber = order[o].orderNumber
    BY <1>0 DEF OrdersOn
  <2> QED BY <2>1, <2>2 DEF IsNextNumber
<1>1. ASSUME NEW w \in Writer,
             \/ ReadForStatus(w) \/ ReadForCancel(w) \/ ReadForPayment(w)
             \/ ReadForRefund(w) \/ ReadForAppend(w)
             \/ ReadInTransaction(w) \/ Update(w) \/ UpdateMisses(w) \/ WriterDies(w)
      PROVE  NumbersInv'
  <2>1. PICK u : /\ writer' = [writer EXCEPT ![w] = u]
                 /\ \/ u.pc = "idle"
                    \/ u.id \in OrderId /\ Placed(u.id)
                    \/ writer[w].pc # "idle" /\ u.id = writer[w].id
    BY <1>1, WriterGoes
  <2>2. UNCHANGED <<order, creator>>
    BY <1>1, WriterGoes DEF tables
  <2>3. writer \in [Writer -> WriterState]
    BY DEF Typed, TypeOK
  <2>4. (\A v \in Writer : writer[v].pc # "idle" => Placed(writer[v].id))'
    BY <2>1, <2>2, <2>3 DEF NumbersInv, Placed
  <2> QED BY <1>0, <2>2, <2>4 DEF NumbersInv, CreatorInv, Placed
<1>2. ASSUME NEW w \in Writer, Commits(w) PROVE NumbersInv'
  <2>a. PICK o : o = writer[w].id
    OBVIOUS
  <2>1. PICK row \in OrderRow :
          /\ order' = [order EXCEPT ![o] = row] /\ row.version > 0
          /\ row.orderNumber = order[o].orderNumber /\ row.orderDate = order[o].orderDate
    BY <1>2, <2>a, CommittedRow
  <2>2. /\ o \in OrderId /\ writer[w].pc = "locked" /\ creator' = creator
        /\ writer' = [writer EXCEPT ![w] = IdleWriter] /\ IdleWriter.pc = "idle"
    BY <1>2, <2>a, CommittedRow DEF IdleWriter
  <2>3. order \in [OrderId -> OrderRow] /\ writer \in [Writer -> WriterState] /\ Placed(o)
    BY <2>2, <2>a DEF Typed, TypeOK, NumbersInv
  <2>4. \A p \in OrderId : /\ Placed(p)' <=> Placed(p)
                           /\ order'[p].orderNumber = order[p].orderNumber
                           /\ order'[p].orderDate = order[p].orderDate
    BY <2>1, <2>2, <2>3 DEF Placed
  <2>5. (\A v \in Writer : writer[v].pc # "idle" => Placed(writer[v].id))'
    <3>1. ASSUME NEW v \in Writer, writer[v].pc # "idle", NEW p, p = writer[v].id
          PROVE  Placed(p)'
      BY <2>4, <3>1 DEF NumbersInv, Typed, BusyHasOrder
    <3>2. \A v \in Writer : writer'[v].pc # "idle" => writer'[v] = writer[v]
      BY <2>2, <2>3
    <3> QED BY <3>1, <3>2
  <2>6. CreatorInv'
    BY <2>2, <2>4 DEF NumbersInv, CreatorInv, Typed, CreatorHasOrder
  <2> QED BY <1>0, <2>2, <2>4, <2>5, <2>6 DEF NumbersInv
<1>3. ASSUME NEW c \in Creator,
             \/ BeginCreate(c) \/ BeginRound(c) \/ CheckTable(c) \/ ReadNumber(c)
             \/ CouponRefused(c) \/ InsertFails(c) \/ CreatorDies(c)
      PROVE  NumbersInv'
  <2>1. CreatorInv' /\ UNCHANGED <<order, writer>>
    BY <1>3, CreatorKeepsIds DEF NumbersInv
  <2>2. PICK r : /\ creator' = [creator EXCEPT ![c] = r]
                 /\ r.pc # "numbered" \/ IsNextNumber(r.orderNumber, r.orderDate)
    BY <1>3, CreatorGoes
  <2>3. creator \in [Creator -> CreatorState] /\ creator' \in [Creator -> CreatorState]
    BY <1>t DEF Typed, TypeOK
  <2>4. ASSUME NEW d \in Creator, creator'[d].pc = "numbered"
        PROVE  /\ StartNumber <= creator'[d].orderNumber
               /\ creator'[d].orderNumber <= StartNumber + Cardinality(OrdersOn(creator'[d].orderDate))
    <3>1. CASE d = c
      <4>1. creator'[c] = r /\ r.orderDate \in Nat /\ IsNextNumber(r.orderNumber, r.orderDate)
        BY <2>2, <2>3, <2>4, <3>1 DEF CreatorState
      <4> QED BY <3>1, <4>1, NextNumberFits
    <3>2. CASE d # c
      <4>1. creator'[d] = creator[d]
        BY <2>2, <2>3, <3>2
      <4> QED BY <2>4, <4>1 DEF NumbersInv
    <3> QED BY <3>1, <3>2
  <2>5. /\ PlacedOrders' = PlacedOrders
        /\ \A day : /\ OrdersOn(day)' = OrdersOn(day)
                    /\ {order'[o].orderNumber : o \in OrdersOn(day)'}
                         = {order[o].orderNumber : o \in OrdersOn(day)}
    BY <1>0, <2>1 DEF Placed
  <2> QED BY <2>1, <2>4, <2>5 DEF NumbersInv, Placed
<1>4. ASSUME UNCHANGED <<order, creator, writer>> PROVE NumbersInv'
  BY <1>0, <1>4 DEF NumbersInv, CreatorInv, Placed
<1>5. (\E k \in Key : KeyExpires(k)) \/ NextDay \/ UNCHANGED vars => UNCHANGED <<order, creator, writer>>
  BY DEF KeyExpires, NextDay, vars
<1> QED
  BY <1>1, <1>2, <1>3, <1>4, <1>5, NumbersInsert DEF Next, WriterStep, CreatorStep, Commits

\* The orders of a day are numbered without gaps or repetitions from the branch's start
\* number, for any number of creations at once, their retries and crashes: a number read
\* before others inserted is refused by the unique index and read again.
THEOREM NumbersAreGapless == Spec => []NumbersGapless
<1>1. Typed /\ NumbersInv => NumbersGapless
  BY DEF Typed, TypeOK, NumbersInv, NumbersGapless
<1>2. Init => NumbersInv
  BY NumbersStart
<1>3. Typed /\ NumbersInv /\ [Next]_vars => NumbersInv'
  BY NumbersStep
<1> QED BY <1>1, <1>2, <1>3, TypedInvariant, PTL DEF Spec
=============================================================================
