-------------------------- MODULE OrdersSafetyProofs --------------------------
(***************************************************************************)
(* Why optimistic locking keeps orders right.  The checks of a request are *)
(* made on a row read before its transaction, and the version its UPDATE   *)
(* is conditional on comes from the client, not from that read.  As long   *)
(* as a client sends a version it has seen (NoGuessing), the version it    *)
(* expects is at most the version read, which is at most the row's present *)
(* version; so when the UPDATE matches all three are equal, and what was   *)
(* checked still holds.  WriterInv says this, and is inductive.  From it   *)
(* follow the charges, the audit trail, the coupon counts, and that Orders *)
(* implements OrderLifecycle.                                              *)
(***************************************************************************)
EXTENDS OrdersProofs

NoGuessing == Guess = 0

\* What a request checked, said of the row as it is now.
Current(u) ==
  /\ u.from = order[u.id].status
  /\ u.op = "status" =>
       \/ ValidStateTransition(order[u.id].status, u.to, order[u.id].type)
       \/ u.to = "CANCELLED" /\ order[u.id].status \notin Terminal
  /\ u.op # "status" => u.to = u.from
  /\ u.op = "pay" => Payable(u.id) /\ u.amount = order[u.id].total
  /\ u.op = "refund" => Refundable(u.id)
  /\ u.op = "append" => Appendable(u.id) /\ u.amount = order[u.id].total

WriterOK(u) ==
  u.pc # "idle" =>
    /\ 1 <= u.expectedVersion
    /\ u.expectedVersion <= order[u.id].version
    /\ u.expectedVersion = order[u.id].version => Current(u)
    /\ u.pc = "locked" => u.expectedVersion = order[u.id].version

WriterInv == \A w \in Writer : WriterOK(writer[w])

\* A row is locked by one transaction at a time.
LockInv ==
  \A v, w \in Writer :
    writer[v].pc = "locked" /\ writer[w].pc = "locked" /\ writer[v].id = writer[w].id => v = w

RowInv == \A o \in OrderId : ~Placed(o) => order[o] = NoRow

Inv == WriterInv /\ LockInv /\ CreatorInv /\ RowInv /\ ChargedTheTotal

-----------------------------------------------------------------------------
(* The two kinds of step that touch a writer *)

\* A request that has just read its order leaves the invariant intact.
LEMMA WriterMoves ==
  ASSUME Typed, WriterInv, LockInv,
         NEW w \in Writer, NEW u, u.pc # "locked", WriterOK(u),
         writer' = [writer EXCEPT ![w] = u], UNCHANGED order
  PROVE  WriterInv' /\ LockInv'
<1>1. ASSUME NEW v \in Writer PROVE WriterOK(writer[v])'
  <2>1. WriterOK(u)'
    BY DEF WriterOK, Current, Payable, Refundable, Appendable
  <2>2. WriterOK(writer[v]) /\ v # w => WriterOK(writer[v])'
    BY DEF WriterOK, Current, Payable, Refundable, Appendable, Typed, TypeOK
  <2> QED BY <2>1, <2>2 DEF WriterInv, Typed, TypeOK, WriterOK
<1>2. LockInv'
  BY DEF LockInv, Typed, TypeOK
<1> QED BY <1>1, <1>2 DEF WriterInv

\* An UPDATE that matched: the row was not locked, so it is locked by this writer only.
LEMMA UpdateLocks ==
  ASSUME Typed, WriterInv, LockInv, NEW w \in Writer, Update(w)
  PROVE  WriterInv' /\ LockInv'
<1> DEFINE u == [writer[w] EXCEPT !.pc = "locked", !.releases = Releases(writer[w])]
<1>1. /\ writer' = [writer EXCEPT ![w] = u]
      /\ UNCHANGED order
      /\ writer[w].pc = "ready"
      /\ order[writer[w].id].version = writer[w].expectedVersion
      /\ ~Locked(writer[w].id)
  BY DEF Update, Matches, tables
<1>2. /\ writer \in [Writer -> WriterState]
      /\ writer[w] \in WriterState
  BY DEF Typed, TypeOK
<1>3. /\ u.pc = "locked" /\ u.id = writer[w].id /\ u.op = writer[w].op
      /\ u.expectedVersion = writer[w].expectedVersion
      /\ u.from = writer[w].from /\ u.to = writer[w].to /\ u.amount = writer[w].amount
  BY <1>2 DEF WriterState
<1> HIDE DEF u
<1>4. WriterInv'
  <2>1. ASSUME NEW v \in Writer PROVE WriterOK(writer[v])'
    <3>1. CASE v = w
      <4>1. writer'[v] = u
        BY <1>1, <1>2, <3>1
      <4>2. WriterOK(writer[w])
        BY DEF WriterInv
      <4> QED BY <1>1, <1>3, <4>1, <4>2 DEF WriterOK, Current, Payable, Refundable, Appendable
    <3>2. CASE v # w
      <4>1. writer'[v] = writer[v] /\ WriterOK(writer[v])
        BY <1>1, <1>2, <3>2 DEF WriterInv
      <4> QED BY <1>1, <4>1 DEF WriterOK, Current, Payable, Refundable, Appendable
    <3> QED BY <3>1, <3>2
  <2> QED BY <2>1 DEF WriterInv
<1>5. LockInv'
  BY <1>1, <1>2, <1>3 DEF LockInv, Locked
<1> QED BY <1>4, <1>5

\* A commit: the versions all other requests for the order expect are now behind.
LEMMA CommitOutdates ==
  ASSUME Typed, WriterInv, LockInv,
         NEW w \in Writer, writer[w].pc = "locked",
         NEW row \in OrderRow, row.version = writer[w].expectedVersion + 1,
         order' = [order EXCEPT ![writer[w].id] = row],
         writer' = [writer EXCEPT ![w] = IdleWriter]
  PROVE  WriterInv' /\ LockInv'
<1>1. /\ writer \in [Writer -> WriterState]
      /\ order \in [OrderId -> OrderRow]
      /\ writer[w].id \in OrderId
      /\ writer[w].expectedVersion \in Nat
      /\ order[writer[w].id].version = writer[w].expectedVersion
  BY DEF Typed, TypeOK, BusyHasOrder, WriterInv, WriterOK, WriterState
<1>2. IdleWriter.pc = "idle"
  BY DEF IdleWriter
<1>3. ASSUME NEW v \in Writer PROVE WriterOK(writer[v])'
  <2>1. CASE v = w \/ writer[v].pc = "idle"
    BY <1>1, <1>2, <2>1 DEF WriterOK
  <2>2. CASE v # w /\ writer[v].pc # "idle"
    <3>1. /\ writer'[v] = writer[v] /\ WriterOK(writer[v])
          /\ writer[v].id \in OrderId /\ writer[v].expectedVersion \in Nat
      BY <1>1, <2>2 DEF WriterInv, Typed, BusyHasOrder, WriterState
    <3>2. CASE writer[v].id = writer[w].id
      <4>1. writer[v].pc # "locked"
        BY <2>2, <3>2 DEF LockInv
      <4>2. order'[writer[v].id].version = writer[w].expectedVersion + 1
        BY <1>1, <3>2
      <4>3. /\ 1 <= writer[v].expectedVersion
            /\ writer[v].expectedVersion <= writer[w].expectedVersion
        BY <1>1, <2>2, <3>1, <3>2 DEF WriterOK
      <4> QED BY <1>1, <3>1, <4>1, <4>2, <4>3 DEF WriterOK
    <3>3. CASE writer[v].id # writer[w].id
      <4>1. order'[writer[v].id] = order[writer[v].id]
        BY <1>1, <3>1, <3>3
      <4> QED BY <3>1, <4>1 DEF WriterOK, Current, Payable, Refundable, Appendable
    <3> QED BY <3>2, <3>3
  <2> QED BY <2>1, <2>2
<1>4. LockInv'
  BY <1>1, <1>2 DEF LockInv
<1> QED BY <1>3, <1>4 DEF WriterInv

-----------------------------------------------------------------------------
(* The invariant is inductive *)

LEMMA SendableIsSeen ==
  ASSUME NoGuessing, Typed, NEW o \in OrderId, NEW v \in Sendable(o)
  PROVE  v \in Nat /\ 1 <= v /\ v <= order[o].version
BY OrdersAssumption DEF NoGuessing, Sendable, Typed, TypeOK, OrderRow

\* The read of a request, whatever its kind: what it checked is current.
LEMMA ReadsAreCurrent ==
  ASSUME NoGuessing, Typed, WriterInv, LockInv, NEW w \in Writer,
         \/ ReadForStatus(w) \/ ReadForCancel(w) \/ ReadForPayment(w)
         \/ ReadForRefund(w) \/ ReadForAppend(w)
  PROVE  WriterInv' /\ LockInv'
<1> SUFFICES \E u : /\ u.pc # "locked" /\ WriterOK(u)
                    /\ writer' = [writer EXCEPT ![w] = u] /\ UNCHANGED order
  BY WriterMoves
<1> DEFINE R(pc, op, o, v, from, to, amount) ==
      [pc |-> pc, op |-> op, id |-> o, expectedVersion |-> v,
       from |-> from, to |-> to, amount |-> amount, releases |-> FALSE]
<1>1. CASE ReadForStatus(w)
  <2>1. PICK o \in OrderId, newStatus \in OrderStatus \ {"CANCELLED"} :
          /\ Placed(o)
          /\ ValidStateTransition(order[o].status, newStatus, order[o].type)
          /\ \E v \in Sendable(o) :
               Accept(w, "ready", "status", o, v, order[o].status, newStatus, 0)
    BY <1>1 DEF ReadForStatus
  <2>2. PICK v \in Sendable(o) :
          Accept(w, "ready", "status", o, v, order[o].status, newStatus, 0)
    BY <2>1
  <2>3. WITNESS R("ready", "status", o, v, order[o].status, newStatus, 0)
  <2> QED BY <1>1, <2>1, <2>2, SendableIsSeen DEF ReadForStatus, Accept, tables, WriterOK, Current
<1>2. CASE ReadForCancel(w)
  <2>1. PICK o \in OrderId :
          /\ order[o].status \notin Terminal
          /\ \E v \in Sendable(o) :
               Accept(w, "ready", "status", o, v, order[o].status, "CANCELLED", 0)
    BY <1>2 DEF ReadForCancel
  <2>2. PICK v \in Sendable(o) :
          Accept(w, "ready", "status", o, v, order[o].status, "CANCELLED", 0)
    BY <2>1
  <2>3. WITNESS R("ready", "status", o, v, order[o].status, "CANCELLED", 0)
  <2> QED BY <1>2, <2>1, <2>2, SendableIsSeen DEF ReadForCancel, Accept, tables, WriterOK, Current
<1>3. CASE ReadForPayment(w)
  <2>1. PICK o \in OrderId :
          /\ Payable(o)
          /\ \E v \in Sendable(o) : Accept(w, "validated", "pay", o, v, order[o].status,
                                           order[o].status, order[o].total)
    BY <1>3 DEF ReadForPayment
  <2>2. PICK v \in Sendable(o) : Accept(w, "validated", "pay", o, v, order[o].status,
                                        order[o].status, order[o].total)
    BY <2>1
  <2>3. WITNESS R("validated", "pay", o, v, order[o].status, order[o].status, order[o].total)
  <2> QED BY <1>3, <2>1, <2>2, SendableIsSeen DEF ReadForPayment, Accept, tables, WriterOK, Current
<1>4. CASE ReadForRefund(w)
  <2>1. PICK o \in OrderId :
          /\ Refundable(o)
          /\ \E v \in Sendable(o) : Accept(w, "validated", "refund", o, v, order[o].status,
                                           order[o].status, 0)
    BY <1>4 DEF ReadForRefund
  <2>2. PICK v \in Sendable(o) : Accept(w, "validated", "refund", o, v, order[o].status,
                                        order[o].status, 0)
    BY <2>1
  <2>3. WITNESS R("validated", "refund", o, v, order[o].status, order[o].status, 0)
  <2> QED BY <1>4, <2>1, <2>2, SendableIsSeen DEF ReadForRefund, Accept, tables, WriterOK, Current
<1>5. CASE ReadForAppend(w)
  <2>1. PICK o \in OrderId :
          /\ Placed(o)
          /\ Appendable(o)
          /\ Accept(w, "ready", "append", o, order[o].version, order[o].status,
                    order[o].status, order[o].total)
    BY <1>5 DEF ReadForAppend
  <2>2. order[o].version \in Nat /\ 1 <= order[o].version
    BY <2>1 DEF Placed, Typed, TypeOK, OrderRow
  <2>3. WITNESS R("ready", "append", o, order[o].version, order[o].status,
                  order[o].status, order[o].total)
  <2>4. UNCHANGED order
    BY <1>5 DEF ReadForAppend, tables
  <2> QED BY <2>1, <2>2, <2>4 DEF Accept, WriterOK, Current
<1> QED BY <1>1, <1>2, <1>3, <1>4, <1>5

\* Writers that stop without committing, and the second read of payments and
\* refunds, which makes the history row's status current.
LEMMA WriterStepsInside ==
  ASSUME Typed, WriterInv, LockInv, NEW w \in Writer,
         ReadInTransaction(w) \/ UpdateMisses(w) \/ WriterDies(w)
  PROVE  WriterInv' /\ LockInv'
<1>1. CASE UpdateMisses(w) \/ WriterDies(w)
  <2>1. /\ writer' = [writer EXCEPT ![w] = IdleWriter] /\ UNCHANGED order
        /\ IdleWriter.pc = "idle"
    BY <1>1 DEF UpdateMisses, WriterDies, tables, IdleWriter
  <2>2. WriterOK(IdleWriter)
    BY <2>1 DEF WriterOK
  <2>3. PICK u : u = IdleWriter
    OBVIOUS
  <2> QED BY <2>1, <2>2, <2>3, WriterMoves
<1>2. CASE ReadInTransaction(w)
  <2>1. writer[w] \in WriterState /\ writer[w].pc = "validated" /\ WriterOK(writer[w])
    BY <1>2 DEF ReadInTransaction, Typed, TypeOK, WriterInv
  <2>2. PICK u : u = [writer[w] EXCEPT !.pc = "ready", !.from = order[writer[w].id].status,
                                       !.to = order[writer[w].id].status]
    OBVIOUS
  <2>3. writer' = [writer EXCEPT ![w] = u] /\ UNCHANGED order
    BY <1>2, <2>2 DEF ReadInTransaction, tables
  <2>4. /\ u.pc = "ready" /\ u.id = writer[w].id /\ u.op = writer[w].op
        /\ u.expectedVersion = writer[w].expectedVersion /\ u.amount = writer[w].amount
        /\ u.from = order[u.id].status /\ u.to = u.from
    BY <2>1, <2>2 DEF WriterState
  <2>5. WriterOK(u)
    BY <2>1, <2>4 DEF WriterOK, Current, ValidStateTransition
  <2> QED BY <2>3, <2>4, <2>5, WriterMoves
<1> QED BY <1>1, <1>2

\* What is known of the row a transaction commits: its request's checks hold of
\* it, and the new row differs from it in what the request sets.
LEMMA CommitRow ==
  ASSUME Typed, Inv, NEW w \in Writer, Commits(w)
  PROVE  /\ writer[w].id \in OrderId
         /\ Placed(writer[w].id)
         /\ Current(writer[w])
         /\ writer[w].pc = "locked"
         /\ writer' = [writer EXCEPT ![w] = IdleWriter]
         /\ creator' = creator
         /\ \E row \in OrderRow :
              /\ order' = [order EXCEPT ![writer[w].id] = row]
              /\ row.version = writer[w].expectedVersion + 1
              /\ row.version = order[writer[w].id].version + 1
              /\ row.type = order[writer[w].id].type
              /\ CommitStatus(w) =>
                   /\ row.status = writer[w].to
                   /\ row.paymentStatus = order[writer[w].id].paymentStatus
                   /\ row.total = order[writer[w].id].total
              /\ ~CommitStatus(w) => row.status = order[writer[w].id].status
              /\ CommitPayment(w) =>
                   row.paymentStatus = "PAID" /\ row.total = order[writer[w].id].total
              /\ CommitRefund(w) =>
                   row.paymentStatus = "REFUNDED" /\ row.total = order[writer[w].id].total
              /\ CommitAppend(w) =>
                   /\ row.paymentStatus = order[writer[w].id].paymentStatus
                   /\ row.total = writer[w].amount + 1
<1> DEFINE u == writer[w]
           old == order[u.id]
           n == u.expectedVersion + 1
<1>1. /\ u \in WriterState /\ u.pc = "locked" /\ u.id \in OrderId /\ old \in OrderRow
      /\ WriterOK(u)
  BY DEF Commits, CommitStatus, CommitPayment, CommitRefund, CommitAppend, Committing,
         Typed, TypeOK, BusyHasOrder, Inv, WriterInv
<1>0. old \in OrderRow
  BY <1>1
<1>2. /\ u.expectedVersion \in Nat /\ n \in Nat /\ u.amount + 1 \in Nat /\ u.to \in OrderStatus
      /\ {"PAID", "REFUNDED"} \subseteq PaymentStatus
  BY <1>1 DEF WriterState, PaymentStatus
<1>3. /\ Placed(u.id) /\ Current(u) /\ old.version = u.expectedVersion
  BY <1>1, <1>2 DEF WriterOK, Placed
<1>4. writer' = [writer EXCEPT ![w] = IdleWriter] /\ creator' = creator
  BY DEF Commits, CommitStatus, CommitPayment, CommitRefund, CommitAppend
<1>5. CASE CommitStatus(w)
  <2> DEFINE row == [old EXCEPT !.status = u.to, !.version = n]
  <2>1. row \in OrderRow
    BY <1>0, <1>2, RowUpdates
  <2>2. /\ row.version = n /\ row.type = old.type /\ row.status = u.to
        /\ row.paymentStatus = old.paymentStatus /\ row.total = old.total
    BY <1>1 DEF OrderRow
  <2>3. /\ order' = [order EXCEPT ![u.id] = row]
        /\ ~CommitPayment(w) /\ ~CommitRefund(w) /\ ~CommitAppend(w)
    BY <1>5 DEF CommitStatus, CommitPayment, CommitRefund, CommitAppend, Committing
  <2> HIDE DEF row
  <2> QED BY <1>1, <1>3, <1>4, <1>5, <2>1, <2>2, <2>3
<1>6. CASE CommitPayment(w)
  <2> DEFINE row == [old EXCEPT !.paymentStatus = "PAID", !.version = n]
  <2>1. row \in OrderRow
    BY <1>0, <1>2, RowUpdates
  <2>2. /\ row.version = n /\ row.type = old.type /\ row.status = old.status
        /\ row.paymentStatus = "PAID" /\ row.total = old.total
    BY <1>1 DEF OrderRow
  <2>3. /\ order' = [order EXCEPT ![u.id] = row]
        /\ ~CommitStatus(w) /\ ~CommitRefund(w) /\ ~CommitAppend(w)
    BY <1>6 DEF CommitStatus, CommitPayment, CommitRefund, CommitAppend, Committing
  <2> HIDE DEF row
  <2> QED BY <1>1, <1>3, <1>4, <1>6, <2>1, <2>2, <2>3
<1>7. CASE CommitRefund(w)
  <2> DEFINE row == [old EXCEPT !.paymentStatus = "REFUNDED", !.version = n]
  <2>1. row \in OrderRow
    BY <1>0, <1>2, RowUpdates
  <2>2. /\ row.version = n /\ row.type = old.type /\ row.status = old.status
        /\ row.paymentStatus = "REFUNDED" /\ row.total = old.total
    BY <1>1 DEF OrderRow
  <2>3. /\ order' = [order EXCEPT ![u.id] = row]
        /\ ~CommitStatus(w) /\ ~CommitPayment(w) /\ ~CommitAppend(w)
    BY <1>7 DEF CommitStatus, CommitPayment, CommitRefund, CommitAppend, Committing
  <2> HIDE DEF row
  <2> QED BY <1>1, <1>3, <1>4, <1>7, <2>1, <2>2, <2>3
<1>8. CASE CommitAppend(w)
  <2> DEFINE row == [old EXCEPT !.total = u.amount + 1, !.version = n]
  <2>1. row \in OrderRow
    BY <1>0, <1>2, RowUpdates
  <2>2. /\ row.version = n /\ row.type = old.type /\ row.status = old.status
        /\ row.paymentStatus = old.paymentStatus /\ row.total = u.amount + 1
    BY <1>1 DEF OrderRow
  <2>3. /\ order' = [order EXCEPT ![u.id] = row]
        /\ ~CommitStatus(w) /\ ~CommitPayment(w) /\ ~CommitRefund(w)
    BY <1>8 DEF CommitStatus, CommitPayment, CommitRefund, CommitAppend, Committing
  <2> HIDE DEF row
  <2> QED BY <1>1, <1>3, <1>4, <1>8, <2>1, <2>2, <2>3
<1> QED BY <1>5, <1>6, <1>7, <1>8 DEF Commits

\* A commit keeps the charges right: a payment charges the total it was checked
\* against, which is the total the row still has, and a round is only appended
\* to an unpaid order.
LEMMA CommitPreserves ==
  ASSUME Typed, Inv, NEW w \in Writer, Commits(w)
  PROVE  Inv'
<1> DEFINE o == writer[w].id
<1>1. PICK row \in OrderRow :
        /\ order' = [order EXCEPT ![o] = row]
        /\ row.version = writer[w].expectedVersion + 1
        /\ row.version = order[o].version + 1
        /\ CommitStatus(w) => /\ row.paymentStatus = order[o].paymentStatus
                              /\ row.total = order[o].total
        /\ CommitPayment(w) => row.paymentStatus = "PAID" /\ row.total = order[o].total
        /\ CommitRefund(w) => row.paymentStatus = "REFUNDED" /\ row.total = order[o].total
        /\ CommitAppend(w) => row.paymentStatus = order[o].paymentStatus
  BY CommitRow
<1>2. /\ o \in OrderId /\ Placed(o) /\ Current(writer[w]) /\ writer[w].pc = "locked"
      /\ writer' = [writer EXCEPT ![w] = IdleWriter] /\ creator' = creator
  BY CommitRow
<1>3. WriterInv' /\ LockInv'
  BY <1>1, <1>2, CommitOutdates DEF Inv
<1>4. /\ order \in [OrderId -> OrderRow] /\ collected \in [OrderId -> Nat]
      /\ order[o].version \in Nat /\ order[o].total \in Nat
  BY <1>2 DEF Typed, TypeOK, OrderRow
<1>5. \A p \in OrderId : Placed(p)' <=> Placed(p)
  BY <1>1, <1>2, <1>4 DEF Placed
<1>6. CreatorInv'
  BY <1>2, <1>5 DEF CreatorInv, Inv, Typed, CreatorHasOrder
<1>7. RowInv'
  BY <1>1, <1>2, <1>4, <1>5 DEF RowInv, Inv
<1>8. ChargedTheTotal'
  <2>1. ChargedTheTotal
    BY DEF Inv
  <2>2. CASE CommitStatus(w)
    BY <1>1, <1>2, <1>4, <2>1, <2>2 DEF ChargedTheTotal, CommitStatus
  <2>3. CASE CommitPayment(w)
    <3>1. order[o].paymentStatus = "PENDING" /\ writer[w].amount = order[o].total
      BY <1>2, <2>3 DEF Current, Payable, CommitPayment, Committing
    <3>2. collected' = [collected EXCEPT ![o] = collected[o] + order[o].total]
      BY <2>3, <3>1 DEF CommitPayment
    <3>3. collected[o] = 0
      BY <1>2, <2>1, <3>1 DEF ChargedTheTotal
    <3> QED BY <1>1, <1>2, <1>4, <2>1, <2>3, <3>2, <3>3 DEF ChargedTheTotal
  <2>4. CASE CommitRefund(w)
    <3>1. order[o].paymentStatus = "PAID" /\ collected' = collected
      BY <1>2, <2>4 DEF Current, Refundable, CommitRefund, Committing
    <3> QED BY <1>1, <1>2, <1>4, <2>1, <2>4, <3>1 DEF ChargedTheTotal
  <2>5. CASE CommitAppend(w)
    <3>1. order[o].paymentStatus = "PENDING" /\ collected' = collected
      BY <1>2, <2>5 DEF Current, Appendable, CommitAppend, Committing
    <3> QED BY <1>1, <1>2, <1>4, <2>1, <2>5, <3>1 DEF ChargedTheTotal
  <2> QED BY <2>2, <2>3, <2>4, <2>5 DEF Commits
<1> QED BY <1>3, <1>6, <1>7, <1>8 DEF Inv

\* An insert gives a row to an id no writer can know of yet.
LEMMA InsertPreserves ==
  ASSUME Typed, Inv, NEW c \in Creator, Insert(c)
  PROVE  Inv'
<1> DEFINE o == creator[c].id
<1>1. PICK row \in OrderRow :
        /\ order' = [order EXCEPT ![o] = row]
        /\ row.version = 1 /\ row.paymentStatus = "PENDING"
  BY InsertedRow DEF Inv
<1>2. /\ creator[c].pc = "numbered"
      /\ creator' = [creator EXCEPT ![c] = IdleCreator]
      /\ IdleCreator.pc = "idle" /\ IdleCreator.id = None
      /\ UNCHANGED <<writer, collected>>
  BY DEF Insert, IdleCreator
<1>3. /\ o \in OrderId /\ ~Placed(o) /\ order[o] = NoRow
      /\ order \in [OrderId -> OrderRow] /\ creator \in [Creator -> CreatorState]
  BY <1>2 DEF Typed, TypeOK, CreatorHasOrder, Inv, CreatorInv, RowInv
<1>4. \A v \in Writer : writer[v].pc # "idle" => /\ writer[v].id # o
                                                 /\ writer[v].id \in OrderId
  <2>1. ASSUME NEW v \in Writer, writer[v].pc # "idle"
        PROVE  writer[v].id \in OrderId /\ Placed(writer[v].id)
    <3>1. writer[v].id \in OrderId /\ writer[v].expectedVersion \in Nat /\ WriterOK(writer[v])
      BY <2>1 DEF Typed, TypeOK, BusyHasOrder, WriterState, Inv, WriterInv
    <3> QED BY <1>3, <2>1, <3>1 DEF WriterOK, Placed, OrderRow
  <2> QED BY <1>3, <2>1
<1>5. WriterInv' /\ LockInv'
  BY <1>1, <1>2, <1>3, <1>4
     DEF Inv, WriterInv, LockInv, WriterOK, Current, Payable, Refundable, Appendable
<1>6. CreatorInv'
  BY InsertKeepsIds DEF Inv
<1>7. RowInv'
  BY <1>1, <1>3 DEF RowInv, Inv, Placed
<1>8. ChargedTheTotal'
  <2>1. collected[o] = 0
    BY <1>3 DEF Inv, ChargedTheTotal, NoRow
  <2> QED BY <1>1, <1>2, <1>3, <2>1 DEF Inv, ChargedTheTotal
<1> QED BY <1>5, <1>6, <1>7, <1>8 DEF Inv

\* Steps of a creator before its insert: the id it takes is unused, and kept.
LEMMA CreatorPreserves ==
  ASSUME Typed, Inv, NEW c \in Creator,
         \/ BeginCreate(c) \/ BeginRound(c) \/ CheckTable(c) \/ ReadNumber(c)
         \/ CouponRefused(c) \/ InsertFails(c) \/ CreatorDies(c)
  PROVE  Inv'
<1>1. CreatorInv' /\ UNCHANGED <<order, writer, collected>>
  BY CreatorKeepsIds DEF Inv
<1>2. WriterInv' /\ LockInv' /\ RowInv' /\ ChargedTheTotal'
  BY <1>1 DEF Inv, WriterInv, LockInv, RowInv, ChargedTheTotal, WriterOK, Current,
              Payable, Refundable, Appendable, Placed
<1> QED BY <1>1, <1>2 DEF Inv

LEMMA InvInit == Init => Inv
BY DEF Init, Inv, WriterInv, LockInv, CreatorInv, RowInv, ChargedTheTotal, WriterOK,
       IdleWriter, IdleCreator, NoRow, Placed

LEMMA InvStep ==
  ASSUME NoGuessing, Typed, Inv, [Next]_vars
  PROVE  Inv'
<1>1. ASSUME UNCHANGED <<order, creator, collected>>, WriterInv', LockInv'
      PROVE  Inv'
  BY <1>1 DEF Inv, CreatorInv, RowInv, ChargedTheTotal, Placed
<1>2. ASSUME NEW w \in Writer,
             \/ ReadForStatus(w) \/ ReadForCancel(w) \/ ReadForPayment(w)
             \/ ReadForRefund(w) \/ ReadForAppend(w)
      PROVE  Inv'
  <2>1. UNCHANGED <<order, creator, collected>>
    BY <1>2 DEF ReadForStatus, ReadForCancel, ReadForPayment, ReadForRefund,
                ReadForAppend, tables
  <2> QED BY <1>1, <1>2, <2>1, ReadsAreCurrent DEF Inv
<1>3. ASSUME NEW w \in Writer,
             ReadInTransaction(w) \/ UpdateMisses(w) \/ WriterDies(w) \/ Update(w)
      PROVE  Inv'
  <2>1. UNCHANGED <<order, creator, collected>>
    BY <1>3 DEF ReadInTransaction, UpdateMisses, WriterDies, Update, tables
  <2> QED BY <1>1, <1>3, <2>1, WriterStepsInside, UpdateLocks DEF Inv
<1>4. ASSUME UNCHANGED <<order, creator, collected, writer>>
      PROVE  Inv'
  <2>1. WriterInv' /\ LockInv'
    BY <1>4 DEF Inv, WriterInv, LockInv, WriterOK, Current, Payable, Refundable, Appendable
  <2> QED BY <1>1, <1>4, <2>1
<1>5. ASSUME NEW k \in Key, KeyExpires(k) PROVE Inv'
  BY <1>4, <1>5 DEF KeyExpires
<1>6. CASE NextDay \/ UNCHANGED vars
  BY <1>4, <1>6 DEF NextDay, vars
<1> QED
  BY <1>2, <1>3, <1>5, <1>6, CommitPreserves, InsertPreserves, CreatorPreserves
     DEF Next, WriterStep, CreatorStep, Commits

LEMMA InvInvariant == NoGuessing /\ Spec => [](Typed /\ Inv)
<1>1. NoGuessing /\ Typed /\ Inv /\ [Next]_vars => Inv'
  BY InvStep
<1>2. ASSUME NoGuessing PROVE Spec => [](Typed /\ Inv)
  <2>1. Typed /\ Inv /\ [Next]_vars => Inv'
    BY <1>1, <1>2
  <2> QED BY <2>1, InvInit, TypedInvariant, PTL DEF Spec
<1> QED BY <1>2

-----------------------------------------------------------------------------
\* No customer is charged twice, charged a stale total, or owes more after paying:
\* processOrderPayment's amount check, made on an earlier read, still holds when
\* updateOrderPaymentWithHistoryTransaction commits.
THEOREM ChargesAreExact == NoGuessing /\ Spec => []ChargedTheTotal
<1>1. ASSUME NoGuessing PROVE Spec => []ChargedTheTotal
  <2>1. Inv => ChargedTheTotal
    BY DEF Inv
  <2>2. Spec => [](Typed /\ Inv)
    BY <1>1, InvInvariant
  <2> QED BY <2>1, <2>2, PTL
<1> QED BY <1>1

-----------------------------------------------------------------------------
(* Action properties and refinement *)

\* Only commits and inserts write orders.
LEMMA OtherStepsKeepOrders ==
  ASSUME [Next]_vars,
         \A w \in Writer : ~Commits(w),
         \A c \in Creator : ~Insert(c)
  PROVE  UNCHANGED <<order, collected>>
BY DEF Next, WriterStep, CreatorStep, Commits, ReadForStatus, ReadForCancel, ReadForPayment,
       ReadForRefund, ReadForAppend, ReadInTransaction, Update, UpdateMisses, WriterDies,
       BeginCreate, BeginRound, CheckTable, ReadNumber, CouponRefused, InsertFails,
       CreatorDies, KeyExpires, NextDay, tables, others, vars

LEMMA InsertRow ==
  ASSUME Typed, Inv, NEW c \in Creator, Insert(c)
  PROVE  /\ creator[c].id \in OrderId
         /\ ~Placed(creator[c].id)
         /\ order[creator[c].id] = NoRow
         /\ history' = [history EXCEPT ![creator[c].id] =
                          [from |-> None, to |-> creator[c].status]]
         /\ collected' = collected
         /\ \E row : /\ order' = [order EXCEPT ![creator[c].id] = row]
                     /\ row.version = 1 /\ row.status = creator[c].status
                     /\ row.status \in FirstStatus /\ row.type \in OrderType
                     /\ row.paymentStatus = "PENDING" /\ row.total = 1
<1>1. PICK row \in OrderRow :
        /\ order' = [order EXCEPT ![creator[c].id] = row]
        /\ row.version = 1 /\ row.paymentStatus = "PENDING" /\ row.total = 1
        /\ row.status = creator[c].status /\ row.type = creator[c].type
  BY InsertedRow DEF Inv
<1>2. creator[c].status \in FirstStatus /\ creator[c].type \in OrderType
  BY DEF Typed, TypeOK, CreatorState
<1>3. /\ creator[c].id \in OrderId
      /\ ~Placed(creator[c].id)
      /\ order[creator[c].id] = NoRow
  BY DEF Insert, Typed, CreatorHasOrder, Inv, CreatorInv, RowInv
<1>4. /\ history' = [history EXCEPT ![creator[c].id] =
                       [from |-> None, to |-> creator[c].status]]
      /\ collected' = collected
  BY DEF Insert
<1> QED BY <1>1, <1>2, <1>3, <1>4

\* Every history row joins the status its order had to the status it gets: the
\* fromStatus that updateOrderStatus and cancelOrder pass on from an earlier read
\* is the status the UPDATE replaces.
THEOREM HistoryConnects == NoGuessing /\ Spec => HistoryIsConnected
<1> DEFINE A == \A o \in OrderId : order'[o] # order[o] =>
                 /\ order'[o].version = order[o].version + 1
                 /\ history'[o] = [from |-> IF Placed(o) THEN order[o].status ELSE None,
                                   to |-> order'[o].status]
<1>1. ASSUME NoGuessing, Typed, Inv, [Next]_vars
      PROVE  [A]_order
  <2>1. ASSUME NEW w \in Writer, Commits(w) PROVE A
    <3> DEFINE o == writer[w].id
    <3>1. PICK row \in OrderRow :
            /\ order' = [order EXCEPT ![o] = row]
            /\ row.version = order[o].version + 1
            /\ CommitStatus(w) => row.status = writer[w].to
            /\ ~CommitStatus(w) => row.status = order[o].status
      BY <1>1, <2>1, CommitRow
    <3>2. o \in OrderId /\ Placed(o) /\ Current(writer[w])
      BY <1>1, <2>1, CommitRow
    <3>3. writer[w].from = order[o].status /\ writer[w].to = row.status
      BY <2>1, <3>1, <3>2
         DEF Current, Commits, CommitStatus, CommitPayment, CommitRefund, CommitAppend, Committing
    <3>4. history' = [history EXCEPT ![o] = [from |-> writer[w].from, to |-> writer[w].to]]
      BY <2>1 DEF Commits, CommitStatus, CommitPayment, CommitRefund, CommitAppend, RecordHistory
    <3>5. order \in [OrderId -> OrderRow] /\ history \in [OrderId -> HistoryRow]
      BY <1>1 DEF Typed, TypeOK
    <3> QED BY <3>1, <3>2, <3>3, <3>4, <3>5
  <2>2. ASSUME NEW c \in Creator, Insert(c) PROVE A
    <3>1. PICK row : /\ order' = [order EXCEPT ![creator[c].id] = row]
                     /\ row.version = 1 /\ row.status = creator[c].status
      BY <1>1, <2>2, InsertRow
    <3>2. /\ creator[c].id \in OrderId /\ ~Placed(creator[c].id)
          /\ order[creator[c].id] = NoRow
          /\ history' = [history EXCEPT ![creator[c].id] =
                          [from |-> None, to |-> creator[c].status]]
      BY <1>1, <2>2, InsertRow
    <3>3. order \in [OrderId -> OrderRow] /\ history \in [OrderId -> HistoryRow]
      BY <1>1 DEF Typed, TypeOK
    <3> QED BY <3>1, <3>2, <3>3 DEF NoRow
  <2> QED BY <1>1, <2>1, <2>2, OtherStepsKeepOrders
<1>2. ASSUME NoGuessing PROVE Spec => HistoryIsConnected
  <2>1. Typed /\ Inv /\ [Next]_vars => [A]_order
    BY <1>1, <1>2
  <2>2. Spec => [](Typed /\ Inv)
    BY <1>2, InvInvariant
  <2> QED BY <2>1, <2>2, PTL DEF Spec, HistoryIsConnected
<1> QED BY <1>2

-----------------------------------------------------------------------------
(* Coupons *)

\* A cancellation was checked against a status that was not terminal.
CancelInv ==
  \A w \in Writer :
    writer[w].pc # "idle" /\ writer[w].op = "status" =>
      /\ writer[w].pc # "validated"
      /\ writer[w].to = "CANCELLED" => writer[w].from \notin Terminal

Holders(c) ==
  {o \in OrderId : Placed(o) /\ order[o].couponId = c /\ order[o].status # "CANCELLED"}

CouponInv == CancelInv /\ CouponAccounting

LEMMA HoldersAreFinite ==
  ASSUME NumbersInv, NEW c
  PROVE  IsFiniteSet(Holders(c)) /\ Cardinality(Holders(c)) \in Nat
<1>1. Holders(c) \subseteq PlacedOrders
  BY DEF Holders, PlacedOrders
<1> QED BY <1>1, FS_Subset, FS_CardinalityType DEF NumbersInv

LEMMA CancelStep ==
  ASSUME Typed, CancelInv, [Next]_vars
  PROVE  CancelInv'
<1>0. writer \in [Writer -> WriterState] /\ IdleWriter.pc = "idle"
  BY DEF Typed, TypeOK, IdleWriter
<1>1. ASSUME NEW w \in Writer, NEW u, writer' = [writer EXCEPT ![w] = u],
             u.pc # "idle" /\ u.op = "status" =>
               u.pc # "validated" /\ (u.to = "CANCELLED" => u.from \notin Terminal)
      PROVE  CancelInv'
  BY <1>0, <1>1 DEF CancelInv
<1>2. ASSUME NEW w \in Writer, NEW pc, NEW op, NEW o, NEW v, NEW from, NEW to, NEW amount,
             Accept(w, pc, op, o, v, from, to, amount),
             op = "status" => pc # "validated" /\ (to = "CANCELLED" => from \notin Terminal)
      PROVE  CancelInv'
  <2> DEFINE u == [pc |-> pc, op |-> op, id |-> o, expectedVersion |-> v,
                   from |-> from, to |-> to, amount |-> amount, releases |-> FALSE]
  <2>1. u.pc = pc /\ u.op = op /\ u.from = from /\ u.to = to
    OBVIOUS
  <2>2. writer' = [writer EXCEPT ![w] = u]
    BY <1>2 DEF Accept
  <2> HIDE DEF u
  <2> QED BY <1>1, <1>2, <2>1, <2>2
<1>3. ASSUME NEW w \in Writer, ReadForStatus(w) PROVE CancelInv'
  BY <1>2, <1>3, Zenon DEF ReadForStatus
<1>4. ASSUME NEW w \in Writer, ReadForCancel(w) PROVE CancelInv'
  <2>1. "ready" # "validated"
    OBVIOUS
  <2> QED BY <1>2, <1>4, <2>1, Zenon DEF ReadForCancel
<1>5. ASSUME NEW w \in Writer, ReadForPayment(w) \/ ReadForRefund(w) \/ ReadForAppend(w)
      PROVE  CancelInv'
  <2>1. "pay" # "status" /\ "refund" # "status" /\ "append" # "status"
    OBVIOUS
  <2> QED BY <1>2, <1>5, <2>1, Zenon DEF ReadForPayment, ReadForRefund, ReadForAppend
<1>6. ASSUME NEW w \in Writer, ReadInTransaction(w) PROVE CancelInv'
  <2> DEFINE st == order[writer[w].id].status
             u == [writer[w] EXCEPT !.pc = "ready", !.from = st, !.to = st]
  <2>1. writer' = [writer EXCEPT ![w] = u] /\ writer[w].pc = "validated"
    BY <1>6 DEF ReadInTransaction
  <2>2. u.op = writer[w].op
    BY <1>0 DEF WriterState
  <2>3. writer[w].op # "status"
    BY <2>1 DEF CancelInv
  <2> HIDE DEF u
  <2> QED BY <1>1, <2>1, <2>2, <2>3
<1>7. ASSUME NEW w \in Writer, Update(w) PROVE CancelInv'
  <2> DEFINE u == [writer[w] EXCEPT !.pc = "locked", !.releases = Releases(writer[w])]
  <2>1. writer' = [writer EXCEPT ![w] = u] /\ writer[w].pc = "ready"
    BY <1>7 DEF Update
  <2>2. u.op = writer[w].op /\ u.from = writer[w].from /\ u.to = writer[w].to /\ u.pc = "locked"
    BY <1>0 DEF WriterState
  <2>3. writer[w].op = "status" => (writer[w].to = "CANCELLED" => writer[w].from \notin Terminal)
    BY <2>1 DEF CancelInv
  <2> HIDE DEF u
  <2> QED BY <1>1, <2>1, <2>2, <2>3
<1>8. ASSUME NEW w \in Writer, UpdateMisses(w) \/ WriterDies(w) \/ Commits(w) PROVE CancelInv'
  <2>1. writer' = [writer EXCEPT ![w] = IdleWriter]
    BY <1>8 DEF UpdateMisses, WriterDies, Commits, CommitStatus, CommitPayment, CommitRefund,
                CommitAppend
  <2>2. PICK u : u = IdleWriter
    OBVIOUS
  <2> QED BY <1>0, <1>1, <2>1, <2>2
<1>9. ASSUME UNCHANGED writer PROVE CancelInv'
  BY <1>9 DEF CancelInv
<1>10. ASSUME NEW c \in Creator,
              BeginCreate(c) \/ BeginRound(c) \/ CreatorStep(c) \/ CreatorDies(c)
       PROVE  UNCHANGED writer
  BY <1>10 DEF BeginCreate, BeginRound, CreatorStep, CheckTable, ReadNumber, CouponRefused,
               InsertFails, Insert, CreatorDies, others
<1>11. (\E k \in Key : KeyExpires(k)) \/ NextDay \/ UNCHANGED vars => UNCHANGED writer
  BY DEF KeyExpires, NextDay, vars
<1> QED BY <1>3, <1>4, <1>5, <1>6, <1>7, <1>8, <1>9, <1>10, <1>11 DEF Next, WriterStep, Commits

\* An insert takes one use of its coupon, which its limit still allows.
LEMMA CouponInsert ==
  ASSUME Typed, Inv, NumbersInv, CouponAccounting, NEW c \in Creator, Insert(c)
  PROVE  CouponAccounting'
<1>a. PICK o, k : o = creator[c].id /\ k = creator[c].couponId
  OBVIOUS
<1>1. PICK row \in OrderRow :
        /\ order' = [order EXCEPT ![o] = row]
        /\ row.version = 1 /\ row.status = creator[c].status /\ row.couponId = k
  BY <1>a, InsertedRow DEF Inv
<1>2. o \in OrderId /\ ~Placed(o) /\ order \in [OrderId -> OrderRow]
  BY <1>a, InsertedRow DEF Inv, Typed, TypeOK
<1>3. row.status # "CANCELLED"
  BY <1>1 DEF Typed, TypeOK, CreatorState, FirstStatus
<1>4. /\ timesUsed' = [cp \in Coupon |-> IF cp = k THEN timesUsed[cp] + 1 ELSE timesUsed[cp]]
      /\ ~CouponExhausted(k)
  BY <1>a DEF Insert
<1>5. ASSUME NEW cp \in Coupon
      PROVE  /\ timesUsed'[cp] = Cardinality(Holders(cp)')
             /\ timesUsed'[cp] <= CouponLimit[cp]
  <2>1. /\ timesUsed[cp] = Cardinality(Holders(cp)) /\ timesUsed[cp] <= CouponLimit[cp]
        /\ timesUsed[cp] \in Nat /\ CouponLimit[cp] \in Nat /\ cp # None
    BY OrdersAssumption DEF CouponAccounting, Holders, Typed, TypeOK
  <2>2. Holders(cp)' = IF cp = k THEN Holders(cp) \cup {o} ELSE Holders(cp)
    BY <1>1, <1>2, <1>3 DEF Holders, Placed
  <2>3. CASE cp # k
    BY <1>4, <2>1, <2>2, <2>3
  <2>4. CASE cp = k
    <3>1. o \notin Holders(cp) /\ Holders(cp)' = Holders(cp) \cup {o}
      BY <1>2, <2>2, <2>4 DEF Holders
    <3>2. Cardinality(Holders(cp) \cup {o}) = Cardinality(Holders(cp)) + 1
      BY <3>1, HoldersAreFinite, FS_AddElement
    <3>3. timesUsed'[cp] = timesUsed[cp] + 1 /\ timesUsed[cp] < CouponLimit[cp]
      BY <1>4, <2>1, <2>4 DEF CouponExhausted
    <3> QED BY <2>1, <3>1, <3>2, <3>3
  <2> QED BY <2>3, <2>4
<1> QED BY <1>5 DEF CouponAccounting, Holders

\* A cancellation gives back the use its order held, once: the order was not cancelled
\* before, and never becomes anything else.
LEMMA CouponCommit ==
  ASSUME Typed, Inv, NumbersInv, CancelInv, CouponAccounting, NEW w \in Writer, Commits(w)
  PROVE  CouponAccounting'
<1>a. PICK o, k : o = writer[w].id /\ k = order[o].couponId
  OBVIOUS
<1>1. PICK row \in OrderRow :
        /\ order' = [order EXCEPT ![o] = row] /\ row.version > 0
        /\ row.couponId = k
        /\ row.status = IF CommitStatus(w) THEN writer[w].to ELSE order[o].status
  BY <1>a, CommittedRow
<1>2. /\ o \in OrderId /\ Placed(o) /\ Current(writer[w]) /\ writer[w].pc = "locked"
      /\ order \in [OrderId -> OrderRow]
  BY <1>a, CommitRow DEF Typed, TypeOK
<1>3. CASE CommitStatus(w) /\ writer[w].to = "CANCELLED"
  <2>1. order[o].status # "CANCELLED" /\ row.status = "CANCELLED"
    BY <1>a, <1>1, <1>2, <1>3 DEF CancelInv, Current, CommitStatus, Committing, Terminal
  <2>2. timesUsed' = IF k # None /\ timesUsed[k] > 0
                     THEN [timesUsed EXCEPT ![k] = timesUsed[k] - 1] ELSE timesUsed
    BY <1>a, <1>3 DEF CommitStatus, ReturnCoupon
  <2>3. ASSUME NEW cp \in Coupon
        PROVE  /\ timesUsed'[cp] = Cardinality(Holders(cp)')
               /\ timesUsed'[cp] <= CouponLimit[cp]
    <3>1. /\ timesUsed[cp] = Cardinality(Holders(cp)) /\ timesUsed[cp] <= CouponLimit[cp]
          /\ timesUsed[cp] \in Nat /\ CouponLimit[cp] \in Nat /\ cp # None
          /\ timesUsed \in [Coupon -> Nat]
      BY OrdersAssumption DEF CouponAccounting, Holders, Typed, TypeOK
    <3>2. Holders(cp)' = IF cp = k THEN Holders(cp) \ {o} ELSE Holders(cp)
      BY <1>a, <1>1, <1>2, <2>1 DEF Holders, Placed
    <3>3. CASE cp # k
      <4>1. timesUsed'[cp] = timesUsed[cp]
        BY <2>2, <3>1, <3>3
      <4> QED BY <3>1, <3>2, <3>3, <4>1
    <3>4. CASE cp = k
      <4>1. o \in Holders(cp) /\ Holders(cp)' = Holders(cp) \ {o}
        BY <1>a, <1>2, <2>1, <3>2, <3>4 DEF Holders
      <4>2. Cardinality(Holders(cp) \ {o}) = Cardinality(Holders(cp)) - 1
        BY <4>1, HoldersAreFinite, FS_RemoveElement
      <4>3. Cardinality(Holders(cp)) # 0
        BY <4>1, HoldersAreFinite, FS_EmptySet
      <4>4. timesUsed'[cp] = timesUsed[cp] - 1
        BY <2>2, <3>1, <3>4, <4>3
      <4> QED BY <3>1, <4>1, <4>2, <4>4
    <3> QED BY <3>3, <3>4
  <2> QED BY <2>3 DEF CouponAccounting, Holders
<1>4. CASE ~(CommitStatus(w) /\ writer[w].to = "CANCELLED")
  <2>1. timesUsed' = timesUsed
    BY <1>4 DEF Commits, CommitStatus, CommitPayment, CommitRefund, CommitAppend, ReturnCoupon
  <2>2. row.status = "CANCELLED" <=> order[o].status = "CANCELLED"
    <3>1. CASE CommitStatus(w)
      BY <1>a, <1>1, <1>2, <1>4, <3>1
         DEF Current, CommitStatus, Committing, ValidStateTransition, ValidNext
    <3>2. CASE ~CommitStatus(w)
      BY <1>1, <3>2
    <3> QED BY <3>1, <3>2
  <2>3. \A cp \in Coupon : Holders(cp)' = Holders(cp)
    BY <1>a, <1>1, <1>2, <2>2 DEF Holders, Placed
  <2> QED BY <2>1, <2>3 DEF CouponAccounting, Holders
<1> QED BY <1>3, <1>4

\* The steps that neither commit nor insert.
LEMMA CouponsRest ==
  ASSUME [Next]_vars, \A w \in Writer : ~Commits(w), \A c \in Creator : ~Insert(c)
  PROVE  UNCHANGED <<order, timesUsed>>
BY DEF Next, WriterStep, CreatorStep, Commits, ReadForStatus, ReadForCancel, ReadForPayment,
       ReadForRefund, ReadForAppend, ReadInTransaction, Update, UpdateMisses, WriterDies,
       BeginCreate, BeginRound, CheckTable, ReadNumber, CouponRefused, InsertFails,
       CreatorDies, KeyExpires, NextDay, tables, others, vars

\* A coupon's use count is the number of uncancelled orders that hold it and stays within its
\* limit: creations recheck the limit under the coupon's row lock, and of two cancellations
\* of one order only the one whose version matches gives the use back.
THEOREM CouponsAreAccounted == NoGuessing /\ Spec => []CouponAccounting
<1>1. ASSUME Typed, Inv, NumbersInv, CouponInv, [Next]_vars
      PROVE  CouponInv'
  <2>1. CancelInv'
    BY <1>1, CancelStep DEF CouponInv
  <2>2. ASSUME UNCHANGED <<order, timesUsed>> PROVE CouponAccounting'
    BY <1>1, <2>2 DEF CouponInv, CouponAccounting, Placed
  <2>3. CouponAccounting'
    BY <1>1, <2>2, CouponInsert, CouponCommit, CouponsRest DEF CouponInv
  <2> QED BY <2>1, <2>3 DEF CouponInv
<1>2. Init => CouponInv
  <2> SUFFICES ASSUME Init PROVE CouponInv
    OBVIOUS
  <2>1. CancelInv
    BY DEF Init, CancelInv, IdleWriter
  <2>2. \A o \in OrderId : ~Placed(o)
    BY DEF Init, Placed, NoRow
  <2>3. \A cp \in Coupon :
          {o \in OrderId : Placed(o) /\ order[o].couponId = cp /\ order[o].status # "CANCELLED"} = {}
    BY <2>2
  <2>4. Cardinality({}) = 0
    BY FS_EmptySet
  <2>5. \A cp \in Coupon : timesUsed[cp] = 0 /\ 0 <= CouponLimit[cp]
    BY OrdersAssumption DEF Init
  <2> QED BY <2>1, <2>3, <2>4, <2>5 DEF CouponInv, CouponAccounting
<1>3. ASSUME NoGuessing PROVE Spec => []CouponAccounting
  <2>1. Spec => [](Typed /\ Inv)
    BY <1>3, InvInvariant
  <2>2. Spec => []NumbersInv
    BY NumbersStart, NumbersStep, TypedInvariant, PTL DEF Spec
  <2>3. CouponInv => CouponAccounting
    BY DEF CouponInv
  <2>4. Typed /\ Inv /\ NumbersInv /\ CouponInv /\ [Next]_vars => CouponInv'
    BY <1>1
  <2> QED BY <1>2, <2>1, <2>2, <2>3, <2>4, PTL DEF Spec
<1> QED BY <1>3

-----------------------------------------------------------------------------
(* Orders implements OrderLifecycle: every commit of a transaction is one step of the life
   cycle (or leaves it unchanged, when a request repeats the order's status), and every
   other step is a stutter. *)

LEMMA SameMachine ==
  /\ Lifecycle!OrderStatus = OrderStatus
  /\ Lifecycle!FirstStatus = FirstStatus
  /\ Lifecycle!OrderType = OrderType
  /\ Lifecycle!Terminal = Terminal
  /\ Lifecycle!ActiveStatus = ActiveStatus
  /\ \A s, t : Lifecycle!ValidNext(s, t) = ValidNext(s, t)
BY DEF Lifecycle!OrderStatus, OrderStatus, Lifecycle!FirstStatus, FirstStatus,
       Lifecycle!OrderType, OrderType, Lifecycle!Terminal, Terminal,
       Lifecycle!ActiveStatus, ActiveStatus, Lifecycle!ValidNext, ValidNext

LEMMA RefinesInit == Init => Lifecycle!LifecycleInit
BY DEF Init, Lifecycle!LifecycleInit, NoRow, Placed, ShownStatus

\* The mapped variables after one row has changed.
LEMMA MappedRow ==
  ASSUME order \in [OrderId -> OrderRow], NEW o \in OrderId, NEW row,
         order' = [order EXCEPT ![o] = row], row.version > 0
  PROVE  /\ [p \in OrderId |-> ShownStatus(p)]' = [[p \in OrderId |-> ShownStatus(p)] EXCEPT ![o] = row.status]
         /\ [p \in OrderId |-> order[p].type]'
              = [[p \in OrderId |-> order[p].type] EXCEPT ![o] = row.type]
         /\ [p \in OrderId |-> order[p].paymentStatus]'
              = [[p \in OrderId |-> order[p].paymentStatus] EXCEPT ![o] = row.paymentStatus]
         /\ [p \in OrderId |-> order[p].total]'
              = [[p \in OrderId |-> order[p].total] EXCEPT ![o] = row.total]
BY DEF ShownStatus, Placed

\* A commit is one step of the life cycle, or none when it repeats the status.
LEMMA CommitRefines ==
  ASSUME Typed, Inv, NEW w \in Writer, Commits(w)
  PROVE  Lifecycle!LifecycleNext \/ UNCHANGED Lifecycle!lifecycleVars
<1>0. PICK o \in OrderId : o = writer[w].id
  BY CommitRow
<1> DEFINE old == order[o]
           st == [p \in OrderId |-> ShownStatus(p)]
           ty == [p \in OrderId |-> order[p].type]
           pay == [p \in OrderId |-> order[p].paymentStatus]
           tot == [p \in OrderId |-> order[p].total]
<1>1. PICK row \in OrderRow :
        /\ order' = [order EXCEPT ![o] = row]
        /\ row.version = order[o].version + 1
        /\ row.type = order[o].type
        /\ CommitStatus(w) => /\ row.status = writer[w].to
                              /\ row.paymentStatus = order[o].paymentStatus
                              /\ row.total = order[o].total
        /\ ~CommitStatus(w) => row.status = order[o].status
        /\ CommitPayment(w) => row.paymentStatus = "PAID" /\ row.total = order[o].total
        /\ CommitRefund(w) => row.paymentStatus = "REFUNDED" /\ row.total = order[o].total
        /\ CommitAppend(w) => /\ row.paymentStatus = order[o].paymentStatus
                              /\ row.total = writer[w].amount + 1
  BY <1>0, CommitRow
<1>2. /\ o \in OrderId /\ Placed(o) /\ Current(writer[w])
      /\ order \in [OrderId -> OrderRow] /\ collected \in [OrderId -> Nat]
      /\ old \in OrderRow /\ old.status \in OrderStatus /\ old.version \in Nat
  BY <1>0, CommitRow DEF Typed, TypeOK, OrderRow
<1>3. /\ st' = [st EXCEPT ![o] = row.status]
      /\ ty' = [ty EXCEPT ![o] = row.type]
      /\ pay' = [pay EXCEPT ![o] = row.paymentStatus]
      /\ tot' = [tot EXCEPT ![o] = row.total]
  <2>1. row.version > 0
    BY <1>1, <1>2
  <2> QED BY <1>1, <1>2, <2>1, MappedRow
<1>4. st[o] = old.status /\ ty[o] = old.type /\ pay[o] = old.paymentStatus /\ tot[o] = old.total
  BY <1>2 DEF ShownStatus
<1>5. ty' = ty
  BY <1>1, <1>2, <1>3
<1>6. CASE CommitStatus(w)
  <2>0. collected' = collected
    BY <1>6 DEF CommitStatus
  <2>1. /\ collected' = collected /\ row.status = writer[w].to
        /\ pay' = pay /\ tot' = tot
    BY <1>1, <1>2, <1>3, <1>4, <1>6, <2>0
  <2>2. \/ ValidStateTransition(old.status, row.status, old.type)
        \/ row.status = "CANCELLED" /\ old.status \notin Terminal
    BY <1>0, <1>2, <1>6, <2>1 DEF Current, CommitStatus, Committing
  <2>3. CASE row.status = old.status
    <3>1. st' = st
      BY <1>2, <1>3, <1>4, <2>3
    <3> QED BY <1>5, <2>1, <3>1 DEF Lifecycle!lifecycleVars
  <2>4. CASE row.status \in ValidNext(old.status, old.type)
    <3>1. Lifecycle!Advance(o)
      BY <1>3, <1>4, <1>5, <2>1, <2>4, SameMachine DEF Lifecycle!Advance
    <3> QED BY <1>0, <3>1 DEF Lifecycle!LifecycleNext
  <2>5. CASE row.status = "CANCELLED" /\ old.status \notin Terminal
    <3>1. Lifecycle!Cancel(o)
      BY <1>2, <1>3, <1>4, <1>5, <2>1, <2>5, SameMachine DEF Lifecycle!Cancel
    <3> QED BY <1>0, <3>1 DEF Lifecycle!LifecycleNext
  <2> QED BY <2>2, <2>3, <2>4, <2>5 DEF ValidStateTransition
<1>7. CASE ~CommitStatus(w)
  <2>1. st' = st
    BY <1>1, <1>2, <1>3, <1>4, <1>7
  <2>2. CASE CommitPayment(w)
    <3>0. tot' = tot
      BY <1>1, <1>2, <1>3, <1>4, <2>2
    <3>1. /\ Payable(o) /\ writer[w].amount = old.total
          /\ collected' = [collected EXCEPT ![o] = collected[o] + old.total]
          /\ tot' = tot
      BY <1>0, <1>2, <2>2, <3>0 DEF Current, CommitPayment, Committing
    <3>2. Lifecycle!Pay(o)
      BY <1>1, <1>2, <1>3, <1>4, <1>5, <2>1, <2>2, <3>1, SameMachine DEF Lifecycle!Pay, Payable
    <3> QED BY <1>0, <3>2 DEF Lifecycle!LifecycleNext
  <2>3. CASE CommitRefund(w)
    <3>0. tot' = tot
      BY <1>1, <1>2, <1>3, <1>4, <2>3
    <3>1. Refundable(o) /\ collected' = collected /\ tot' = tot
      BY <1>0, <1>2, <2>3, <3>0 DEF Current, CommitRefund, Committing
    <3>2. Lifecycle!Refund(o)
      BY <1>1, <1>2, <1>3, <1>4, <1>5, <2>1, <2>3, <3>1 DEF Lifecycle!Refund, Refundable
    <3> QED BY <1>0, <3>2 DEF Lifecycle!LifecycleNext
  <2>4. CASE CommitAppend(w)
    <3>0. pay' = pay
      BY <1>1, <1>2, <1>3, <1>4, <2>4
    <3>1. /\ Appendable(o) /\ writer[w].amount = old.total /\ collected' = collected
          /\ pay' = pay
      BY <1>0, <1>2, <2>4, <3>0 DEF Current, CommitAppend, Committing
    <3>2. Lifecycle!AddRound(o)
      BY <1>1, <1>2, <1>3, <1>4, <1>5, <2>1, <2>4, <3>1, SameMachine
         DEF Lifecycle!AddRound, Appendable
    <3> QED BY <1>0, <3>2 DEF Lifecycle!LifecycleNext
  <2> QED BY <1>7, <2>2, <2>3, <2>4 DEF Commits
<1> QED BY <1>6, <1>7

\* An insert places the order.
LEMMA InsertRefines ==
  ASSUME Typed, Inv, NEW c \in Creator, Insert(c)
  PROVE  Lifecycle!LifecycleNext
<1>0. PICK o \in OrderId : o = creator[c].id
  BY InsertRow
<1> DEFINE st == [p \in OrderId |-> ShownStatus(p)]
           ty == [p \in OrderId |-> order[p].type]
           pay == [p \in OrderId |-> order[p].paymentStatus]
           tot == [p \in OrderId |-> order[p].total]
<1>1. PICK row : /\ order' = [order EXCEPT ![o] = row]
                 /\ row.version = 1
                 /\ row.status \in FirstStatus /\ row.type \in OrderType
                 /\ row.paymentStatus = "PENDING" /\ row.total = 1
  BY <1>0, InsertRow
<1>2. /\ o \in OrderId /\ ~Placed(o) /\ order[o] = NoRow /\ collected' = collected
      /\ order \in [OrderId -> OrderRow]
  BY <1>0, InsertRow DEF Typed, TypeOK
<1>3. /\ st' = [st EXCEPT ![o] = row.status]
      /\ ty' = [ty EXCEPT ![o] = row.type]
      /\ pay' = [pay EXCEPT ![o] = row.paymentStatus]
      /\ tot' = [tot EXCEPT ![o] = row.total]
  <2>1. row.version > 0
    BY <1>1
  <2> QED BY <1>1, <1>2, <2>1, MappedRow
<1>4. st[o] = "NONE" /\ pay[o] = "PENDING"
  BY <1>2 DEF ShownStatus, NoRow
<1>5. pay' = pay
  BY <1>1, <1>2, <1>3, <1>4
<1>6. Lifecycle!Place(o)
  <2>1. row.status \in Lifecycle!FirstStatus /\ row.type \in Lifecycle!OrderType
    BY <1>1, SameMachine
  <2>2. \E first \in Lifecycle!FirstStatus, t \in Lifecycle!OrderType :
          /\ st' = [st EXCEPT ![o] = first]
          /\ ty' = [ty EXCEPT ![o] = t]
    BY <1>3, <2>1
  <2>3. tot' = [tot EXCEPT ![o] = 1]
    BY <1>1, <1>3
  <2> QED BY <1>2, <1>4, <1>5, <2>2, <2>3, Zenon DEF Lifecycle!Place
<1> QED BY <1>0, <1>6 DEF Lifecycle!LifecycleNext

\* The order endpoints, with their stale reads, client-sent versions, retries and
\* crashes, implement the abstract order life cycle.
THEOREM OrdersImplementLifecycle == NoGuessing /\ Spec => ImplementsLifecycle
<1>1. ASSUME NoGuessing, Typed, Inv, [Next]_vars
      PROVE  [Lifecycle!LifecycleNext]_(Lifecycle!lifecycleVars)
  <2>1. CASE \E w \in Writer : Commits(w)
    BY <1>1, <2>1, CommitRefines
  <2>2. CASE \E c \in Creator : Insert(c)
    BY <1>1, <2>2, InsertRefines
  <2>3. CASE UNCHANGED <<order, collected>>
    BY <2>3 DEF Lifecycle!lifecycleVars, ShownStatus, Placed
  <2> QED BY <1>1, <2>1, <2>2, <2>3, OtherStepsKeepOrders
<1>2. ASSUME NoGuessing PROVE Spec => ImplementsLifecycle
  <2>1. Typed /\ Inv /\ [Next]_vars => [Lifecycle!LifecycleNext]_(Lifecycle!lifecycleVars)
    BY <1>1, <1>2
  <2>2. Spec => [](Typed /\ Inv)
    BY <1>2, InvInvariant
  <2> QED BY <2>1, <2>2, RefinesInit, PTL DEF Spec, ImplementsLifecycle, Lifecycle!LifecycleSpec
<1> QED BY <1>2
==============================================================================
