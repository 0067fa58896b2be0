---------------------------- MODULE OrderLifecycle ----------------------------
(***************************************************************************)
(* What the order component promises to its callers, with no handlers, no  *)
(* versions and no transactions: an order moves along its status machine,  *)
(* is paid at most once and for exactly its total, and is refunded only    *)
(* after it was paid.  Orders.tla is shown to implement this module.       *)
(***************************************************************************)
EXTENDS Integers, OrderStates

CONSTANT OrderId

VARIABLES
  status,     \* [OrderId -> OrderStatus or "NONE" while not placed]
  type,       \* [OrderId -> OrderType]
  payment,    \* [OrderId -> PaymentStatus]
  total,      \* [OrderId -> Nat], what the customer owes
  collected   \* [OrderId -> Nat], what the customer has been charged so far

lifecycleVars == <<status, type, payment, total, collected>>

LifecycleTypeOK ==
  /\ status \in [OrderId -> OrderStatus \cup {"NONE"}]
  /\ type \in [OrderId -> OrderType]
  /\ payment \in [OrderId -> PaymentStatus]
  /\ total \in [OrderId -> Nat]
  /\ collected \in [OrderId -> Nat]

LifecycleInit ==
  /\ status = [o \in OrderId |-> "NONE"]
  /\ type = [o \in OrderId |-> "DINE_IN"]
  /\ payment = [o \in OrderId |-> "PENDING"]
  /\ total = [o \in OrderId |-> 0]
  /\ collected = [o \in OrderId |-> 0]

Place(o) ==
  /\ status[o] = "NONE"
  /\ \E first \in FirstStatus, t \in OrderType :
       /\ status' = [status EXCEPT ![o] = first]
       /\ type' = [type EXCEPT ![o] = t]
  /\ total' = [total EXCEPT ![o] = 1]
  /\ UNCHANGED <<payment, collected>>

Advance(o) ==
  /\ \E new \in ValidNext(status[o], type[o]) : status' = [status EXCEPT ![o] = new]
  /\ UNCHANGED <<type, payment, total, collected>>

Cancel(o) ==
  /\ status[o] \in OrderStatus \ Terminal
  /\ status' = [status EXCEPT ![o] = "CANCELLED"]
  /\ UNCHANGED <<type, payment, total, collected>>

AddRound(o) ==
  /\ status[o] \in ActiveStatus
  /\ payment[o] = "PENDING"
  /\ total' = [total EXCEPT ![o] = @ + 1]
  /\ UNCHANGED <<status, type, payment, collected>>

Pay(o) ==
  /\ status[o] \in OrderStatus \ {"CANCELLED"}
  /\ payment[o] = "PENDING"
  /\ payment' = [payment EXCEPT ![o] = "PAID"]
  /\ collected' = [collected EXCEPT ![o] = @ + total[o]]
  /\ UNCHANGED <<status, type, total>>

Refund(o) ==
  /\ payment[o] = "PAID"
  /\ payment' = [payment EXCEPT ![o] = "REFUNDED"]
  /\ UNCHANGED <<status, type, total, collected>>

LifecycleNext ==
  \E o \in OrderId : \/ Place(o)
                     \/ Advance(o)
                     \/ Cancel(o)
                     \/ AddRound(o)
                     \/ Pay(o)
                     \/ Refund(o)

LifecycleSpec == LifecycleInit /\ [][LifecycleNext]_lifecycleVars
=============================================================================
