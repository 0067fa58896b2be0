----------------------------- MODULE OrderStates -----------------------------
(***************************************************************************)
(* The order status machine, shared by the abstract and the detailed       *)
(* order modules (prisma enum OrderStatus and validateStateTransition in   *)
(* order.service.js).                                                      *)
(***************************************************************************)

OrderStatus == {"PENDING", "CONFIRMED", "PREPARING", "READY",
                "OUT_FOR_DELIVERY", "DELIVERED", "CANCELLED"}

PaymentStatus == {"PENDING", "PAID", "REFUNDED"}

\* PICKUP takes the same path as DINE_IN: only DELIVERY is tested for.
OrderType == {"DINE_IN", "DELIVERY"}

Terminal == {"DELIVERED", "CANCELLED"}

\* The statuses that count as "an order is open on this table", and in which
\* a round may still be appended.  OUT_FOR_DELIVERY is not one of them.
ActiveStatus == {"PENDING", "CONFIRMED", "PREPARING", "READY"}

\* A freshly placed order is PENDING; a confirmed table-session round is
\* placed directly as CONFIRMED.
FirstStatus == {"PENDING", "CONFIRMED"}

ValidNext(status, type) ==
  CASE status = "PENDING"          -> {"CONFIRMED"}
    [] status = "CONFIRMED"        -> {"PREPARING"}
    [] status = "PREPARING"        -> {"READY"}
    [] status = "READY"            -> IF type = "DELIVERY" THEN {"OUT_FOR_DELIVERY"}
                                                          ELSE {"DELIVERED"}
    [] status = "OUT_FOR_DELIVERY" -> {"DELIVERED"}
    [] OTHER                       -> {}

\* Repeating the current status is accepted, in a terminal status too.
ValidStateTransition(status, newStatus, type) ==
  \/ newStatus = status
  \/ newStatus \in ValidNext(status, type)
=============================================================================
