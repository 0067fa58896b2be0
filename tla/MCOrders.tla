------------------------------- MODULE MCOrders -------------------------------
(***************************************************************************)
(* Small instances of Orders for TLC.                                      *)
(***************************************************************************)
EXTENDS Orders, TLC

\* Every coupon may be used once: the limit is met by the first order.
MCCouponLimit == [c \in Coupon |-> 1]

\* Handlers are interchangeable, and so are order ids, tables and keys.
MCSymmetry ==
  Permutations(Writer) \cup Permutations(Creator) \cup Permutations(OrderId)
=============================================================================
