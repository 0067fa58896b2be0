----------------------------- MODULE MCBackOffice -----------------------------
(***************************************************************************)
(* Small instances of BackOffice for TLC.                                  *)
(***************************************************************************)
EXTENDS BackOffice, TLC

CONSTANTS m1, m2, o1, o2, c1

\* A large order with one line the coupon is for, and a small one with none.
MCLines ==
  {{[subtotal |-> 200, applicable |-> TRUE], [subtotal |-> 100, applicable |-> FALSE]},
   {[subtotal |-> 60, applicable |-> FALSE]}}

MCDuties == m1 :> MenuRequests @@ m2 :> {"detail"}

MCOperatorDuties == o1 :> OperatorRequests @@ o2 :> {"update"}

MCStartCategories == {c1}
=============================================================================
