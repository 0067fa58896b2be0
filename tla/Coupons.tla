-------------------------------- MODULE Coupons --------------------------------
(***************************************************************************)
(* Coupons (coupon.service.js, coupon.repository.js) while managers edit   *)
(* them and orders use them: the rules, the discount, and the transaction  *)
(* of an order, which locks the coupon, reads it, and counts the use.      *)
(*                                                                         *)
(* Money is in units for which percentages come out whole.  Codes are left *)
(* out (a conflict ends the request without a change); startsAt and        *)
(* expiresAt become one flag that the clock changes.                       *)
(***************************************************************************)
EXTENDS Integers, FiniteSets, FiniteSetsExt

CONSTANTS
  CouponId,          \* ids of coupons rows
  Checkout,          \* concurrent orders
  Editor,            \* concurrent requests of managers
  Absent,            \* an absent value
  Values,            \* inputs: percentages, or amounts
  Limits,            \* inputs: usage limits, Absent for no limit
  Minimums,          \* inputs: least subtotals
  Caps,              \* inputs: greatest discounts of a percentage, Absent for no cap
  Lines,             \* inputs: order lines
  MaxUses,           \* bound: uses of a coupon that a further order may find
  MaxCouponChanges   \* bound: requests that change a coupon, ticks of the clock

\* A line is worth its subtotal and is for a product the coupon applies to, or not.
LineSet == [subtotal : Nat, applicable : BOOLEAN]

ASSUME CouponsAssumption ==
  /\ Absent \notin Nat \cup Checkout
  /\ Values \subseteq Nat \ {0} /\ Values # {}
  /\ Limits \subseteq (Nat \ {0}) \cup {Absent} /\ Limits # {}
  /\ Minimums \subseteq Nat
  /\ Caps \subseteq (Nat \ {0}) \cup {Absent}
  /\ \A lines \in Lines : lines \subseteq LineSet /\ IsFiniteSet(lines)
  /\ MaxUses \in Nat
  /\ MaxCouponChanges \in Nat

VARIABLES
  coupon,        \* coupons
  lockedBy,      \* the order whose transaction holds the row lock
  checkout,      \* local state of each order
  editor,        \* local state of each manager's request
  couponChanges  \* requests made so far

couponVars == <<coupon, lockedBy, checkout, editor, couponChanges>>

Type == {"PERCENTAGE", "FIXED"}

\* running: between startsAt and expiresAt.
CouponRow ==
  [status : {"NONE", "PRESENT", "DELETED"}, active : BOOLEAN, running : BOOLEAN, type : Type,
   value : Values, restricted : BOOLEAN, minSubtotal : Nat,
   maxDiscount : Nat \cup {Absent}, limit : Limits, used : Nat]

\* An order's discount is what its transaction worked out.
CheckoutState ==
  [pc : {"idle", "lock", "read", "use", "commit"}, coupon : CouponId \cup {Absent},
   lines : Lines \cup {{}}, discount : Nat]

EditorState == [pc : {"idle", "save", "remove"}, coupon : CouponId \cup {Absent}]

NoCheckout == [pc |-> "idle", coupon |-> Absent, lines |-> {}, discount |-> 0]

NoEdit == [pc |-> "idle", coupon |-> Absent]

Anything == CHOOSE v \in Values : TRUE

NoCouponRow ==
  [status |-> "NONE", active |-> FALSE, running |-> FALSE, type |-> "PERCENTAGE",
   value |-> Anything, restricted |-> FALSE, minSubtotal |-> 0, maxDiscount |-> Absent,
   limit |-> CHOOSE l \in Limits : TRUE, used |-> 0]

CouponsTypeOK ==
  /\ coupon \in [CouponId -> CouponRow]
  /\ lockedBy \in [CouponId -> Checkout \cup {Absent}]
  /\ checkout \in [Checkout -> CheckoutState]
  /\ editor \in [Editor -> EditorState]
  /\ couponChanges \in 0..MaxCouponChanges

CouponsInit ==
  /\ coupon = [k \in CouponId |-> NoCouponRow]
  /\ lockedBy = [k \in CouponId |-> Absent]
  /\ checkout = [o \in Checkout |-> NoCheckout]
  /\ editor = [e \in Editor |-> NoEdit]
  /\ couponChanges = 0

-----------------------------------------------------------------------------
(* validateCouponRules *)

Subtotal(lines) == MapThenSumSet(LAMBDA l : l.subtotal, lines)

\* Of an unrestricted coupon, every line.
EligibleSubtotal(row, lines) ==
  Subtotal({l \in lines : row.restricted => l.applicable})

BelowLimit(row) == row.limit # Absent => row.used < row.limit

Accepted(row, lines) ==
  /\ row.status = "PRESENT" /\ row.active /\ row.running
  /\ BelowLimit(row)
  /\ EligibleSubtotal(row, lines) > 0
  /\ EligibleSubtotal(row, lines) >= row.minSubtotal

Least(a, b) == IF a < b THEN a ELSE b

\* Seeded fault: a fixed amount is taken off whatever the lines are worth.
WholeAmount(row, lines) == row.value

AmountOff(row, lines) == Least(row.value, EligibleSubtotal(row, lines))

Discount(row, lines) ==
  LET eligible == EligibleSubtotal(row, lines)
      part     == (eligible * row.value) \div 100 IN
    CASE row.type = "FIXED" -> AmountOff(row, lines)
      [] row.type = "PERCENTAGE" /\ row.maxDiscount # Absent -> Least(part, row.maxDiscount)
      [] OTHER -> part

-----------------------------------------------------------------------------
(* An order that uses a coupon *)

CheckoutGoes(o, pc) == checkout' = [checkout EXCEPT ![o] = [@ EXCEPT !.pc = pc]]

\* Public orders look the coupon up by code before; orders of staff name any coupon.
BeginCheckout(o, k, lines) ==
  /\ checkout[o].pc = "idle"
  /\ coupon[k].status = "PRESENT"
  /\ coupon[k].used <= MaxUses
  /\ checkout' = [checkout EXCEPT ![o] =
       [pc |-> "lock", coupon |-> k, lines |-> lines, discount |-> 0]]
  /\ UNCHANGED <<coupon, lockedBy, editor, couponChanges>>

\* Seeded fault: nobody waits for a row that an order has locked.
NeverLocked(k) == TRUE

Unlocked(k) == lockedBy[k] = Absent

\* SELECT ... FOR UPDATE.
LockCoupon(o) ==
  LET k == checkout[o].coupon IN
    /\ checkout[o].pc = "lock"
    /\ Unlocked(k)
    /\ lockedBy' = [lockedBy EXCEPT ![k] = o]
    /\ CheckoutGoes(o, "read")
    /\ UNCHANGED <<coupon, editor, couponChanges>>

EndCheckout(o) ==
  /\ checkout' = [checkout EXCEPT ![o] = NoCheckout]
  /\ lockedBy' = [k \in CouponId |-> IF lockedBy[k] = o THEN Absent ELSE lockedBy[k]]

ReadCoupon(o) ==
  LET row == coupon[checkout[o].coupon] IN
    /\ checkout[o].pc = "read"
    /\ IF Accepted(row, checkout[o].lines)
       THEN /\ checkout' = [checkout EXCEPT ![o] =
                 [@ EXCEPT !.pc = "use", !.discount = Discount(row, checkout[o].lines)]]
            /\ UNCHANGED lockedBy
       ELSE EndCheckout(o)
    /\ UNCHANGED <<coupon, editor, couponChanges>>

UseCoupon(o) ==
  /\ checkout[o].pc = "use"
  /\ coupon' = [coupon EXCEPT ![checkout[o].coupon].used = @ + 1]
  /\ CheckoutGoes(o, "commit")
  /\ UNCHANGED <<lockedBy, editor, couponChanges>>

CommitOrder(o) ==
  /\ checkout[o].pc = "commit"
  /\ EndCheckout(o)
  /\ UNCHANGED <<coupon, editor, couponChanges>>

\* The transaction is rolled back, and the use with it.
CheckoutFails(o) ==
  /\ checkout[o].pc # "idle"
  /\ coupon' = IF checkout[o].pc = "commit"
               THEN [coupon EXCEPT ![checkout[o].coupon].used = @ - 1] ELSE coupon
  /\ EndCheckout(o)
  /\ UNCHANGED <<editor, couponChanges>>

\* updateOrderStatus: an order that used the coupon is cancelled.
ReturnUse(k) ==
  /\ coupon[k].used > 0
  /\ Unlocked(k)
  /\ coupon' = [coupon EXCEPT ![k].used = @ - 1]
  /\ UNCHANGED <<lockedBy, checkout, editor, couponChanges>>

\* startsAt or expiresAt is reached.
ClockTicks(k) ==
  /\ coupon[k].status # "NONE"
  /\ couponChanges < MaxCouponChanges
  /\ couponChanges' = couponChanges + 1
  /\ coupon' = [coupon EXCEPT ![k].running = ~@]
  /\ UNCHANGED <<lockedBy, checkout, editor>>

-----------------------------------------------------------------------------
(* Requests of managers *)

CouponRequested(e) ==
  /\ editor[e].pc = "idle"
  /\ couponChanges < MaxCouponChanges
  /\ couponChanges' = couponChanges + 1

\* The schemas of both requests; Absent for a field the payload lacks.
ValidPayload(type, value) == (type = "PERCENTAGE" /\ value # Absent) => value <= 100

CreateCoupon(e, k, type, value, limit) ==
  /\ CouponRequested(e)
  /\ coupon[k].status = "NONE"
  /\ ValidPayload(type, value)
  /\ \E restricted \in BOOLEAN, least \in Minimums, most \in Caps :
       coupon' = [coupon EXCEPT ![k] =
         [status |-> "PRESENT", active |-> TRUE, running |-> TRUE, type |-> type, value |-> value,
          restricted |-> restricted, minSubtotal |-> least, maxDiscount |-> most, limit |-> limit,
          used |-> 0]]
  /\ UNCHANGED <<lockedBy, checkout, editor>>

FindCoupon(e, k, pc) ==
  /\ CouponRequested(e)
  /\ coupon[k].status = "PRESENT"
  /\ editor' = [editor EXCEPT ![e] = [pc |-> pc, coupon |-> k]]
  /\ UNCHANGED <<coupon, lockedBy, checkout>>

\* Neither of a type or a value that is not in the payload is anything changed.
Priced(row, type, value) ==
  [row EXCEPT !.type = IF type = Absent THEN @ ELSE type,
              !.value = IF value = Absent THEN @ ELSE value]

Edited(row) ==
  {Priced(row, payload[1], payload[2]) : payload \in
     {p \in (Type \cup {Absent}) \X (Values \cup {Absent}) : ValidPayload(p[1], p[2])}}
  \cup {[row EXCEPT !.limit = limit] : limit \in Limits}
  \cup {[row EXCEPT !.active = active] : active \in BOOLEAN}
  \cup {[row EXCEPT !.restricted = restricted] : restricted \in BOOLEAN}
  \cup {[row EXCEPT !.minSubtotal = least] : least \in Minimums}
  \cup {[row EXCEPT !.maxDiscount = most] : most \in Caps}

\* The update waits for the row lock, and finds the row again only if not deleted.
UpdateCoupon(e) ==
  LET k == editor[e].coupon IN
    /\ editor[e].pc = "save"
    /\ Unlocked(k)
    /\ \E row \in Edited(coupon[k]) :
         coupon' = IF coupon[k].status = "PRESENT" THEN [coupon EXCEPT ![k] = row] ELSE coupon
    /\ editor' = [editor EXCEPT ![e] = NoEdit]
    /\ UNCHANGED <<lockedBy, checkout, couponChanges>>

DeleteCoupon(e) ==
  LET k == editor[e].coupon IN
    /\ editor[e].pc = "remove"
    /\ Unlocked(k)
    /\ coupon' = IF coupon[k].status = "PRESENT"
                 THEN [coupon EXCEPT ![k] = [@ EXCEPT !.status = "DELETED", !.active = FALSE]]
                 ELSE coupon
    /\ editor' = [editor EXCEPT ![e] = NoEdit]
    /\ UNCHANGED <<lockedBy, checkout, couponChanges>>

EditorFails(e) ==
  /\ editor[e].pc # "idle"
  /\ editor' = [editor EXCEPT ![e] = NoEdit]
  /\ UNCHANGED <<coupon, lockedBy, checkout, couponChanges>>

CouponsStep ==
  \/ \E o \in Checkout :
       \/ \E k \in CouponId, lines \in Lines : BeginCheckout(o, k, lines)
       \/ LockCoupon(o) \/ ReadCoupon(o) \/ UseCoupon(o) \/ CommitOrder(o) \/ CheckoutFails(o)
  \/ \E k \in CouponId : ReturnUse(k) \/ ClockTicks(k)
  \/ \E e \in Editor :
       \/ \E k \in CouponId :
            \/ \E type \in Type, value \in Values, limit \in Limits :
                 CreateCoupon(e, k, type, value, limit)
            \/ FindCoupon(e, k, "save") \/ FindCoupon(e, k, "remove")
       \/ UpdateCoupon(e) \/ DeleteCoupon(e) \/ EditorFails(e)

-----------------------------------------------------------------------------
(* Properties *)

\* A use is counted only on a coupon that is present, active and below its limit as it
\* stands at that moment, however orders, edits and deletions overlap.
UsesOnlyWhileValid ==
  [][\A k \in CouponId : coupon'[k].used > coupon[k].used =>
       coupon[k].status = "PRESENT" /\ coupon[k].active /\ BelowLimit(coupon[k])]_coupon

\* The discount an order is created with is the one the coupon gives when the order
\* commits: no edit gets between the reading and the commit.
DiscountsAreCurrent ==
  \A o \in Checkout : checkout[o].pc \in {"use", "commit"} =>
    checkout[o].discount = Discount(coupon[checkout[o].coupon], checkout[o].lines)

\* No order gets more off than the lines the coupon applies to are worth, unless an edit
\* left the coupon with more than 100 percent.
DiscountsWithinOrder ==
  \A o \in Checkout :
    LET row == coupon[checkout[o].coupon] IN
      checkout[o].pc \in {"use", "commit"} /\ (row.type = "PERCENTAGE" => row.value <= 100) =>
        checkout[o].discount <= EligibleSubtotal(row, checkout[o].lines)

\* "Percentage value cannot exceed 100" (coupon.validation.js).  An update that names
\* only the type, or only the value, gets past the check.
PercentagesAtMost100 ==
  \A k \in CouponId : coupon[k].status # "NONE" /\ coupon[k].type = "PERCENTAGE" =>
    coupon[k].value <= 100
=============================================================================
