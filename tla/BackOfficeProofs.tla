---------------------------- MODULE BackOfficeProofs ----------------------------
(***************************************************************************)
(* What holds of the menu, coupons, connections and guests for any number  *)
(* of requests at once.  The areas share no state, so a property of one is *)
(* an invariant of its own steps.                                          *)
(***************************************************************************)
EXTENDS BackOffice, TLAPS

\* A step of the back office is a step of an area or leaves the area alone.
LEMMA AreasAreApart ==
  ASSUME [Next]_vars
  PROVE  /\ [MenuStep]_menuVars /\ [CouponsStep]_couponVars
         /\ [CustomersStep]_customersVars /\ [AddressesStep]_addressVars
         /\ [PremisesStep]_premisesVars /\ [GuestsStep]_guestVars /\ [NoticesStep]_noticeVars
BY DEF Next, vars, MenuArea, CouponsArea, CustomersArea, AddressesArea, PremisesArea, GuestsArea,
       NoticesArea

-----------------------------------------------------------------------------
(* Guests *)

\* A request's count of failures is stale, but never more than the wrong PINs there were.
CountsEarned ==
  /\ wrongPins \in Nat /\ seating \in Seating /\ guest \in [Guest -> GuestState]
  /\ LockoutsAreEarned
  /\ \A g \in Guest : guest[g].failedAttempts <= wrongPins

LEMMA CountsInit == GuestsInit => CountsEarned
BY DEF GuestsInit, CountsEarned, LockoutsAreEarned, Seating, GuestState, NoGuest, FailAfter

LEMMA CountsStep == CountsEarned /\ [GuestsStep]_guestVars => CountsEarned'
<1> SUFFICES ASSUME CountsEarned, [GuestsStep]_guestVars PROVE CountsEarned'
  OBVIOUS
<1> USE DEF CountsEarned, LockoutsAreEarned
<1>0. NoGuest \in GuestState /\ NoGuest.failedAttempts = 0
  BY DEF NoGuest, GuestState
\* A request that takes a new local state and leaves the session alone.
<1>1. ASSUME NEW g \in Guest, NEW row \in GuestState, guest' = [guest EXCEPT ![g] = row],
             row.failedAttempts <= wrongPins, UNCHANGED <<seating, wrongPins>>
      PROVE  CountsEarned'
  BY <1>1
<1>2. ASSUME NEW g \in Guest, NEW pc \in {"idle", "compare", "join", "introduce", "call"},
             GuestGoes(g, pc), seating' \in Seating,
             seating'.failedAttempts \in {0, seating.failedAttempts},
             seating'.locked => seating.locked, UNCHANGED wrongPins
      PROVE  CountsEarned'
  <2> DEFINE row == [guest[g] EXCEPT !.pc = pc]
  <2>1. row \in GuestState /\ row.failedAttempts = guest[g].failedAttempts
    BY DEF GuestState
  <2>2. guest' = [guest EXCEPT ![g] = row]
    BY <1>2 DEF GuestGoes
  <2> HIDE DEF row
  <2> QED BY <1>2, <2>1, <2>2 DEF GuestState
<1>3. ASSUME NEW g \in Guest, ReadForJoin(g) PROVE CountsEarned'
  <2> DEFINE row == [pc |-> "compare", failedAttempts |-> seating.failedAttempts]
  <2>1. row \in GuestState /\ row.failedAttempts = seating.failedAttempts
    BY DEF GuestState, Seating
  <2>2. guest' = [guest EXCEPT ![g] = row] /\ UNCHANGED <<seating, wrongPins>>
    BY <1>3 DEF ReadForJoin
  <2> HIDE DEF row
  <2> QED BY <1>1, <2>1, <2>2
<1>4. ASSUME NEW g \in Guest, RefusePin(g) PROVE CountsEarned'
  <2> DEFINE failed == guest[g].failedAttempts + 1
  <2>1. /\ seating' = [seating EXCEPT !.failedAttempts = failed, !.locked = Locks(failed)]
        /\ wrongPins' = wrongPins + 1 /\ guest' = [guest EXCEPT ![g] = NoGuest]
    BY <1>4 DEF RefusePin, GuestDone
  <2>2. failed \in Nat /\ failed <= wrongPins'
    BY <2>1 DEF GuestState
  <2>3. Locks(failed) \in BOOLEAN /\ (Locks(failed) => wrongPins' >= FailAfter)
    BY <2>1, <2>2 DEF Locks, FailAfter
  <2> HIDE DEF failed
  <2>4. /\ seating' \in Seating /\ seating'.failedAttempts = failed
        /\ seating'.locked = Locks(failed)
    BY <2>1, <2>2, <2>3 DEF Seating
  <2>5. guest' \in [Guest -> GuestState] /\ \A h \in Guest : guest'[h].failedAttempts <= wrongPins'
    BY <1>0, <2>1 DEF GuestState
  <2> QED BY <2>1, <2>2, <2>3, <2>4, <2>5
<1>5. ASSUME NEW g \in Guest, AcceptPin(g) PROVE CountsEarned'
  <2>1. /\ seating' \in Seating /\ seating'.failedAttempts = 0 /\ ~seating'.locked
        /\ GuestGoes(g, "join") /\ UNCHANGED wrongPins
    BY <1>5 DEF AcceptPin, Seating
  <2> QED BY <1>2, <2>1
<1>6. ASSUME NEW g \in Guest, AddMember(g) \/ ReadForCall(g) \/ CreateCall(g) \/ GuestFails(g)
      PROVE  CountsEarned'
  <2>1. /\ UNCHANGED <<seating, wrongPins>>
        /\ GuestDone(g) \/ \E pc \in {"introduce", "call"} : GuestGoes(g, pc)
    BY <1>6 DEF AddMember, ReadForCall, CreateCall, GuestFails
  <2> QED BY <1>0, <1>1, <1>2, <2>1 DEF GuestDone
<1>7. ASSUME NEW w \in Waiter,
             ReadForAccept(w) \/ AcceptCall(w) \/ ReadForDismiss(w) \/ DismissCall(w)
               \/ ReadToClose(w) \/ WaiterFails(w)
      PROVE  CountsEarned'
  <2>1. UNCHANGED <<seating, guest, wrongPins>>
    BY <1>7 DEF ReadForAccept, AcceptCall, ReadForDismiss, DismissCall, ReadToClose, WaiterFails
  <2> QED BY <2>1
<1>8. ASSUME NEW w \in Waiter, Close(w) PROVE CountsEarned'
  BY <1>8 DEF Close, Seating
<1>9. CASE LockoutEnds
  BY <1>9 DEF LockoutEnds, Seating
<1> QED
  BY <1>3, <1>4, <1>5, <1>6, <1>7, <1>8, <1>9 DEF GuestsStep, guestVars

\* A table is locked only after three wrong PINs, however many guests try at once and
\* however they overwrite each other's counts.
THEOREM LockoutsEarned == Spec => []LockoutsAreEarned
<1>1. CountsEarned => LockoutsAreEarned
  BY DEF CountsEarned
<1>2. Init => CountsEarned
  BY CountsInit DEF Init
<1>3. CountsEarned /\ [Next]_vars => CountsEarned'
  BY CountsStep, AreasAreApart
<1> QED BY <1>1, <1>2, <1>3, PTL DEF Spec

\* A call nobody accepted yet belongs to nobody.
CallsTyped ==
  /\ call \in [CallId -> CallRow]
  /\ \A c \in CallId : call[c].status \in {"NONE", "PENDING"} => call[c].acceptedBy = NoWaiter

LEMMA CallsInit == GuestsInit => CallsTyped
BY DEF GuestsInit, CallsTyped, CallRow, ActiveCall

Decided ==
  \A c \in CallId :
    /\ call[c].acceptedBy # NoWaiter => call'[c].acceptedBy = call[c].acceptedBy
    /\ call[c].status = "DISMISSED" => call'[c] = call[c]

LEMMA CallsStep == CallsTyped /\ [GuestsStep]_guestVars => CallsTyped' /\ Decided
<1> SUFFICES ASSUME CallsTyped, [GuestsStep]_guestVars PROVE CallsTyped' /\ Decided
  OBVIOUS
<1>0. ASSUME NEW c \in CallId, NEW row \in CallRow, call' = [call EXCEPT ![c] = row],
             row.status \in {"NONE", "PENDING"} => row.acceptedBy = NoWaiter,
             call[c].status # "DISMISSED",
             call[c].acceptedBy # NoWaiter => row.acceptedBy = call[c].acceptedBy
      PROVE  CallsTyped' /\ Decided
  BY <1>0 DEF CallsTyped, Decided
<1>1. CASE UNCHANGED call
  BY <1>1 DEF CallsTyped, Decided
<1>2. ASSUME NEW g \in Guest, CreateCall(g) PROVE CallsTyped' /\ Decided
  <2> DEFINE row == [status |-> "PENDING", acceptedBy |-> NoWaiter]
  <2>1. row \in CallRow /\ row.status = "PENDING" /\ row.acceptedBy = NoWaiter
    BY DEF CallRow, ActiveCall
  <2>2. PICK c \in CallId : call[c].status = "NONE" /\ call' = [call EXCEPT ![c] = row]
    BY <1>2 DEF CreateCall
  <2>3. call[c].acceptedBy = NoWaiter
    BY <2>2 DEF CallsTyped
  <2> HIDE DEF row
  <2> QED BY <1>0, <2>1, <2>2, <2>3
<1>3. ASSUME NEW w \in Waiter, AcceptCall(w) PROVE CallsTyped' /\ Decided
  <2> DEFINE c == waiter[w].call
             row == [status |-> "ACCEPTED", acceptedBy |-> w]
  <2>1. row \in CallRow /\ row.status = "ACCEPTED"
    BY DEF CallRow, ActiveCall
  <2>2. UNCHANGED call \/ (call' = [call EXCEPT ![c] = row] /\ call[c].status = "PENDING")
    BY <1>3 DEF AcceptCall, Accepts
  <2> HIDE DEF row
  <2>3. CASE c \notin CallId
    BY <1>1, <2>2, <2>3 DEF CallsTyped
  <2>4. CASE c \in CallId
    BY <1>0, <1>1, <2>1, <2>2, <2>4 DEF CallsTyped
  <2> QED BY <2>3, <2>4
<1>4. ASSUME NEW w \in Waiter, DismissCall(w) PROVE CallsTyped' /\ Decided
  <2> DEFINE c == waiter[w].call
             row == [call[c] EXCEPT !.status = "DISMISSED"]
  <2>1. UNCHANGED call \/ (call' = [call EXCEPT ![c] = row] /\ call[c].status \in ActiveCall)
    BY <1>4 DEF DismissCall, DismissedStatus
  <2>2. CASE c \notin CallId
    BY <1>1, <2>1, <2>2 DEF CallsTyped
  <2>3. CASE c \in CallId
    <3>1. row \in CallRow /\ row.status = "DISMISSED" /\ row.acceptedBy = call[c].acceptedBy
      BY <2>3 DEF CallsTyped, CallRow
    <3> HIDE DEF row
    <3> QED BY <1>0, <1>1, <2>1, <2>3, <3>1 DEF ActiveCall
  <2> QED BY <2>2, <2>3
<1>5. ASSUME NEW g \in Guest,
             ReadForJoin(g) \/ RefusePin(g) \/ AcceptPin(g) \/ AddMember(g) \/ ReadForCall(g)
               \/ GuestFails(g)
      PROVE  UNCHANGED call
  BY <1>5 DEF ReadForJoin, RefusePin, AcceptPin, AddMember, ReadForCall, GuestFails
<1>6. ASSUME NEW w \in Waiter,
             ReadForAccept(w) \/ ReadForDismiss(w) \/ ReadToClose(w) \/ Close(w) \/ WaiterFails(w)
      PROVE  UNCHANGED call
  BY <1>6 DEF ReadForAccept, ReadForDismiss, ReadToClose, Close, WaiterFails
<1> QED
  BY <1>1, <1>2, <1>3, <1>4, <1>5, <1>6 DEF GuestsStep, guestVars, LockoutEnds

\* A call belongs for good to the employee who accepted it first and stays dismissed,
\* however many employees act on calls they looked up before.
THEOREM CallsAreDecidedOnce == Spec => CallsDecidedOnce
<1>1. Init => CallsTyped
  BY CallsInit DEF Init
<1>2. CallsTyped /\ [Next]_vars => CallsTyped' /\ [Decided]_call
  BY CallsStep, AreasAreApart
<1> QED BY <1>1, <1>2, PTL DEF Spec, CallsDecidedOnce, Decided
-----------------------------------------------------------------------------
(* The menu *)

MenusTyped == manager \in [Manager -> ManagerState] /\ served = [k \in CacheKey |-> served[k]]

MenuInv == MenusTyped /\ MenuChangesAreInvalidated

Invalidating(m) == manager[m].pc = "invalidate"

LEMMA MenuStarts == MenuInit => MenuInv
BY DEF MenuInit, MenuInv, MenusTyped, MenuChangesAreInvalidated, IdleManager, ManagerState

\* What a request goes on with; only one that has nothing more to delete may forget it.
LEMMA ManagerMoves ==
  ASSUME MenusTyped, NEW m \in Manager, NEW row \in ManagerState,
         manager' = [manager EXCEPT ![m] = row]
  PROVE  /\ manager' \in [Manager -> ManagerState] /\ manager'[m] = row
         /\ \A n \in Manager \ {m} : manager'[n] = manager[n]
BY DEF MenusTyped

LEMMA MenuProceeds ==
  ASSUME MenuInv, NEW m \in Manager, ManagerStep(m),
         ~InvalidateMenu(m), ~UpdateRestaurantStatus(m), ~ManagerFails(m)
  PROVE  /\ manager' \in [Manager -> ManagerState] /\ ~Invalidating(m)
         /\ \A n \in Manager \ {m} : manager'[n] = manager[n]
         /\ UNCHANGED <<served, menuTainted>>
         /\ UNCHANGED <<category, product>> \/ Invalidating(m)'
<1>t. /\ MenusTyped /\ manager[m] \in ManagerState
  BY DEF MenuInv, MenusTyped
<1>0. ASSUME NEW pc \in {"create", "save", "modifiers", "remove", "invalidate"},
             NEW c \in Category \cup {None}, NEW p \in Product \cup {None}, Proceed(m, pc, c, p)
      PROVE  /\ manager' \in [Manager -> ManagerState] /\ manager'[m].pc = pc
             /\ \A n \in Manager \ {m} : manager'[n] = manager[n]
  <2> DEFINE row == [pc |-> pc, category |-> c, product |-> p]
  <2>1. row \in ManagerState /\ row.pc = pc
    BY DEF ManagerState
  <2>2. manager' = [manager EXCEPT ![m] = row]
    BY <1>0 DEF Proceed
  <2> HIDE DEF row
  <2> QED BY <1>t, <2>1, <2>2, ManagerMoves
<1>1. CASE Saves(m)
  <2>1. /\ UNCHANGED <<served, menuTainted>> /\ ~Invalidating(m)
        /\ Proceed(m, "invalidate", None, None)
    BY <1>1 DEF Saves, CreateProduct, UpdateCategory, UpdateProduct, WriteModifier,
       DeleteProduct, DeleteCategory, writesMenu, cacheVars, MustInvalidate, Invalidating
  <2>2. None \in Category \cup {None} /\ None \in Product \cup {None}
    OBVIOUS
  <2> QED BY <1>0, <2>1, <2>2 DEF Invalidating
<1>2. ASSUME NEW c \in Category, CreateCategory(m, c)
      PROVE  /\ UNCHANGED <<served, menuTainted>> /\ ~Invalidating(m)
             /\ Proceed(m, "invalidate", None, None)
  BY <1>2 DEF CreateCategory, Requested, cacheVars, MustInvalidate, Invalidating
\* The steps that only read.
<1>3. ASSUME NEW c \in Category,
             ReadForCategoryUpdate(m, c) \/ CountProducts(m, c)
               \/ \E p \in Product : ReadForProduct(m, c, p) \/ ReadForMove(m, p, c)
      PROVE  /\ UNCHANGED <<served, menuTainted, category, product>> /\ ~Invalidating(m)
             /\ \E pc \in {"create", "save", "modifiers", "remove"},
                   d \in Category \cup {None}, p \in Product \cup {None} : Proceed(m, pc, d, p)
  BY <1>3 DEF ReadForCategoryUpdate, CountProducts, ReadForProduct, ReadForMove, Requested,
     readsOnly, cacheVars, Invalidating
<1>4. ASSUME NEW p \in Product,
             ReadForProductUpdate(m, p) \/ ReadForModifier(m, p) \/ ReadForProductDelete(m, p)
      PROVE  /\ UNCHANGED <<served, menuTainted, category, product>> /\ ~Invalidating(m)
             /\ \E pc \in {"create", "save", "modifiers", "remove"},
                   d \in Category \cup {None}, q \in Product \cup {None} : Proceed(m, pc, d, q)
  BY <1>4 DEF ReadForProductUpdate, ReadForModifier, ReadForProductDelete, Requested,
     readsOnly, cacheVars, Invalidating
<1>5. None \in Category \cup {None} /\ None \in Product \cup {None}
  OBVIOUS
<1> QED
  BY <1>0, <1>1, <1>2, <1>3, <1>4, <1>5 DEF ManagerStep, Invalidating

LEMMA MenuStepInv == MenuInv /\ [MenuStep]_menuVars => MenuInv'
<1> SUFFICES ASSUME MenuInv, [MenuStep]_menuVars PROVE MenuInv'
  OBVIOUS
<1>t. MenusTyped
  BY DEF MenuInv
<1>c. UNCHANGED <<category, product>> => Catalog' = Catalog
  BY DEF Catalog, CategoryFound, ProductsOf, ProductFound
<1>1. ASSUME NEW k \in CacheKey, ReadMenu(k) PROVE MenuInv'
  BY <1>1, <1>c DEF ReadMenu, MenuInv, MenusTyped, MenuChangesAreInvalidated
<1>2. ASSUME NEW k \in CacheKey, StoreMenu(k) PROVE MenuInv'
  <2>1. UNCHANGED <<category, product, manager>> /\ Catalog' = Catalog
    BY <1>2, <1>c DEF StoreMenu
  <2>2. CASE UNCHANGED <<served, menuTainted>>
    BY <2>1, <2>2 DEF MenuInv, MenusTyped, MenuChangesAreInvalidated
  <2>3. CASE /\ served' = [served EXCEPT ![k] = filling[k]]
             /\ menuTainted' = IF filling[k] = Catalog THEN menuTainted \ {k}
                               ELSE menuTainted \cup {k}
    <3>1. MenusTyped' /\ served'[k] = filling[k]
          /\ \A l \in CacheKey \ {k} : served'[l] = served[l] /\ (l \in menuTainted => l \in menuTainted')
      BY <1>t, <2>1, <2>3 DEF MenusTyped
    <3> QED BY <2>1, <2>3, <3>1 DEF MenuInv, MenuChangesAreInvalidated
  <2> QED BY <1>2, <2>2, <2>3 DEF StoreMenu
<1>3. ASSUME NEW k \in CacheKey, ExpireMenu(k) PROVE MenuInv'
  <2>1. /\ UNCHANGED <<category, product, manager>> /\ Catalog' = Catalog
        /\ served' = [served EXCEPT ![k] = None] /\ menuTainted' = menuTainted \ {k}
    BY <1>3, <1>c DEF ExpireMenu
  <2>2. MenusTyped' /\ served'[k] = None /\ \A l \in CacheKey \ {k} : served'[l] = served[l]
    BY <1>t, <2>1 DEF MenusTyped
  <2> QED BY <2>1, <2>2 DEF MenuInv, MenuChangesAreInvalidated
<1>4. ASSUME NEW m \in Manager, ManagerStep(m), ~InvalidateMenu(m), ~UpdateRestaurantStatus(m),
             ~ManagerFails(m)
      PROVE  MenuInv'
  <2>1. /\ manager' \in [Manager -> ManagerState] /\ ~Invalidating(m)
        /\ \A n \in Manager \ {m} : manager'[n] = manager[n]
        /\ UNCHANGED <<served, menuTainted>>
        /\ UNCHANGED <<category, product>> \/ Invalidating(m)'
    BY <1>4, MenuProceeds
  <2>2. MenusTyped'
    BY <1>t, <2>1 DEF MenusTyped
  <2>3. CASE Invalidating(m)'
    BY <2>2, <2>3 DEF MenuInv, MenuChangesAreInvalidated, Invalidating
  <2>4. CASE UNCHANGED <<category, product>>
    BY <1>c, <2>1, <2>2, <2>4 DEF MenuInv, MenuChangesAreInvalidated, Invalidating
  <2> QED BY <2>1, <2>3, <2>4
\* The deletion that takes place, and the one that does not.
<1>5. ASSUME NEW m \in Manager, manager' = [manager EXCEPT ![m] = IdleManager],
             UNCHANGED <<category, product>>,
             \/ served' = [k \in CacheKey |-> None]
             \/ Leaves
             \/ UNCHANGED <<served, menuTainted>> /\ ~Invalidating(m)
      PROVE  MenuInv'
  <2>1. IdleManager \in ManagerState
    BY DEF IdleManager, ManagerState
  <2>2. /\ manager' \in [Manager -> ManagerState]
        /\ \A n \in Manager \ {m} : manager'[n] = manager[n]
    BY <1>t, <1>5, <2>1, ManagerMoves
  <2>3. MenusTyped'
    BY <1>t, <1>5, <2>2 DEF MenusTyped, Leaves
  <2> QED BY <1>c, <1>5, <2>2, <2>3 DEF MenuInv, MenuChangesAreInvalidated, Leaves, Invalidating
<1>6. ASSUME NEW m \in Manager, InvalidateMenu(m) PROVE MenuInv'
  <2>1. [k \in CacheKey |-> IF k \in MenuKeys THEN None ELSE served[k]] = [k \in CacheKey |-> None]
    BY DEF MenuKeys
  <2> QED BY <1>5, <1>6, <2>1 DEF InvalidateMenu
<1>7. ASSUME NEW m \in Manager, ManagerFails(m) PROVE MenuInv'
  BY <1>5, <1>7 DEF ManagerFails, Invalidating
<1>8. ASSUME NEW m \in Manager, UpdateRestaurantStatus(m) PROVE MenuInv'
  BY <1>8, <1>c DEF UpdateRestaurantStatus, cacheVars, MenuInv, MenusTyped,
     MenuChangesAreInvalidated
<1>9. CASE UNCHANGED menuVars
  BY <1>9, <1>c DEF menuVars, MenuInv, MenusTyped, MenuChangesAreInvalidated
<1> QED
  BY <1>1, <1>2, <1>3, <1>4, <1>6, <1>7, <1>8, <1>9 DEF MenuStep

\* A cached menu that was right when it was stored is deleted by whoever changes it, for any
\* number of managers, categories and products.
THEOREM MenusAreInvalidated == Spec => []MenuChangesAreInvalidated
<1>1. MenuInv => MenuChangesAreInvalidated
  BY DEF MenuInv
<1>2. Init => MenuInv
  BY MenuStarts DEF Init
<1>3. MenuInv /\ [Next]_vars => MenuInv'
  BY MenuStepInv, AreasAreApart
<1> QED BY <1>1, <1>2, <1>3, PTL DEF Spec
-----------------------------------------------------------------------------
(* Coupons *)

SomeLimit == CHOOSE l \in Limits : TRUE

\* The columns the argument needs; used may be any integer as far as it is concerned.
Row ==
  [status : {"NONE", "PRESENT", "DELETED"}, active : BOOLEAN, running : BOOLEAN, type : Type,
   value : Values \cup {Anything}, restricted : BOOLEAN, minSubtotal : Nat,
   maxDiscount : Nat \cup {Absent}, limit : Limits \cup {SomeLimit}, used : Int]

Holding == {"read", "use", "commit"}

Discounts == {0} \cup {Discount(row, lines) : row \in Row, lines \in Lines \cup {{}}}

Order ==
  [pc : {"idle", "lock"} \cup Holding, coupon : CouponId \cup {Absent},
   lines : Lines \cup {{}}, discount : Discounts]

\* From reading the coupon to the commit an order holds the row, so that nobody else
\* changes what it read.
OrderHolds(o) ==
  LET c == checkout[o]
      row == coupon[c.coupon] IN
    /\ c \in Order
    /\ c.pc # "idle" => c.coupon \in CouponId /\ row.status # "NONE"
    /\ c.pc \in Holding => lockedBy[c.coupon] = o
    /\ c.pc = "use" => row.status = "PRESENT" /\ row.active /\ BelowLimit(row)
    /\ c.pc \in {"use", "commit"} => c.discount = Discount(row, c.lines)

CouponsTyped ==
  /\ coupon \in [CouponId -> Row]
  /\ lockedBy \in [CouponId -> Checkout \cup {Absent}]
  /\ checkout = [o \in Checkout |-> checkout[o]]
  /\ \A k \in CouponId : coupon[k].status = "NONE" => coupon[k].used = 0

CouponInv == CouponsTyped /\ \A o \in Checkout : OrderHolds(o)

UsesAreValid ==
  \A k \in CouponId : coupon'[k].used > coupon[k].used =>
    coupon[k].status = "PRESENT" /\ coupon[k].active /\ BelowLimit(coupon[k])

LEMMA NoCheckoutIdle == NoCheckout \in Order /\ NoCheckout.pc = "idle"
BY DEF NoCheckout, Order, Holding, Discounts

LEMMA CouponsStart == CouponsInit => CouponInv
<1>1. NoCouponRow \in Row /\ NoCouponRow.used = 0
  BY DEF NoCouponRow, Row, Anything, SomeLimit, Type
<1> SUFFICES ASSUME CouponsInit PROVE CouponInv
  OBVIOUS
<1>2. CouponsTyped
  BY <1>1 DEF CouponsInit, CouponsTyped
<1>3. ASSUME NEW o \in Checkout PROVE OrderHolds(o)
  <2>1. checkout[o] = NoCheckout
    BY DEF CouponsInit
  <2> QED BY <2>1, NoCheckoutIdle DEF OrderHolds, Holding
<1> QED BY <1>2, <1>3 DEF CouponInv

\* A discount depends on these columns only.
LEMMA SameDiscount ==
  ASSUME NEW row, NEW new, NEW lines, new.type = row.type, new.value = row.value,
         new.restricted = row.restricted, new.maxDiscount = row.maxDiscount
  PROVE  Discount(new, lines) = Discount(row, lines)
<1>1. {l \in lines : new.restricted => l.applicable} = {l \in lines : row.restricted => l.applicable}
  OBVIOUS
<1>2. EligibleSubtotal(new, lines) = EligibleSubtotal(row, lines)
  BY <1>1 DEF EligibleSubtotal
<1> QED BY <1>2 DEF Discount, AmountOff

\* An order that takes no step, while what it holds keeps all but the clock.
LEMMA OrderKept ==
  ASSUME CouponInv, NEW o \in Checkout, checkout'[o] = checkout[o],
         checkout[o].pc # "idle" => coupon'[checkout[o].coupon].status # "NONE",
         checkout[o].pc \in Holding =>
           /\ lockedBy'[checkout[o].coupon] = o
           /\ \/ coupon'[checkout[o].coupon] = coupon[checkout[o].coupon]
              \/ coupon'[checkout[o].coupon] = [coupon[checkout[o].coupon] EXCEPT !.running = ~@]
  PROVE  OrderHolds(o)'
<1> DEFINE k == checkout[o].coupon
<1>1. OrderHolds(o) /\ (checkout[o].pc # "idle" => coupon[k] \in Row)
  BY DEF CouponInv, CouponsTyped, OrderHolds
<1>2. ASSUME checkout[o].pc \in Holding
      PROVE  /\ coupon'[k].type = coupon[k].type /\ coupon'[k].value = coupon[k].value
             /\ coupon'[k].restricted = coupon[k].restricted
             /\ coupon'[k].maxDiscount = coupon[k].maxDiscount
             /\ coupon'[k].status = coupon[k].status /\ coupon'[k].active = coupon[k].active
             /\ coupon'[k].limit = coupon[k].limit /\ coupon'[k].used = coupon[k].used
  BY <1>1, <1>2 DEF Row, Holding
<1>3. checkout[o].pc \in Holding =>
        /\ BelowLimit(coupon'[k]) = BelowLimit(coupon[k])
        /\ Discount(coupon'[k], checkout[o].lines) = Discount(coupon[k], checkout[o].lines)
  BY <1>2, SameDiscount DEF BelowLimit
<1> QED BY <1>1, <1>2, <1>3 DEF OrderHolds, Holding

\* Editing changes neither whether a coupon is there nor how often it was used.
LEMMA EditsKeep ==
  ASSUME NEW row \in Row, NEW new \in Edited(row)
  PROVE  new \in Row /\ new.status = row.status /\ new.used = row.used
<1>1. ASSUME NEW type \in Type \cup {Absent}, NEW value \in Values \cup {Absent}
      PROVE  /\ Priced(row, type, value) \in Row
             /\ Priced(row, type, value).status = row.status
             /\ Priced(row, type, value).used = row.used
  <2> DEFINE t == IF type = Absent THEN row.type ELSE type
             v == IF value = Absent THEN row.value ELSE value
  <2>1. t \in Type /\ v \in Values \cup {Anything}
    BY DEF Row
  <2>2. Priced(row, type, value) = [row EXCEPT !.type = t, !.value = v]
    BY DEF Priced
  <2> HIDE DEF t, v
  <2> QED BY <2>1, <2>2 DEF Row
<1>2. ASSUME NEW payload \in {p \in (Type \cup {Absent}) \X (Values \cup {Absent}) :
                                ValidPayload(p[1], p[2])},
             new = Priced(row, payload[1], payload[2])
      PROVE  new \in Row /\ new.status = row.status /\ new.used = row.used
  BY <1>1, <1>2
<1>3. CASE \/ \E limit \in Limits : new = [row EXCEPT !.limit = limit]
           \/ \E active \in BOOLEAN : new = [row EXCEPT !.active = active]
           \/ \E restricted \in BOOLEAN : new = [row EXCEPT !.restricted = restricted]
           \/ \E least \in Minimums : new = [row EXCEPT !.minSubtotal = least]
           \/ \E most \in Caps : new = [row EXCEPT !.maxDiscount = most]
  BY <1>3, CouponsAssumption DEF Row
<1> QED BY <1>2, <1>3 DEF Edited

\* One order's step: nothing another order holds is touched.
LEMMA OrderMoves ==
  ASSUME CouponInv, NEW o \in Checkout, NEW c, checkout' = [checkout EXCEPT ![o] = c],
         OrderHolds(o)', CouponsTyped',
         \A k \in CouponId :
           /\ coupon[k].status # "NONE" => coupon'[k].status # "NONE"
           /\ lockedBy[k] \notin {o, Absent} =>
                lockedBy'[k] = lockedBy[k] /\ coupon'[k] = coupon[k]
  PROVE  CouponInv'
<1>1. ASSUME NEW p \in Checkout \ {o} PROVE OrderHolds(p)'
  <2>1. checkout'[p] = checkout[p] /\ OrderHolds(p)
    BY DEF CouponInv, CouponsTyped
  <2>2. /\ checkout[p].pc # "idle" => checkout[p].coupon \in CouponId
                                        /\ coupon[checkout[p].coupon].status # "NONE"
        /\ checkout[p].pc \in Holding => checkout[p].pc # "idle"
                                           /\ lockedBy[checkout[p].coupon] = p
    BY <2>1 DEF OrderHolds, Holding
  <2>3. p \notin {o, Absent}
    BY CouponsAssumption
  <2> QED BY <2>1, <2>2, <2>3, OrderKept
<1> QED BY <1>1 DEF CouponInv

\* A step of nobody's order: only coupons that no order holds change, but for the clock.
LEMMA CouponChanges ==
  ASSUME CouponInv, UNCHANGED <<checkout, lockedBy>>, CouponsTyped',
         \A k \in CouponId :
           /\ coupon[k].status # "NONE" => coupon'[k].status # "NONE"
           /\ \/ coupon'[k] = coupon[k]
              \/ coupon'[k] = [coupon[k] EXCEPT !.running = ~@]
              \/ lockedBy[k] = Absent \/ coupon[k].status = "NONE"
  PROVE  CouponInv'
<1>1. ASSUME NEW o \in Checkout PROVE OrderHolds(o)'
  <2>1. /\ checkout[o].pc # "idle" => checkout[o].coupon \in CouponId
                                        /\ coupon[checkout[o].coupon].status # "NONE"
        /\ checkout[o].pc \in Holding => checkout[o].pc # "idle"
                                           /\ lockedBy[checkout[o].coupon] = o
    BY DEF CouponInv, OrderHolds, Holding
  <2>2. o # Absent
    BY CouponsAssumption
  <2> QED BY <2>1, <2>2, OrderKept
<1> QED BY <1>1 DEF CouponInv

LEMMA OrderStepInv ==
  ASSUME CouponInv, NEW o \in Checkout,
         \/ \E k \in CouponId, lines \in Lines : BeginCheckout(o, k, lines)
         \/ LockCoupon(o) \/ ReadCoupon(o) \/ UseCoupon(o) \/ CommitOrder(o) \/ CheckoutFails(o)
  PROVE  CouponInv' /\ UsesAreValid
<1> DEFINE k == checkout[o].coupon
<1>t. /\ CouponsTyped /\ OrderHolds(o)
      /\ coupon \in [CouponId -> Row] /\ lockedBy \in [CouponId -> Checkout \cup {Absent}]
      /\ checkout = [p \in Checkout |-> checkout[p]]
      /\ checkout[o].pc # "idle" => k \in CouponId
      /\ o # Absent
  BY CouponsAssumption DEF CouponInv, CouponsTyped, OrderHolds
<1>u. UNCHANGED coupon => UsesAreValid
  <2> SUFFICES ASSUME UNCHANGED coupon, NEW l \in CouponId PROVE ~(coupon'[l].used > coupon[l].used)
    BY DEF UsesAreValid
  <2>1. coupon[l].used \in Int
    BY <1>t DEF Row
  <2> QED BY <2>1
\* The end of an order, whose use may be rolled back.
<1>e. ASSUME EndCheckout(o), coupon' \in [CouponId -> Row],
             \A l \in CouponId : /\ coupon'[l].status = coupon[l].status
                                 /\ lockedBy[l] # o => coupon'[l] = coupon[l]
                                 /\ coupon[l].status = "NONE" => coupon'[l] = coupon[l]
      PROVE  CouponInv'
  <2>1. /\ checkout' = [checkout EXCEPT ![o] = NoCheckout]
        /\ lockedBy' = [l \in CouponId |-> IF lockedBy[l] = o THEN Absent ELSE lockedBy[l]]
    BY <1>e DEF EndCheckout
  <2>2. CouponsTyped'
    BY <1>e, <1>t, <2>1 DEF CouponsTyped
  <2>3. checkout'[o] = NoCheckout
    BY <1>t, <2>1
  <2>4. OrderHolds(o)'
    BY <2>3, NoCheckoutIdle DEF OrderHolds, Holding
  <2> QED BY <1>e, <2>1, <2>2, <2>4, OrderMoves
<1>1. ASSUME NEW l \in CouponId, NEW lines \in Lines, BeginCheckout(o, l, lines)
      PROVE  CouponInv' /\ UsesAreValid
  <2> DEFINE c == [pc |-> "lock", coupon |-> l, lines |-> lines, discount |-> 0]
  <2>1. /\ checkout' = [checkout EXCEPT ![o] = c] /\ UNCHANGED <<coupon, lockedBy>>
        /\ coupon[l].status # "NONE"
    BY <1>1 DEF BeginCheckout
  <2>2. checkout'[o] = c
    BY <1>t, <2>1
  <2>3. OrderHolds(o)'
    BY <2>1, <2>2 DEF OrderHolds, Holding, Order, Discounts
  <2>4. CouponsTyped'
    BY <1>t, <2>1 DEF CouponsTyped
  <2> HIDE DEF c
  <2> QED BY <1>u, <2>1, <2>3, <2>4, OrderMoves
<1>2. ASSUME NEW pc \in {"read", "commit"}, CheckoutGoes(o, pc)
      PROVE  /\ checkout' = [checkout EXCEPT ![o] = [checkout[o] EXCEPT !.pc = pc]]
             /\ checkout'[o] \in Order /\ checkout'[o].pc = pc /\ checkout'[o].coupon = k
             /\ checkout'[o].lines = checkout[o].lines
             /\ checkout'[o].discount = checkout[o].discount
  <2> DEFINE c == [checkout[o] EXCEPT !.pc = pc]
  <2>1. /\ c \in Order /\ c.pc = pc /\ c.coupon = k /\ c.lines = checkout[o].lines
        /\ c.discount = checkout[o].discount
    BY <1>t DEF OrderHolds, Order, Holding
  <2>2. checkout' = [checkout EXCEPT ![o] = c]
    BY <1>2 DEF CheckoutGoes
  <2> HIDE DEF c
  <2>3. checkout'[o] = c
    BY <1>t, <2>2
  <2> QED BY <2>1, <2>2, <2>3 DEF c
<1>3. CASE LockCoupon(o)
  <2>1. /\ CheckoutGoes(o, "read") /\ checkout[o].pc = "lock" /\ UNCHANGED coupon
        /\ lockedBy[k] = Absent /\ lockedBy' = [lockedBy EXCEPT ![k] = o]
    BY <1>3 DEF LockCoupon, Unlocked
  <2>2. /\ checkout' = [checkout EXCEPT ![o] = [checkout[o] EXCEPT !.pc = "read"]]
        /\ checkout'[o] \in Order /\ checkout'[o].pc = "read" /\ checkout'[o].coupon = k
    BY <1>2, <2>1
  <2>3. CouponsTyped' /\ lockedBy'[k] = o
    BY <1>t, <2>1, <2>2 DEF CouponsTyped
  <2>4. OrderHolds(o)'
    BY <1>t, <2>1, <2>2, <2>3 DEF OrderHolds, Holding
  <2>5. \A l \in CouponId : lockedBy[l] \notin {o, Absent} => lockedBy'[l] = lockedBy[l]
    BY <1>t, <2>1
  <2> QED BY <1>u, <2>1, <2>2, <2>3, <2>4, <2>5, OrderMoves
<1>4. CASE ReadCoupon(o)
  <2>1. checkout[o].pc = "read" /\ UNCHANGED coupon
    BY <1>4 DEF ReadCoupon
  <2>2. CASE EndCheckout(o)
    BY <1>e, <1>t, <1>u, <2>1, <2>2
  <2>3. CASE /\ Accepted(coupon[k], checkout[o].lines) /\ UNCHANGED lockedBy
             /\ checkout' = [checkout EXCEPT ![o] =
                  [checkout[o] EXCEPT !.pc = "use",
                                      !.discount = Discount(coupon[k], checkout[o].lines)]]
    <3> DEFINE d == Discount(coupon[k], checkout[o].lines)
               c == [checkout[o] EXCEPT !.pc = "use", !.discount = d]
    <3>1. checkout' = [checkout EXCEPT ![o] = c]
      BY <2>3
    <3>0. d \in Discounts
      BY <1>t, <2>1 DEF OrderHolds, Order, Holding, Discounts
    <3> HIDE DEF d
    <3>2. c \in Order /\ c.pc = "use" /\ c.coupon = k /\ c.lines = checkout[o].lines /\ c.discount = d
      BY <1>t, <3>0 DEF OrderHolds, Order, Holding
    <3> HIDE DEF c
    <3>3. checkout'[o] = c
      BY <1>t, <3>1, <3>2
    <3>4. CouponsTyped'
      BY <1>t, <2>1, <2>3, <3>1 DEF CouponsTyped
    <3>5. OrderHolds(o)'
      BY <1>t, <2>1, <2>3, <3>2, <3>3 DEF OrderHolds, Holding, Accepted, d
    <3> QED BY <1>u, <2>1, <2>3, <3>1, <3>4, <3>5, OrderMoves
  <2> QED BY <1>4, <2>2, <2>3 DEF ReadCoupon
<1>5. CASE UseCoupon(o)
  <2> DEFINE used == [coupon[k] EXCEPT !.used = @ + 1]
  <2>1. /\ CheckoutGoes(o, "commit") /\ checkout[o].pc = "use" /\ UNCHANGED lockedBy
        /\ coupon' = [coupon EXCEPT ![k] = used]
    BY <1>5 DEF UseCoupon
  <2>2. /\ checkout' = [checkout EXCEPT ![o] = [checkout[o] EXCEPT !.pc = "commit"]]
        /\ checkout'[o] \in Order /\ checkout'[o].pc = "commit" /\ checkout'[o].coupon = k
        /\ checkout'[o].lines = checkout[o].lines
        /\ checkout'[o].discount = checkout[o].discount
    BY <1>2, <2>1
  <2>3. /\ coupon[k].status = "PRESENT" /\ coupon[k].active /\ BelowLimit(coupon[k])
        /\ lockedBy[k] = o /\ k \in CouponId
        /\ checkout[o].discount = Discount(coupon[k], checkout[o].lines)
    BY <1>t, <2>1 DEF OrderHolds, Holding
  <2>4. /\ used \in Row /\ used.status = "PRESENT" /\ used.type = coupon[k].type
        /\ used.value = coupon[k].value /\ used.restricted = coupon[k].restricted
        /\ used.maxDiscount = coupon[k].maxDiscount
    BY <1>t, <2>3 DEF Row
  <2> HIDE DEF used
  <2>5. /\ coupon' \in [CouponId -> Row] /\ coupon'[k] = used
        /\ \A l \in CouponId \ {k} : coupon'[l] = coupon[l]
    BY <1>t, <2>1, <2>3, <2>4
  <2>6. CouponsTyped'
    BY <1>t, <2>1, <2>2, <2>4, <2>5 DEF CouponsTyped
  <2>7. Discount(used, checkout[o].lines) = Discount(coupon[k], checkout[o].lines)
    BY <2>4, SameDiscount
  <2>8. OrderHolds(o)'
    BY <2>1, <2>2, <2>3, <2>4, <2>5, <2>7 DEF OrderHolds, Holding
  <2>9. CouponInv'
    <3> DEFINE c == [checkout[o] EXCEPT !.pc = "commit"]
    <3>1. checkout' = [checkout EXCEPT ![o] = c]
      BY <2>2
    <3> HIDE DEF c
    <3>2. ASSUME NEW l \in CouponId
          PROVE  /\ coupon[l].status # "NONE" => coupon'[l].status # "NONE"
                 /\ lockedBy[l] \notin {o, Absent} =>
                      lockedBy'[l] = lockedBy[l] /\ coupon'[l] = coupon[l]
      <4>1. CASE l = k
        BY <2>3, <2>4, <2>5, <4>1
      <4>2. CASE l # k
        BY <2>1, <2>5, <4>2
      <4> QED BY <4>1, <4>2
    <3> QED BY <2>6, <2>8, <3>1, <3>2, OrderMoves
  <2>10. \A l \in CouponId \ {k} : coupon[l].used \in Int
    BY <1>t DEF Row
  <2> QED BY <2>3, <2>5, <2>9, <2>10 DEF UsesAreValid
<1>6. CASE CommitOrder(o)
  BY <1>6, <1>e, <1>t, <1>u DEF CommitOrder
<1>7. CASE CheckoutFails(o)
  <2>1. EndCheckout(o) /\ checkout[o].pc # "idle" /\ k \in CouponId
    BY <1>7, <1>t DEF CheckoutFails
  <2>2. CASE UNCHANGED coupon
    BY <1>e, <1>t, <1>u, <2>1, <2>2
  <2>3. CASE checkout[o].pc = "commit" /\ coupon' = [coupon EXCEPT ![k].used = @ - 1]
    <3> DEFINE back == [coupon[k] EXCEPT !.used = @ - 1]
    <3>1. /\ back \in Row /\ back.status = coupon[k].status /\ back.used = coupon[k].used - 1
          /\ coupon[k].used \in Int
      BY <1>t, <2>1 DEF Row
    <3>2. coupon' = [coupon EXCEPT ![k] = back]
      BY <2>3
    <3> HIDE DEF back
    <3>3. /\ coupon' \in [CouponId -> Row] /\ coupon'[k] = back
          /\ \A l \in CouponId \ {k} : coupon'[l] = coupon[l]
      BY <1>t, <2>1, <3>1, <3>2
    <3>4. lockedBy[k] = o /\ coupon[k].status # "NONE"
      BY <1>t, <2>3 DEF OrderHolds, Holding
    <3>5. CouponInv'
      BY <1>e, <2>1, <3>1, <3>3, <3>4
    <3>6. \A l \in CouponId \ {k} : coupon[l].used \in Int
      BY <1>t DEF Row
    <3> QED BY <3>1, <3>3, <3>5, <3>6 DEF UsesAreValid
  <2> QED BY <1>7, <2>2, <2>3 DEF CheckoutFails
<1> QED BY <1>1, <1>3, <1>4, <1>5, <1>6, <1>7

LEMMA DeletionKeeps ==
  ASSUME NEW row \in Row
  PROVE  LET new == [row EXCEPT !.status = "DELETED", !.active = FALSE] IN
           new \in Row /\ new.status = "DELETED" /\ new.used = row.used
BY DEF Row

LEMMA CouponStepInv == CouponInv /\ [CouponsStep]_couponVars => CouponInv' /\ [UsesAreValid]_coupon
<1> SUFFICES ASSUME CouponInv, [CouponsStep]_couponVars
             PROVE  CouponInv' /\ [UsesAreValid]_coupon
  OBVIOUS
<1>t. /\ CouponsTyped
      /\ coupon \in [CouponId -> Row] /\ lockedBy \in [CouponId -> Checkout \cup {Absent}]
  BY DEF CouponInv, CouponsTyped
\* One coupon changes that no order holds, or that was not there, or only by the clock.
<1>0. ASSUME NEW k \in CouponId, NEW row \in Row, coupon' = [coupon EXCEPT ![k] = row],
             UNCHANGED <<checkout, lockedBy>>,
             row.status # "NONE" \/ (row.status = coupon[k].status /\ row.used = coupon[k].used),
             coupon[k].status # "NONE" => row.status # "NONE",
             row.used <= coupon[k].used,
             \/ row = [coupon[k] EXCEPT !.running = ~@]
             \/ lockedBy[k] = Absent \/ coupon[k].status = "NONE"
      PROVE  CouponInv' /\ UsesAreValid
  <2>1. /\ coupon' \in [CouponId -> Row] /\ coupon'[k] = row
        /\ \A l \in CouponId \ {k} : coupon'[l] = coupon[l]
    BY <1>0, <1>t
  <2>2. CouponsTyped'
    BY <1>0, <1>t, <2>1 DEF CouponsTyped
  <2>3. CouponInv'
    BY <1>0, <2>1, <2>2, CouponChanges
  <2>4. \A l \in CouponId : coupon[l].used \in Int /\ coupon'[l].used \in Int
    BY <1>t, <2>1 DEF Row
  <2> QED BY <1>0, <2>1, <2>3, <2>4 DEF UsesAreValid
<1>1. CASE UNCHANGED <<coupon, lockedBy, checkout>>
  <2>1. CouponsTyped'
    BY <1>1, <1>t DEF CouponsTyped
  <2> QED BY <1>1, <2>1, CouponChanges
<1>2. ASSUME NEW o \in Checkout,
             \/ \E k \in CouponId, lines \in Lines : BeginCheckout(o, k, lines)
             \/ LockCoupon(o) \/ ReadCoupon(o) \/ UseCoupon(o) \/ CommitOrder(o)
             \/ CheckoutFails(o)
      PROVE  CouponInv' /\ UsesAreValid
  BY <1>2, OrderStepInv
<1>3. ASSUME NEW k \in CouponId, ReturnUse(k) PROVE CouponInv' /\ UsesAreValid
  <2> DEFINE row == [coupon[k] EXCEPT !.used = @ - 1]
  <2>1. /\ row \in Row /\ row.status = coupon[k].status /\ row.used = coupon[k].used - 1
        /\ coupon[k].used \in Int
    BY <1>t DEF Row
  <2>2. /\ coupon' = [coupon EXCEPT ![k] = row] /\ lockedBy[k] = Absent /\ coupon[k].used > 0
        /\ UNCHANGED <<checkout, lockedBy>>
    BY <1>3 DEF ReturnUse, Unlocked
  <2> HIDE DEF row
  <2>3. coupon[k].status # "NONE" /\ row.used <= coupon[k].used
    BY <1>t, <2>1, <2>2 DEF CouponsTyped
  <2> QED BY <1>0, <2>1, <2>2, <2>3
<1>4. ASSUME NEW k \in CouponId, ClockTicks(k) PROVE CouponInv' /\ UsesAreValid
  <2> DEFINE row == [coupon[k] EXCEPT !.running = ~@]
  <2>1. /\ row \in Row /\ row.status = coupon[k].status /\ row.used = coupon[k].used
        /\ coupon[k].used \in Int
    BY <1>t DEF Row
  <2>2. /\ coupon' = [coupon EXCEPT ![k] = row] /\ row = [coupon[k] EXCEPT !.running = ~@]
        /\ UNCHANGED <<checkout, lockedBy>>
    BY <1>4 DEF ClockTicks
  <2> HIDE DEF row
  <2>3. row.used <= coupon[k].used
    BY <2>1
  <2> QED BY <1>0, <2>1, <2>2, <2>3
<1>5. ASSUME NEW e \in Editor, NEW k \in CouponId, NEW type \in Type, NEW value \in Values,
             NEW limit \in Limits, CreateCoupon(e, k, type, value, limit)
      PROVE  CouponInv' /\ UsesAreValid
  <2>1. PICK restricted \in BOOLEAN, least \in Minimums, most \in Caps :
          coupon' = [coupon EXCEPT ![k] =
            [status |-> "PRESENT", active |-> TRUE, running |-> TRUE, type |-> type,
             value |-> value, restricted |-> restricted, minSubtotal |-> least,
             maxDiscount |-> most, limit |-> limit, used |-> 0]]
    BY <1>5 DEF CreateCoupon
  <2> DEFINE row ==
    [status |-> "PRESENT", active |-> TRUE, running |-> TRUE, type |-> type,
     value |-> value, restricted |-> restricted, minSubtotal |-> least,
     maxDiscount |-> most, limit |-> limit, used |-> 0]
  <2>2. row \in Row /\ row.status = "PRESENT" /\ row.used = 0
    BY CouponsAssumption DEF Row
  <2>3. coupon' = [coupon EXCEPT ![k] = row]
    BY <2>1
  <2> HIDE DEF row
  <2>4. coupon[k].status = "NONE" /\ UNCHANGED <<checkout, lockedBy>>
    BY <1>5 DEF CreateCoupon
  <2>5. coupon[k].used = 0
    BY <1>t, <2>4 DEF CouponsTyped
  <2>6. row.used <= coupon[k].used
    BY <2>2, <2>5
  <2> QED BY <1>0, <2>2, <2>3, <2>4, <2>6
<1>6. ASSUME NEW e \in Editor, UpdateCoupon(e) PROVE (CouponInv' /\ UsesAreValid) \/ UNCHANGED coupon
  <2> DEFINE k == editor[e].coupon
  <2>1. PICK row \in Edited(coupon[k]) :
          coupon' = IF coupon[k].status = "PRESENT" THEN [coupon EXCEPT ![k] = row] ELSE coupon
    BY <1>6 DEF UpdateCoupon
  <2>2. lockedBy[k] = Absent /\ UNCHANGED <<checkout, lockedBy>>
    BY <1>6 DEF UpdateCoupon, Unlocked
  <2>3. CASE k \in CouponId /\ coupon[k].status = "PRESENT"
    <3>1. row \in Row /\ row.status = coupon[k].status /\ row.used = coupon[k].used
      BY <1>t, <2>3, EditsKeep
    <3>2. coupon[k].used \in Int
      BY <1>t, <2>3 DEF Row
    <3>3. row.used <= coupon[k].used
      BY <3>1, <3>2
    <3> QED BY <1>0, <2>1, <2>2, <2>3, <3>1, <3>3
  <2>4. CASE ~(k \in CouponId /\ coupon[k].status = "PRESENT")
    BY <1>t, <2>1, <2>4
  <2> QED BY <2>3, <2>4
<1>7. ASSUME NEW e \in Editor, DeleteCoupon(e) PROVE (CouponInv' /\ UsesAreValid) \/ UNCHANGED coupon
  <2> DEFINE k == editor[e].coupon
             row == [coupon[k] EXCEPT !.status = "DELETED", !.active = FALSE]
  <2>1. /\ coupon' = IF coupon[k].status = "PRESENT" THEN [coupon EXCEPT ![k] = row] ELSE coupon
        /\ lockedBy[k] = Absent /\ UNCHANGED <<checkout, lockedBy>>
    BY <1>7 DEF DeleteCoupon, Unlocked
  <2>2. CASE k \in CouponId /\ coupon[k].status = "PRESENT"
    <3>1. row \in Row /\ row.status = "DELETED" /\ row.used = coupon[k].used
      BY <1>t, <2>2, DeletionKeeps
    <3> HIDE DEF row
    <3>2. coupon[k].used \in Int
      BY <1>t, <2>2 DEF Row
    <3>3. row.used <= coupon[k].used
      BY <3>1, <3>2
    <3> QED BY <1>0, <2>1, <2>2, <3>1, <3>3
  <2>3. CASE ~(k \in CouponId /\ coupon[k].status = "PRESENT")
    BY <1>t, <2>1, <2>3
  <2> QED BY <2>2, <2>3
<1>8. ASSUME NEW e \in Editor,
             EditorFails(e) \/ \E k \in CouponId : FindCoupon(e, k, "save") \/ FindCoupon(e, k, "remove")
      PROVE  UNCHANGED <<coupon, lockedBy, checkout>>
  BY <1>8 DEF EditorFails, FindCoupon
<1>9. ASSUME NEW e \in Editor, UpdateCoupon(e) \/ DeleteCoupon(e)
      PROVE  UNCHANGED <<lockedBy, checkout>>
  BY <1>9 DEF UpdateCoupon, DeleteCoupon
<1> QED
  BY <1>1, <1>2, <1>3, <1>4, <1>5, <1>6, <1>7, <1>8, <1>9 DEF CouponsStep, couponVars

\* The discount an order is created with is the coupon's discount at the commit, for any
\* coupons, edits and number of orders at once.
THEOREM DiscountsStayCurrent == Spec => []DiscountsAreCurrent
<1>1. CouponInv => DiscountsAreCurrent
  BY DEF CouponInv, OrderHolds, DiscountsAreCurrent
<1>2. Init => CouponInv
  BY CouponsStart DEF Init
<1>3. CouponInv /\ [Next]_vars => CouponInv'
  BY CouponStepInv, AreasAreApart
<1> QED BY <1>1, <1>2, <1>3, PTL DEF Spec

\* A use is counted only on a coupon that is present, active and below its limit at that
\* moment: two orders cannot both take the last use.
THEOREM UsesOnlyOfValidCoupons == Spec => UsesOnlyWhileValid
<1>1. Init => CouponInv
  BY CouponsStart DEF Init
<1>2. CouponInv /\ [Next]_vars => CouponInv' /\ [UsesAreValid]_coupon
  BY CouponStepInv, AreasAreApart
<1> QED BY <1>1, <1>2, PTL DEF Spec, UsesOnlyWhileValid, UsesAreValid

-----------------------------------------------------------------------------
(* WhatsApp connections *)

Connecting == {"connect", "connection"}

\* Only one manager changes connections: with two, the later of two requests may make a
\* connection active that the other one has replaced.
OneConnects ==
  \A o, p \in Operator :
    OperatorDuties[o] \cap Connecting # {} /\ OperatorDuties[p] \cap Connecting # {} => o = p

\* What the one manager found is still the newest when it is written.
NewestFound ==
  /\ connection \in [ConnectionId -> ConnectionStatus \cup {"NONE"}]
  /\ operator \in [Operator -> OperatorState]
  /\ \A c, d \in ConnectionId : d < c /\ connection[c] # "NONE" => connection[d] # "NONE"
  /\ OnlyNewestIsActive
  /\ \A o \in Operator :
       /\ operator[o].pc \in Connecting => OperatorDuties[o] \cap Connecting # {}
       /\ operator[o].pc = "connection" =>
            /\ NewestConnection(operator[o].connection)
            /\ operator[o].status \in ConnectionStatus

LEMMA Unoccupied ==
  NoOperation \in OperatorState /\ NoOperation.pc = "idle" /\ NoOperation.pc \notin Connecting
BY PremisesAssumption
   DEF NoOperation, OperatorState, OperatorRequests, BranchStatus, Connecting

\* What requests record of themselves.
LEMMA CreateRequest ==
  ASSUME NEW r \in OperatorState, NEW asMain \in BOOLEAN, NEW status \in BranchStatus
  PROVE  /\ [r EXCEPT !.pc = "create", !.asMain = asMain, !.status = status] \in OperatorState
         /\ [r EXCEPT !.pc = "create", !.asMain = asMain, !.status = status].pc = "create"
BY DEF OperatorState, OperatorRequests

LEMMA UpdateRequest ==
  ASSUME NEW r \in OperatorState, NEW b \in Branch, NEW status \in BranchStatus
  PROVE  /\ [r EXCEPT !.pc = "update", !.branch = b, !.status = status] \in OperatorState
         /\ [r EXCEPT !.pc = "update", !.branch = b, !.status = status].pc = "update"
BY DEF OperatorState, OperatorRequests

LEMMA ConnectRequest ==
  ASSUME NEW r \in OperatorState
  PROVE  [r EXCEPT !.pc = "connect"] \in OperatorState /\ [r EXCEPT !.pc = "connect"].pc = "connect"
BY DEF OperatorState, OperatorRequests

LEMMA ConnectionRequest ==
  ASSUME NEW r \in OperatorState, NEW c \in 0..MaxConnections, NEW status \in ConnectionStatus
  PROVE  /\ [r EXCEPT !.pc = "connection", !.connection = c, !.status = status] \in OperatorState
         /\ [r EXCEPT !.pc = "connection", !.connection = c, !.status = status].pc = "connection"
         /\ [r EXCEPT !.pc = "connection", !.connection = c, !.status = status].connection = c
         /\ [r EXCEPT !.pc = "connection", !.connection = c, !.status = status].status = status
BY DEF OperatorState, OperatorRequests

LEMMA ConnectionsStart == PremisesInit => NewestFound
<1> SUFFICES ASSUME PremisesInit PROVE NewestFound
  OBVIOUS
<1>1. operator \in [Operator -> OperatorState] /\ \A o \in Operator : operator[o] = NoOperation
  BY Unoccupied DEF PremisesInit
<1>2. \A o \in Operator : operator[o].pc = "idle"
  BY <1>1, Unoccupied
<1>3. \A c \in ConnectionId : connection[c] = "NONE"
  BY DEF PremisesInit
<1>4. connection \in [ConnectionId -> ConnectionStatus \cup {"NONE"}]
  BY DEF PremisesInit
<1> QED BY <1>1, <1>2, <1>3, <1>4 DEF NewestFound, OnlyNewestIsActive, Connecting

\* A request of anyone that leaves the connections alone.
LEMMA ConnectionsKept ==
  ASSUME NewestFound, NEW o \in Operator, NEW r \in OperatorState,
         operator' = [operator EXCEPT ![o] = r], UNCHANGED connection,
         r.pc \in Connecting => OperatorDuties[o] \cap Connecting # {},
         r.pc = "connection" => NewestConnection(r.connection) /\ r.status \in ConnectionStatus
  PROVE  NewestFound'
<1>1. /\ operator' \in [Operator -> OperatorState] /\ operator'[o] = r
      /\ \A p \in Operator \ {o} : operator'[p] = operator[p]
  BY DEF NewestFound
<1>2. \A c : NewestConnection(c)' = NewestConnection(c)
  BY DEF NewestConnection, Connections
<1>3. OnlyNewestIsActive'
  BY <1>2 DEF NewestFound, OnlyNewestIsActive
<1>4. ASSUME NEW p \in Operator
      PROVE  /\ operator'[p].pc \in Connecting => OperatorDuties[p] \cap Connecting # {}
             /\ operator'[p].pc = "connection" =>
                  /\ NewestConnection(operator'[p].connection)
                  /\ operator'[p].status \in ConnectionStatus
  BY <1>1 DEF NewestFound
<1> QED BY <1>1, <1>2, <1>3, <1>4 DEF NewestFound

\* The one manager has written: nobody else is in the middle of it.
LEMMA ConnectionsWritten ==
  ASSUME OneConnects, NewestFound, NEW o \in Operator, operator[o].pc \in Connecting, Finish(o),
         connection' \in [ConnectionId -> ConnectionStatus \cup {"NONE"}], OnlyNewestIsActive',
         \A c, d \in ConnectionId : d < c /\ connection'[c] # "NONE" => connection'[d] # "NONE"
  PROVE  NewestFound'
<1>1. \A p \in Operator \ {o} : operator[p].pc \notin Connecting
  BY DEF OneConnects, NewestFound
<1>2. operator' = [operator EXCEPT ![o] = NoOperation]
  BY DEF Finish
<1>3. /\ operator' \in [Operator -> OperatorState] /\ operator'[o] = NoOperation
      /\ \A p \in Operator \ {o} : operator'[p] = operator[p]
  BY <1>2, Unoccupied DEF NewestFound
<1>4. \A p \in Operator : operator'[p].pc \notin Connecting
  BY <1>1, <1>3, Unoccupied
<1> QED BY <1>3, <1>4 DEF NewestFound, Connecting

LEMMA ConnectionStepInv ==
  ASSUME OneConnects PROVE NewestFound /\ [PremisesStep]_premisesVars => NewestFound'
<1> SUFFICES ASSUME NewestFound, [PremisesStep]_premisesVars PROVE NewestFound'
  OBVIOUS
<1>1. ASSUME NEW o \in Operator, NEW r \in OperatorState, Begin(o, r),
             r.pc = "connection" => NewestConnection(r.connection) /\ r.status \in ConnectionStatus
      PROVE  NewestFound'
  <2>1. /\ operator' = [operator EXCEPT ![o] = r] /\ UNCHANGED connection
        /\ r.pc \in OperatorDuties[o]
    BY <1>1 DEF Begin
  <2> QED BY <1>1, <2>1, ConnectionsKept
<1>2. ASSUME NEW o \in Operator, Finish(o), UNCHANGED connection PROVE NewestFound'
  BY <1>2, Unoccupied, ConnectionsKept DEF Finish, Connecting
<1>3. ASSUME NEW o \in Operator, NEW asMain \in BOOLEAN, NEW status \in BranchStatus,
             ReadForBranch(o, asMain, status)
      PROVE  NewestFound'
  <2> DEFINE r == [NoOperation EXCEPT !.pc = "create", !.asMain = asMain, !.status = status]
  <2>1. Begin(o, r)
    BY <1>3 DEF ReadForBranch
  <2>2. r \in OperatorState /\ r.pc = "create"
    BY Unoccupied, CreateRequest
  <2> HIDE DEF r
  <2> QED BY <1>1, <2>1, <2>2
<1>4. ASSUME NEW o \in Operator, NEW b \in Branch, NEW status \in BranchStatus,
             ReadForBranchUpdate(o, b, status)
      PROVE  NewestFound'
  <2> DEFINE r == [NoOperation EXCEPT !.pc = "update", !.branch = b, !.status = status]
  <2>1. Begin(o, r)
    BY <1>4 DEF ReadForBranchUpdate
  <2>2. r \in OperatorState /\ r.pc = "update"
    BY Unoccupied, UpdateRequest
  <2> HIDE DEF r
  <2> QED BY <1>1, <2>1, <2>2
<1>5. ASSUME NEW o \in Operator, CreateBranch(o) \/ UpdateBranch(o) \/ OperatorFails(o)
      PROVE  NewestFound'
  BY <1>2, <1>5 DEF CreateBranch, UpdateBranch, OperatorFails
<1>6. ASSUME NEW o \in Operator, ReadForConnect(o) PROVE NewestFound'
  <2> DEFINE r == [NoOperation EXCEPT !.pc = "connect"]
  <2>1. Begin(o, r)
    BY <1>6 DEF ReadForConnect
  <2>2. r \in OperatorState /\ r.pc = "connect"
    BY Unoccupied, ConnectRequest
  <2> HIDE DEF r
  <2> QED BY <1>1, <2>1, <2>2
<1>7. ASSUME NEW o \in Operator, NEW c \in ConnectionId, NEW status \in ConnectionStatus,
             ReadForConnection(o, c, status)
      PROVE  NewestFound'
  <2> DEFINE r == [NoOperation EXCEPT !.pc = "connection", !.connection = c, !.status = status]
  <2>1. Begin(o, r) /\ NewestConnection(c)
    BY <1>7 DEF ReadForConnection
  <2>2. r \in OperatorState /\ r.pc = "connection" /\ r.connection = c /\ r.status = status
    <3>1. c \in 0..MaxConnections
      BY DEF ConnectionId
    <3>2. NoOperation \in OperatorState
      BY Unoccupied
    <3>3. r \in OperatorState
      BY <3>1, <3>2, ConnectionRequest
    <3>4. r.pc = "connection" /\ r.connection = c /\ r.status = status
      BY <3>1, <3>2 DEF OperatorState
    <3> QED BY <3>3, <3>4
  <2> HIDE DEF r
  <2> QED BY <1>1, <2>1, <2>2
<1>8. ASSUME NEW o \in Operator, CreateConnection(o) PROVE NewestFound'
  <2>1. PICK c \in ConnectionId :
          /\ connection[c] = "NONE" /\ \A d \in ConnectionId : d < c => connection[d] # "NONE"
          /\ connection' = [Disconnected(connection, c) EXCEPT ![c] = "ACTIVE"]
    BY <1>8 DEF CreateConnection
  <2>2. /\ connection' \in [ConnectionId -> ConnectionStatus \cup {"NONE"}]
        /\ connection'[c] = "ACTIVE"
        /\ \A d \in ConnectionId \ {c} :
             /\ connection'[d] # "ACTIVE"
             /\ connection'[d] # "NONE" <=> connection[d] # "NONE"
    BY <2>1 DEF Disconnected, NewestFound, ConnectionStatus
  <2>3. \A d \in ConnectionId : connection'[d] # "NONE" => d <= c
    BY <2>1, <2>2 DEF NewestFound, ConnectionId
  <2>4. \A d, b \in ConnectionId : b < d /\ connection'[d] # "NONE" => connection'[b] # "NONE"
    BY <2>1, <2>2, <2>3 DEF ConnectionId
  <2>5. OnlyNewestIsActive'
    BY <2>2, <2>3 DEF OnlyNewestIsActive, NewestConnection, Connections
  <2> QED BY <1>8, <2>2, <2>4, <2>5, ConnectionsWritten DEF CreateConnection, Connecting
<1>9. ASSUME NEW o \in Operator, UpdateConnection(o) PROVE NewestFound'
  <2> DEFINE c == operator[o].connection
             rows == IF operator[o].status = "ACTIVE" THEN Disconnected(connection, c)
                     ELSE connection
  <2>1. /\ operator[o].pc = "connection" /\ connection' = [rows EXCEPT ![c] = operator[o].status]
        /\ NewestConnection(c) /\ c \in ConnectionId /\ operator[o].status \in ConnectionStatus
    BY <1>9 DEF UpdateConnection, NewestFound, NewestConnection, Connections
  <2>2. /\ connection' \in [ConnectionId -> ConnectionStatus \cup {"NONE"}]
        /\ \A d \in ConnectionId : connection'[d] # "NONE" <=> connection[d] # "NONE"
        /\ \A d \in ConnectionId \ {c} : connection'[d] = "ACTIVE" => connection[d] = "ACTIVE"
    BY <2>1 DEF Disconnected, NewestFound, NewestConnection, Connections, ConnectionStatus
  <2>3. OnlyNewestIsActive'
    BY <2>1, <2>2 DEF OnlyNewestIsActive, NewestFound, NewestConnection, Connections, ConnectionId
  <2>4. \A d, b \in ConnectionId : b < d /\ connection'[d] # "NONE" => connection'[b] # "NONE"
    BY <2>2 DEF NewestFound
  <2> QED BY <1>9, <2>1, <2>2, <2>3, <2>4, ConnectionsWritten DEF UpdateConnection, Connecting
<1>10. CASE UNCHANGED premisesVars
  BY <1>10 DEF premisesVars, NewestFound, OnlyNewestIsActive, NewestConnection, Connections
<1> QED
  BY <1>3, <1>4, <1>5, <1>6, <1>7, <1>8, <1>9, <1>10 DEF PremisesStep

\* While one manager changes WhatsApp connections, however many change branches beside, the
\* connection that is active is the newest, which replies are sent by and a disconnect ends.
THEOREM NewestConnectionIsActive ==
  ASSUME OneConnects PROVE Spec => []OnlyNewestIsActive
<1>1. NewestFound => OnlyNewestIsActive
  BY DEF NewestFound
<1>2. Init => NewestFound
  BY ConnectionsStart DEF Init
<1>3. NewestFound /\ [Next]_vars => NewestFound'
  BY ConnectionStepInv, AreasAreApart
<1> QED BY <1>1, <1>2, <1>3, PTL DEF Spec
=============================================================================
