------------------------------- MODULE Customers -------------------------------
(***************************************************************************)
(* Customers and the phones they are found by (customer.service.js,        *)
(* customer.repository.js).  Orders find or create the customer of a phone *)
(* in a transaction of their own while staff create, edit and delete       *)
(* customers.                                                              *)
(*                                                                         *)
(* Both unique indexes on phones hold for deleted rows too.                *)
(***************************************************************************)
EXTENDS Integers, FiniteSets

CONSTANTS
  CustomerId,         \* ids of customers rows
  Phone,              \* phone numbers
  Caller,             \* concurrent orders that name a phone
  Clerk,              \* concurrent requests about customers
  Nobody,             \* an absent value
  MaxCustomerChanges  \* bound: requests about customers

ASSUME CustomersAssumption ==
  /\ Nobody \notin CustomerId \cup Phone
  /\ MaxCustomerChanges \in Nat

VARIABLES
  customer,        \* customers
  phoneOf,         \* customer_phones, unique by phone: the customer who has it
  caller,          \* local state of each order
  clerk,           \* local state of each request about customers
  answered,        \* auxiliary: customers orders went to, by phone, since it last moved
  customerChanges  \* requests made so far

customersVars == <<customer, phoneOf, caller, clerk, answered, customerChanges>>

CustomerRow == [status : {"NONE", "PRESENT", "DELETED"}, phone : Phone \cup {Nobody}]

CallerState == [pc : {"idle", "find", "create"}, phone : Phone \cup {Nobody}]

ClerkState ==
  [pc : {"idle", "create", "update", "delete"}, customer : CustomerId \cup {Nobody},
   phone : Phone \cup {Nobody}]

IdleCaller == [pc |-> "idle", phone |-> Nobody]

IdleClerk == [pc |-> "idle", customer |-> Nobody, phone |-> Nobody]

CustomersTypeOK ==
  /\ customer \in [CustomerId -> CustomerRow]
  /\ phoneOf \in [Phone -> CustomerId \cup {Nobody}]
  /\ caller \in [Caller -> CallerState]
  /\ clerk \in [Clerk -> ClerkState]
  /\ answered \in [Phone -> SUBSET CustomerId]
  /\ customerChanges \in 0..MaxCustomerChanges

CustomersInit ==
  /\ customer = [c \in CustomerId |-> [status |-> "NONE", phone |-> Nobody]]
  /\ phoneOf = [p \in Phone |-> Nobody]
  /\ caller = [o \in Caller |-> IdleCaller]
  /\ clerk = [k \in Clerk |-> IdleClerk]
  /\ answered = [p \in Phone |-> {}]
  /\ customerChanges = 0

\* findCustomerByPhone: deleted customers are not found.
FoundBy(p) == {c \in CustomerId : customer[c].status = "PRESENT" /\ customer[c].phone = p}

\* Seeded fault: the indexes leave out customers who were deleted.
TakenByPresent(p, except) ==
  \/ FoundBy(p) \ {except} # {}
  \/ phoneOf[p] \notin {Nobody, except} /\ customer[phoneOf[p]].status = "PRESENT"

\* Either unique index refuses the phone for a row of anyone but this customer.
Taken(p, except) ==
  \/ \E c \in CustomerId \ {except} : customer[c].phone = p
  \/ phoneOf[p] \notin {Nobody, except}

Insert(c, p, others) ==
  /\ customer[c].status = "NONE"
  /\ customer' = [customer EXCEPT ![c] = [status |-> "PRESENT", phone |-> p]]
  /\ phoneOf' = [q \in Phone |-> IF q \in {p} \cup others THEN c ELSE phoneOf[q]]

-----------------------------------------------------------------------------
(* findOrCreateCustomerByPhone *)

Call(o, p) ==
  /\ caller[o].pc = "idle"
  /\ caller' = [caller EXCEPT ![o] = [pc |-> "find", phone |-> p]]
  /\ UNCHANGED <<customer, phoneOf, clerk, answered, customerChanges>>

Answer(o, c) ==
  /\ answered' = [answered EXCEPT ![caller[o].phone] = @ \cup {c}]
  /\ caller' = [caller EXCEPT ![o] = IdleCaller]

FindCustomer(o) ==
  LET found == FoundBy(caller[o].phone) IN
    /\ caller[o].pc = "find"
    /\ IF found # {} THEN \E c \in found : Answer(o, c)
       ELSE /\ caller' = [caller EXCEPT ![o].pc = "create"]
            /\ UNCHANGED answered
    /\ UNCHANGED <<customer, phoneOf, clerk, customerChanges>>

\* A phone that is taken aborts the transaction: the look-up in the handler of the error
\* is refused as well, and the order with it.
CreateForCall(o) ==
  LET p == caller[o].phone IN
    /\ caller[o].pc = "create"
    /\ \/ /\ ~Taken(p, Nobody)
          /\ \E c \in CustomerId : Insert(c, p, {}) /\ Answer(o, c)
       \/ /\ Taken(p, Nobody)
          /\ caller' = [caller EXCEPT ![o] = IdleCaller]
          /\ UNCHANGED <<customer, phoneOf, answered>>
    /\ UNCHANGED <<clerk, customerChanges>>

CallerFails(o) ==
  /\ caller[o].pc # "idle"
  /\ caller' = [caller EXCEPT ![o] = IdleCaller]
  /\ UNCHANGED <<customer, phoneOf, clerk, answered, customerChanges>>

-----------------------------------------------------------------------------
(* Requests of staff *)

StaffRequest(k, pc, c, p) ==
  /\ clerk[k].pc = "idle"
  /\ customerChanges < MaxCustomerChanges
  /\ customerChanges' = customerChanges + 1
  /\ clerk' = [clerk EXCEPT ![k] = [pc |-> pc, customer |-> c, phone |-> p]]
  /\ UNCHANGED <<customer, phoneOf, caller, answered>>

Responds(k) == clerk' = [clerk EXCEPT ![k] = IdleClerk]

ReadForCreate(k, p) ==
  /\ FoundBy(p) = {}
  /\ StaffRequest(k, "create", Nobody, p)

CreateCustomer(k) ==
  LET p == clerk[k].phone IN
    /\ clerk[k].pc = "create"
    /\ \/ \E c \in CustomerId, others \in SUBSET Phone :
            /\ \A q \in {p} \cup others : ~Taken(q, Nobody)
            /\ Insert(c, p, others)
       \/ /\ Taken(p, Nobody)
          /\ UNCHANGED <<customer, phoneOf>>
    /\ Responds(k)
    /\ UNCHANGED <<caller, answered, customerChanges>>

\* The phones that lead elsewhere once a customer has another one.
Moved(c, p) == IF p = customer[c].phone THEN {} ELSE {p, customer[c].phone}

\* Nobody for a phone the payload lacks.
ReadForUpdate(k, c, p) ==
  /\ customer[c].status = "PRESENT"
  /\ p # Nobody => FoundBy(p) \subseteq {c}
  /\ StaffRequest(k, "update", c, p)

\* The row changes its phone unless the customer was deleted meanwhile; the list of phones
\* is rewritten if the payload has one, for a deleted customer too.  Neither looks at the
\* other.  A phone that is taken rolls both back.
UpdateCustomer(k) ==
  LET c   == clerk[k].customer
      p   == IF customer[c].status = "PRESENT" THEN clerk[k].phone ELSE Nobody
      own == {q \in Phone : phoneOf[q] = c} IN
    /\ clerk[k].pc = "update"
    /\ p # Nobody => ~\E d \in CustomerId \ {c} : customer[d].phone = p
    /\ \E list \in {own} \cup SUBSET {q \in Phone : phoneOf[q] \in {c, Nobody}} :
         phoneOf' = [q \in Phone |-> IF q \in list THEN c
                                     ELSE IF q \in own THEN Nobody ELSE phoneOf[q]]
    /\ customer' = [customer EXCEPT ![c].phone = IF p = Nobody THEN @ ELSE p]
    /\ answered' = IF p = Nobody THEN answered
                   ELSE [q \in Phone |-> IF q \in Moved(c, p) THEN {} ELSE answered[q]]
    /\ Responds(k)
    /\ UNCHANGED <<caller, customerChanges>>

ReadForDelete(k, c) ==
  /\ customer[c].status = "PRESENT"
  /\ StaffRequest(k, "delete", c, Nobody)

\* Soft: the row keeps its phones.
DeleteCustomer(k) ==
  /\ clerk[k].pc = "delete"
  /\ customer' = [customer EXCEPT ![clerk[k].customer].status = "DELETED"]
  /\ Responds(k)
  /\ UNCHANGED <<phoneOf, caller, answered, customerChanges>>

\* A conflict, a customer who is gone, or a failure.
ClerkFails(k) ==
  /\ clerk[k].pc # "idle"
  /\ Responds(k)
  /\ UNCHANGED <<customer, phoneOf, caller, answered, customerChanges>>

CustomersStep ==
  \/ \E o \in Caller :
       \/ \E p \in Phone : Call(o, p)
       \/ FindCustomer(o) \/ CreateForCall(o) \/ CallerFails(o)
  \/ \E k \in Clerk :
       \/ \E p \in Phone : ReadForCreate(k, p)
       \/ \E c \in CustomerId :
            \/ \E p \in Phone \cup {Nobody} : ReadForUpdate(k, c, p)
            \/ ReadForDelete(k, c)
       \/ CreateCustomer(k) \/ UpdateCustomer(k) \/ DeleteCustomer(k) \/ ClerkFails(k)

-----------------------------------------------------------------------------
(* Properties *)

\* All the orders that name a phone go to one customer, until staff move the phone: two
\* orders at once do not make two customers of one caller, and a customer who was deleted
\* is not replaced by another.
OrdersGoToOneCustomer == \A p \in Phone : Cardinality(answered[p]) <= 1
=============================================================================
