------------------------------- MODULE Addresses -------------------------------
(***************************************************************************)
(* The addresses of one customer and which of them is the default, that a  *)
(* phone order is delivered to (customer.repository.js, phone-order).      *)
(* Each endpoint reads the address, or the list, before the transaction    *)
(* that writes; a transaction is one step.  Addresses are numbered in the  *)
(* order in which they were added.                                         *)
(***************************************************************************)
EXTENDS Integers, FiniteSets, FiniteSetsExt

CONSTANTS
  AddressClerk,  \* concurrent requests
  MaxAddresses   \* bound: addresses ever added

ASSUME AddressesAssumption == MaxAddresses \in Nat

AddressId == 1..MaxAddresses

VARIABLES
  address,      \* customer_addresses
  addressClerk  \* local state of each request

addressVars == <<address, addressClerk>>

AddressRow == [status : {"NONE", "PRESENT", "DELETED"}, isDefault : BOOLEAN]

\* found: the address was the default, or the list was empty, as the request read it.
AddressClerkState ==
  [pc : {"idle", "add", "edit", "remove"}, address : 0..MaxAddresses, found : BOOLEAN]

NoRequest == [pc |-> "idle", address |-> 0, found |-> FALSE]

AddressesTypeOK ==
  /\ address \in [AddressId -> AddressRow]
  /\ addressClerk \in [AddressClerk -> AddressClerkState]

AddressesInit ==
  /\ address = [a \in AddressId |-> [status |-> "NONE", isDefault |-> FALSE]]
  /\ addressClerk = [k \in AddressClerk |-> NoRequest]

Listed == {a \in AddressId : address[a].status = "PRESENT"}

Defaults == {a \in Listed : address[a].isDefault}

\* The rows with one of them made the default, or with none changed.
MakeDefault(rows, a) == [rows EXCEPT ![a].isDefault = TRUE]

\* findFirst, createdAt desc: the newest of these, if there is one.
Promote(rows, candidates) ==
  IF candidates = {} THEN rows ELSE MakeDefault(rows, Max(candidates))

\* isDefault is cleared on every address that is not deleted.
Cleared == [a \in AddressId |-> IF a \in Listed THEN [address[a] EXCEPT !.isDefault = FALSE]
                                ELSE address[a]]

ReadAddress(k, pc, a, found) ==
  /\ addressClerk[k].pc = "idle"
  /\ addressClerk' = [addressClerk EXCEPT ![k] = [pc |-> pc, address |-> a, found |-> found]]
  /\ UNCHANGED address

Ends(k) == addressClerk' = [addressClerk EXCEPT ![k] = NoRequest]

ReadForAdd(k) == ReadAddress(k, "add", 0, Listed = {})

CreateAddress(k) ==
  /\ addressClerk[k].pc = "add"
  /\ \E a \in AddressId, asked \in BOOLEAN :
       /\ address[a].status = "NONE"
       /\ \A b \in AddressId : b < a => address[b].status # "NONE"
       /\ LET isDefault == addressClerk[k].found \/ asked
              rows      == IF isDefault THEN Cleared ELSE address IN
            address' = [rows EXCEPT ![a] = [status |-> "PRESENT", isDefault |-> isDefault]]
  /\ Ends(k)

ReadForEdit(k, a) ==
  /\ a \in Listed
  /\ ReadAddress(k, "edit", a, address[a].isDefault)

SetDefault(k) ==
  LET a == addressClerk[k].address IN
    /\ addressClerk[k].pc = "edit"
    /\ address' = IF a \in Listed THEN MakeDefault(Cleared, a) ELSE Cleared
    /\ Ends(k)

\* Seeded fault: an address that stops being the default has no successor.
NoSuccessor(rows, a) == rows

Successor(rows, a) == Promote(rows, Listed \ {a})

\* The last default only gives way to another address.
ClearDefault(k) ==
  LET a        == addressClerk[k].address
      last     == addressClerk[k].found /\ Cardinality(Defaults) <= 1
      stays    == last /\ Listed \ {a} = {}
      rows     == IF last THEN Successor(address, a) ELSE address IN
    /\ addressClerk[k].pc = "edit"
    /\ address' = IF a \in Listed THEN [rows EXCEPT ![a].isDefault = stays] ELSE rows
    /\ Ends(k)

ReadForRemove(k, a) ==
  /\ a \in Listed
  /\ ReadAddress(k, "remove", a, address[a].isDefault)

SoftDeleteAddress(k) ==
  LET a    == addressClerk[k].address
      gone == IF a \in Listed
              THEN [address EXCEPT ![a] = [status |-> "DELETED", isDefault |-> FALSE]]
              ELSE address IN
    /\ addressClerk[k].pc = "remove"
    /\ address' = IF addressClerk[k].found THEN Promote(gone, Listed \ {a}) ELSE gone
    /\ Ends(k)

AddressClerkFails(k) ==
  /\ addressClerk[k].pc # "idle"
  /\ Ends(k)
  /\ UNCHANGED address

AddressesStep ==
  \E k \in AddressClerk :
    \/ ReadForAdd(k) \/ CreateAddress(k)
    \/ \E a \in AddressId : ReadForEdit(k, a) \/ ReadForRemove(k, a)
    \/ SetDefault(k) \/ ClearDefault(k) \/ SoftDeleteAddress(k) \/ AddressClerkFails(k)

-----------------------------------------------------------------------------
(* Properties *)

\* A customer with addresses has exactly one default, whatever was added, changed and
\* removed before, as long as these requests come one at a time.
OneDefaultAddress == Listed # {} => Cardinality(Defaults) = 1
=============================================================================
