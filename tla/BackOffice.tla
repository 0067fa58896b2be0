------------------------------ MODULE BackOffice ------------------------------
(***************************************************************************)
(* The parts of the server that share no state with each other or with     *)
(* orders: the menu, coupons, customers, their addresses, branches and     *)
(* connections, the guests of a table, and what follows an event.  Since   *)
(* no step of one touches another, how they interleave makes no difference *)
(* to a property of one: a behaviour chooses an area and stays in it.      *)
(***************************************************************************)
EXTENDS Menu, Coupons, Customers, Addresses, Premises, TableGuests, Notices

CONSTANT Areas  \* the areas a run looks at

AreaNames ==
  {"menu", "coupons", "customers", "addresses", "premises", "guests", "notices"}

ASSUME AreasAssumption == Areas \subseteq AreaNames

VARIABLE area  \* the area that this behaviour is about

vars ==
  <<area, menuVars, couponVars, customersVars, addressVars, premisesVars, guestVars, noticeVars>>

TypeOK ==
  /\ MenuTypeOK /\ CouponsTypeOK /\ CustomersTypeOK /\ AddressesTypeOK
  /\ PremisesTypeOK /\ GuestsTypeOK /\ NoticesTypeOK

Init ==
  /\ area \in Areas
  /\ MenuInit /\ CouponsInit /\ CustomersInit /\ AddressesInit
  /\ PremisesInit /\ GuestsInit /\ NoticesInit
  /\ area # "menu" => \A p \in Product : product[p] = NoProduct

MenuArea ==
  /\ area = "menu"
  /\ MenuStep
  /\ UNCHANGED <<area, couponVars, customersVars, addressVars, premisesVars, guestVars, noticeVars>>

CouponsArea ==
  /\ area = "coupons"
  /\ CouponsStep
  /\ UNCHANGED <<area, menuVars, customersVars, addressVars, premisesVars, guestVars, noticeVars>>

CustomersArea ==
  /\ area = "customers"
  /\ CustomersStep
  /\ UNCHANGED <<area, menuVars, couponVars, addressVars, premisesVars, guestVars, noticeVars>>

AddressesArea ==
  /\ area = "addresses"
  /\ AddressesStep
  /\ UNCHANGED <<area, menuVars, couponVars, customersVars, premisesVars, guestVars, noticeVars>>

PremisesArea ==
  /\ area = "premises"
  /\ PremisesStep
  /\ UNCHANGED <<area, menuVars, couponVars, customersVars, addressVars, guestVars, noticeVars>>

GuestsArea ==
  /\ area = "guests"
  /\ GuestsStep
  /\ UNCHANGED <<area, menuVars, couponVars, customersVars, addressVars, premisesVars, noticeVars>>

NoticesArea ==
  /\ area = "notices"
  /\ NoticesStep
  /\ UNCHANGED <<area, menuVars, couponVars, customersVars, addressVars, premisesVars, guestVars>>

Next ==
  \/ MenuArea \/ CouponsArea \/ CustomersArea \/ AddressesArea
  \/ PremisesArea \/ GuestsArea \/ NoticesArea

Spec == Init /\ [][Next]_vars /\ (area = "menu" => MenuFairness)
=============================================================================
