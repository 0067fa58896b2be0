---------------------------- MODULE BackOfficeTypesProofs ----------------------------
(***************************************************************************)
(* The types of every area of the back office, and what is proved along    *)
(* with them: whom notices reach, whom orders go to, the one default       *)
(* address, categories that keep their products, and discounts within what *)
(* the lines are worth.                                                    *)
(***************************************************************************)
EXTENDS BackOfficeProofs, FiniteSetTheorems, WellFoundedInduction

-----------------------------------------------------------------------------
(* Sets of natural numbers *)

\* The least element is there: the base of what is said of maxima and of sums.
LEMMA LeastNatural ==
  ASSUME NEW S, S \subseteq Nat, S # {}
  PROVE  \E m \in S : \A n \in S : m <= n
<1>1. PICK m \in S : \A n \in S : <<n, m>> \notin OpToRel(<, Nat)
  BY NatLessThanWellFounded, WFMin
<1>2. \A n \in S : ~(n < m)
  BY <1>1 DEF OpToRel
<1> QED BY <1>2, SMT

-----------------------------------------------------------------------------
(* Notices *)

\* Who is chosen wanted the event, and whoever has its type enabled now has wanted it; an
\* event that is still to come has no notices.
ChosenWanted ==
  /\ NoticesTypeOK
  /\ OnlyWantedNotices
  /\ \A n \in EventNumber :
       /\ notifying[n].pc = "chosen" => notifying[n].to \subseteq wantedSince[n]
       /\ emitted[n] # NoType =>
            \A e \in Colleague : Wants(e, emitted[n]) => e \in wantedSince[n]
       /\ emitted[n] = NoType =>
            /\ audit[n] = "before" /\ notifying[n].pc = "before"
            /\ \A e \in Colleague : notice[n][e] = "none"

NotificationState == [pc : ListenerState, to : SUBSET Colleague]

LEMMA NoticesStart == NoticesInit => ChosenWanted
<1> SUFFICES ASSUME NoticesInit PROVE ChosenWanted
  OBVIOUS
<1>1. [pc |-> "before", to |-> {}] \in NotificationState
  BY DEF NotificationState, ListenerState
<1>2. notifying \in [EventNumber -> NotificationState]
  BY <1>1 DEF NoticesInit
<1>3. NoticesTypeOK
  BY <1>2 DEF NoticesInit, NoticesTypeOK, NotificationState, ListenerState, NoticeStatus
<1> QED BY <1>3 DEF ChosenWanted, NoticesInit, OnlyWantedNotices

\* A listener that goes on with the same event, whose recipients are those it may notify.
LEMMA ListenerMoves ==
  ASSUME ChosenWanted, NEW n \in EventNumber, NEW row \in NotificationState,
         notifying' = [notifying EXCEPT ![n] = row], emitted[n] # NoType,
         row.pc = "chosen" => row.to \subseteq wantedSince[n],
         UNCHANGED <<emitted, audit, notice, disabled, wantedSince>>
  PROVE  ChosenWanted'
<1>1. /\ notifying' \in [EventNumber -> NotificationState] /\ notifying'[n] = row
      /\ \A k \in EventNumber \ {n} : notifying'[k] = notifying[k]
  BY DEF ChosenWanted, NoticesTypeOK, NotificationState
<1>2. NoticesTypeOK'
  BY <1>1 DEF ChosenWanted, NoticesTypeOK, NotificationState
<1> QED BY <1>1, <1>2 DEF ChosenWanted, OnlyWantedNotices, Wants

\* Notices change for somebody who has one, or who was chosen.
LEMMA NoticesChange ==
  ASSUME ChosenWanted, notice' \in [EventNumber -> [Colleague -> NoticeStatus]],
         UNCHANGED <<emitted, audit, notifying, disabled, wantedSince>>,
         \A n \in EventNumber, e \in Colleague :
           notice'[n][e] # "none" => notice[n][e] # "none"
  PROVE  ChosenWanted'
BY DEF ChosenWanted, NoticesTypeOK, OnlyWantedNotices, Wants

LEMMA NoticesStepInv == ChosenWanted /\ [NoticesStep]_noticeVars => ChosenWanted'
<1> SUFFICES ASSUME ChosenWanted, [NoticesStep]_noticeVars PROVE ChosenWanted'
  OBVIOUS
<1>t. /\ NoticesTypeOK /\ NoType \notin NoticeType
      /\ notifying \in [EventNumber -> NotificationState]
  BY NoticesAssumption DEF ChosenWanted, NoticesTypeOK, NotificationState
<1>1. ASSUME NEW n \in EventNumber, NEW type \in NoticeType,
             NEW audience \in {Colleague} \cup {{e} : e \in Colleague}, Emit(n, type, audience)
      PROVE  ChosenWanted'
  <2> DEFINE row == [pc |-> "start", to |-> audience]
             wanting == {e \in Colleague : Wants(e, type)}
  <2>1. row \in NotificationState /\ row.pc = "start"
    BY DEF NotificationState, ListenerState
  <2>2. /\ emitted[n] = NoType /\ emitted' = [emitted EXCEPT ![n] = type]
        /\ audit' = [audit EXCEPT ![n] = "start"] /\ notifying' = [notifying EXCEPT ![n] = row]
        /\ wantedSince' = [wantedSince EXCEPT ![n] = wanting]
        /\ UNCHANGED <<notice, disabled>>
    BY <1>1 DEF Emit
  <2> HIDE DEF row
  <2>3. /\ notifying' \in [EventNumber -> NotificationState] /\ notifying'[n] = row
        /\ \A k \in EventNumber \ {n} : notifying'[k] = notifying[k]
    BY <1>t, <2>1, <2>2
  <2>4. /\ emitted'[n] = type /\ wantedSince'[n] = wanting
        /\ \A k \in EventNumber \ {n} :
             /\ emitted'[k] = emitted[k] /\ wantedSince'[k] = wantedSince[k]
             /\ audit'[k] = audit[k]
    BY <1>t, <2>2 DEF NoticesTypeOK
  <2>5. NoticesTypeOK'
    BY <1>t, <2>2, <2>3 DEF NoticesTypeOK, NotificationState, ListenerState
  <2>6. OnlyWantedNotices'
    BY <2>2, <2>4 DEF ChosenWanted, OnlyWantedNotices
  <2>7. \A k \in EventNumber \ {n} :
          /\ notifying'[k].pc = "chosen" => notifying'[k].to \subseteq wantedSince'[k]
          /\ emitted'[k] # NoType =>
               \A e \in Colleague : Wants(e, emitted[k])' => e \in wantedSince'[k]
          /\ emitted'[k] = NoType =>
               /\ audit'[k] = "before" /\ notifying'[k].pc = "before"
               /\ \A e \in Colleague : notice'[k][e] = "none"
    BY <2>2, <2>3, <2>4 DEF ChosenWanted, Wants
  <2>8. /\ notifying'[n].pc # "chosen" /\ emitted'[n] # NoType
        /\ \A e \in Colleague : Wants(e, emitted[n])' => e \in wantedSince'[n]
    BY <1>t, <2>1, <2>2, <2>3, <2>4 DEF Wants
  <2> QED BY <2>5, <2>6, <2>7, <2>8 DEF ChosenWanted
<1>2. ASSUME NEW n \in EventNumber, NEW state \in {"done", "failed"}, audit[n] = "start",
             audit' = [audit EXCEPT ![n] = state],
             UNCHANGED <<emitted, notifying, notice, disabled, wantedSince>>
      PROVE  ChosenWanted'
  <2>1. NoticesTypeOK'
    BY <1>t, <1>2 DEF NoticesTypeOK, ListenerState
  <2>2. \A k \in EventNumber : audit[k] = "before" => audit'[k] = "before"
    BY <1>t, <1>2 DEF NoticesTypeOK
  <2> QED BY <1>2, <2>1, <2>2 DEF ChosenWanted, OnlyWantedNotices, Wants
<1>3. ASSUME NEW n \in EventNumber, Record(n) \/ RecordFails(n) PROVE ChosenWanted'
  BY <1>2, <1>3 DEF Record, RecordFails
<1>4. ASSUME NEW n \in EventNumber, ReadPreferences(n) PROVE ChosenWanted'
  <2> DEFINE row == [pc |-> IF Recipients(n) = {} THEN "done" ELSE "chosen", to |-> Recipients(n)]
  <2>1. Recipients(n) \subseteq Colleague
    BY <1>t DEF Recipients, NotificationState
  <2>2. row \in NotificationState /\ row.to = Recipients(n)
    BY <2>1 DEF NotificationState, ListenerState
  <2>3. /\ notifying[n].pc = "start" /\ notifying' = [notifying EXCEPT ![n] = row]
        /\ UNCHANGED <<emitted, audit, notice, disabled, wantedSince>>
    BY <1>4 DEF ReadPreferences
  <2> HIDE DEF row
  <2>4. emitted[n] # NoType
    BY <2>3 DEF ChosenWanted
  <2>5. Recipients(n) \subseteq wantedSince[n]
    BY <2>1, <2>4 DEF ChosenWanted, Recipients
  <2> QED BY <2>2, <2>3, <2>4, <2>5, ListenerMoves
<1>5. ASSUME NEW n \in EventNumber, CreateNotices(n) PROVE ChosenWanted'
  <2> DEFINE row == [notifying[n] EXCEPT !.pc = "done"]
  <2>1. /\ notifying[n].pc = "chosen" /\ notifying' = [notifying EXCEPT ![n] = row]
        /\ notice' = [notice EXCEPT ![n] =
             [e \in Colleague |-> IF e \in notifying[n].to THEN "unread" ELSE @[e]]]
        /\ UNCHANGED <<emitted, audit, disabled, wantedSince>>
    BY <1>5 DEF CreateNotices
  <2>2. row \in NotificationState /\ row.pc = "done"
    BY <1>t DEF NotificationState, ListenerState
  <2> HIDE DEF row
  <2>3. /\ notifying' \in [EventNumber -> NotificationState] /\ notifying'[n] = row
        /\ \A k \in EventNumber \ {n} : notifying'[k] = notifying[k]
    BY <1>t, <2>1, <2>2
  <2>4. notice' \in [EventNumber -> [Colleague -> NoticeStatus]]
    BY <1>t, <2>1 DEF NoticesTypeOK, NoticeStatus
  <2>5. /\ \A e \in Colleague : notice'[n][e] # "none" =>
                                  e \in notifying[n].to \/ notice[n][e] # "none"
        /\ \A k \in EventNumber \ {n} : notice'[k] = notice[k]
    BY <1>t, <2>1 DEF NoticesTypeOK
  <2>6. NoticesTypeOK'
    BY <1>t, <2>1, <2>3, <2>4 DEF NoticesTypeOK, NotificationState
  <2>7. OnlyWantedNotices'
    BY <2>1, <2>5 DEF ChosenWanted, OnlyWantedNotices
  <2>8. emitted[n] # NoType
    BY <2>1 DEF ChosenWanted
  <2> QED BY <2>1, <2>2, <2>3, <2>5, <2>6, <2>7, <2>8 DEF ChosenWanted, Wants
<1>6. ASSUME NEW n \in EventNumber, NotifyingFails(n) PROVE ChosenWanted'
  <2> DEFINE row == [notifying[n] EXCEPT !.pc = "failed"]
  <2>1. /\ notifying[n].pc \in {"start", "chosen"} /\ notifying' = [notifying EXCEPT ![n] = row]
        /\ UNCHANGED <<emitted, audit, notice, disabled, wantedSince>>
    BY <1>6 DEF NotifyingFails
  <2>2. row \in NotificationState /\ row.pc = "failed"
    BY <1>t DEF NotificationState, ListenerState
  <2> HIDE DEF row
  <2>3. emitted[n] # NoType
    BY <2>1 DEF ChosenWanted
  <2> QED BY <2>1, <2>2, <2>3, ListenerMoves
<1>7. ASSUME NEW n \in EventNumber, NEW e \in Colleague, MarkRead(n, e) PROVE ChosenWanted'
  <2>1. /\ notice[n][e] # "none" /\ notice' = [notice EXCEPT ![n][e] = "read"]
        /\ UNCHANGED <<emitted, audit, notifying, disabled, wantedSince>>
    BY <1>7 DEF MarkRead
  <2>2. notice' \in [EventNumber -> [Colleague -> NoticeStatus]]
    BY <1>t, <2>1 DEF NoticesTypeOK, NoticeStatus
  <2>3. \A k \in EventNumber, f \in Colleague : notice'[k][f] # "none" => notice[k][f] # "none"
    BY <1>t, <2>1 DEF NoticesTypeOK
  <2> QED BY <2>1, <2>2, <2>3, NoticesChange
<1>8. ASSUME NEW e \in Colleague, MarkAllRead(e) PROVE ChosenWanted'
  <2>1. /\ notice' = [n \in EventNumber |->
             [notice[n] EXCEPT ![e] = IF notice[n][e] = "unread" THEN "read" ELSE notice[n][e]]]
        /\ UNCHANGED <<emitted, audit, notifying, disabled, wantedSince>>
    BY <1>8 DEF MarkAllRead
  <2>2. notice' \in [EventNumber -> [Colleague -> NoticeStatus]]
    BY <1>t, <2>1 DEF NoticesTypeOK, NoticeStatus
  <2>3. \A k \in EventNumber, f \in Colleague : notice'[k][f] # "none" => notice[k][f] # "none"
    BY <1>t, <2>1 DEF NoticesTypeOK
  <2> QED BY <2>1, <2>2, <2>3, NoticesChange
<1>9. ASSUME NEW e \in Colleague, NEW types \in SUBSET NoticeType, UpdatePreferences(e, types)
      PROVE  ChosenWanted'
  <2>1. /\ disabled' = [disabled EXCEPT ![e] = types]
        /\ wantedSince' = [n \in EventNumber |->
             IF emitted[n] \in NoticeType \ types THEN wantedSince[n] \cup {e} ELSE wantedSince[n]]
        /\ UNCHANGED <<emitted, audit, notifying, notice>>
    BY <1>9 DEF UpdatePreferences
  <2>2. NoticesTypeOK'
    BY <1>t, <2>1 DEF NoticesTypeOK
  <2>3. \A n \in EventNumber : wantedSince[n] \subseteq wantedSince'[n]
    BY <2>1
  <2>4. disabled'[e] = types /\ \A f \in Colleague \ {e} : disabled'[f] = disabled[f]
    BY <1>t, <2>1 DEF NoticesTypeOK
  <2>5. ASSUME NEW n \in EventNumber, emitted[n] # NoType, NEW f \in Colleague,
               Wants(f, emitted[n])'
        PROVE  f \in wantedSince'[n]
    <3>1. emitted[n] \in NoticeType /\ emitted[n] \notin disabled'[f]
      BY <1>t, <2>1, <2>5 DEF NoticesTypeOK, Wants
    <3>2. CASE f = e
      BY <2>1, <2>4, <3>1, <3>2
    <3>3. CASE f # e
      BY <2>3, <2>4, <2>5, <3>1, <3>3 DEF ChosenWanted, Wants
    <3> QED BY <3>2, <3>3
  <2>6. OnlyWantedNotices'
    BY <2>1, <2>3 DEF ChosenWanted, OnlyWantedNotices
  <2> QED BY <2>1, <2>2, <2>3, <2>5, <2>6 DEF ChosenWanted
<1>10. CASE ProcessDies
  <2>1. /\ audit' = [n \in EventNumber |-> IF audit[n] = "start" THEN "failed" ELSE audit[n]]
        /\ notifying' = [n \in EventNumber |->
             IF notifying[n].pc \in {"start", "chosen"} THEN [notifying[n] EXCEPT !.pc = "failed"]
             ELSE notifying[n]]
        /\ UNCHANGED <<emitted, notice, disabled, wantedSince>>
    BY <1>10 DEF ProcessDies
  <2>2. ASSUME NEW r \in NotificationState
        PROVE  [r EXCEPT !.pc = "failed"] \in NotificationState /\ [r EXCEPT !.pc = "failed"].pc = "failed"
    BY DEF NotificationState, ListenerState
  <2>3. ASSUME NEW n \in EventNumber
        PROVE  /\ notifying'[n] \in NotificationState
               /\ \/ notifying'[n] = notifying[n] /\ notifying[n].pc # "chosen"
                  \/ notifying'[n].pc = "failed" /\ notifying[n].pc # "before"
    BY <1>t, <2>1, <2>2
  <2>4. notifying' \in [EventNumber -> NotificationState]
    BY <2>1, <2>3
  <2>5. NoticesTypeOK'
    BY <1>t, <2>1, <2>4 DEF NoticesTypeOK, NotificationState, ListenerState
  <2>6. OnlyWantedNotices'
    BY <2>1 DEF ChosenWanted, OnlyWantedNotices
  <2>7. \A n \in EventNumber : audit[n] = "before" => audit'[n] = "before"
    BY <2>1
  <2> QED BY <2>1, <2>3, <2>5, <2>6, <2>7 DEF ChosenWanted, Wants
<1>11. CASE UNCHANGED noticeVars
  BY <1>11 DEF noticeVars, ChosenWanted, NoticesTypeOK, OnlyWantedNotices, Wants
<1> QED
  BY <1>1, <1>3, <1>4, <1>5, <1>6, <1>7, <1>8, <1>9, <1>10, <1>11 DEF NoticesStep

\* Nobody gets a notice of an event of a type that they had disabled ever since it was
\* emitted, however the listeners and changes of preferences interleave.
THEOREM NoticesAreWanted == Spec => []OnlyWantedNotices
<1>1. ChosenWanted => OnlyWantedNotices
  BY DEF ChosenWanted
<1>2. Init => ChosenWanted
  BY NoticesStart DEF Init
<1>3. ChosenWanted /\ [Next]_vars => ChosenWanted'
  BY NoticesStepInv, AreasAreApart
<1> QED BY <1>1, <1>2, <1>3, PTL DEF Spec

-----------------------------------------------------------------------------
(* Customers *)

\* A phone is the phone of one row at most, deleted or not, and an order that named it went
\* to the customer who still has it.
PhonesLeadToOne ==
  /\ CustomersTypeOK
  /\ \A c \in CustomerId : customer[c].status = "NONE" => customer[c].phone = Nobody
  /\ \A c, d \in CustomerId : customer[c].phone = customer[d].phone =>
       c = d \/ customer[c].phone = Nobody
  /\ \A p \in Phone, c \in CustomerId : c \in answered[p] => customer[c].phone = p
  /\ \A o \in Caller : caller[o].pc # "idle" => caller[o].phone \in Phone
  /\ \A k \in Clerk :
       /\ clerk[k].pc = "create" => clerk[k].phone \in Phone
       /\ clerk[k].pc \in {"update", "delete"} =>
            clerk[k].customer \in CustomerId /\ customer[clerk[k].customer].status # "NONE"

LEMMA CustomersIdle ==
  /\ IdleCaller \in CallerState /\ IdleCaller.pc = "idle"
  /\ IdleClerk \in ClerkState /\ IdleClerk.pc = "idle"
BY DEF IdleCaller, IdleClerk, CallerState, ClerkState

LEMMA CustomersStart == CustomersInit => PhonesLeadToOne
<1> SUFFICES ASSUME CustomersInit PROVE PhonesLeadToOne
  OBVIOUS
<1>1. /\ caller \in [Caller -> CallerState] /\ \A o \in Caller : caller[o].pc = "idle"
      /\ clerk \in [Clerk -> ClerkState] /\ \A k \in Clerk : clerk[k].pc = "idle"
  BY CustomersIdle DEF CustomersInit
<1>2. CustomersTypeOK
  BY <1>1, CustomersAssumption DEF CustomersInit, CustomersTypeOK, CustomerRow
<1> QED BY <1>1, <1>2 DEF CustomersInit, PhonesLeadToOne

\* An order goes on, without a change to the customers.
LEMMA CallerGoes ==
  ASSUME PhonesLeadToOne, NEW o \in Caller, NEW row \in CallerState,
         caller' = [caller EXCEPT ![o] = row], row.pc # "idle" => row.phone \in Phone,
         answered' \in [Phone -> SUBSET CustomerId],
         \A p \in Phone, c \in CustomerId : c \in answered'[p] => customer[c].phone = p,
         UNCHANGED <<customer, phoneOf, clerk, customerChanges>>
  PROVE  PhonesLeadToOne'
<1>1. /\ caller' \in [Caller -> CallerState] /\ caller'[o] = row
      /\ \A q \in Caller \ {o} : caller'[q] = caller[q]
  BY DEF PhonesLeadToOne, CustomersTypeOK
<1>2. CustomersTypeOK'
  BY <1>1 DEF PhonesLeadToOne, CustomersTypeOK
<1> QED BY <1>1, <1>2 DEF PhonesLeadToOne

\* A request of staff goes on, without a change to the customers.
LEMMA ClerkGoes ==
  ASSUME PhonesLeadToOne, NEW k \in Clerk, NEW row \in ClerkState,
         clerk' = [clerk EXCEPT ![k] = row], row.pc = "create" => row.phone \in Phone,
         row.pc \in {"update", "delete"} =>
           row.customer \in CustomerId /\ customer[row.customer].status # "NONE",
         customerChanges' \in 0..MaxCustomerChanges,
         UNCHANGED <<customer, phoneOf, caller, answered>>
  PROVE  PhonesLeadToOne'
<1>1. /\ clerk' \in [Clerk -> ClerkState] /\ clerk'[k] = row
      /\ \A l \in Clerk \ {k} : clerk'[l] = clerk[l]
  BY DEF PhonesLeadToOne, CustomersTypeOK
<1>2. CustomersTypeOK'
  BY <1>1 DEF PhonesLeadToOne, CustomersTypeOK
<1> QED BY <1>1, <1>2 DEF PhonesLeadToOne

\* A row takes another phone, or becomes deleted; who answered to a phone it leaves or takes
\* is forgotten, and nobody else has the phone.
LEMMA CustomerChanges ==
  ASSUME PhonesLeadToOne, NEW c \in CustomerId, NEW row \in CustomerRow, row.status # "NONE",
         customer' = [customer EXCEPT ![c] = row],
         row.phone = Nobody \/ \A d \in CustomerId \ {c} : customer[d].phone # row.phone,
         phoneOf' \in [Phone -> CustomerId \cup {Nobody}],
         answered' \in [Phone -> SUBSET CustomerId],
         \A p \in Phone : /\ answered'[p] \subseteq answered[p] \cup {c}
                          /\ c \in answered'[p] => row.phone = p,
         caller' \in [Caller -> CallerState], clerk' \in [Clerk -> ClerkState],
         \A o \in Caller : caller'[o] = caller[o] \/ caller'[o].pc = "idle",
         \A k \in Clerk : clerk'[k] = clerk[k] \/ clerk'[k].pc = "idle",
         UNCHANGED customerChanges
  PROVE  PhonesLeadToOne'
<1>1. /\ customer' \in [CustomerId -> CustomerRow] /\ customer'[c] = row
      /\ \A d \in CustomerId \ {c} : customer'[d] = customer[d]
  BY DEF PhonesLeadToOne, CustomersTypeOK
<1>2. CustomersTypeOK'
  BY <1>1 DEF PhonesLeadToOne, CustomersTypeOK
<1>3. \A d \in CustomerId : customer'[d].status = "NONE" => customer'[d].phone = Nobody
  BY <1>1 DEF PhonesLeadToOne
<1>4. \A d, b \in CustomerId : customer'[d].phone = customer'[b].phone =>
        d = b \/ customer'[d].phone = Nobody
  BY <1>1 DEF PhonesLeadToOne
<1>5. ASSUME NEW p \in Phone, NEW d \in CustomerId, d \in answered'[p]
      PROVE  customer'[d].phone = p
  BY <1>1, <1>5 DEF PhonesLeadToOne
<1>6. \A o \in Caller : caller'[o].pc # "idle" => caller'[o].phone \in Phone
  BY DEF PhonesLeadToOne
<1>7. ASSUME NEW k \in Clerk
      PROVE  /\ clerk'[k].pc = "create" => clerk'[k].phone \in Phone
             /\ clerk'[k].pc \in {"update", "delete"} =>
                  clerk'[k].customer \in CustomerId /\ customer'[clerk'[k].customer].status # "NONE"
  BY <1>1, <1>7 DEF PhonesLeadToOne
<1> QED BY <1>2, <1>3, <1>4, <1>5, <1>6, <1>7 DEF PhonesLeadToOne

LEMMA CallerSteps ==
  ASSUME PhonesLeadToOne, NEW o \in Caller,
         \/ \E p \in Phone : Call(o, p)
         \/ FindCustomer(o) \/ CreateForCall(o) \/ CallerFails(o)
  PROVE  PhonesLeadToOne'
<1> DEFINE p == caller[o].phone
<1>t. /\ caller[o] \in CallerState /\ (caller[o].pc # "idle" => p \in Phone)
      /\ answered \in [Phone -> SUBSET CustomerId]
      /\ \A q \in Phone, c \in CustomerId : c \in answered[q] => customer[c].phone = q
      /\ Nobody \notin CustomerId /\ Nobody \notin Phone
  BY CustomersAssumption DEF PhonesLeadToOne, CustomersTypeOK
<1>1. ASSUME NEW q \in Phone, Call(o, q) PROVE PhonesLeadToOne'
  <2> DEFINE row == [pc |-> "find", phone |-> q]
  <2>1. row \in CallerState /\ row.phone \in Phone
    BY DEF CallerState
  <2>2. /\ caller' = [caller EXCEPT ![o] = row]
        /\ UNCHANGED <<customer, phoneOf, clerk, answered, customerChanges>>
    BY <1>1 DEF Call
  <2> HIDE DEF row
  <2> QED BY <1>t, <2>1, <2>2, CallerGoes
<1>2. CASE FindCustomer(o)
  <2>1. caller[o].pc = "find" /\ UNCHANGED <<customer, phoneOf, clerk, customerChanges>>
    BY <1>2 DEF FindCustomer
  <2>2. ASSUME NEW c \in FoundBy(p), Answer(o, c) PROVE PhonesLeadToOne'
    <3>1. /\ c \in CustomerId /\ customer[c].phone = p /\ p \in Phone
          /\ answered' = [answered EXCEPT ![p] = @ \cup {c}]
          /\ caller' = [caller EXCEPT ![o] = IdleCaller]
      BY <1>t, <2>1, <2>2 DEF FoundBy, Answer
    <3>2. /\ answered' \in [Phone -> SUBSET CustomerId]
          /\ \A q \in Phone, d \in CustomerId : d \in answered'[q] => customer[d].phone = q
      BY <1>t, <3>1
    <3> QED BY <2>1, <3>1, <3>2, CallerGoes, CustomersIdle
  <2>3. CASE caller' = [caller EXCEPT ![o].pc = "create"] /\ UNCHANGED answered
    <3> DEFINE row == [caller[o] EXCEPT !.pc = "create"]
    <3>1. row \in CallerState /\ row.phone \in Phone
      BY <1>t, <2>1 DEF CallerState
    <3>2. caller' = [caller EXCEPT ![o] = row]
      BY <2>3
    <3> HIDE DEF row
    <3> QED BY <1>t, <2>1, <2>3, <3>1, <3>2, CallerGoes
  <2> QED BY <1>2, <2>2, <2>3 DEF FindCustomer
<1>3. CASE CreateForCall(o)
  <2>1. caller[o].pc = "create" /\ p \in Phone /\ UNCHANGED <<clerk, customerChanges>>
    BY <1>3, <1>t DEF CreateForCall
  <2>2. ASSUME ~Taken(p, Nobody), NEW c \in CustomerId, Insert(c, p, {}), Answer(o, c)
        PROVE  PhonesLeadToOne'
    <3> DEFINE row == [status |-> "PRESENT", phone |-> p]
    <3>1. row \in CustomerRow /\ row.status = "PRESENT" /\ row.phone = p
      BY <2>1 DEF CustomerRow
    <3>2. /\ customer[c].status = "NONE" /\ customer' = [customer EXCEPT ![c] = row]
          /\ phoneOf' = [q \in Phone |-> IF q \in {p} \cup {} THEN c ELSE phoneOf[q]]
          /\ answered' = [answered EXCEPT ![p] = @ \cup {c}]
          /\ caller' = [caller EXCEPT ![o] = IdleCaller]
      BY <2>2 DEF Insert, Answer
    <3> HIDE DEF row
    <3>3. \A d \in CustomerId \ {c} : customer[d].phone # p
      BY <1>t, <2>2 DEF Taken
    <3>4. phoneOf' \in [Phone -> CustomerId \cup {Nobody}]
      BY <3>2 DEF PhonesLeadToOne, CustomersTypeOK
    <3>5. customer[c].phone = Nobody
      BY <3>2 DEF PhonesLeadToOne
    <3>6. /\ answered' \in [Phone -> SUBSET CustomerId]
          /\ \A q \in Phone : /\ answered'[q] \subseteq answered[q] \cup {c}
                              /\ c \in answered'[q] => row.phone = q
      BY <1>t, <2>1, <3>1, <3>2, <3>5
    <3>7. /\ caller' \in [Caller -> CallerState]
          /\ \A q \in Caller : caller'[q] = caller[q] \/ caller'[q].pc = "idle"
      BY <3>2, CustomersIdle DEF PhonesLeadToOne, CustomersTypeOK
    <3>8. clerk \in [Clerk -> ClerkState]
      BY DEF PhonesLeadToOne, CustomersTypeOK
    <3>9. /\ row.status # "NONE" /\ clerk' \in [Clerk -> ClerkState]
          /\ row.phone = Nobody \/ \A d \in CustomerId \ {c} : customer[d].phone # row.phone
          /\ \A l \in Clerk : clerk'[l] = clerk[l] \/ clerk'[l].pc = "idle"
          /\ UNCHANGED customerChanges
      BY <2>1, <3>1, <3>3, <3>8
    <3> HIDE DEF p
    <3> QED BY <3>1, <3>2, <3>4, <3>6, <3>7, <3>9, CustomerChanges
  <2>3. CASE caller' = [caller EXCEPT ![o] = IdleCaller] /\ UNCHANGED <<customer, phoneOf, answered>>
    BY <1>t, <2>1, <2>3, CallerGoes, CustomersIdle
  <2> QED BY <1>3, <2>2, <2>3 DEF CreateForCall
<1>4. CASE CallerFails(o)
  <2>1. /\ caller' = [caller EXCEPT ![o] = IdleCaller]
        /\ UNCHANGED <<customer, phoneOf, clerk, answered, customerChanges>>
    BY <1>4 DEF CallerFails
  <2> QED BY <1>t, <2>1, CallerGoes, CustomersIdle
<1> QED BY <1>1, <1>2, <1>3, <1>4

LEMMA ClerkSteps ==
  ASSUME PhonesLeadToOne, NEW k \in Clerk,
         \/ \E p \in Phone : ReadForCreate(k, p)
         \/ \E c \in CustomerId :
              \/ \E p \in Phone \cup {Nobody} : ReadForUpdate(k, c, p)
              \/ ReadForDelete(k, c)
         \/ CreateCustomer(k) \/ UpdateCustomer(k) \/ DeleteCustomer(k) \/ ClerkFails(k)
  PROVE  PhonesLeadToOne'
<1> DEFINE c == clerk[k].customer
           p == clerk[k].phone
<1>t. /\ clerk[k] \in ClerkState /\ clerk \in [Clerk -> ClerkState]
      /\ caller \in [Caller -> CallerState] /\ customer \in [CustomerId -> CustomerRow]
      /\ phoneOf \in [Phone -> CustomerId \cup {Nobody}]
      /\ answered \in [Phone -> SUBSET CustomerId]
      /\ customerChanges \in 0..MaxCustomerChanges
      /\ \A q \in Phone, d \in CustomerId : d \in answered[q] => customer[d].phone = q
      /\ Nobody \notin CustomerId /\ Nobody \notin Phone /\ MaxCustomerChanges \in Nat
  BY CustomersAssumption DEF PhonesLeadToOne, CustomersTypeOK
<1>0. ASSUME NEW pc \in {"create", "update", "delete"}, NEW d \in CustomerId \cup {Nobody},
             NEW q \in Phone \cup {Nobody}, StaffRequest(k, pc, d, q),
             pc = "create" => q \in Phone,
             pc # "create" => d \in CustomerId /\ customer[d].status # "NONE"
      PROVE  PhonesLeadToOne'
  <2> DEFINE row == [pc |-> pc, customer |-> d, phone |-> q]
  <2>1. row \in ClerkState /\ row.pc = pc /\ row.customer = d /\ row.phone = q
    BY DEF ClerkState
  <2>2. /\ clerk' = [clerk EXCEPT ![k] = row] /\ customerChanges' = customerChanges + 1
        /\ customerChanges < MaxCustomerChanges
        /\ UNCHANGED <<customer, phoneOf, caller, answered>>
    BY <1>0 DEF StaffRequest
  <2>3. customerChanges' \in 0..MaxCustomerChanges
    BY <1>t, <2>2
  <2> HIDE DEF row
  <2> QED BY <1>0, <2>1, <2>2, <2>3, ClerkGoes
<1>1. ASSUME NEW q \in Phone, ReadForCreate(k, q) PROVE PhonesLeadToOne'
  <2>1. StaffRequest(k, "create", Nobody, q)
    BY <1>1 DEF ReadForCreate
  <2> QED BY <1>0, <2>1
<1>2. ASSUME NEW d \in CustomerId, NEW q \in Phone \cup {Nobody}, ReadForUpdate(k, d, q)
      PROVE  PhonesLeadToOne'
  <2>1. StaffRequest(k, "update", d, q) /\ customer[d].status # "NONE"
    BY <1>2 DEF ReadForUpdate
  <2> QED BY <1>0, <2>1
<1>3. ASSUME NEW d \in CustomerId, ReadForDelete(k, d) PROVE PhonesLeadToOne'
  <2>1. StaffRequest(k, "delete", d, Nobody) /\ customer[d].status # "NONE"
    BY <1>3 DEF ReadForDelete
  <2> QED BY <1>0, <2>1
\* Whoever responds is idle after.
<1>4. ASSUME Responds(k)
      PROVE  /\ clerk' = [clerk EXCEPT ![k] = IdleClerk] /\ clerk' \in [Clerk -> ClerkState]
             /\ \A l \in Clerk : clerk'[l] = clerk[l] \/ clerk'[l].pc = "idle"
  <2>1. clerk' = [clerk EXCEPT ![k] = IdleClerk]
    BY <1>4 DEF Responds
  <2> QED BY <1>t, <2>1, CustomersIdle
<1>5. ASSUME Responds(k), UNCHANGED <<customer, phoneOf, caller, answered, customerChanges>>
      PROVE  PhonesLeadToOne'
  BY <1>4, <1>5, <1>t, CustomersIdle, ClerkGoes
<1>6. CASE CreateCustomer(k)
  <2>1. /\ clerk[k].pc = "create" /\ Responds(k) /\ UNCHANGED <<caller, answered, customerChanges>>
        /\ p \in Phone
    BY <1>6 DEF CreateCustomer, PhonesLeadToOne
  <2>2. ASSUME NEW d \in CustomerId, NEW others \in SUBSET Phone,
               \A q \in {p} \cup others : ~Taken(q, Nobody), Insert(d, p, others)
        PROVE  PhonesLeadToOne'
    <3> DEFINE row == [status |-> "PRESENT", phone |-> p]
    <3>1. row \in CustomerRow /\ row.status = "PRESENT" /\ row.phone = p
      BY <2>1 DEF CustomerRow
    <3>2. /\ customer[d].status = "NONE" /\ customer' = [customer EXCEPT ![d] = row]
          /\ phoneOf' = [q \in Phone |-> IF q \in {p} \cup others THEN d ELSE phoneOf[q]]
      BY <2>2 DEF Insert
    <3> HIDE DEF row
    <3>3. \A e \in CustomerId \ {d} : customer[e].phone # p
      BY <1>t, <2>2 DEF Taken
    <3>4. phoneOf' \in [Phone -> CustomerId \cup {Nobody}]
      BY <1>t, <3>2
    <3>5. customer[d].phone = Nobody
      BY <3>2 DEF PhonesLeadToOne
    <3>6. \A q \in Phone : d \notin answered[q]
      BY <1>t, <3>5
    <3> QED BY <1>4, <1>t, <2>1, <3>1, <3>2, <3>3, <3>4, <3>6, CustomerChanges
  <2>3. CASE UNCHANGED <<customer, phoneOf>>
    BY <1>5, <2>1, <2>3
  <2> QED BY <1>6, <2>2, <2>3 DEF CreateCustomer
<1>7. CASE UpdateCustomer(k)
  <2> DEFINE own == {q \in Phone : phoneOf[q] = c}
             w   == IF customer[c].status = "PRESENT" THEN p ELSE Nobody
             new == IF w = Nobody THEN customer[c].phone ELSE w
             row == [customer[c] EXCEPT !.phone = new]
  <2>1. PICK list \in {own} \cup SUBSET {q \in Phone : phoneOf[q] \in {c, Nobody}} :
          phoneOf' = [q \in Phone |-> IF q \in list THEN c
                                      ELSE IF q \in own THEN Nobody ELSE phoneOf[q]]
    BY <1>7 DEF UpdateCustomer
  <2>2. /\ clerk[k].pc = "update" /\ c \in CustomerId /\ customer[c].status # "NONE"
        /\ Responds(k) /\ UNCHANGED <<caller, customerChanges>>
        /\ w # Nobody => \A d \in CustomerId \ {c} : customer[d].phone # p
        /\ customer' = [customer EXCEPT ![c] = row]
        /\ answered' = IF w = Nobody THEN answered
                       ELSE [q \in Phone |-> IF q \in Moved(c, w) THEN {} ELSE answered[q]]
    BY <1>7 DEF UpdateCustomer, PhonesLeadToOne
  <2>3. phoneOf' \in [Phone -> CustomerId \cup {Nobody}]
    BY <1>t, <2>1, <2>2
  <2>4. new \in Phone \cup {Nobody}
    BY <1>t, <2>2 DEF ClerkState, CustomerRow
  <2>5. row \in CustomerRow /\ row.status # "NONE" /\ row.phone = new
    BY <1>t, <2>2, <2>4 DEF CustomerRow
  <2> HIDE DEF row
  <2>6. new = Nobody \/ \A d \in CustomerId \ {c} : customer[d].phone # new
    BY <2>2 DEF PhonesLeadToOne
  <2>7. /\ answered' \in [Phone -> SUBSET CustomerId]
        /\ \A q \in Phone : answered'[q] \subseteq answered[q] \cup {c}
    BY <1>t, <2>2
  <2>8. ASSUME NEW q \in Phone, c \in answered'[q] PROVE new = q
    <3>1. c \in answered[q] /\ (w # Nobody => q \notin Moved(c, w))
      BY <2>2, <2>8
    <3>2. customer[c].phone = q
      BY <1>t, <2>2, <3>1
    <3> QED BY <3>1, <3>2 DEF Moved
  <2>9. /\ c \in CustomerId /\ row \in CustomerRow /\ row.status # "NONE"
        /\ customer' = [customer EXCEPT ![c] = row]
        /\ row.phone = Nobody \/ \A d \in CustomerId \ {c} : customer[d].phone # row.phone
        /\ \A q \in Phone : /\ answered'[q] \subseteq answered[q] \cup {c}
                            /\ c \in answered'[q] => row.phone = q
        /\ clerk' \in [Clerk -> ClerkState]
        /\ \A l \in Clerk : clerk'[l] = clerk[l] \/ clerk'[l].pc = "idle"
        /\ caller' \in [Caller -> CallerState]
        /\ \A o \in Caller : caller'[o] = caller[o] \/ caller'[o].pc = "idle"
        /\ UNCHANGED customerChanges
    BY <1>4, <1>t, <2>2, <2>5, <2>6, <2>7, <2>8
  <2> HIDE DEF c
  <2> QED BY <2>3, <2>7, <2>9, CustomerChanges
<1>8. CASE DeleteCustomer(k)
  <2> DEFINE row == [customer[c] EXCEPT !.status = "DELETED"]
  <2>1. /\ clerk[k].pc = "delete" /\ c \in CustomerId /\ Responds(k)
        /\ customer' = [customer EXCEPT ![c] = row]
        /\ UNCHANGED <<phoneOf, caller, answered, customerChanges>>
    BY <1>8 DEF DeleteCustomer, PhonesLeadToOne
  <2>2. row \in CustomerRow /\ row.status = "DELETED" /\ row.phone = customer[c].phone
    BY <1>t, <2>1 DEF CustomerRow
  <2> HIDE DEF row
  <2>3. customer[c].phone = Nobody \/ \A d \in CustomerId \ {c} : customer[d].phone # customer[c].phone
    BY <2>1 DEF PhonesLeadToOne
  <2>4. /\ c \in CustomerId /\ row \in CustomerRow /\ row.status # "NONE"
        /\ customer' = [customer EXCEPT ![c] = row]
        /\ row.phone = Nobody \/ \A d \in CustomerId \ {c} : customer[d].phone # row.phone
        /\ \A q \in Phone : /\ answered'[q] \subseteq answered[q] \cup {c}
                            /\ c \in answered'[q] => row.phone = q
        /\ clerk' \in [Clerk -> ClerkState]
        /\ \A l \in Clerk : clerk'[l] = clerk[l] \/ clerk'[l].pc = "idle"
        /\ caller' \in [Caller -> CallerState]
        /\ \A o \in Caller : caller'[o] = caller[o] \/ caller'[o].pc = "idle"
        /\ phoneOf' \in [Phone -> CustomerId \cup {Nobody}]
        /\ answered' \in [Phone -> SUBSET CustomerId]
        /\ UNCHANGED customerChanges
    BY <1>4, <1>t, <2>1, <2>2, <2>3
  <2> HIDE DEF c
  <2> QED BY <2>4, CustomerChanges
<1>9. CASE ClerkFails(k)
  BY <1>5, <1>9 DEF ClerkFails
<1> QED BY <1>1, <1>2, <1>3, <1>6, <1>7, <1>8, <1>9

LEMMA CustomersStepInv == PhonesLeadToOne /\ [CustomersStep]_customersVars => PhonesLeadToOne'
<1> SUFFICES ASSUME PhonesLeadToOne, [CustomersStep]_customersVars PROVE PhonesLeadToOne'
  OBVIOUS
<1>1. CASE CustomersStep
  BY <1>1, CallerSteps, ClerkSteps DEF CustomersStep
<1>2. CASE UNCHANGED customersVars
  BY <1>2 DEF customersVars, PhonesLeadToOne, CustomersTypeOK
<1> QED BY <1>1, <1>2

LEMMA OneCustomerEach == PhonesLeadToOne => OrdersGoToOneCustomer
<1> SUFFICES ASSUME PhonesLeadToOne, NEW p \in Phone PROVE Cardinality(answered[p]) <= 1
  BY DEF OrdersGoToOneCustomer
<1>1. \A c, d \in answered[p] : c = d
  <2>1. Nobody # p
    BY CustomersAssumption
  <2>2. answered[p] \subseteq CustomerId
    BY DEF PhonesLeadToOne, CustomersTypeOK
  <2> QED BY <2>1, <2>2 DEF PhonesLeadToOne
<1>2. CASE answered[p] = {}
  BY <1>2, FS_EmptySet
<1>3. ASSUME NEW c \in answered[p] PROVE Cardinality(answered[p]) <= 1
  <2>1. answered[p] = {c}
    BY <1>1, <1>3
  <2>2. Cardinality({c}) = 1
    BY FS_Singleton
  <2>3. Cardinality(answered[p]) = 1
    BY <2>1, <2>2, Zenon
  <2> QED BY <2>3
<1> QED BY <1>2, <1>3

\* All orders that name a phone go to one customer, for any number of requests at once and
\* whatever staff create, change and delete meanwhile.
THEOREM OneCustomerPerPhone == Spec => []OrdersGoToOneCustomer
<1>1. PhonesLeadToOne => OrdersGoToOneCustomer
  BY OneCustomerEach
<1>2. Init => PhonesLeadToOne
  BY CustomersStart DEF Init
<1>3. PhonesLeadToOne /\ [Next]_vars => PhonesLeadToOne'
  BY CustomersStepInv, AreasAreApart
<1> QED BY <1>1, <1>2, <1>3, PTL DEF Spec

-----------------------------------------------------------------------------
(* Addresses *)

\* Requests about the addresses of a customer come one at a time.
OneAddressClerk == \A k, l \in AddressClerk : k = l

\* What the one request found is still so, and one address is the default.
FoundStands ==
  /\ AddressesTypeOK
  /\ Listed # {} => \E a \in AddressId : Defaults = {a}
  /\ \A k \in AddressClerk :
       /\ addressClerk[k].pc = "add" => addressClerk[k].found = (Listed = {})
       /\ addressClerk[k].pc \in {"edit", "remove"} =>
            /\ addressClerk[k].address \in Listed
            /\ addressClerk[k].found = address[addressClerk[k].address].isDefault

\* The newest of some addresses is one of them.
LEMMA NewestIsOne ==
  ASSUME NEW S, S \subseteq AddressId, S # {}
  PROVE  Max(S) \in S
<1> DEFINE before == {n \in Nat : MaxAddresses - n \in S}
<1>1. MaxAddresses \in Nat /\ S \subseteq Nat /\ \A a \in S : a <= MaxAddresses
  BY AddressesAssumption DEF AddressId
<1>2. PICK a \in S : TRUE
  OBVIOUS
<1>3. MaxAddresses - a \in Nat /\ MaxAddresses - (MaxAddresses - a) = a
  BY <1>1
<1>4. before \subseteq Nat /\ before # {}
  BY <1>2, <1>3
<1>5. PICK m \in before : \A n \in before : m <= n
  <2> HIDE DEF before
  <2> QED BY <1>4, LeastNatural
<1>6. ASSUME NEW b \in S PROVE MaxAddresses - m >= b
  <2>1. MaxAddresses - b \in Nat /\ MaxAddresses - (MaxAddresses - b) = b
    BY <1>1
  <2>2. m <= MaxAddresses - b /\ m \in Nat /\ b \in Nat
    BY <1>1, <1>5, <2>1
  <2> QED BY <1>1, <2>2
<1>7. MaxAddresses - m \in S
  BY <1>5
<1> QED BY <1>6, <1>7 DEF Max

LEMMA AddressesIdle ==
  NoRequest \in AddressClerkState /\ NoRequest.pc = "idle"
BY AddressesAssumption DEF NoRequest, AddressClerkState

LEMMA AddressesStart == AddressesInit => FoundStands
<1> SUFFICES ASSUME AddressesInit PROVE FoundStands
  OBVIOUS
<1>1. addressClerk \in [AddressClerk -> AddressClerkState] /\ \A k \in AddressClerk : addressClerk[k].pc = "idle"
  BY AddressesIdle DEF AddressesInit
<1>2. AddressesTypeOK /\ Listed = {}
  BY <1>1 DEF AddressesInit, AddressesTypeOK, AddressRow, Listed
<1> QED BY <1>1, <1>2 DEF FoundStands

LEMMA AddressTyped == AddressesTypeOK /\ [AddressesStep]_addressVars => AddressesTypeOK'
<1> SUFFICES ASSUME AddressesTypeOK, [AddressesStep]_addressVars PROVE AddressesTypeOK'
  OBVIOUS
<1>t. /\ address \in [AddressId -> AddressRow] /\ addressClerk \in [AddressClerk -> AddressClerkState]
      /\ MaxAddresses \in Nat
  BY AddressesAssumption DEF AddressesTypeOK
<1>r. /\ \A row \in AddressRow : \A b \in BOOLEAN : [row EXCEPT !.isDefault = b] \in AddressRow
      /\ \A b \in BOOLEAN : [status |-> "PRESENT", isDefault |-> b] \in AddressRow
      /\ [status |-> "DELETED", isDefault |-> FALSE] \in AddressRow
  BY DEF AddressRow
<1>m. ASSUME NEW rows \in [AddressId -> AddressRow], NEW S, S \subseteq AddressId
      PROVE  Promote(rows, S) \in [AddressId -> AddressRow]
  <2>1. CASE S = {}
    BY <1>m, <2>1 DEF Promote
  <2>2. CASE S # {}
    <3>1. Max(S) \in AddressId
      BY <1>m, <2>2, NewestIsOne
    <3> HIDE DEF AddressRow
    <3>2. MakeDefault(rows, Max(S)) \in [AddressId -> AddressRow]
      BY <1>m, <1>r, <3>1 DEF MakeDefault
    <3> QED BY <2>2, <3>2 DEF Promote
  <2> QED BY <2>1, <2>2
<1>c. Cleared \in [AddressId -> AddressRow]
  BY <1>r, <1>t DEF Cleared
<1>l. Listed \subseteq AddressId
  BY DEF Listed
<1>e. ASSUME NEW k \in AddressClerk, Ends(k) PROVE addressClerk' \in [AddressClerk -> AddressClerkState]
  BY <1>e, <1>t, AddressesIdle DEF Ends
<1>1. ASSUME NEW k \in AddressClerk, NEW pc \in {"add", "edit", "remove"}, NEW a \in 0..MaxAddresses,
             NEW found \in BOOLEAN, ReadAddress(k, pc, a, found)
      PROVE  AddressesTypeOK'
  <2> DEFINE row == [pc |-> pc, address |-> a, found |-> found]
  <2>1. row \in AddressClerkState
    BY DEF AddressClerkState
  <2>2. addressClerk' = [addressClerk EXCEPT ![k] = row] /\ UNCHANGED address
    BY <1>1 DEF ReadAddress
  <2> HIDE DEF row
  <2> QED BY <1>t, <2>1, <2>2 DEF AddressesTypeOK
<1>2. ASSUME NEW k \in AddressClerk, ReadForAdd(k) PROVE AddressesTypeOK'
  <2>1. 0 \in 0..MaxAddresses /\ (Listed = {}) \in BOOLEAN
    BY <1>t
  <2> QED BY <1>1, <1>2, <2>1 DEF ReadForAdd
<1>3. ASSUME NEW k \in AddressClerk, NEW a \in AddressId, ReadForEdit(k, a) \/ ReadForRemove(k, a)
      PROVE  AddressesTypeOK'
  <2>1. a \in 0..MaxAddresses /\ address[a].isDefault \in BOOLEAN
    BY <1>t DEF AddressId, AddressRow
  <2> QED BY <1>1, <1>3, <2>1 DEF ReadForEdit, ReadForRemove
<1>4. ASSUME NEW k \in AddressClerk, CreateAddress(k) PROVE AddressesTypeOK'
  <2>1. PICK a \in AddressId, asked \in BOOLEAN :
          LET isDefault == addressClerk[k].found \/ asked
              rows      == IF isDefault THEN Cleared ELSE address IN
            address' = [rows EXCEPT ![a] = [status |-> "PRESENT", isDefault |-> isDefault]]
    BY <1>4 DEF CreateAddress
  <2> QED BY <1>4, <1>c, <1>e, <1>r, <1>t, <2>1 DEF CreateAddress, AddressesTypeOK
<1>5. ASSUME NEW k \in AddressClerk, SetDefault(k) PROVE AddressesTypeOK'
  <2>1. address' \in [AddressId -> AddressRow]
    BY <1>5, <1>c, <1>l, <1>r DEF SetDefault, MakeDefault
  <2> QED BY <1>5, <1>e, <2>1 DEF SetDefault, AddressesTypeOK
<1>6. ASSUME NEW k \in AddressClerk, ClearDefault(k) PROVE AddressesTypeOK'
  <2> DEFINE a    == addressClerk[k].address
             last == addressClerk[k].found /\ Cardinality(Defaults) <= 1
             stays == last /\ Listed \ {a} = {}
             rows == IF last THEN Successor(address, a) ELSE address
  <2>1. rows \in [AddressId -> AddressRow] /\ stays \in BOOLEAN
    BY <1>l, <1>m, <1>t DEF Successor
  <2>2. address' = IF a \in Listed THEN [rows EXCEPT ![a].isDefault = stays] ELSE rows
    BY <1>6 DEF ClearDefault
  <2> HIDE DEF rows, stays, last
  <2>3. address' \in [AddressId -> AddressRow]
    BY <1>l, <1>r, <2>1, <2>2
  <2> QED BY <1>6, <1>e, <2>3 DEF ClearDefault, AddressesTypeOK
<1>7. ASSUME NEW k \in AddressClerk, SoftDeleteAddress(k) PROVE AddressesTypeOK'
  <2> DEFINE a    == addressClerk[k].address
             gone == IF a \in Listed
                     THEN [address EXCEPT ![a] = [status |-> "DELETED", isDefault |-> FALSE]]
                     ELSE address
  <2>1. gone \in [AddressId -> AddressRow]
    BY <1>l, <1>r, <1>t
  <2>2. address' = IF addressClerk[k].found THEN Promote(gone, Listed \ {a}) ELSE gone
    BY <1>7 DEF SoftDeleteAddress
  <2> HIDE DEF gone
  <2>3. address' \in [AddressId -> AddressRow]
    BY <1>l, <1>m, <2>1, <2>2
  <2> QED BY <1>7, <1>e, <2>3 DEF SoftDeleteAddress, AddressesTypeOK
<1>8. ASSUME NEW k \in AddressClerk, AddressClerkFails(k) PROVE AddressesTypeOK'
  BY <1>8, <1>e, <1>t DEF AddressClerkFails, AddressesTypeOK
<1>9. CASE UNCHANGED addressVars
  BY <1>9 DEF addressVars, AddressesTypeOK
<1> QED BY <1>2, <1>3, <1>4, <1>5, <1>6, <1>7, <1>8, <1>9 DEF AddressesStep

\* The one request has written: nobody is in the middle of another.
LEMMA AddressesWritten ==
  ASSUME OneAddressClerk, FoundStands, AddressesTypeOK', NEW k \in AddressClerk, Ends(k),
         NEW a \in AddressId, Listed' = {} \/ Defaults' = {a}
  PROVE  FoundStands'
<1>1. addressClerk' = [addressClerk EXCEPT ![k] = NoRequest]
  BY DEF Ends
<1>2. \A l \in AddressClerk : addressClerk'[l].pc = "idle"
  BY <1>1, AddressesIdle DEF OneAddressClerk, FoundStands, AddressesTypeOK
<1> QED BY <1>2 DEF FoundStands

LEMMA AddressStepInv ==
  ASSUME OneAddressClerk PROVE FoundStands /\ [AddressesStep]_addressVars => FoundStands'
<1> SUFFICES ASSUME FoundStands, [AddressesStep]_addressVars PROVE FoundStands'
  OBVIOUS
<1>t. /\ AddressesTypeOK /\ AddressesTypeOK'
      /\ address \in [AddressId -> AddressRow] /\ addressClerk \in [AddressClerk -> AddressClerkState]
      /\ address' \in [AddressId -> AddressRow]
  BY AddressTyped DEF FoundStands, AddressesTypeOK
<1>l. Listed \subseteq AddressId /\ Defaults \subseteq Listed
  BY DEF Listed, Defaults
\* A request begins.
<1>1. ASSUME NEW k \in AddressClerk, NEW pc \in {"add", "edit", "remove"}, NEW a, NEW found,
             ReadAddress(k, pc, a, found),
             pc = "add" => found = (Listed = {}),
             pc # "add" => a \in Listed /\ found = address[a].isDefault
      PROVE  FoundStands'
  <2> DEFINE row == [pc |-> pc, address |-> a, found |-> found]
  <2>1. row.pc = pc /\ row.address = a /\ row.found = found
    OBVIOUS
  <2>2. addressClerk' = [addressClerk EXCEPT ![k] = row] /\ UNCHANGED address
    BY <1>1 DEF ReadAddress
  <2> HIDE DEF row
  <2>3. addressClerk'[k] = row /\ \A l \in AddressClerk : l = k
    BY <1>t, <2>2 DEF OneAddressClerk
  <2>4. Listed' = Listed /\ Defaults' = Defaults
    BY <2>2 DEF Listed, Defaults
  <2> QED BY <1>1, <1>t, <2>1, <2>2, <2>3, <2>4 DEF FoundStands
<1>2. ASSUME NEW k \in AddressClerk, ReadForAdd(k) PROVE FoundStands'
  BY <1>1, <1>2 DEF ReadForAdd
<1>3. ASSUME NEW k \in AddressClerk, NEW a \in AddressId, ReadForEdit(k, a) \/ ReadForRemove(k, a)
      PROVE  FoundStands'
  BY <1>1, <1>3 DEF ReadForEdit, ReadForRemove
<1>4. ASSUME NEW k \in AddressClerk, CreateAddress(k) PROVE FoundStands'
  <2>0. addressClerk[k].pc = "add" /\ addressClerk[k].found = (Listed = {}) /\ Ends(k)
    BY <1>4 DEF CreateAddress, FoundStands
  <2>1. PICK a \in AddressId, asked \in BOOLEAN :
          /\ address[a].status = "NONE"
          /\ LET isDefault == addressClerk[k].found \/ asked
                 rows      == IF isDefault THEN Cleared ELSE address IN
               address' = [rows EXCEPT ![a] = [status |-> "PRESENT", isDefault |-> isDefault]]
    BY <1>4 DEF CreateAddress
  <2> DEFINE isDefault == addressClerk[k].found \/ asked
             row == [status |-> "PRESENT", isDefault |-> isDefault]
  <2>2. row.status = "PRESENT" /\ row.isDefault = isDefault
    OBVIOUS
  <2> HIDE DEF row
  <2>3. a \notin Listed
    BY <2>1 DEF Listed
  <2>4. CASE isDefault
    <3>1. address' = [Cleared EXCEPT ![a] = row]
      BY <2>1, <2>4 DEF row
    <3>2. address'[a] = row /\ \A b \in AddressId \ {a} : address'[b] = Cleared[b]
      BY <3>1 DEF Cleared
    <3>3. \A b \in AddressId : /\ Cleared[b].status = address[b].status
                               /\ b \in Listed => ~Cleared[b].isDefault
      BY <1>t DEF Cleared, AddressRow
    <3>4. \A b \in AddressId \ {a} : ~(address'[b].status = "PRESENT" /\ address'[b].isDefault)
      BY <3>2, <3>3 DEF Listed
    <3>5. address'[a].status = "PRESENT" /\ address'[a].isDefault
      BY <2>2, <2>4, <3>2
    <3>6. Defaults' = {a}
      BY <3>4, <3>5 DEF Listed, Defaults
    <3> QED BY <1>t, <2>0, <3>6, AddressesWritten
  <2>5. CASE ~isDefault
    <3>1. address' = [address EXCEPT ![a] = row]
      BY <2>1, <2>5 DEF row
    <3>2. address'[a] = row /\ \A b \in AddressId \ {a} : address'[b] = address[b]
      BY <1>t, <3>1
    <3>3. Defaults' = Defaults /\ Listed # {}
      BY <2>0, <2>2, <2>3, <2>5, <3>2 DEF Listed, Defaults
    <3>4. PICK d \in AddressId : Defaults = {d}
      BY <3>3 DEF FoundStands
    <3> QED BY <1>t, <2>0, <3>3, <3>4, AddressesWritten
  <2> QED BY <2>4, <2>5
<1>5. ASSUME NEW k \in AddressClerk, addressClerk[k].pc \in {"edit", "remove"}
      PROVE  /\ addressClerk[k].address \in Listed
             /\ addressClerk[k].found = address[addressClerk[k].address].isDefault
             /\ \E d \in Listed : Defaults = {d}
  BY <1>5, <1>l DEF FoundStands
<1>6. ASSUME NEW k \in AddressClerk, SetDefault(k) PROVE FoundStands'
  <2> DEFINE a == addressClerk[k].address
  <2>1. a \in Listed /\ Ends(k) /\ address' = [Cleared EXCEPT ![a].isDefault = TRUE]
    BY <1>5, <1>6 DEF SetDefault, MakeDefault
  <2>2. /\ address'[a] = [Cleared[a] EXCEPT !.isDefault = TRUE]
        /\ \A b \in AddressId \ {a} : address'[b] = Cleared[b]
    BY <1>l, <2>1 DEF Cleared
  <2>3. \A b \in AddressId : /\ Cleared[b].status = address[b].status
                             /\ b \in Listed => ~Cleared[b].isDefault
                             /\ Cleared[b] \in AddressRow
    BY <1>t DEF Cleared, AddressRow
  <2>4. a \in AddressId /\ address[a].status = "PRESENT"
    BY <2>1 DEF Listed
  <2>5. address'[a].status = "PRESENT" /\ address'[a].isDefault
    BY <2>2, <2>3, <2>4 DEF AddressRow
  <2>6. \A b \in AddressId \ {a} : ~(address'[b].status = "PRESENT" /\ address'[b].isDefault)
    BY <2>2, <2>3 DEF Listed
  <2>7. Defaults' = {a}
    BY <2>4, <2>5, <2>6 DEF Listed, Defaults
  <2> QED BY <1>t, <2>1, <2>4, <2>7, AddressesWritten
<1>7. ASSUME NEW k \in AddressClerk, ClearDefault(k) PROVE FoundStands'
  <2> DEFINE a    == addressClerk[k].address
             last == addressClerk[k].found /\ Cardinality(Defaults) <= 1
             stays == last /\ Listed \ {a} = {}
             rows == IF last THEN Successor(address, a) ELSE address
  <2>1. /\ a \in Listed /\ addressClerk[k].found = address[a].isDefault /\ Ends(k)
        /\ address' = [rows EXCEPT ![a].isDefault = stays]
    BY <1>5, <1>7 DEF ClearDefault
  <2>2. PICK d \in Listed : Defaults = {d}
    BY <1>5, <1>7 DEF ClearDefault
  <2>3. Cardinality(Defaults) <= 1
    <3>1. Cardinality({d}) = 1
      BY FS_Singleton
    <3>2. Cardinality(Defaults) = 1
      BY <2>2, <3>1, Zenon
    <3> QED BY <3>2
  <2>a. a \in AddressId /\ address[a].status = "PRESENT" /\ address[a] \in AddressRow
    BY <1>t, <2>1 DEF Listed
  <2>4. CASE ~addressClerk[k].found
    <3>1. address' = [address EXCEPT ![a].isDefault = FALSE]
      BY <2>1, <2>4
    <3>2. \A b \in AddressId \ {a} : address'[b] = address[b]
      BY <1>t, <2>a, <3>1
    <3>3. address'[a].status = "PRESENT" /\ ~address'[a].isDefault
      BY <1>t, <2>a, <3>1 DEF AddressRow
    <3>4. Defaults' = Defaults
      BY <2>1, <2>4, <2>a, <3>2, <3>3 DEF Listed, Defaults
    <3> QED BY <1>l, <1>t, <2>1, <2>2, <3>4, AddressesWritten
  <2>5. CASE addressClerk[k].found /\ Listed \ {a} = {}
    <3>1. rows = address /\ stays
      BY <2>3, <2>5 DEF Successor, Promote
    <3>2. address' = [address EXCEPT ![a].isDefault = TRUE]
      BY <2>1, <3>1
    <3>3. \A b \in AddressId \ {a} : address'[b] = address[b]
      BY <1>t, <2>a, <3>2
    <3>4. address'[a].status = "PRESENT" /\ address'[a].isDefault
      BY <1>t, <2>a, <3>2 DEF AddressRow
    <3>5. Defaults' = {a}
      BY <2>5, <2>a, <3>3, <3>4 DEF Listed, Defaults
    <3> QED BY <1>t, <2>1, <2>a, <3>5, AddressesWritten
  <2>6. CASE addressClerk[k].found /\ Listed \ {a} # {}
    <3> DEFINE b == Max(Listed \ {a})
    <3>1. b \in Listed \ {a}
      BY <1>l, <2>6, NewestIsOne
    <3>2. rows = [address EXCEPT ![b].isDefault = TRUE] /\ ~stays
      BY <2>3, <2>6 DEF Successor, Promote, MakeDefault
    <3> HIDE DEF b
    <3>3. address' = [rows EXCEPT ![a].isDefault = FALSE]
      BY <2>1, <3>2
    <3>b. b \in AddressId /\ address[b].status = "PRESENT" /\ address[b] \in AddressRow /\ b # a
      BY <1>t, <3>1 DEF Listed
    <3>4. /\ rows[b] = [address[b] EXCEPT !.isDefault = TRUE] /\ rows[a] = address[a]
          /\ \A e \in AddressId \ {a, b} : rows[e] = address[e]
          /\ DOMAIN rows = AddressId
      BY <1>t, <2>a, <3>2, <3>b
    <3>5. /\ address'[a] = [rows[a] EXCEPT !.isDefault = FALSE]
          /\ \A e \in AddressId \ {a} : address'[e] = rows[e]
      BY <2>a, <3>2, <3>3, <3>4
    <3>6. address'[b].status = "PRESENT" /\ address'[b].isDefault /\ ~address'[a].isDefault
      BY <2>a, <3>4, <3>5, <3>b DEF AddressRow
    <3>7. Defaults = {a}
      BY <2>1, <2>2, <2>6 DEF Defaults
    <3>8. \A e \in AddressId \ {a, b} : ~(address'[e].status = "PRESENT" /\ address'[e].isDefault)
      BY <3>4, <3>5, <3>7 DEF Defaults, Listed
    <3>9. Defaults' = {b}
      BY <3>6, <3>8, <3>b DEF Defaults, Listed
    <3> QED BY <1>t, <2>1, <3>9, <3>b, AddressesWritten
  <2> QED BY <2>4, <2>5, <2>6, <1>t DEF AddressClerkState
<1>8. ASSUME NEW k \in AddressClerk, SoftDeleteAddress(k) PROVE FoundStands'
  <2> DEFINE a    == addressClerk[k].address
             row  == [status |-> "DELETED", isDefault |-> FALSE]
             gone == [address EXCEPT ![a] = row]
  <2>1. /\ a \in Listed /\ addressClerk[k].found = address[a].isDefault /\ Ends(k)
        /\ address' = IF addressClerk[k].found THEN Promote(gone, Listed \ {a}) ELSE gone
    BY <1>5, <1>8 DEF SoftDeleteAddress
  <2>2. PICK d \in Listed : Defaults = {d}
    BY <1>5, <1>8 DEF SoftDeleteAddress
  <2>a. a \in AddressId /\ row.status = "DELETED"
    BY <2>1, <1>l
  <2> HIDE DEF row
  <2>3. gone[a] = row /\ \A b \in AddressId \ {a} : gone[b] = address[b]
    BY <1>t, <2>a
  <2>d. DOMAIN gone = AddressId
    BY <1>t
  <2> HIDE DEF gone
  <2>4. CASE ~addressClerk[k].found
    <3>1. address' = gone
      BY <2>1, <2>4
    <3>2. a \notin Defaults
      BY <2>1, <2>4 DEF Defaults
    <3>3. Defaults' = Defaults
      BY <2>3, <2>a, <3>1, <3>2 DEF Defaults, Listed
    <3> QED BY <1>l, <1>t, <2>1, <2>2, <3>3, AddressesWritten
  <2>5. CASE addressClerk[k].found /\ Listed \ {a} = {}
    <3>1. address' = gone
      BY <2>1, <2>5 DEF Promote
    <3>2. Listed' = {}
      BY <2>3, <2>5, <2>a, <3>1 DEF Listed
    <3> QED BY <1>t, <2>1, <2>a, <3>2, AddressesWritten
  <2>6. CASE addressClerk[k].found /\ Listed \ {a} # {}
    <3> DEFINE b == Max(Listed \ {a})
    <3>1. b \in Listed \ {a}
      BY <1>l, <2>6, NewestIsOne
    <3>2. address' = [gone EXCEPT ![b].isDefault = TRUE]
      BY <2>1, <2>6 DEF Promote, MakeDefault
    <3> HIDE DEF b
    <3>b. b \in AddressId /\ address[b].status = "PRESENT" /\ address[b] \in AddressRow /\ b # a
      BY <1>t, <3>1 DEF Listed
    <3>3. /\ address'[b] = [address[b] EXCEPT !.isDefault = TRUE]
          /\ \A e \in AddressId \ {b} : address'[e] = gone[e]
      BY <2>3, <2>d, <3>2, <3>b
    <3>4. address'[b].status = "PRESENT" /\ address'[b].isDefault
      BY <3>3, <3>b DEF AddressRow
    <3>5. Defaults = {a}
      BY <2>1, <2>2, <2>6 DEF Defaults
    <3>6. \A e \in AddressId \ {b} : ~(address'[e].status = "PRESENT" /\ address'[e].isDefault)
      BY <2>3, <2>a, <3>3, <3>5 DEF Defaults, Listed
    <3>7. Defaults' = {b}
      BY <3>4, <3>6, <3>b DEF Defaults, Listed
    <3> QED BY <1>t, <2>1, <3>7, <3>b, AddressesWritten
  <2> QED BY <2>4, <2>5, <2>6
<1>9. ASSUME NEW k \in AddressClerk, AddressClerkFails(k) PROVE FoundStands'
  <2>1. Ends(k) /\ UNCHANGED address
    BY <1>9 DEF AddressClerkFails
  <2>2. Listed' = Listed /\ Defaults' = Defaults
    BY <2>1 DEF Listed, Defaults
  <2>3. addressClerk' = [addressClerk EXCEPT ![k] = NoRequest]
    BY <2>1 DEF Ends
  <2>4. \A l \in AddressClerk : addressClerk'[l] = addressClerk[l] \/ addressClerk'[l].pc = "idle"
    BY <1>t, <2>3, AddressesIdle
  <2> QED BY <1>t, <2>1, <2>2, <2>4 DEF FoundStands
<1>10. CASE UNCHANGED addressVars
  BY <1>10, <1>t DEF addressVars, FoundStands, Listed, Defaults
<1> QED BY <1>2, <1>3, <1>4, <1>6, <1>7, <1>8, <1>9, <1>10 DEF AddressesStep

LEMMA OneIsDefault == FoundStands => OneDefaultAddress
<1> SUFFICES ASSUME FoundStands, Listed # {} PROVE Cardinality(Defaults) = 1
  BY DEF OneDefaultAddress
<1>1. PICK a \in AddressId : Defaults = {a}
  BY DEF FoundStands
<1>2. Cardinality({a}) = 1
  BY FS_Singleton
<1> QED BY <1>1, <1>2, Zenon

\* While requests about a customer's addresses come one at a time, one of the addresses is
\* the default as long as there are any.
THEOREM OneAddressIsDefault ==
  ASSUME OneAddressClerk PROVE Spec => []OneDefaultAddress
<1>1. FoundStands => OneDefaultAddress
  BY OneIsDefault
<1>2. Init => FoundStands
  BY AddressesStart DEF Init
<1>3. FoundStands /\ [Next]_vars => FoundStands'
  BY AddressStepInv, AreasAreApart
<1> QED BY <1>1, <1>2, <1>3, PTL DEF Spec

-----------------------------------------------------------------------------
(* The menu *)

MenuIsTyped ==
  /\ MenuTypeOK
  /\ served = [k \in CacheKey |-> served[k]] /\ filling = [k \in CacheKey |-> filling[k]]

LEMMA CatalogIsPublic == MenuTypeOK => Catalog \in PublicMenu
<1> SUFFICES ASSUME MenuTypeOK PROVE Catalog \in PublicMenu
  OBVIOUS
<1> DEFINE Listing(c) == {<<p, product[p].detail>> : p \in {q \in ProductsOf(c) : product[q].shown}}
<1>1. \A p \in Product : product[p].detail \in 0..1
  BY DEF MenuTypeOK, ProductRow
<1>2. ASSUME NEW c \in Category PROVE Listing(c) \in SUBSET (Product \X (0..1))
  BY <1>1 DEF ProductsOf
<1>3. Catalog = [c \in Category |->
                   IF CategoryFound(c) /\ category[c].status = "ACTIVE" THEN Listing(c) ELSE None]
  BY DEF Catalog
<1> HIDE DEF Listing
<1>4. ASSUME NEW c \in Category
      PROVE  Catalog[c] \in (SUBSET (Product \X (0..1))) \cup {None}
  <2>1. CASE CategoryFound(c) /\ category[c].status = "ACTIVE"
    <3>1. Catalog[c] = Listing(c)
      BY <1>3, <2>1
    <3> QED BY <1>2, <3>1
  <2>2. CASE ~(CategoryFound(c) /\ category[c].status = "ACTIVE")
    <3>1. Catalog[c] = None
      BY <1>3, <2>2
    <3> QED BY <3>1
  <2> QED BY <2>1, <2>2
<1>5. Catalog = [c \in Category |-> Catalog[c]]
  BY <1>3
<1> QED BY <1>4, <1>5 DEF PublicMenu

LEMMA MenuRows ==
  /\ IdleManager \in ManagerState
  /\ NoProduct \in ProductRow
  /\ \A row \in CategoryRow : \A status \in {"ACTIVE", "INACTIVE"} :
       [row EXCEPT !.status = status] \in CategoryRow
  /\ \A status \in {"ACTIVE", "INACTIVE"} : \A deleted \in BOOLEAN :
       [status |-> status, deleted |-> deleted] \in CategoryRow
  /\ \A c \in Category \cup {None} : \A shown \in BOOLEAN : NewProduct(c, shown) \in ProductRow
BY DEF IdleManager, ManagerState, NoProduct, NewProduct, ProductRow, CategoryRow

\* What a product's row becomes.
LEMMA ProductEdits ==
  ASSUME NEW row \in ProductRow
  PROVE  /\ \A c \in Category \cup {None} : \A shown \in BOOLEAN : \A detail \in 0..1 :
              [row EXCEPT !.category = c, !.shown = shown, !.detail = detail] \in ProductRow
         /\ [row EXCEPT !.detail = 1 - row.detail] \in ProductRow
         /\ [row EXCEPT !.shown = FALSE, !.deleted = TRUE] \in ProductRow
<1>1. row.detail \in 0..1 /\ 1 - row.detail \in 0..1
  BY DEF ProductRow
<1>2. [row EXCEPT !.detail = 1 - row.detail] \in ProductRow
  <2> DEFINE detail == 1 - row.detail
  <2>1. detail \in 0..1
    BY <1>1
  <2> HIDE DEF detail
  <2>2. [row EXCEPT !.detail = detail] \in ProductRow
    BY <2>1 DEF ProductRow
  <2> QED BY <2>2 DEF detail
<1>3. [row EXCEPT !.shown = FALSE, !.deleted = TRUE] \in ProductRow
  BY DEF ProductRow
<1>4. ASSUME NEW c \in Category \cup {None}, NEW shown \in BOOLEAN, NEW detail \in 0..1
      PROVE  [row EXCEPT !.category = c, !.shown = shown, !.detail = detail] \in ProductRow
  BY DEF ProductRow
<1> QED BY <1>2, <1>3, <1>4

LEMMA MenuTypedStart == MenuInit => MenuIsTyped
<1> SUFFICES ASSUME MenuInit PROVE MenuIsTyped
  OBVIOUS
<1>1. category \in [Category -> CategoryRow]
  BY DEF MenuInit, CategoryRow
<1>2. product \in [Product -> ProductRow]
  <2>1. {NoProduct} \cup {NewProduct(c, TRUE) : c \in StartCategories} \subseteq ProductRow
    BY MenuRows, MenuAssumption
  <2> QED BY <2>1 DEF MenuInit
<1>3. manager \in [Manager -> ManagerState]
  BY MenuRows DEF MenuInit
<1>4. 0 \in 0..MaxMenuChanges
  BY MenuAssumption
<1> QED BY <1>1, <1>2, <1>3, <1>4 DEF MenuInit, MenuIsTyped, MenuTypeOK

\* What a request goes on with.
LEMMA RequestTyped ==
  ASSUME MenuIsTyped, NEW m \in Manager,
         NEW pc \in {"create", "save", "modifiers", "remove", "invalidate"},
         NEW c \in Category \cup {None}, NEW p \in Product \cup {None}, Proceed(m, pc, c, p)
  PROVE  /\ manager' \in [Manager -> ManagerState]
         /\ manager'[m] = [pc |-> pc, category |-> c, product |-> p]
         /\ \A n \in Manager \ {m} : manager'[n] = manager[n]
<1> DEFINE row == [pc |-> pc, category |-> c, product |-> p]
<1>1. row \in ManagerState
  BY DEF ManagerState
<1>2. manager' = [manager EXCEPT ![m] = row] /\ manager \in [Manager -> ManagerState]
  BY DEF Proceed, MenuIsTyped, MenuTypeOK
<1> HIDE DEF row
<1>3. /\ manager' \in [Manager -> ManagerState] /\ manager'[m] = row
      /\ \A n \in Manager \ {m} : manager'[n] = manager[n]
  BY <1>1, <1>2
<1> QED BY <1>3 DEF row

LEMMA MenuTyped == MenuIsTyped /\ [MenuStep]_menuVars => MenuIsTyped'
<1> SUFFICES ASSUME MenuIsTyped, [MenuStep]_menuVars PROVE MenuIsTyped'
  OBVIOUS
<1>t. /\ MenuTypeOK /\ MaxMenuChanges \in Nat /\ menuChanges \in 0..MaxMenuChanges
      /\ category \in [Category -> CategoryRow] /\ product \in [Product -> ProductRow]
      /\ manager \in [Manager -> ManagerState]
      /\ None \in Category \cup {None} /\ None \in Product \cup {None}
  BY MenuAssumption DEF MenuIsTyped, MenuTypeOK
<1>c. Catalog \in PublicMenu
  BY <1>t, CatalogIsPublic
\* The steps of a manager: rows, requests and changes stay typed, the cache is left alone.
<1>0. ASSUME category' \in [Category -> CategoryRow], product' \in [Product -> ProductRow],
             manager' \in [Manager -> ManagerState], menuChanges' \in 0..MaxMenuChanges,
             UNCHANGED <<open, served, filling, menuTainted>>
      PROVE  MenuIsTyped'
  BY <1>0 DEF MenuIsTyped, MenuTypeOK, PublicMenu
<1>1. ASSUME NEW k \in CacheKey, ReadMenu(k) PROVE MenuIsTyped'
  <2>1. /\ filling' = [filling EXCEPT ![k] = Catalog]
        /\ UNCHANGED <<open, category, product, served, manager, menuTainted, menuChanges>>
    BY <1>1 DEF ReadMenu
  <2>2. filling'[k] = Catalog /\ \A l \in CacheKey \ {k} : filling'[l] = filling[l]
    BY <2>1 DEF MenuIsTyped
  <2>3. filling' = [l \in CacheKey |-> filling'[l]]
    BY <2>1 DEF MenuIsTyped
  <2> QED BY <1>c, <2>1, <2>2, <2>3 DEF MenuIsTyped, MenuTypeOK, PublicMenu
<1>2. ASSUME NEW k \in CacheKey, StoreMenu(k) PROVE MenuIsTyped'
  <2>1. /\ filling[k] # None /\ filling' = [filling EXCEPT ![k] = None]
        /\ UNCHANGED <<open, category, product, manager, menuChanges>>
        /\ \/ /\ served' = [served EXCEPT ![k] = filling[k]]
              /\ menuTainted' \in {menuTainted \ {k}, menuTainted \cup {k}}
           \/ UNCHANGED <<served, menuTainted>>
    BY <1>2 DEF StoreMenu
  <2>2. /\ filling'[k] = None /\ \A l \in CacheKey \ {k} : filling'[l] = filling[l]
        /\ \A l \in CacheKey : served'[l] \in {served[l], filling[l]}
    BY <2>1 DEF MenuIsTyped
  <2>3. filling' = [l \in CacheKey |-> filling'[l]] /\ served' = [l \in CacheKey |-> served'[l]]
    BY <2>1 DEF MenuIsTyped
  <2>4. menuTainted' \in SUBSET CacheKey
    BY <2>1 DEF MenuIsTyped, MenuTypeOK
  <2> QED BY <2>1, <2>2, <2>3, <2>4 DEF MenuIsTyped, MenuTypeOK, PublicMenu
<1>3. ASSUME NEW k \in CacheKey, ExpireMenu(k) PROVE MenuIsTyped'
  <2>1. /\ served' = [served EXCEPT ![k] = None] /\ menuTainted' = menuTainted \ {k}
        /\ UNCHANGED <<open, category, product, filling, manager, menuChanges>>
    BY <1>3 DEF ExpireMenu
  <2>2. /\ \A l \in CacheKey : served'[l] \in {served[l], None}
        /\ served' = [l \in CacheKey |-> served'[l]]
    BY <2>1 DEF MenuIsTyped
  <2> QED BY <2>1, <2>2 DEF MenuIsTyped, MenuTypeOK, PublicMenu
<1>4. ASSUME NEW m \in Manager, NEW request, Requested(m, request)
      PROVE  menuChanges' \in 0..MaxMenuChanges
  BY <1>4, <1>t DEF Requested
<1>5. ASSUME NEW m \in Manager, MustInvalidate(m) PROVE manager' \in [Manager -> ManagerState]
  BY <1>5, <1>t, RequestTyped DEF MustInvalidate
<1>6. ASSUME NEW m \in Manager, NEW c \in Category, CreateCategory(m, c) PROVE MenuIsTyped'
  <2>1. category' \in [Category -> CategoryRow]
    BY <1>6, <1>t, MenuRows DEF CreateCategory
  <2> QED BY <1>0, <1>4, <1>5, <1>6, <1>t, <2>1 DEF CreateCategory, cacheVars
\* The steps that only read.
<1>7. ASSUME NEW m \in Manager, NEW pc \in {"create", "save", "modifiers", "remove"},
             NEW c \in Category \cup {None}, NEW p \in Product \cup {None}, Proceed(m, pc, c, p),
             NEW request, Requested(m, request), UNCHANGED readsOnly
      PROVE  MenuIsTyped'
  <2>1. manager' \in [Manager -> ManagerState]
    BY <1>7, RequestTyped
  <2> QED BY <1>0, <1>4, <1>7, <1>t, <2>1 DEF readsOnly, cacheVars
<1>8. ASSUME NEW m \in Manager, NEW c \in Category,
             ReadForCategoryUpdate(m, c) \/ CountProducts(m, c)
               \/ \E p \in Product : ReadForProduct(m, c, p) \/ ReadForMove(m, p, c)
      PROVE  MenuIsTyped'
  BY <1>7, <1>8 DEF ReadForCategoryUpdate, CountProducts, ReadForProduct, ReadForMove
<1>9. ASSUME NEW m \in Manager, NEW p \in Product,
             ReadForProductUpdate(m, p) \/ ReadForModifier(m, p) \/ ReadForProductDelete(m, p)
      PROVE  MenuIsTyped'
  BY <1>7, <1>9 DEF ReadForProductUpdate, ReadForModifier, ReadForProductDelete
<1>10. ASSUME NEW m \in Manager, Saves(m)
       PROVE  /\ category' \in [Category -> CategoryRow] /\ product' \in [Product -> ProductRow]
              /\ MustInvalidate(m) /\ UNCHANGED <<writesMenu>>
  <2>c. manager[m].category \in Category \cup {None}
    BY <1>t DEF ManagerState
  <2>1. CASE CreateProduct(m)
    BY <1>t, <2>1, <2>c, MenuRows DEF CreateProduct
  <2>2. CASE UpdateCategory(m)
    <3> DEFINE c == manager[m].category
    <3>1. PICK status \in {"ACTIVE", "INACTIVE"} :
            category' = [category EXCEPT ![c] = [category[c] EXCEPT !.status = status]]
      BY <2>2 DEF UpdateCategory
    <3>2. c \in Category => [category[c] EXCEPT !.status = status] \in CategoryRow
      BY <1>t, MenuRows
    <3>3. category' \in [Category -> CategoryRow]
      BY <1>t, <3>1, <3>2
    <3> QED BY <1>t, <2>2, <3>3 DEF UpdateCategory
  <2>3. CASE UpdateProduct(m)
    <3> DEFINE p == manager[m].product
    <3>0. PICK shown \in BOOLEAN, detail \in 0..1 :
            product' = [product EXCEPT ![p] =
              [product[p] EXCEPT
                 !.category = IF manager[m].category = None THEN @ ELSE manager[m].category,
                 !.shown = shown, !.detail = detail]]
      BY <2>3, Zenon DEF UpdateProduct
    <3> DEFINE row == [product[p] EXCEPT
              !.category = IF manager[m].category = None THEN @ ELSE manager[m].category,
              !.shown = shown, !.detail = detail]
    <3>2. p \in Product => row \in ProductRow
      BY <1>t, <2>c DEF ProductRow
    <3>3. product' = [product EXCEPT ![p] = row]
      BY <3>0
    <3> HIDE DEF row
    <3>4. product' \in [Product -> ProductRow]
      BY <1>t, <3>2, <3>3
    <3> QED BY <1>t, <2>3, <3>4 DEF UpdateProduct
  <2>4. CASE WriteModifier(m)
    <3>1. product' = [product EXCEPT ![manager[m].product] =
                        [product[manager[m].product] EXCEPT
                           !.detail = 1 - product[manager[m].product].detail]]
      BY <2>4 DEF WriteModifier
    <3>2. product' \in [Product -> ProductRow]
      BY <1>t, <3>1, ProductEdits
    <3> QED BY <1>t, <2>4, <3>2 DEF WriteModifier
  <2>5. CASE DeleteProduct(m)
    BY <1>t, <2>5, ProductEdits DEF DeleteProduct
  <2>6. CASE DeleteCategory(m)
    BY <1>t, <2>6, MenuRows DEF DeleteCategory
  <2> QED BY <1>10, <2>1, <2>2, <2>3, <2>4, <2>5, <2>6 DEF Saves
<1>11. ASSUME NEW m \in Manager, Saves(m) PROVE MenuIsTyped'
  BY <1>0, <1>5, <1>10, <1>11, <1>t DEF writesMenu, cacheVars
<1>12. ASSUME NEW m \in Manager, UpdateRestaurantStatus(m) PROVE MenuIsTyped'
  BY <1>4, <1>12 DEF UpdateRestaurantStatus, cacheVars, MenuIsTyped, MenuTypeOK, PublicMenu
\* The deletion that takes place, and the one that does not.
<1>13. ASSUME NEW m \in Manager, manager' = [manager EXCEPT ![m] = IdleManager],
              served' = [k \in CacheKey |-> None] \/ UNCHANGED served,
              menuTainted' \in SUBSET CacheKey,
              UNCHANGED <<open, category, product, filling, menuChanges>>
       PROVE  MenuIsTyped'
  <2>1. manager' \in [Manager -> ManagerState]
    BY <1>13, <1>t, MenuRows
  <2>2. /\ \A k \in CacheKey : served'[k] \in {served[k], None}
        /\ served' = [k \in CacheKey |-> served'[k]]
    BY <1>13 DEF MenuIsTyped
  <2> QED BY <1>13, <2>1, <2>2 DEF MenuIsTyped, MenuTypeOK, PublicMenu
<1>14. ASSUME NEW m \in Manager, InvalidateMenu(m) \/ ManagerFails(m) PROVE MenuIsTyped'
  <2>1. [k \in CacheKey |-> IF k \in MenuKeys THEN None ELSE served[k]] = [k \in CacheKey |-> None]
    BY DEF MenuKeys
  <2>2. menuTainted \in SUBSET CacheKey
    BY <1>t DEF MenuTypeOK
  <2> QED BY <1>13, <1>14, <2>1, <2>2 DEF InvalidateMenu, ManagerFails, Leaves
<1>15. CASE UNCHANGED menuVars
  BY <1>15 DEF menuVars, MenuIsTyped, MenuTypeOK, PublicMenu
<1> QED
  BY <1>1, <1>2, <1>3, <1>6, <1>8, <1>9, <1>11, <1>12, <1>14, <1>15 DEF MenuStep, ManagerStep

Saving == {"create", "update", "delete"}

\* Only one manager creates, moves and deletes, while others may change what products show.
OneSaves ==
  \A m, n \in Manager : Duties[m] \cap Saving # {} /\ Duties[n] \cap Saving # {} => m = n

\* What the one manager read is still so when it is written.
ReadStands(m) ==
  LET r == manager[m] IN
    /\ r.pc \in {"create", "remove"} \/ (r.pc = "save" /\ r.category # None) =>
         Duties[m] \cap Saving # {}
    /\ r.pc = "create" \/ (r.pc = "save" /\ r.product = None) => r.category # None
    /\ r.pc \in {"create", "save"} /\ r.category # None => CategoryFound(r.category)
    /\ r.pc = "remove" /\ r.category # None => ProductsOf(r.category) = {}

ReadsStand ==
  /\ MenuIsTyped
  /\ \A p \in Product : product[p].there => product[p].category \in Category
  /\ CategoriesKeepTheirProducts
  /\ \A m \in Manager : ReadStands(m)

LEMMA ReadsStart == MenuInit => ReadsStand
<1> SUFFICES ASSUME MenuInit PROVE ReadsStand
  OBVIOUS
<1>1. ASSUME NEW p \in Product PROVE product[p].there =>
        /\ product[p].category \in StartCategories /\ product[p].category \in Category
        /\ CategoryFound(product[p].category)
  <2>1. product[p] \in {NoProduct} \cup {NewProduct(c, TRUE) : c \in StartCategories}
    BY DEF MenuInit
  <2>2. ~NoProduct.there /\ \A c : NewProduct(c, TRUE).category = c
    BY DEF NoProduct, NewProduct
  <2>3. \A c \in StartCategories : c \in Category /\ CategoryFound(c)
    BY MenuAssumption DEF MenuInit, CategoryFound
  <2> QED BY <2>1, <2>2, <2>3
<1>2. \A m \in Manager : ReadStands(m)
  BY DEF MenuInit, ReadStands, IdleManager
<1> QED BY <1>1, <1>2, MenuTypedStart DEF ReadsStand, CategoriesKeepTheirProducts, ProductFound

\* A request that has read and goes on.
LEMMA ReadKept ==
  ASSUME ReadsStand, MenuIsTyped', UNCHANGED <<category, product>>, NEW m \in Manager,
         \A n \in Manager \ {m} : manager'[n] = manager[n], ReadStands(m)'
  PROVE  ReadsStand'
<1>1. ASSUME NEW n \in Manager \ {m} PROVE ReadStands(n)'
  <2>1. ReadStands(n)
    BY DEF ReadsStand
  <2> QED BY <2>1 DEF ReadStands, CategoryFound, ProductsOf, ProductFound
<1> QED BY <1>1 DEF ReadsStand, CategoriesKeepTheirProducts, ProductFound, CategoryFound

\* A request has written: what others read was read by the one manager, who is nobody else,
\* or is not touched.
LEMMA WrittenKept ==
  ASSUME OneSaves, ReadsStand, MenuIsTyped', NEW m \in Manager,
         manager'[m].pc = "invalidate", \A n \in Manager \ {m} : manager'[n] = manager[n],
         \A p \in Product : product'[p].there => product'[p].category \in Category,
         CategoriesKeepTheirProducts',
         \/ Duties[m] \cap Saving # {}
         \/ /\ UNCHANGED category
            /\ \A p \in Product : /\ product'[p].there = product[p].there
                                  /\ product'[p].deleted = product[p].deleted
                                  /\ product'[p].category = product[p].category
  PROVE  ReadsStand'
<1>1. ASSUME NEW n \in Manager \ {m} PROVE ReadStands(n)'
  <2>1. ReadStands(n) /\ manager'[n] = manager[n]
    BY DEF ReadsStand
  <2>2. CASE Duties[n] \cap Saving # {}
    <3>1. Duties[m] \cap Saving = {}
      BY <2>2 DEF OneSaves
    <3>2. \A c : CategoryFound(c)' = CategoryFound(c) /\ ProductsOf(c)' = ProductsOf(c)
      BY <3>1 DEF CategoryFound, ProductsOf, ProductFound
    <3> QED BY <2>1, <3>2 DEF ReadStands
  <2>3. CASE Duties[n] \cap Saving = {}
    BY <2>1, <2>3 DEF ReadStands
  <2> QED BY <2>2, <2>3
<1>2. ReadStands(m)'
  BY DEF ReadStands
<1> QED BY <1>1, <1>2 DEF ReadsStand

LEMMA ReadsStepInv ==
  ASSUME OneSaves PROVE ReadsStand /\ [MenuStep]_menuVars => ReadsStand'
<1> SUFFICES ASSUME ReadsStand, [MenuStep]_menuVars PROVE ReadsStand'
  OBVIOUS
<1>t. /\ MenuIsTyped /\ MenuIsTyped'
      /\ category \in [Category -> CategoryRow] /\ product \in [Product -> ProductRow]
      /\ manager \in [Manager -> ManagerState]
      /\ None \in Category \cup {None} /\ None \in Product \cup {None}
      /\ None \notin Category /\ None \notin Product
  BY MenuTyped, MenuAssumption DEF ReadsStand, MenuIsTyped, MenuTypeOK
<1>0. CASE UNCHANGED <<category, product, manager>>
  BY <1>0, <1>t
     DEF ReadsStand, ReadStands, CategoriesKeepTheirProducts, ProductFound, CategoryFound, ProductsOf
<1>1. ASSUME NEW m \in Manager, NEW pc \in {"create", "save", "modifiers", "remove"},
             NEW c \in Category \cup {None}, NEW p \in Product \cup {None}, Proceed(m, pc, c, p),
             UNCHANGED readsOnly,
             pc \in {"create", "remove"} \/ (pc = "save" /\ c # None) => Duties[m] \cap Saving # {},
             pc = "create" \/ (pc = "save" /\ p = None) => c # None,
             pc \in {"create", "save"} /\ c # None => CategoryFound(c),
             pc = "remove" /\ c # None => ProductsOf(c) = {}
      PROVE  ReadsStand'
  <2>1. /\ manager'[m].pc = pc /\ manager'[m].category = c /\ manager'[m].product = p
        /\ \A n \in Manager \ {m} : manager'[n] = manager[n]
        /\ UNCHANGED <<category, product>>
    <3>1. /\ manager'[m] = [pc |-> pc, category |-> c, product |-> p]
          /\ \A n \in Manager \ {m} : manager'[n] = manager[n]
      BY <1>1, <1>t, RequestTyped
    <3> QED BY <1>1, <3>1 DEF readsOnly
  <2>2. CategoryFound(c)' = CategoryFound(c) /\ ProductsOf(c)' = ProductsOf(c)
    BY <2>1 DEF CategoryFound, ProductsOf, ProductFound
  <2>3. ReadStands(m)'
    BY <1>1, <2>1, <2>2 DEF ReadStands, CategoryFound, ProductsOf, ProductFound
  <2> QED BY <1>t, <2>1, <2>3, ReadKept
<1>2. ASSUME NEW m \in Manager, NEW request \in Saving, Requested(m, request)
      PROVE  Duties[m] \cap Saving # {}
  BY <1>2 DEF Requested
<1>3. ASSUME NEW m \in Manager, NEW c \in Category, ReadForCategoryUpdate(m, c) PROVE ReadsStand'
  BY <1>1, <1>2, <1>3, <1>t DEF ReadForCategoryUpdate, Saving
<1>4. ASSUME NEW m \in Manager, NEW c \in Category, CountProducts(m, c) PROVE ReadsStand'
  BY <1>1, <1>2, <1>4, <1>t DEF CountProducts, MayRemove, Saving
<1>5. ASSUME NEW m \in Manager, NEW c \in Category, NEW p \in Product, ReadForProduct(m, c, p)
      PROVE  ReadsStand'
  BY <1>1, <1>2, <1>5, <1>t DEF ReadForProduct, Saving
<1>6. ASSUME NEW m \in Manager, NEW c \in Category, NEW p \in Product, ReadForMove(m, p, c)
      PROVE  ReadsStand'
  BY <1>1, <1>2, <1>6, <1>t DEF ReadForMove, Saving
<1>7. ASSUME NEW m \in Manager, NEW p \in Product, ReadForProductUpdate(m, p) \/ ReadForModifier(m, p)
      PROVE  ReadsStand'
  BY <1>1, <1>7, <1>t DEF ReadForProductUpdate, ReadForModifier
<1>8. ASSUME NEW m \in Manager, NEW p \in Product, ReadForProductDelete(m, p) PROVE ReadsStand'
  BY <1>1, <1>2, <1>8, <1>t DEF ReadForProductDelete, Saving
\* The steps that write.
<1>9. ASSUME NEW m \in Manager, MustInvalidate(m)
      PROVE  manager'[m].pc = "invalidate" /\ \A n \in Manager \ {m} : manager'[n] = manager[n]
  <2>1. Proceed(m, "invalidate", None, None)
    BY <1>9 DEF MustInvalidate
  <2>2. /\ manager'[m] = [pc |-> "invalidate", category |-> None, product |-> None]
        /\ \A n \in Manager \ {m} : manager'[n] = manager[n]
    BY <1>t, <2>1, RequestTyped
  <2> QED BY <2>2
<1>10. ASSUME NEW m \in Manager, MustInvalidate(m),
              NEW p \in Product, NEW row, product' = [product EXCEPT ![p] = row], UNCHANGED category,
              row.there => row.category \in Category,
              row.there /\ ~row.deleted => CategoryFound(row.category),
              \/ Duties[m] \cap Saving # {}
              \/ /\ row.there = product[p].there /\ row.deleted = product[p].deleted
                 /\ row.category = product[p].category
       PROVE  ReadsStand'
  <2>1. product'[p] = row /\ \A q \in Product \ {p} : product'[q] = product[q]
    BY <1>10, <1>t
  <2>2. CategoriesKeepTheirProducts'
    BY <1>10, <2>1 DEF ReadsStand, CategoriesKeepTheirProducts, ProductFound, CategoryFound
  <2>3. \A q \in Product : product'[q].there => product'[q].category \in Category
    BY <1>10, <2>1 DEF ReadsStand
  <2>4. \/ Duties[m] \cap Saving # {}
        \/ \A q \in Product : /\ product'[q].there = product[q].there
                              /\ product'[q].deleted = product[q].deleted
                              /\ product'[q].category = product[q].category
    BY <1>10, <2>1
  <2> QED BY <1>9, <1>10, <1>t, <2>2, <2>3, <2>4, WrittenKept
<1>11. ASSUME NEW m \in Manager, MustInvalidate(m), UNCHANGED product,
              NEW c \in Category, NEW row, category' = [category EXCEPT ![c] = row],
              Duties[m] \cap Saving # {},
              (row.status # "NONE" /\ ~row.deleted) \/ ProductsOf(c) = {}
       PROVE  ReadsStand'
  <2>1. category'[c] = row /\ \A d \in Category \ {c} : category'[d] = category[d]
    BY <1>11, <1>t
  <2>2. ASSUME NEW p \in Product, ProductFound(p) PROVE CategoryFound(product[p].category)'
    <3>1. product[p].category \in Category /\ CategoryFound(product[p].category)
      BY <2>2 DEF ReadsStand, CategoriesKeepTheirProducts, ProductFound
    <3>2. CASE product[p].category = c
      BY <1>11, <2>1, <2>2, <3>2 DEF CategoryFound, ProductsOf
    <3>3. CASE product[p].category # c
      BY <1>11, <2>1, <3>1, <3>3 DEF CategoryFound
    <3> QED BY <3>2, <3>3
  <2>3. CategoriesKeepTheirProducts'
    BY <1>11, <2>2 DEF CategoriesKeepTheirProducts, ProductFound, CategoryFound
  <2>4. \A q \in Product : product'[q].there => product'[q].category \in Category
    BY <1>11 DEF ReadsStand
  <2> QED BY <1>9, <1>11, <1>t, <2>3, <2>4, WrittenKept
<1>12. ASSUME NEW m \in Manager, NEW c \in Category, CreateCategory(m, c) PROVE ReadsStand'
  <2>1. PICK status \in {"ACTIVE", "INACTIVE"} :
          category' = [category EXCEPT ![c] = [status |-> status, deleted |-> FALSE]]
    BY <1>12 DEF CreateCategory
  <2> DEFINE row == [status |-> status, deleted |-> FALSE]
  <2>2. row.status # "NONE" /\ ~row.deleted
    OBVIOUS
  <2>3. category' = [category EXCEPT ![c] = row]
    BY <2>1
  <2> HIDE DEF row
  <2>4. MustInvalidate(m) /\ UNCHANGED product /\ Duties[m] \cap Saving # {}
    BY <1>2, <1>12 DEF CreateCategory, Saving
  <2> QED BY <1>11, <2>2, <2>3, <2>4
<1>13. ASSUME NEW m \in Manager, CreateProduct(m) PROVE ReadsStand'
  <2> DEFINE c == manager[m].category
             p == manager[m].product
  <2>1. PICK shown \in BOOLEAN : product' = [product EXCEPT ![p] = NewProduct(c, shown)]
    BY <1>13 DEF CreateProduct
  <2>2. /\ manager[m].pc = "create" /\ MustInvalidate(m) /\ UNCHANGED category
        /\ ReadStands(m) /\ manager[m] \in ManagerState
    BY <1>13, <1>t DEF CreateProduct, ReadsStand
  <2>3. c \in Category /\ CategoryFound(c) /\ Duties[m] \cap Saving # {}
    BY <2>2 DEF ReadStands, ManagerState
  <2>4. NewProduct(c, shown).category = c
    BY DEF NewProduct
  <2>5. CASE p \in Product
    BY <1>10, <2>1, <2>2, <2>3, <2>4, <2>5
  <2>6. CASE p \notin Product
    <3>1. UNCHANGED product
      BY <1>t, <2>1, <2>6
    <3>2. /\ CategoriesKeepTheirProducts'
          /\ \A q \in Product : product'[q].there => product'[q].category \in Category
      BY <2>2, <3>1 DEF ReadsStand, CategoriesKeepTheirProducts, ProductFound, CategoryFound
    <3> QED BY <1>9, <1>t, <2>2, <2>3, <3>2, WrittenKept
  <2> QED BY <2>5, <2>6
<1>14. ASSUME NEW m \in Manager, UpdateCategory(m) PROVE ReadsStand'
  <2> DEFINE c == manager[m].category
  <2>1. PICK status \in {"ACTIVE", "INACTIVE"} :
          category' = [category EXCEPT ![c] = [category[c] EXCEPT !.status = status]]
    BY <1>14 DEF UpdateCategory
  <2>2. /\ manager[m].pc = "save" /\ manager[m].product = None /\ MustInvalidate(m)
        /\ UNCHANGED product /\ ReadStands(m) /\ manager[m] \in ManagerState
    BY <1>14, <1>t DEF UpdateCategory, ReadsStand
  <2>3. c \in Category /\ CategoryFound(c) /\ Duties[m] \cap Saving # {}
    BY <2>2 DEF ReadStands, ManagerState
  <2> DEFINE row == [category[c] EXCEPT !.status = status]
  <2>4. row.status # "NONE" /\ ~row.deleted
    BY <1>t, <2>3 DEF CategoryFound, CategoryRow
  <2>5. category' = [category EXCEPT ![c] = row]
    BY <2>1
  <2> HIDE DEF row
  <2> QED BY <1>11, <2>2, <2>3, <2>4, <2>5
<1>15. ASSUME NEW m \in Manager, UpdateProduct(m) PROVE ReadsStand'
  <2> DEFINE p == manager[m].product
             c == manager[m].category
  <2>1. PICK shown \in BOOLEAN, detail \in 0..1 :
          product' = [product EXCEPT ![p] =
            [product[p] EXCEPT !.category = IF manager[m].category = None THEN @ ELSE manager[m].category,
                               !.shown = shown, !.detail = detail]]
    BY <1>15, Zenon DEF UpdateProduct
  <2>2. /\ manager[m].pc = "save" /\ p # None /\ MustInvalidate(m) /\ UNCHANGED category
        /\ ReadStands(m) /\ manager[m] \in ManagerState
    BY <1>15, <1>t DEF UpdateProduct, ReadsStand
  <2>3. /\ p \in Product
        /\ c # None => c \in Category /\ CategoryFound(c) /\ Duties[m] \cap Saving # {}
    BY <2>2 DEF ReadStands, ManagerState
  <2> DEFINE row == [product[p] EXCEPT !.category = IF manager[m].category = None THEN @ ELSE manager[m].category,
                                       !.shown = shown, !.detail = detail]
  <2>4. /\ row.there = product[p].there /\ row.deleted = product[p].deleted
        /\ row.category = IF c = None THEN product[p].category ELSE c
    BY <1>t, <2>3 DEF ProductRow
  <2>5. product' = [product EXCEPT ![p] = row]
    BY <2>1
  <2> HIDE DEF row
  <2>6. /\ product[p].there => product[p].category \in Category
        /\ product[p].there /\ ~product[p].deleted => CategoryFound(product[p].category)
    BY <2>3 DEF ReadsStand, CategoriesKeepTheirProducts, ProductFound
  <2>7. CASE c = None
    BY <1>10, <2>2, <2>3, <2>4, <2>5, <2>6, <2>7
  <2>8. CASE c # None
    BY <1>10, <2>2, <2>3, <2>4, <2>5, <2>8
  <2> QED BY <2>7, <2>8
<1>16. ASSUME NEW m \in Manager, WriteModifier(m) \/ DeleteProduct(m) PROVE ReadsStand'
  <2> DEFINE p == manager[m].product
  <2>1. PICK row \in {[product[p] EXCEPT !.detail = 1 - product[p].detail],
                      [product[p] EXCEPT !.shown = FALSE, !.deleted = TRUE]} :
          /\ product' = [product EXCEPT ![p] = row] /\ MustInvalidate(m) /\ UNCHANGED category
          /\ row = [product[p] EXCEPT !.detail = 1 - product[p].detail] \/ manager[m].pc = "remove"
    BY <1>16 DEF WriteModifier, DeleteProduct
  <2>2. /\ ReadStands(m)
        /\ \A q \in Product : q = p =>
             /\ product[p].there => product[p].category \in Category
             /\ product[p].there /\ ~product[p].deleted => CategoryFound(product[p].category)
    BY DEF ReadsStand, CategoriesKeepTheirProducts, ProductFound
  <2>3. CASE p \in Product
    <3>1. /\ row.there = product[p].there /\ row.category = product[p].category
          /\ row.deleted = product[p].deleted \/ (row.deleted /\ manager[m].pc = "remove")
      BY <1>t, <2>1, <2>3 DEF ProductRow
    <3>2. manager[m].pc = "remove" => Duties[m] \cap Saving # {}
      BY <2>2 DEF ReadStands
    <3> QED BY <1>10, <2>1, <2>2, <2>3, <3>1, <3>2
  <2>4. CASE p \notin Product
    <3>1. UNCHANGED product
      BY <1>t, <2>1, <2>4
    <3>2. /\ CategoriesKeepTheirProducts'
          /\ \A q \in Product : product'[q].there => product'[q].category \in Category
      BY <2>1, <3>1 DEF ReadsStand, CategoriesKeepTheirProducts, ProductFound, CategoryFound
    <3> QED BY <1>9, <1>t, <2>1, <3>1, <3>2, WrittenKept
  <2> QED BY <2>3, <2>4
<1>17. ASSUME NEW m \in Manager, DeleteCategory(m) PROVE ReadsStand'
  <2> DEFINE c == manager[m].category
             row == [status |-> "INACTIVE", deleted |-> TRUE]
  <2>1. /\ manager[m].pc = "remove" /\ c # None /\ category' = [category EXCEPT ![c] = row]
        /\ MustInvalidate(m) /\ UNCHANGED product /\ ReadStands(m) /\ manager[m] \in ManagerState
    BY <1>17, <1>t DEF DeleteCategory, ReadsStand
  <2> HIDE DEF row
  <2>2. c \in Category /\ ProductsOf(c) = {} /\ Duties[m] \cap Saving # {}
    BY <2>1 DEF ReadStands, ManagerState
  <2> QED BY <1>11, <2>1, <2>2
\* The steps that end a request, or leave requests alone.
<1>18. ASSUME NEW m \in Manager, InvalidateMenu(m) \/ ManagerFails(m) PROVE ReadsStand'
  <2>1. manager' = [manager EXCEPT ![m] = IdleManager] /\ UNCHANGED <<category, product>>
    BY <1>18 DEF InvalidateMenu, ManagerFails
  <2>2. manager'[m].pc = "idle" /\ \A n \in Manager \ {m} : manager'[n] = manager[n]
    BY <1>t, <2>1 DEF IdleManager
  <2>3. ReadStands(m)'
    BY <2>2 DEF ReadStands
  <2> QED BY <1>t, <2>1, <2>2, <2>3, ReadKept
<1>19. ASSUME \/ \E k \in CacheKey : ReadMenu(k) \/ StoreMenu(k) \/ ExpireMenu(k)
              \/ \E m \in Manager : UpdateRestaurantStatus(m)
              \/ UNCHANGED menuVars
       PROVE  UNCHANGED <<category, product, manager>>
  BY <1>19 DEF ReadMenu, StoreMenu, ExpireMenu, UpdateRestaurantStatus, menuVars
<1> QED
  BY <1>0, <1>3, <1>4, <1>5, <1>6, <1>7, <1>8, <1>12, <1>13, <1>14, <1>15, <1>16, <1>17, <1>18, <1>19
     DEF MenuStep, ManagerStep, Saves

\* While one manager creates, moves and deletes, whatever the others change in what products
\* show, no category is deleted while a product of its is left.
THEOREM CategoriesKeepProducts ==
  ASSUME OneSaves PROVE Spec => []CategoriesKeepTheirProducts
<1>1. ReadsStand => CategoriesKeepTheirProducts
  BY DEF ReadsStand
<1>2. Init => ReadsStand
  BY ReadsStart DEF Init
<1>3. ReadsStand /\ [Next]_vars => ReadsStand'
  BY ReadsStepInv, AreasAreApart
<1> QED BY <1>1, <1>2, <1>3, PTL DEF Spec

-----------------------------------------------------------------------------
(* Coupons: what lines are worth *)

\* A set of numbers that has 0, and the next of each it has, has all.
LEMMA AllNaturals ==
  ASSUME NEW S, 0 \in S, \A n \in Nat : n \in S => n + 1 \in S
  PROVE  Nat \subseteq S
<1> SUFFICES ASSUME ~(Nat \subseteq S) PROVE FALSE
  OBVIOUS
<1>1. PICK m \in Nat \ S : \A n \in Nat \ S : m <= n
  <2>1. Nat \ S \subseteq Nat /\ Nat \ S # {}
    OBVIOUS
  <2> QED BY <2>1, LeastNatural
<1>2. m # 0 /\ m - 1 \in Nat /\ (m - 1) + 1 = m
  BY <1>1
<1>3. m - 1 \in S
  BY <1>1, <1>2
<1> QED BY <1>1, <1>2, <1>3

\* What one step of the sum makes of the sum without a line.
Adding(total, s) ==
  IF s = {} THEN 0 ELSE LET l == CHOOSE l \in s : TRUE IN l.subtotal + total[s \ {l}]

LEMMA SumUnfolds ==
  ASSUME NEW lines
  PROVE  Subtotal(lines) = (CHOOSE total : total = [s \in SUBSET lines |-> Adding(total, s)])[lines]
BY DEF Subtotal, MapThenSumSet, MapThenFoldSet, Adding

\* A line less leaves a smaller set.
LEMMA LineLess ==
  ASSUME NEW lines, IsFiniteSet(lines), NEW s \in SUBSET lines, s # {}, NEW n \in Nat,
         Cardinality(s) <= n + 1
  PROVE  LET l == CHOOSE l \in s : TRUE IN
           /\ l \in s /\ s \ {l} \in SUBSET lines
           /\ Cardinality(s \ {l}) \in Nat /\ Cardinality(s \ {l}) <= n
<1> DEFINE l == CHOOSE l \in s : TRUE
<1>1. l \in s
  OBVIOUS
<1> HIDE DEF l
<1>2. IsFiniteSet(s)
  BY FS_Subset
<1>3. /\ Cardinality(s) \in Nat /\ IsFiniteSet(s \ {l})
      /\ Cardinality(s \ {l}) = Cardinality(s) - 1
  BY <1>1, <1>2, FS_RemoveElement, FS_CardinalityType
<1>4. Cardinality(s \ {l}) \in Nat
  BY <1>3, FS_CardinalityType
<1> QED BY <1>1, <1>3, <1>4 DEF l

\* The sum is well defined.
LEMMA SumExists ==
  ASSUME NEW lines, IsFiniteSet(lines), lines \subseteq LineSet
  PROVE  \E total : total = [s \in SUBSET lines |-> Adding(total, s)]
<1> DEFINE Upto(n) == {s \in SUBSET lines : Cardinality(s) <= n}
           Sums(n) == {g \in [Upto(n) -> Nat] : \A s \in Upto(n) : g[s] = Adding(g, s)}
           S == {n \in Nat : Sums(n) # {}}
<1>0. \A s \in SUBSET lines : IsFiniteSet(s) /\ Cardinality(s) \in Nat
  BY FS_Subset, FS_CardinalityType
<1>1. 0 \in S
  <2> DEFINE g == [s \in Upto(0) |-> 0]
  <2>1. \A s \in Upto(0) : s = {}
    BY <1>0, FS_EmptySet
  <2>2. \A s \in Upto(0) : g[s] = Adding(g, s)
    BY <2>1 DEF Adding
  <2>3. g \in [Upto(0) -> Nat]
    OBVIOUS
  <2> HIDE DEF g
  <2>4. g \in Sums(0)
    BY <2>2, <2>3
  <2> QED BY <2>4
<1>2. ASSUME NEW n \in Nat, n \in S PROVE n + 1 \in S
  <2>1. PICK g \in [Upto(n) -> Nat] : \A s \in Upto(n) : g[s] = Adding(g, s)
    BY <1>2
  <2> DEFINE h == [s \in Upto(n + 1) |-> Adding(g, s)]
  <2>2. ASSUME NEW s \in Upto(n + 1), s # {}
        PROVE  LET l == CHOOSE l \in s : TRUE IN
                 l \in LineSet /\ s \ {l} \in Upto(n) /\ s \ {l} \in Upto(n + 1)
    <3> DEFINE l == CHOOSE l \in s : TRUE
    <3>1. /\ l \in s /\ s \ {l} \in SUBSET lines
          /\ Cardinality(s \ {l}) \in Nat /\ Cardinality(s \ {l}) <= n
      BY <2>2, LineLess
    <3> HIDE DEF l
    <3>2. l \in LineSet /\ s \ {l} \in Upto(n) /\ s \ {l} \in Upto(n + 1)
      BY <2>2, <3>1
    <3> QED BY <3>2 DEF l
  <2>3. h \in [Upto(n + 1) -> Nat]
    <3>1. ASSUME NEW s \in Upto(n + 1) PROVE Adding(g, s) \in Nat
      <4>1. CASE s = {}
        BY <4>1 DEF Adding
      <4>2. CASE s # {}
        <5> DEFINE l == CHOOSE l \in s : TRUE
        <5>1. l \in LineSet /\ s \ {l} \in Upto(n)
          BY <2>2, <4>2
        <5>2. Adding(g, s) = l.subtotal + g[s \ {l}]
          BY <4>2 DEF Adding
        <5> HIDE DEF l, Upto
        <5>3. l.subtotal \in Nat /\ g[s \ {l}] \in Nat
          BY <2>1, <5>1 DEF LineSet
        <5> QED BY <5>2, <5>3
      <4> QED BY <4>1, <4>2
    <3> HIDE DEF Upto
    <3> QED BY <3>1
  <2>4. \A s \in Upto(n) : h[s] = g[s]
    <3>1. \A s \in Upto(n) : s \in Upto(n + 1)
      BY <1>0
    <3> HIDE DEF Upto
    <3> QED BY <2>1, <3>1
  <2>5. ASSUME NEW s \in Upto(n + 1) PROVE h[s] = Adding(h, s)
    <3>0. h[s] = Adding(g, s)
      OBVIOUS
    <3>1. CASE s = {}
      BY <3>0, <3>1 DEF Adding
    <3>2. CASE s # {}
      <4> DEFINE l == CHOOSE l \in s : TRUE
      <4>1. s \ {l} \in Upto(n)
        BY <2>2, <3>2
      <4>2. h[s \ {l}] = g[s \ {l}]
        <5> HIDE DEF l, Upto, h
        <5> QED BY <2>4, <4>1
      <4>3. Adding(g, s) = l.subtotal + g[s \ {l}] /\ Adding(h, s) = l.subtotal + h[s \ {l}]
        <5> HIDE DEF h, Upto
        <5> QED BY <3>2 DEF Adding
      <4> HIDE DEF l, Upto, h
      <4> QED BY <3>0, <4>2, <4>3
    <3> QED BY <3>1, <3>2
  <2> HIDE DEF h, Upto
  <2>6. h \in Sums(n + 1)
    BY <2>3, <2>5
  <2> HIDE DEF Sums
  <2> QED BY <2>6
<1>3. Nat \subseteq S
  <2> HIDE DEF S
  <2> QED BY <1>1, <1>2, AllNaturals
<1>4. Cardinality(lines) \in Nat /\ Upto(Cardinality(lines)) = SUBSET lines
  <2>1. \A s \in SUBSET lines : Cardinality(s) <= Cardinality(lines)
    BY FS_Subset
  <2> QED BY <2>1, FS_CardinalityType
<1>5. PICK g \in [SUBSET lines -> Nat] : \A s \in SUBSET lines : g[s] = Adding(g, s)
  <2>1. Sums(Cardinality(lines)) # {}
    <3> HIDE DEF Sums
    <3> QED BY <1>3, <1>4
  <2> HIDE DEF Upto
  <2> QED BY <1>4, <2>1
<1> QED BY <1>5

LEMMA SubtotalsAreNatural ==
  ASSUME NEW lines, IsFiniteSet(lines), lines \subseteq LineSet
  PROVE  Subtotal(lines) \in Nat
<1> DEFINE Upto(n) == {s \in SUBSET lines : Cardinality(s) <= n}
           total == CHOOSE total : total = [s \in SUBSET lines |-> Adding(total, s)]
           S == {n \in Nat : \A s \in Upto(n) : total[s] \in Nat}
<1>1. total = [s \in SUBSET lines |-> Adding(total, s)]
  BY SumExists
<1> HIDE DEF total
<1>2. \A s \in SUBSET lines : total[s] = Adding(total, s)
  BY <1>1
<1>3. 0 \in S
  <2>1. \A s \in Upto(0) : s = {}
    BY FS_Subset, FS_CardinalityType, FS_EmptySet
  <2>2. \A s \in Upto(0) : total[s] = 0
    BY <1>2, <2>1 DEF Adding
  <2> QED BY <2>2
<1>4. ASSUME NEW n \in Nat, n \in S PROVE n + 1 \in S
  <2>1. ASSUME NEW s \in Upto(n + 1) PROVE total[s] \in Nat
    <3>1. CASE s = {}
      BY <1>2, <3>1 DEF Adding
    <3>2. CASE s # {}
      <4> DEFINE l == CHOOSE l \in s : TRUE
      <4>1. /\ l \in s /\ s \ {l} \in SUBSET lines
            /\ Cardinality(s \ {l}) \in Nat /\ Cardinality(s \ {l}) <= n
        BY <3>2, LineLess
      <4>2. total[s] = l.subtotal + total[s \ {l}]
        BY <1>2, <3>2 DEF Adding
      <4> HIDE DEF l
      <4>3. l.subtotal \in Nat /\ total[s \ {l}] \in Nat
        BY <1>4, <4>1 DEF LineSet
      <4> QED BY <4>2, <4>3
    <3> QED BY <3>1, <3>2
  <2> QED BY <2>1
<1>5. Nat \subseteq S
  <2> HIDE DEF S
  <2> QED BY <1>3, <1>4, AllNaturals
<1>6. Cardinality(lines) \in Nat /\ lines \in Upto(Cardinality(lines))
  BY FS_CardinalityType
<1>7. total[lines] \in Nat
  BY <1>5, <1>6
<1> QED BY <1>7, SumUnfolds DEF total

-----------------------------------------------------------------------------
(* Coupons: discounts and uses *)

LEMMA ProductsCompare ==
  ASSUME NEW a \in Nat, NEW b \in Nat
  PROVE  /\ a * b \in Nat
         /\ b <= 100 => a * b <= 100 * a
<1>1. a * b \in Nat
  BY SMT
<1>2. ASSUME b <= 100 PROVE a * b <= 100 * a
  <2>1. 100 - b \in Nat
    BY <1>2
  <2>2. a * (100 - b) \in Nat
    BY <2>1, SMT
  <2>3. a * (100 - b) = 100 * a - a * b
    BY SMT
  <2> QED BY <1>1, <2>2, <2>3
<1> QED BY <1>1, <1>2

LEMMA PercentOf ==
  ASSUME NEW a \in Nat, NEW b \in Nat
  PROVE  /\ (a * b) \div 100 \in Nat
         /\ b <= 100 => (a * b) \div 100 <= a
<1> DEFINE c == a * b
<1>1. c \in Nat /\ (b <= 100 => c <= 100 * a)
  BY ProductsCompare
<1> HIDE DEF c
<1>2. c \div 100 \in Nat /\ (c <= 100 * a => c \div 100 <= a)
  BY <1>1, SMT
<1> QED BY <1>1, <1>2 DEF c

LEMMA LinesAreWorth ==
  ASSUME NEW row, NEW lines \in Lines \cup {{}}
  PROVE  EligibleSubtotal(row, lines) \in Nat
<1> DEFINE eligible == {l \in lines : row.restricted => l.applicable}
<1>1. lines \subseteq LineSet /\ IsFiniteSet(lines)
  BY CouponsAssumption, FS_EmptySet
<1>2. eligible \subseteq LineSet /\ IsFiniteSet(eligible)
  BY <1>1, FS_Subset
<1> HIDE DEF eligible
<1>3. Subtotal(eligible) \in Nat
  BY <1>2, SubtotalsAreNatural
<1> QED BY <1>3 DEF EligibleSubtotal, eligible

\* A discount is an amount, and at most what the lines are worth.
LEMMA DiscountIsWithin ==
  ASSUME NEW row \in CouponRow, NEW lines \in Lines \cup {{}}
  PROVE  /\ Discount(row, lines) \in Nat
         /\ (row.type = "PERCENTAGE" => row.value <= 100) =>
              Discount(row, lines) <= EligibleSubtotal(row, lines)
<1> DEFINE eligible == EligibleSubtotal(row, lines)
           part     == (eligible * row.value) \div 100
<1>1. eligible \in Nat
  BY LinesAreWorth
<1>2. /\ row.value \in Nat /\ row.type \in Type /\ row.maxDiscount \in Nat \cup {Absent}
  BY CouponsAssumption DEF CouponRow
<1>3. part \in Nat /\ (row.value <= 100 => part <= eligible)
  <2> HIDE DEF eligible
  <2> QED BY <1>1, <1>2, PercentOf
<1>4. Discount(row, lines) =
        CASE row.type = "FIXED" -> Least(row.value, eligible)
          [] row.type = "PERCENTAGE" /\ row.maxDiscount # Absent -> Least(part, row.maxDiscount)
          [] OTHER -> part
  BY DEF Discount, AmountOff
<1> HIDE DEF eligible, part
<1>5. CASE row.type = "FIXED"
  <2>1. Discount(row, lines) = Least(row.value, eligible)
    BY <1>4, <1>5
  <2> QED BY <1>1, <1>2, <1>5, <2>1 DEF Least, eligible
<1>6. CASE row.type = "PERCENTAGE" /\ row.maxDiscount # Absent
  <2>1. Discount(row, lines) = Least(part, row.maxDiscount)
    BY <1>4, <1>6
  <2> QED BY <1>1, <1>2, <1>3, <1>6, <2>1 DEF Least, eligible
<1>7. CASE row.type = "PERCENTAGE" /\ row.maxDiscount = Absent
  <2>1. Discount(row, lines) = part
    BY <1>4, <1>7
  <2> QED BY <1>1, <1>2, <1>3, <1>7, <2>1 DEF eligible
<1> QED BY <1>2, <1>5, <1>6, <1>7 DEF Type

LEMMA EditsTyped ==
  ASSUME NEW row \in CouponRow, NEW new \in Edited(row)
  PROVE  new \in CouponRow /\ new.used = row.used
<1>1. ASSUME NEW type \in Type \cup {Absent}, NEW value \in Values \cup {Absent}
      PROVE  Priced(row, type, value) \in CouponRow /\ Priced(row, type, value).used = row.used
  <2> DEFINE t == IF type = Absent THEN row.type ELSE type
             v == IF value = Absent THEN row.value ELSE value
  <2>1. t \in Type /\ v \in Values
    BY DEF CouponRow
  <2>2. Priced(row, type, value) = [row EXCEPT !.type = t, !.value = v]
    BY DEF Priced
  <2> HIDE DEF t, v
  <2> QED BY <2>1, <2>2 DEF CouponRow
<1>2. ASSUME NEW payload \in {p \in (Type \cup {Absent}) \X (Values \cup {Absent}) :
                                ValidPayload(p[1], p[2])},
             new = Priced(row, payload[1], payload[2])
      PROVE  new \in CouponRow /\ new.used = row.used
  BY <1>1, <1>2
<1>3. CASE \/ \E limit \in Limits : new = [row EXCEPT !.limit = limit]
           \/ \E active \in BOOLEAN : new = [row EXCEPT !.active = active]
           \/ \E restricted \in BOOLEAN : new = [row EXCEPT !.restricted = restricted]
           \/ \E least \in Minimums : new = [row EXCEPT !.minSubtotal = least]
           \/ \E most \in Caps : new = [row EXCEPT !.maxDiscount = most]
  BY <1>3, CouponsAssumption DEF CouponRow
<1> QED BY <1>2, <1>3 DEF Edited

\* The use of an order that is about to commit has been counted.
UsesCounted ==
  /\ CouponsTypeOK
  /\ \A o \in Checkout : checkout[o].pc = "commit" => coupon[checkout[o].coupon].used > 0

LEMMA DeletionTyped ==
  ASSUME NEW row \in CouponRow
  PROVE  LET new == [row EXCEPT !.status = "DELETED", !.active = FALSE] IN
           new \in CouponRow /\ new.used = row.used
BY DEF CouponRow

LEMMA NoCouponYet ==
  NoCouponRow \in CouponRow /\ NoCheckout \in CheckoutState /\ NoEdit \in EditorState
<1>1. Anything \in Values /\ (CHOOSE l \in Limits : TRUE) \in Limits
  BY CouponsAssumption DEF Anything
<1>2. NoCouponRow \in CouponRow
  <2> DEFINE limit == CHOOSE l \in Limits : TRUE
             value == Anything
  <2> HIDE DEF limit, value
  <2>1. NoCouponRow =
          [status |-> "NONE", active |-> FALSE, running |-> FALSE, type |-> "PERCENTAGE",
           value |-> value, restricted |-> FALSE, minSubtotal |-> 0, maxDiscount |-> Absent,
           limit |-> limit, used |-> 0]
    BY DEF NoCouponRow, limit, value
  <2>2. limit \in Limits /\ value \in Values
    BY <1>1 DEF limit, value
  <2> QED BY <2>1, <2>2 DEF CouponRow, Type
<1> QED BY <1>2 DEF NoCheckout, CheckoutState, NoEdit, EditorState

LEMMA UsesStart == CouponsInit => UsesCounted
<1> SUFFICES ASSUME CouponsInit PROVE UsesCounted
  OBVIOUS
<1>1. CouponsTypeOK
  BY NoCouponYet, CouponsAssumption DEF CouponsInit, CouponsTypeOK
<1>2. \A o \in Checkout : checkout[o].pc = "idle"
  BY NoCheckoutIdle DEF CouponsInit
<1> QED BY <1>1, <1>2 DEF UsesCounted

\* Whose use is counted holds the coupon, so that nobody else takes uses off it.
LEMMA CountedKept ==
  ASSUME UsesCounted, CouponInv, CouponsTypeOK',
         \A o \in Checkout : checkout'[o].pc = "commit" =>
           /\ checkout[o].pc = "commit" /\ checkout'[o].coupon = checkout[o].coupon
           /\ LET k == checkout[o].coupon IN
                lockedBy[k] = o /\ k \in CouponId => coupon'[k].used >= coupon[k].used
  PROVE  UsesCounted'
<1>1. \A o \in Checkout : checkout[o].pc = "commit" =>
        LET k == checkout[o].coupon IN
          /\ k \in CouponId /\ lockedBy[k] = o /\ coupon[k].used > 0
          /\ coupon[k].used \in Nat /\ coupon'[k].used \in Nat
  BY DEF CouponInv, OrderHolds, Holding, UsesCounted, CouponsTypeOK, CouponRow
<1> QED BY <1>1 DEF UsesCounted

LEMMA CheckoutCounted ==
  ASSUME UsesCounted, CouponInv, NEW o \in Checkout,
         \/ \E k \in CouponId, lines \in Lines : BeginCheckout(o, k, lines)
         \/ LockCoupon(o) \/ ReadCoupon(o) \/ UseCoupon(o) \/ CommitOrder(o) \/ CheckoutFails(o)
  PROVE  UsesCounted'
<1> DEFINE k == checkout[o].coupon
<1>t. /\ CouponsTypeOK /\ coupon \in [CouponId -> CouponRow]
      /\ lockedBy \in [CouponId -> Checkout \cup {Absent}]
      /\ checkout \in [Checkout -> CheckoutState] /\ checkout[o] \in CheckoutState
      /\ editor \in [Editor -> EditorState] /\ couponChanges \in 0..MaxCouponChanges
      /\ checkout[o].pc # "idle" => k \in CouponId
      /\ o # Absent
  BY CouponsAssumption DEF UsesCounted, CouponsTypeOK, CouponInv, OrderHolds
\* An order that does not come to the commit, nor gives a use back that is not its own.
<1>0. ASSUME NEW c \in CheckoutState, c.pc # "commit", checkout' = [checkout EXCEPT ![o] = c],
             lockedBy' \in [CouponId -> Checkout \cup {Absent}], UNCHANGED <<editor, couponChanges>>,
             coupon' \in [CouponId -> CouponRow],
             \A l \in CouponId : lockedBy[l] # o => coupon'[l] = coupon[l]
      PROVE  UsesCounted'
  <2>1. CouponsTypeOK'
    BY <1>0, <1>t DEF CouponsTypeOK
  <2>2. /\ checkout'[o] = c /\ \A p \in Checkout \ {o} : checkout'[p] = checkout[p]
    BY <1>0, <1>t
  <2>3. \A l \in CouponId : coupon[l].used \in Nat
    BY <1>t DEF CouponRow
  <2>4. ASSUME NEW p \in Checkout, checkout'[p].pc = "commit"
        PROVE  /\ checkout[p].pc = "commit" /\ checkout'[p].coupon = checkout[p].coupon
               /\ LET l == checkout[p].coupon IN
                    lockedBy[l] = p /\ l \in CouponId => coupon'[l].used >= coupon[l].used
    <3>1. p # o
      BY <1>0, <2>2, <2>4
    <3> QED BY <1>0, <2>2, <2>3, <2>4, <3>1
  <2> QED BY <2>1, <2>4, CountedKept
<1>e. ASSUME EndCheckout(o)
      PROVE  /\ checkout' = [checkout EXCEPT ![o] = NoCheckout]
             /\ lockedBy' \in [CouponId -> Checkout \cup {Absent}]
             /\ NoCheckout \in CheckoutState /\ NoCheckout.pc # "commit"
  BY <1>e, <1>t, NoCouponYet, NoCheckoutIdle DEF EndCheckout
<1>1. ASSUME NEW l \in CouponId, NEW lines \in Lines, BeginCheckout(o, l, lines) PROVE UsesCounted'
  <2> DEFINE c == [pc |-> "lock", coupon |-> l, lines |-> lines, discount |-> 0]
  <2>1. /\ checkout' = [checkout EXCEPT ![o] = c]
        /\ UNCHANGED <<coupon, lockedBy, editor, couponChanges>>
    BY <1>1 DEF BeginCheckout
  <2>2. c \in CheckoutState /\ c.pc # "commit"
    BY DEF CheckoutState
  <2> HIDE DEF c
  <2> QED BY <1>0, <1>t, <2>1, <2>2
<1>2. CASE LockCoupon(o)
  <2> DEFINE c == [checkout[o] EXCEPT !.pc = "read"]
  <2>1. /\ checkout' = [checkout EXCEPT ![o] = c]
        /\ lockedBy' = [lockedBy EXCEPT ![k] = o]
        /\ UNCHANGED <<coupon, editor, couponChanges>>
    BY <1>2 DEF LockCoupon, CheckoutGoes
  <2>2. c \in CheckoutState /\ c.pc # "commit"
    BY <1>t DEF CheckoutState
  <2>3. lockedBy' \in [CouponId -> Checkout \cup {Absent}]
    BY <1>t, <2>1
  <2> HIDE DEF c
  <2> QED BY <1>0, <1>t, <2>1, <2>2, <2>3
<1>3. CASE ReadCoupon(o)
  <2>1. /\ checkout[o].pc = "read" /\ UNCHANGED <<coupon, editor, couponChanges>>
    BY <1>3 DEF ReadCoupon
  <2>2. CASE EndCheckout(o)
    BY <1>0, <1>e, <1>t, <2>1, <2>2
  <2>3. CASE /\ UNCHANGED lockedBy
             /\ checkout' = [checkout EXCEPT ![o] =
                  [checkout[o] EXCEPT !.pc = "use",
                                      !.discount = Discount(coupon[k], checkout[o].lines)]]
    <3> DEFINE d == Discount(coupon[k], checkout[o].lines)
               c == [checkout[o] EXCEPT !.pc = "use", !.discount = d]
    <3>1. checkout' = [checkout EXCEPT ![o] = c]
      BY <2>3
    <3>2. coupon[k] \in CouponRow /\ checkout[o].lines \in Lines \cup {{}}
      BY <1>t, <2>1 DEF CheckoutState
    <3>3. d \in Nat
      BY <3>2, DiscountIsWithin
    <3> HIDE DEF d
    <3>4. c \in CheckoutState /\ c.pc # "commit"
      BY <1>t, <3>3 DEF CheckoutState
    <3> HIDE DEF c
    <3> QED BY <1>0, <1>t, <2>1, <2>3, <3>1, <3>4
  <2> QED BY <1>3, <2>2, <2>3 DEF ReadCoupon
<1>4. CASE UseCoupon(o)
  <2> DEFINE used == [coupon[k] EXCEPT !.used = @ + 1]
             c == [checkout[o] EXCEPT !.pc = "commit"]
  <2>1. /\ checkout' = [checkout EXCEPT ![o] = c] /\ checkout[o].pc = "use"
        /\ coupon' = [coupon EXCEPT ![k] = used]
        /\ UNCHANGED <<lockedBy, editor, couponChanges>>
    BY <1>4 DEF UseCoupon, CheckoutGoes
  <2>2. /\ k \in CouponId /\ coupon[k] \in CouponRow /\ coupon[k].used \in Nat
        /\ used \in CouponRow /\ used.used = coupon[k].used + 1
    BY <1>t, <2>1 DEF CouponRow
  <2>3. c \in CheckoutState /\ c.pc = "commit" /\ c.coupon = k
    BY <1>t DEF CheckoutState
  <2> HIDE DEF c, used
  <2>4. /\ checkout' \in [Checkout -> CheckoutState] /\ checkout'[o] = c
        /\ \A p \in Checkout \ {o} : checkout'[p] = checkout[p]
        /\ coupon' \in [CouponId -> CouponRow] /\ coupon'[k] = used
        /\ \A l \in CouponId \ {k} : coupon'[l] = coupon[l]
    BY <1>t, <2>1, <2>2, <2>3
  <2>5. CouponsTypeOK'
    BY <1>t, <2>1, <2>4 DEF CouponsTypeOK
  <2>6. ASSUME NEW p \in Checkout, checkout'[p].pc = "commit"
        PROVE  coupon'[checkout'[p].coupon].used > 0
    <3>1. CASE p = o
      BY <2>2, <2>3, <2>4, <3>1
    <3>2. CASE p # o
      <4>1. /\ checkout[p].pc = "commit" /\ checkout'[p] = checkout[p]
            /\ checkout[p].coupon \in CouponId /\ lockedBy[checkout[p].coupon] = p
            /\ coupon[checkout[p].coupon].used > 0
        BY <2>4, <2>6, <3>2 DEF UsesCounted, CouponInv, OrderHolds, Holding
      <4>2. lockedBy[k] = o
        BY <2>1 DEF CouponInv, OrderHolds, Holding
      <4> QED BY <2>4, <3>2, <4>1, <4>2
    <3> QED BY <3>1, <3>2
  <2> QED BY <2>5, <2>6 DEF UsesCounted
<1>5. CASE CommitOrder(o)
  <2>1. EndCheckout(o) /\ UNCHANGED <<coupon, editor, couponChanges>>
    BY <1>5 DEF CommitOrder
  <2> QED BY <1>0, <1>e, <1>t, <2>1
<1>6. CASE CheckoutFails(o)
  <2>1. /\ EndCheckout(o) /\ k \in CouponId /\ UNCHANGED <<editor, couponChanges>>
        /\ coupon' = IF checkout[o].pc = "commit" THEN [coupon EXCEPT ![k].used = @ - 1]
                     ELSE coupon
    BY <1>6, <1>t DEF CheckoutFails
  <2>2. CASE UNCHANGED coupon
    BY <1>0, <1>e, <1>t, <2>1, <2>2
  <2>3. CASE checkout[o].pc = "commit"
    <3> DEFINE back == [coupon[k] EXCEPT !.used = @ - 1]
    <3>1. coupon[k].used > 0 /\ coupon[k].used \in Nat /\ lockedBy[k] = o
      BY <1>t, <2>1, <2>3 DEF UsesCounted, CouponRow, CouponInv, OrderHolds, Holding
    <3>2. back \in CouponRow
      <4>1. coupon[k].used - 1 \in Nat
        BY <3>1
      <4> QED BY <1>t, <2>1, <4>1 DEF CouponRow
    <3>3. coupon' = [coupon EXCEPT ![k] = back]
      BY <2>1, <2>3
    <3> HIDE DEF back
    <3>4. /\ coupon' \in [CouponId -> CouponRow]
          /\ \A l \in CouponId \ {k} : coupon'[l] = coupon[l]
      BY <1>t, <2>1, <3>2, <3>3
    <3>5. \A l \in CouponId : lockedBy[l] # o => coupon'[l] = coupon[l]
      BY <3>1, <3>4
    <3> QED BY <1>0, <1>e, <2>1, <3>4, <3>5
  <2> QED BY <2>1, <2>2, <2>3
<1> QED BY <1>1, <1>2, <1>3, <1>4, <1>5, <1>6

LEMMA UsesStepInv == UsesCounted /\ CouponInv /\ [CouponsStep]_couponVars => UsesCounted'
<1> SUFFICES ASSUME UsesCounted, CouponInv, [CouponsStep]_couponVars PROVE UsesCounted'
  OBVIOUS
<1>t. /\ coupon \in [CouponId -> CouponRow] /\ lockedBy \in [CouponId -> Checkout \cup {Absent}]
      /\ checkout \in [Checkout -> CheckoutState]
      /\ editor \in [Editor -> EditorState] /\ couponChanges \in 0..MaxCouponChanges
      /\ MaxCouponChanges \in Nat
  BY CouponsAssumption DEF UsesCounted, CouponsTypeOK
\* A step that is no order's, and takes uses only off a coupon that no order holds.
<1>0. ASSUME UNCHANGED <<checkout, lockedBy>>, coupon' \in [CouponId -> CouponRow],
             editor' \in [Editor -> EditorState], couponChanges' \in 0..MaxCouponChanges,
             \A k \in CouponId : coupon'[k].used # coupon[k].used =>
               lockedBy[k] = Absent \/ coupon[k].status = "NONE"
      PROVE  UsesCounted'
  <2>1. CouponsTypeOK'
    BY <1>0, <1>t DEF CouponsTypeOK
  <2>2. ASSUME NEW o \in Checkout, checkout[o].pc = "commit"
        PROVE  LET k == checkout[o].coupon IN
                 lockedBy[k] = o /\ k \in CouponId => coupon'[k].used >= coupon[k].used
    <3> DEFINE k == checkout[o].coupon
    <3>1. k \in CouponId /\ coupon[k].status # "NONE" /\ lockedBy[k] = o /\ o # Absent
      BY <2>2, CouponsAssumption DEF CouponInv, OrderHolds, Holding
    <3>2. coupon'[k].used = coupon[k].used /\ coupon[k].used \in Nat
      BY <1>0, <1>t, <3>1 DEF CouponRow
    <3> QED BY <3>2
  <2> QED BY <1>0, <2>1, <2>2, CountedKept
<1>1. ASSUME NEW e \in Editor, NEW r \in EditorState, editor' = [editor EXCEPT ![e] = r]
      PROVE  editor' \in [Editor -> EditorState]
  BY <1>1, <1>t
\* One coupon takes a new row.
<1>2. ASSUME NEW k \in CouponId, NEW row \in CouponRow, coupon' = [coupon EXCEPT ![k] = row],
             row.used # coupon[k].used => lockedBy[k] = Absent \/ coupon[k].status = "NONE"
      PROVE  /\ coupon' \in [CouponId -> CouponRow]
             /\ \A l \in CouponId : coupon'[l].used # coupon[l].used =>
                  lockedBy[l] = Absent \/ coupon[l].status = "NONE"
  <2>1. /\ coupon' \in [CouponId -> CouponRow] /\ coupon'[k] = row
        /\ \A l \in CouponId \ {k} : coupon'[l] = coupon[l]
    BY <1>2, <1>t
  <2> QED BY <1>2, <2>1
<1>3. ASSUME NEW k \in CouponId, ReturnUse(k) PROVE UsesCounted'
  <2> DEFINE row == [coupon[k] EXCEPT !.used = @ - 1]
  <2>1. /\ coupon' = [coupon EXCEPT ![k] = row] /\ lockedBy[k] = Absent /\ coupon[k].used > 0
        /\ UNCHANGED <<checkout, lockedBy, editor, couponChanges>>
    BY <1>3 DEF ReturnUse, Unlocked
  <2>2. row \in CouponRow
    <3>1. coupon[k] \in CouponRow /\ coupon[k].used - 1 \in Nat
      BY <1>t, <2>1 DEF CouponRow
    <3> QED BY <3>1 DEF CouponRow
  <2> HIDE DEF row
  <2> QED BY <1>0, <1>2, <1>t, <2>1, <2>2
<1>4. ASSUME NEW k \in CouponId, ClockTicks(k) PROVE UsesCounted'
  <2> DEFINE row == [coupon[k] EXCEPT !.running = ~@]
  <2>1. /\ coupon' = [coupon EXCEPT ![k] = row] /\ UNCHANGED <<checkout, lockedBy, editor>>
        /\ couponChanges < MaxCouponChanges /\ couponChanges' = couponChanges + 1
    BY <1>4 DEF ClockTicks
  <2>2. row \in CouponRow /\ row.used = coupon[k].used
    BY <1>t DEF CouponRow
  <2>3. couponChanges' \in 0..MaxCouponChanges
    BY <1>t, <2>1
  <2> HIDE DEF row
  <2> QED BY <1>0, <1>2, <1>t, <2>1, <2>2, <2>3
<1>5. ASSUME NEW e \in Editor, CouponRequested(e) PROVE couponChanges' \in 0..MaxCouponChanges
  BY <1>5, <1>t DEF CouponRequested
<1>6. ASSUME NEW e \in Editor, NEW k \in CouponId, NEW type \in Type, NEW value \in Values,
             NEW limit \in Limits, CreateCoupon(e, k, type, value, limit)
      PROVE  UsesCounted'
  <2>1. PICK restricted \in BOOLEAN, least \in Minimums, most \in Caps :
          coupon' = [coupon EXCEPT ![k] =
            [status |-> "PRESENT", active |-> TRUE, running |-> TRUE, type |-> type,
             value |-> value, restricted |-> restricted, minSubtotal |-> least,
             maxDiscount |-> most, limit |-> limit, used |-> 0]]
    BY <1>6 DEF CreateCoupon
  <2> DEFINE row ==
    [status |-> "PRESENT", active |-> TRUE, running |-> TRUE, type |-> type,
     value |-> value, restricted |-> restricted, minSubtotal |-> least,
     maxDiscount |-> most, limit |-> limit, used |-> 0]
  <2>2. row \in CouponRow
    BY CouponsAssumption DEF CouponRow
  <2>3. coupon' = [coupon EXCEPT ![k] = row]
    BY <2>1
  <2> HIDE DEF row
  <2>4. /\ coupon[k].status = "NONE" /\ UNCHANGED <<checkout, lockedBy, editor>>
        /\ CouponRequested(e)
    BY <1>6 DEF CreateCoupon
  <2> QED BY <1>0, <1>2, <1>5, <1>t, <2>2, <2>3, <2>4
<1>7. ASSUME NEW e \in Editor, NEW k \in CouponId, NEW pc \in {"save", "remove"},
             FindCoupon(e, k, pc)
      PROVE  UsesCounted'
  <2> DEFINE r == [pc |-> pc, coupon |-> k]
  <2>1. /\ editor' = [editor EXCEPT ![e] = r] /\ CouponRequested(e)
        /\ UNCHANGED <<coupon, lockedBy, checkout>>
    BY <1>7 DEF FindCoupon
  <2>2. r \in EditorState
    BY DEF EditorState
  <2> HIDE DEF r
  <2> QED BY <1>0, <1>1, <1>5, <1>t, <2>1, <2>2
<1>8. ASSUME NEW e \in Editor, UpdateCoupon(e) \/ DeleteCoupon(e) \/ EditorFails(e)
      PROVE  UsesCounted'
  <2> DEFINE k == editor[e].coupon
  <2>1. /\ editor' = [editor EXCEPT ![e] = NoEdit]
        /\ UNCHANGED <<lockedBy, checkout, couponChanges>>
        /\ \/ UNCHANGED coupon
           \/ \E row \in Edited(coupon[k]) :
                coupon[k].status = "PRESENT" /\ coupon' = [coupon EXCEPT ![k] = row]
           \/ coupon' = [coupon EXCEPT ![k] =
                [coupon[k] EXCEPT !.status = "DELETED", !.active = FALSE]]
    BY <1>8 DEF UpdateCoupon, DeleteCoupon, EditorFails
  <2>2. editor' \in [Editor -> EditorState]
    BY <1>1, <2>1, NoCouponYet
  <2>3. CASE UNCHANGED coupon
    BY <1>0, <1>t, <2>1, <2>2, <2>3
  <2>4. CASE k \notin CouponId
    <3>1. UNCHANGED coupon
      BY <1>t, <2>1, <2>4
    <3> QED BY <2>3, <3>1
  <2>5. ASSUME k \in CouponId, NEW row \in Edited(coupon[k]), coupon' = [coupon EXCEPT ![k] = row]
        PROVE  UsesCounted'
    <3>1. row \in CouponRow /\ row.used = coupon[k].used
      BY <1>t, <2>5, EditsTyped
    <3> QED BY <1>0, <1>2, <1>t, <2>1, <2>2, <2>5, <3>1
  <2>6. ASSUME k \in CouponId,
               coupon' = [coupon EXCEPT ![k] =
                 [coupon[k] EXCEPT !.status = "DELETED", !.active = FALSE]]
        PROVE  UsesCounted'
    <3> DEFINE row == [coupon[k] EXCEPT !.status = "DELETED", !.active = FALSE]
    <3>1. row \in CouponRow /\ row.used = coupon[k].used
      <4>1. coupon[k] \in CouponRow
        BY <1>t, <2>6
      <4> QED BY <4>1, DeletionTyped
    <3>2. coupon' = [coupon EXCEPT ![k] = row]
      BY <2>6
    <3> HIDE DEF row
    <3> QED BY <1>0, <1>2, <1>t, <2>1, <2>2, <2>6, <3>1, <3>2
  <2> QED BY <2>1, <2>3, <2>4, <2>5, <2>6
<1>9. CASE UNCHANGED couponVars
  BY <1>0, <1>9, <1>t DEF couponVars
<1>10. ASSUME NEW o \in Checkout,
              \/ \E k \in CouponId, lines \in Lines : BeginCheckout(o, k, lines)
              \/ LockCoupon(o) \/ ReadCoupon(o) \/ UseCoupon(o) \/ CommitOrder(o)
              \/ CheckoutFails(o)
       PROVE  UsesCounted'
  BY <1>10, CheckoutCounted
<1> QED
  BY <1>3, <1>4, <1>6, <1>7, <1>8, <1>9, <1>10 DEF CouponsStep

LEMMA DiscountsStayWithin == UsesCounted /\ CouponInv => DiscountsWithinOrder
<1> SUFFICES ASSUME UsesCounted, CouponInv, NEW o \in Checkout,
                    checkout[o].pc \in {"use", "commit"},
                    coupon[checkout[o].coupon].type = "PERCENTAGE" =>
                      coupon[checkout[o].coupon].value <= 100
             PROVE  checkout[o].discount <=
                      EligibleSubtotal(coupon[checkout[o].coupon], checkout[o].lines)
  BY DEF DiscountsWithinOrder
<1>1. /\ checkout[o].coupon \in CouponId
      /\ checkout[o].discount = Discount(coupon[checkout[o].coupon], checkout[o].lines)
  BY DEF CouponInv, OrderHolds
<1>2. coupon[checkout[o].coupon] \in CouponRow /\ checkout[o].lines \in Lines \cup {{}}
  BY <1>1 DEF UsesCounted, CouponsTypeOK, CheckoutState
<1> QED BY <1>1, <1>2, DiscountIsWithin

\* No order gets more off than the lines its coupon applies to are worth, unless an edit
\* left the coupon with more than 100 percent.
THEOREM DiscountsAreWithinOrder == Spec => []DiscountsWithinOrder
<1>1. UsesCounted /\ CouponInv => DiscountsWithinOrder
  BY DiscountsStayWithin
<1>2. Init => UsesCounted /\ CouponInv
  BY UsesStart, CouponsStart DEF Init
<1>3. UsesCounted /\ CouponInv /\ [Next]_vars => UsesCounted' /\ CouponInv'
  BY UsesStepInv, CouponStepInv, AreasAreApart
<1> QED BY <1>1, <1>2, <1>3, PTL DEF Spec

-----------------------------------------------------------------------------
(* Branches and connections *)

\* A request that writes a branch asks for a status of a branch, and one that writes a
\* connection for a status of a connection.
RequestsFit ==
  /\ PremisesTypeOK
  /\ \A o \in Operator :
       /\ operator[o].pc \in {"create", "update"} => operator[o].status \in BranchStatus
       /\ operator[o].pc = "connection" => operator[o].status \in ConnectionStatus

LEMMA PremisesTypedStart == PremisesInit => RequestsFit
<1> SUFFICES ASSUME PremisesInit PROVE RequestsFit
  OBVIOUS
<1>1. PremisesTypeOK /\ \A o \in Operator : operator[o] = NoOperation
  BY Unoccupied DEF PremisesInit, PremisesTypeOK, BranchRow
<1> QED BY <1>1, Unoccupied DEF RequestsFit

LEMMA PremisesTyped == RequestsFit /\ [PremisesStep]_premisesVars => RequestsFit'
<1> SUFFICES ASSUME RequestsFit, [PremisesStep]_premisesVars PROVE RequestsFit'
  OBVIOUS
<1>t. /\ branch \in [Branch -> BranchRow]
      /\ connection \in [ConnectionId -> ConnectionStatus \cup {"NONE"}]
      /\ operator \in [Operator -> OperatorState]
  BY DEF RequestsFit, PremisesTypeOK
<1>0. ASSUME NEW o \in Operator, NEW r \in OperatorState, operator' = [operator EXCEPT ![o] = r],
             r.pc \in {"create", "update"} => r.status \in BranchStatus,
             r.pc = "connection" => r.status \in ConnectionStatus,
             branch' \in [Branch -> BranchRow],
             connection' \in [ConnectionId -> ConnectionStatus \cup {"NONE"}]
      PROVE  RequestsFit'
  <2>1. /\ operator' \in [Operator -> OperatorState] /\ operator'[o] = r
        /\ \A p \in Operator \ {o} : operator'[p] = operator[p]
    BY <1>0, <1>t
  <2> QED BY <1>0, <2>1 DEF RequestsFit, PremisesTypeOK
<1>1. ASSUME NEW o \in Operator, NEW r \in OperatorState, Begin(o, r),
             r.pc \in {"create", "update"} => r.status \in BranchStatus,
             r.pc = "connection" => r.status \in ConnectionStatus
      PROVE  RequestsFit'
  BY <1>0, <1>1, <1>t DEF Begin
<1>2. ASSUME NEW o \in Operator, Finish(o), branch' \in [Branch -> BranchRow],
             connection' \in [ConnectionId -> ConnectionStatus \cup {"NONE"}]
      PROVE  RequestsFit'
  BY <1>0, <1>2, Unoccupied DEF Finish
<1>3. ASSUME NEW o \in Operator, NEW asMain \in BOOLEAN, NEW status \in BranchStatus,
             ReadForBranch(o, asMain, status)
      PROVE  RequestsFit'
  <2> DEFINE r == [NoOperation EXCEPT !.pc = "create", !.asMain = asMain, !.status = status]
  <2>1. Begin(o, r)
    BY <1>3 DEF ReadForBranch
  <2>2. r \in OperatorState /\ r.pc = "create" /\ r.status = status
    BY Unoccupied, CreateRequest DEF NoOperation
  <2> HIDE DEF r
  <2> QED BY <1>1, <2>1, <2>2
<1>4. ASSUME NEW o \in Operator, NEW b \in Branch, NEW status \in BranchStatus,
             ReadForBranchUpdate(o, b, status)
      PROVE  RequestsFit'
  <2> DEFINE r == [NoOperation EXCEPT !.pc = "update", !.branch = b, !.status = status]
  <2>1. Begin(o, r)
    BY <1>4 DEF ReadForBranchUpdate
  <2>2. r \in OperatorState /\ r.pc = "update" /\ r.status = status
    BY Unoccupied, UpdateRequest DEF NoOperation
  <2> HIDE DEF r
  <2> QED BY <1>1, <2>1, <2>2
<1>5. ASSUME NEW o \in Operator, CreateBranch(o) PROVE RequestsFit'
  <2>1. PICK b \in Branch : branch' = [branch EXCEPT ![b] =
          [status |-> operator[o].status, isMain |-> operator[o].asMain]]
    BY <1>5 DEF CreateBranch, Branches
  <2>2. operator[o].status \in BranchStatus /\ operator[o].asMain \in BOOLEAN
    BY <1>5, <1>t DEF CreateBranch, RequestsFit, OperatorState
  <2>3. branch' \in [Branch -> BranchRow]
    BY <1>t, <2>1, <2>2 DEF BranchRow
  <2> QED BY <1>2, <1>5, <1>t, <2>3 DEF CreateBranch
<1>6. ASSUME NEW o \in Operator, UpdateBranch(o) PROVE RequestsFit'
  <2> DEFINE b == operator[o].branch
  <2>1. /\ branch' = [branch EXCEPT ![b].status = operator[o].status]
        /\ operator[o].status \in BranchStatus
    BY <1>6 DEF UpdateBranch, RequestsFit
  <2>2. CASE b \notin Branch
    <3>1. branch' = branch
      BY <1>t, <2>1, <2>2
    <3> QED BY <1>2, <1>6, <1>t, <3>1 DEF UpdateBranch
  <2>3. CASE b \in Branch
    <3> DEFINE row == [branch[b] EXCEPT !.status = operator[o].status]
    <3>1. row \in BranchRow
      BY <1>t, <2>1, <2>3 DEF BranchRow
    <3>2. branch' = [branch EXCEPT ![b] = row]
      BY <2>1
    <3> HIDE DEF row
    <3>3. branch' \in [Branch -> BranchRow]
      BY <1>t, <3>1, <3>2
    <3> QED BY <1>2, <1>6, <1>t, <3>3 DEF UpdateBranch
  <2> QED BY <2>2, <2>3
<1>7. ASSUME NEW o \in Operator, ReadForConnect(o) PROVE RequestsFit'
  <2> DEFINE r == [NoOperation EXCEPT !.pc = "connect"]
  <2>1. Begin(o, r)
    BY <1>7 DEF ReadForConnect
  <2>2. r \in OperatorState /\ r.pc = "connect"
    BY Unoccupied, ConnectRequest
  <2> HIDE DEF r
  <2> QED BY <1>1, <2>1, <2>2
<1>8. ASSUME NEW o \in Operator, NEW c \in ConnectionId, NEW status \in ConnectionStatus,
             ReadForConnection(o, c, status)
      PROVE  RequestsFit'
  <2> DEFINE r == [NoOperation EXCEPT !.pc = "connection", !.connection = c, !.status = status]
  <2>1. Begin(o, r)
    BY <1>8 DEF ReadForConnection
  <2>2. r \in OperatorState
    <3>1. c \in 0..MaxConnections
      BY DEF ConnectionId
    <3> QED BY <3>1, Unoccupied, ConnectionRequest
  <2>3. r.pc = "connection" /\ r.status = status
    BY DEF NoOperation
  <2> HIDE DEF r
  <2> QED BY <1>1, <2>1, <2>2, <2>3
<1>9. ASSUME NEW rows \in [ConnectionId -> ConnectionStatus \cup {"NONE"}], NEW c,
             NEW status \in ConnectionStatus
      PROVE  /\ Disconnected(rows, c) \in [ConnectionId -> ConnectionStatus \cup {"NONE"}]
             /\ [rows EXCEPT ![c] = status] \in [ConnectionId -> ConnectionStatus \cup {"NONE"}]
  BY DEF Disconnected, ConnectionStatus
<1>10. ASSUME NEW o \in Operator, CreateConnection(o) PROVE RequestsFit'
  <2>1. PICK c \in ConnectionId :
          connection' = [Disconnected(connection, c) EXCEPT ![c] = "ACTIVE"]
    BY <1>10 DEF CreateConnection
  <2>2. connection' \in [ConnectionId -> ConnectionStatus \cup {"NONE"}]
    <3>1. "ACTIVE" \in ConnectionStatus
      BY DEF ConnectionStatus
    <3>2. Disconnected(connection, c) \in [ConnectionId -> ConnectionStatus \cup {"NONE"}]
      BY <1>9, <1>t, <3>1
    <3> QED BY <1>9, <2>1, <3>1, <3>2
  <2> QED BY <1>2, <1>10, <1>t, <2>2 DEF CreateConnection
<1>11. ASSUME NEW o \in Operator, UpdateConnection(o) PROVE RequestsFit'
  <2> DEFINE c == operator[o].connection
             rows == IF operator[o].status = "ACTIVE" THEN Disconnected(connection, c)
                     ELSE connection
  <2>1. /\ connection' = [rows EXCEPT ![c] = operator[o].status]
        /\ operator[o].status \in ConnectionStatus
    BY <1>11 DEF UpdateConnection, RequestsFit
  <2>2. rows \in [ConnectionId -> ConnectionStatus \cup {"NONE"}]
    BY <1>9, <1>t, <2>1
  <2> HIDE DEF rows
  <2>3. connection' \in [ConnectionId -> ConnectionStatus \cup {"NONE"}]
    BY <1>9, <2>1, <2>2
  <2> QED BY <1>2, <1>11, <1>t, <2>3 DEF UpdateConnection
<1>12. ASSUME NEW o \in Operator, OperatorFails(o) PROVE RequestsFit'
  BY <1>2, <1>12, <1>t DEF OperatorFails
<1>13. CASE UNCHANGED premisesVars
  BY <1>13 DEF premisesVars, RequestsFit, PremisesTypeOK
<1> QED
  BY <1>3, <1>4, <1>5, <1>6, <1>7, <1>8, <1>10, <1>11, <1>12, <1>13 DEF PremisesStep

-----------------------------------------------------------------------------
(* Guests *)

\* What is left of the guests' types beside CountsEarned and CallsTyped.
WaitersTyped ==
  /\ members \in 0..MaxMembers
  /\ waiter \in [Waiter -> WaiterState]
  /\ wrongPins \in 0..MaxWrongPins

LEMMA WaitersStart == GuestsInit => WaitersTyped
BY GuestsAssumption DEF GuestsInit, WaitersTyped, NoService, WaiterState

LEMMA WaitersStep == WaitersTyped /\ [GuestsStep]_guestVars => WaitersTyped'
<1> SUFFICES ASSUME WaitersTyped, [GuestsStep]_guestVars PROVE WaitersTyped'
  OBVIOUS
<1> USE DEF WaitersTyped
<1>1. ASSUME NEW w \in Waiter, NEW pc \in {"accept", "dismiss", "close"}, NEW c \in 0..MaxCalls,
             WaiterGoes(w, pc, c), UNCHANGED <<members, wrongPins>>
      PROVE  WaitersTyped'
  <2>1. [pc |-> pc, call |-> c] \in WaiterState
    BY DEF WaiterState
  <2> QED BY <1>1, <2>1 DEF WaiterGoes
<1>2. ASSUME NEW w \in Waiter, WaiterDone(w), UNCHANGED <<members, wrongPins>>
      PROVE  WaitersTyped'
  <2>1. NoService \in WaiterState
    BY GuestsAssumption DEF NoService, WaiterState
  <2> QED BY <1>2, <2>1 DEF WaiterDone
<1>3. ASSUME NEW w \in Waiter, ReadForAccept(w) \/ ReadForDismiss(w) \/ ReadToClose(w)
      PROVE  WaitersTyped'
  <2>1. CallId \subseteq 0..MaxCalls /\ 0 \in 0..MaxCalls
    BY GuestsAssumption DEF CallId
  <2>2. /\ UNCHANGED <<members, wrongPins>>
        /\ \E pc \in {"accept", "dismiss", "close"}, c \in CallId \cup {0} : WaiterGoes(w, pc, c)
    BY <1>3 DEF ReadForAccept, ReadForDismiss, ReadToClose
  <2> QED BY <1>1, <2>1, <2>2
<1>4. ASSUME NEW w \in Waiter, AcceptCall(w) \/ DismissCall(w) \/ Close(w) \/ WaiterFails(w)
      PROVE  WaitersTyped'
  BY <1>2, <1>4 DEF AcceptCall, DismissCall, Close, WaiterFails
<1>5. ASSUME NEW g \in Guest,
             ReadForJoin(g) \/ AcceptPin(g) \/ ReadForCall(g) \/ CreateCall(g) \/ GuestFails(g)
      PROVE  WaitersTyped'
  BY <1>5 DEF ReadForJoin, AcceptPin, ReadForCall, CreateCall, GuestFails
<1>6. ASSUME NEW g \in Guest, RefusePin(g) PROVE WaitersTyped'
  BY <1>6, GuestsAssumption DEF RefusePin
<1>7. ASSUME NEW g \in Guest, AddMember(g) PROVE WaitersTyped'
  BY <1>7, GuestsAssumption DEF AddMember
<1>8. CASE LockoutEnds
  BY <1>8 DEF LockoutEnds
<1>9. CASE UNCHANGED guestVars
  BY <1>9 DEF guestVars
<1> QED BY <1>3, <1>4, <1>5, <1>6, <1>7, <1>8, <1>9 DEF GuestsStep

-----------------------------------------------------------------------------
(* All areas *)

\* Every area keeps its types, for any values of the constants.
THEOREM TypesAreKept == Spec => []TypeOK
<1> DEFINE Inv == /\ MenuIsTyped /\ UsesCounted /\ CouponInv /\ PhonesLeadToOne
                  /\ AddressesTypeOK /\ RequestsFit
                  /\ CountsEarned /\ CallsTyped /\ WaitersTyped /\ ChosenWanted
<1>1. Inv => TypeOK
  BY DEF MenuIsTyped, UsesCounted, PhonesLeadToOne, RequestsFit, CountsEarned, CallsTyped,
         WaitersTyped, ChosenWanted, GuestsTypeOK, TypeOK
<1>2. Init => Inv
  BY MenuTypedStart, UsesStart, CouponsStart, CustomersStart, AddressesStart, PremisesTypedStart,
     CountsInit, CallsInit, WaitersStart, NoticesStart DEF Init, FoundStands
<1>3. Inv /\ [Next]_vars => Inv'
  BY MenuTyped, UsesStepInv, CouponStepInv, CustomersStepInv, AddressTyped, PremisesTyped,
     CountsStep, CallsStep, WaitersStep, NoticesStepInv, AreasAreApart
<1> QED BY <1>1, <1>2, <1>3, PTL DEF Spec
=============================================================================
