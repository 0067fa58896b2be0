-------------------------- MODULE TableSessionsProofs --------------------------
(***************************************************************************)
(* What holds of the sessions, rounds and bills of any number of tables,   *)
(* guests and employees: any overlap first, then what also needs decisions *)
(* to be made one at a time.                                               *)
(***************************************************************************)
EXTENDS TableSessions, FiniteSetTheorems, TLAPS

Request == Staff \cup Guest

\* What the local state of a request has to have at each step.
Targets(c) ==
  /\ c.pc \in {"readAdd", "readSubmit", "numbered", "inserted", "linked", "readConfirm",
               "locked", "readReject", "found", "unlinked", "deleted", "readClose", "settled",
               "cancelled", "closed"} => c.session \in SessionId
  /\ c.pc \in {"inserted", "linked", "locked", "found", "unlinked", "deleted"}
       => c.round \in RoundId
  /\ c.pc # "locked" => c.locks = {}

HandlersTyped ==
  /\ handler \in [Request -> HandlerState]
  /\ \A h \in Request : Targets(handler[h])

Typed == TypeOK /\ HandlersTyped

-----------------------------------------------------------------------------
(* Local states *)

LEMMA IdleTyped ==
  /\ Idle \in HandlerState
  /\ Targets(Idle)
  /\ Idle.pc = "idle" /\ Idle.locks = {}
  /\ Idle.session = None /\ Idle.confirmedOrder = None
BY SessionsAssumption DEF Idle, HandlerState, Quantities, Nothing, Targets

\* d goes on with what c has read.
GoesOn(c, d) ==
  /\ d.session = c.session
  /\ d.confirmedOrder = c.confirmedOrder
  /\ d.locks = c.locks

\* The first steps of the requests that begin by reading a session.
Beginning == {"readAdd", "readSubmit", "readConfirm", "readReject", "readClose"}

Begun(c, pc, s, o) == [c EXCEPT !.pc = pc, !.session = s, !.confirmedOrder = o]

LEMMA Begins ==
  ASSUME NEW c \in HandlerState, NEW pc \in Beginning, NEW s \in SessionId,
         NEW o \in OrderId \cup {None}
  PROVE  LET d == Begun(c, pc, s, o) IN
           /\ d \in HandlerState /\ d.pc = pc /\ d.session = s /\ d.confirmedOrder = o
           /\ d.locks = c.locks
BY DEF HandlerState, Beginning, Begun

LEMMA BeginsAtTable ==
  ASSUME NEW c \in HandlerState, NEW t \in Table
  PROVE  LET d == [c EXCEPT !.pc = "readStart", !.table = t] IN
           d \in HandlerState /\ d.pc = "readStart" /\ GoesOn(c, d)
BY DEF HandlerState, GoesOn

LEMMA BeginsWithItem ==
  ASSUME NEW c \in HandlerState, NEW i \in ItemId
  PROVE  LET d == [c EXCEPT !.pc = "readEdit", !.item = i] IN
           d \in HandlerState /\ d.pc = "readEdit" /\ GoesOn(c, d)
BY DEF HandlerState, GoesOn

LEMMA Continues ==
  ASSUME NEW c \in HandlerState,
         NEW pc \in {"created", "linked", "unlinked", "deleted", "settled", "cancelled", "closed"}
  PROVE  LET d == [c EXCEPT !.pc = pc] IN
           d \in HandlerState /\ d.pc = pc /\ d.round = c.round /\ GoesOn(c, d)
BY DEF HandlerState, GoesOn

LEMMA ContinuesWith ==
  ASSUME NEW c \in HandlerState, NEW r \in RoundId, NEW pc \in {"inserted", "found"}
  PROVE  LET d == [c EXCEPT !.pc = pc, !.round = r] IN
           d \in HandlerState /\ d.pc = pc /\ d.round = r /\ GoesOn(c, d)
BY DEF HandlerState, GoesOn

WithLocks(c, r, locks, items) ==
  [c EXCEPT !.pc = "locked", !.round = r, !.locks = locks, !.items = items]

LEMMA ContinuesLocked ==
  ASSUME NEW c \in HandlerState, NEW r \in RoundId, NEW locks \in SUBSET RoundId,
         NEW items \in Quantities
  PROVE  LET d == WithLocks(c, r, locks, items) IN
           /\ d \in HandlerState /\ d.pc = "locked" /\ d.round = r /\ d.locks = locks
           /\ d.session = c.session /\ d.confirmedOrder = c.confirmedOrder
BY DEF HandlerState, WithLocks

LEMMA ContinuesNumbered ==
  ASSUME NEW c \in HandlerState, NEW n \in Nat
  PROVE  LET d == [c EXCEPT !.pc = "numbered", !.orderNumber = n] IN
           d \in HandlerState /\ d.pc = "numbered" /\ GoesOn(c, d)
BY DEF HandlerState, GoesOn

-----------------------------------------------------------------------------
(* What the steps of a request do to its local state *)

\* Where the decisions of closing and returning come from.
Arrives(h, d) ==
  /\ d.pc = "settled" => MayClose(d.confirmedOrder)
  /\ d.pc = "cancelled"
       => handler[h].pc = "settled" /\ d.confirmedOrder = handler[h].confirmedOrder
  /\ d.pc = "found" => round[d.round].status = "AWAITING_CONFIRMATION"
  /\ d.pc = "unlinked" => handler[h].pc = "found" /\ d.round = handler[h].round

\* d is what request h may know next, other than what LockRounds reads.
MayKnow(h, d) ==
  /\ d \in HandlerState /\ Targets(d) /\ Arrives(h, d)
  /\ d.pc # "locked" /\ d.locks = {}
  /\ \/ d.session = None /\ d.confirmedOrder = None
     \/ d.session = handler[h].session /\ d.confirmedOrder = handler[h].confirmedOrder
     \/ d.session \in SessionId /\ d.confirmedOrder = session[d.session].confirmedOrder

Moves(h) == \E d : MayKnow(h, d) /\ handler' = [handler EXCEPT ![h] = d]

LEMMA Ends ==
  ASSUME Typed, NEW h \in Request, Done(h)
  PROVE  Moves(h)
BY IdleTyped DEF Done, Moves, MayKnow, Arrives

LEMMA Goes ==
  ASSUME Typed, NEW h \in Request, handler[h].pc # "locked",
         NEW d \in HandlerState, GoesOn(handler[h], d), Targets(d), Arrives(h, d),
         d.pc # "locked",
         handler' = [handler EXCEPT ![h] = d]
  PROVE  Moves(h)
<1>1. d.locks = {}
  BY DEF GoesOn, Typed, HandlersTyped, Targets
<1> QED BY <1>1 DEF GoesOn, Moves, MayKnow

LEMMA GoesTo ==
  ASSUME Typed, NEW h \in Request,
         NEW pc \in {"created", "linked", "unlinked", "deleted", "settled", "cancelled", "closed"},
         handler[h].pc # "locked",
         pc # "created" => handler[h].session \in SessionId,
         pc \in {"linked", "unlinked", "deleted"} => handler[h].round \in RoundId,
         pc = "settled" => MayClose(handler[h].confirmedOrder),
         pc = "cancelled" => handler[h].pc = "settled",
         pc = "unlinked" => handler[h].pc = "found",
         Goto(h, pc)
  PROVE  Moves(h)
<1> DEFINE d == [handler[h] EXCEPT !.pc = pc]
<1>1. handler[h] \in HandlerState
  BY DEF Typed, HandlersTyped
<1>2. d \in HandlerState /\ d.pc = pc /\ d.round = handler[h].round /\ GoesOn(handler[h], d)
  BY <1>1, Continues
<1>3. handler' = [handler EXCEPT ![h] = d]
  BY DEF Goto
<1> HIDE DEF d
<1>4. handler[h].locks = {}
  BY DEF Typed, HandlersTyped, Targets
<1>5. Targets(d) /\ Arrives(h, d)
  BY <1>2, <1>4 DEF Targets, GoesOn, Arrives
<1> QED BY <1>2, <1>3, <1>5, Goes

LEMMA BeginsKnowing ==
  ASSUME Typed, NEW h \in Request, NEW s \in SessionId,
         NEW pc \in Beginning,
         Begin(h, pc, s)
  PROVE  Moves(h)
<1> DEFINE o == session[s].confirmedOrder
           d == Begun(Idle, pc, s, o)
<1>1. o \in OrderId \cup {None} /\ Idle \in HandlerState
  BY IdleTyped DEF Typed, TypeOK, SessionRow
<1>2. /\ d \in HandlerState /\ d.pc = pc /\ d.session = s /\ d.confirmedOrder = o
      /\ d.locks = Idle.locks
  <2> HIDE DEF o
  <2> QED BY <1>1, Begins
<1>3. handler' = [handler EXCEPT ![h] = d]
  BY DEF Begin, Begun
<1> HIDE DEF d
<1>4. Targets(d) /\ d.locks = {}
  BY <1>2, IdleTyped DEF Targets, Beginning
<1> QED BY <1>2, <1>3, <1>4 DEF Moves, MayKnow, Arrives, Beginning

LEMMA StartMoves ==
  ASSUME Typed, NEW h \in Request, StartStep(h)
  PROVE  Moves(h)
<1>1. CASE ReadForStart(h)
  <2>1. PICK t \in Table :
          handler' = [handler EXCEPT ![h] = [Idle EXCEPT !.pc = "readStart", !.table = t]]
    BY <1>1 DEF ReadForStart
  <2> DEFINE d == [Idle EXCEPT !.pc = "readStart", !.table = t]
  <2>2. /\ d \in HandlerState /\ d.pc = "readStart"
        /\ d.session = None /\ d.confirmedOrder = None /\ d.locks = {}
    <3>1. d \in HandlerState /\ d.pc = "readStart" /\ GoesOn(Idle, d)
      BY BeginsAtTable, IdleTyped
    <3> QED BY <3>1, IdleTyped DEF GoesOn
  <2>3. handler' = [handler EXCEPT ![h] = d]
    BY <2>1
  <2> HIDE DEF d
  <2> QED BY <2>2, <2>3 DEF Moves, MayKnow, Targets, Arrives
<1>2. CASE CreateSession(h)
  BY <1>2, Ends, GoesTo DEF CreateSession, At
<1>3. CASE OccupyTable(h)
  BY <1>3, Ends DEF OccupyTable
<1> QED BY <1>1, <1>2, <1>3 DEF StartStep

LEMMA ItemMoves ==
  ASSUME Typed, NEW h \in Request, ItemStep(h)
  PROVE  Moves(h)
<1>1. CASE ReadForAdd(h)
  BY <1>1, BeginsKnowing DEF ReadForAdd, Beginning
<1>2. CASE ReadForEdit(h)
  <2>1. PICK i \in ItemId :
          handler' = [handler EXCEPT ![h] = [Idle EXCEPT !.pc = "readEdit", !.item = i]]
    BY <1>2 DEF ReadForEdit
  <2> DEFINE d == [Idle EXCEPT !.pc = "readEdit", !.item = i]
  <2>2. /\ d \in HandlerState /\ d.pc = "readEdit"
        /\ d.session = None /\ d.confirmedOrder = None /\ d.locks = {}
    <3>1. d \in HandlerState /\ d.pc = "readEdit" /\ GoesOn(Idle, d)
      BY BeginsWithItem, IdleTyped
    <3> QED BY <3>1, IdleTyped DEF GoesOn
  <2>3. handler' = [handler EXCEPT ![h] = d]
    BY <2>1
  <2> HIDE DEF d
  <2> QED BY <2>2, <2>3 DEF Moves, MayKnow, Targets, Arrives
<1>3. CASE AddItem(h) \/ EditItem(h)
  BY <1>3, Ends DEF AddItem, EditItem
<1> QED BY <1>1, <1>2, <1>3 DEF ItemStep

LEMMA SubmitMoves ==
  ASSUME Typed, IsFiniteSet(RoundId), NEW h \in Request, SubmitStep(h)
  PROVE  Moves(h)
<1> USE DEF At
<1>0. handler[h] \in HandlerState /\ Targets(handler[h])
  BY DEF Typed, HandlersTyped
<1>1. CASE ReadForSubmit(h)
  BY <1>1, BeginsKnowing DEF ReadForSubmit, Beginning
<1>2. CASE NumberRound(h)
  <2>1. Cardinality(RoundId) \in Nat
    BY FS_CardinalityType
  <2>2. PICK n \in 1..(Cardinality(RoundId) + 1) :
          handler' = [handler EXCEPT ![h] = [@ EXCEPT !.pc = "numbered", !.orderNumber = n]]
    BY <1>2 DEF NumberRound
  <2>3. n \in Nat /\ handler[h].pc = "readSubmit"
    BY <1>2, <2>1 DEF NumberRound
  <2> DEFINE d == [handler[h] EXCEPT !.pc = "numbered", !.orderNumber = n]
  <2>4. d \in HandlerState /\ d.pc = "numbered" /\ GoesOn(handler[h], d)
    BY <1>0, <2>3, ContinuesNumbered
  <2>5. handler' = [handler EXCEPT ![h] = d]
    BY <2>2
  <2> HIDE DEF d
  <2>6. Targets(d) /\ Arrives(h, d)
    BY <1>0, <2>3, <2>4 DEF Targets, GoesOn, Arrives
  <2> QED BY <2>3, <2>4, <2>5, <2>6, Goes
<1>3. CASE InsertRound(h)
  <2>1. PICK r \in RoundId :
          handler' = [handler EXCEPT ![h] = [@ EXCEPT !.pc = "inserted", !.round = r]]
    BY <1>3 DEF InsertRound
  <2>2. handler[h].pc = "numbered"
    BY <1>3 DEF InsertRound
  <2> DEFINE d == [handler[h] EXCEPT !.pc = "inserted", !.round = r]
  <2>3. d \in HandlerState /\ d.pc = "inserted" /\ d.round = r /\ GoesOn(handler[h], d)
    BY <1>0, ContinuesWith
  <2>4. handler' = [handler EXCEPT ![h] = d]
    BY <2>1
  <2> HIDE DEF d
  <2>5. Targets(d) /\ Arrives(h, d)
    BY <1>0, <2>2, <2>3 DEF Targets, GoesOn, Arrives
  <2> QED BY <2>2, <2>3, <2>4, <2>5, Goes
<1>4. CASE LinkItems(h)
  BY <1>0, <1>4, Ends, GoesTo DEF LinkItems, Targets
<1>5. CASE RoundNumberTaken(h) \/ AwaitConfirmation(h)
  BY <1>5, Ends DEF RoundNumberTaken, AwaitConfirmation
<1> QED BY <1>1, <1>2, <1>3, <1>4, <1>5 DEF SubmitStep

LEMMA ConfirmMoves ==
  ASSUME Typed, NEW h \in Request, ConfirmStep(h)
  PROVE  Moves(h) \/ LockRounds(h)
BY Ends, BeginsKnowing DEF ConfirmStep, ReadForConfirm, CommitConfirm, Beginning

LEMMA RejectMoves ==
  ASSUME Typed, NEW h \in Request, RejectStep(h)
  PROVE  Moves(h)
<1> USE DEF At
<1>0. handler[h] \in HandlerState /\ Targets(handler[h])
  BY DEF Typed, HandlersTyped
<1>1. CASE ReadForReject(h)
  BY <1>1, BeginsKnowing DEF ReadForReject, Beginning
<1>2. CASE FindPendingOrder(h)
  <2>1. CASE Done(h)
    BY <2>1, Ends
  <2>2. CASE ~Done(h)
    <3>1. PICK r \in AwaitingRounds(handler[h].session) :
            handler' = [handler EXCEPT ![h] = [@ EXCEPT !.pc = "found", !.round = r]]
      BY <1>2, <2>2 DEF FindPendingOrder
    <3>0. r \in RoundId /\ round[r].status = "AWAITING_CONFIRMATION"
      BY DEF AwaitingRounds
    <3>2. handler[h].pc = "readReject"
      BY <1>2 DEF FindPendingOrder
    <3> DEFINE d == [handler[h] EXCEPT !.pc = "found", !.round = r]
    <3>3. d \in HandlerState /\ d.pc = "found" /\ d.round = r /\ GoesOn(handler[h], d)
      BY <1>0, <3>0, ContinuesWith
    <3>4. handler' = [handler EXCEPT ![h] = d]
      BY <3>1
    <3> HIDE DEF d
    <3>5. Targets(d) /\ Arrives(h, d)
      BY <1>0, <3>0, <3>2, <3>3 DEF Targets, GoesOn, Arrives
    <3> QED BY <3>2, <3>3, <3>4, <3>5, Goes
  <2> QED BY <2>1, <2>2
<1>3. CASE UnlinkItems(h)
  BY <1>0, <1>3, GoesTo DEF UnlinkItems, Targets
<1>4. CASE DeleteRound(h)
  BY <1>0, <1>4, GoesTo DEF DeleteRound, Targets
<1>5. CASE Reactivate(h)
  BY <1>5, Ends DEF Reactivate
<1> QED BY <1>1, <1>2, <1>3, <1>4, <1>5 DEF RejectStep

LEMMA CloseMoves ==
  ASSUME Typed, NEW h \in Request, CloseStep(h)
  PROVE  Moves(h)
<1> USE DEF At
<1>0. handler[h] \in HandlerState /\ Targets(handler[h])
  BY DEF Typed, HandlersTyped
<1>1. CASE ReadForClose(h)
  BY <1>1, BeginsKnowing DEF ReadForClose, Beginning
<1>2. CASE CheckSettled(h)
  BY <1>0, <1>2, Ends, GoesTo DEF CheckSettled, Targets
<1>3. CASE CancelPendingOrders(h)
  BY <1>0, <1>3, GoesTo DEF CancelPendingOrders, Targets
<1>4. CASE CloseSession(h)
  BY <1>0, <1>4, GoesTo DEF CloseSession, Targets
<1>5. CASE FreeTable(h)
  BY <1>5, Ends DEF FreeTable
<1> QED BY <1>1, <1>2, <1>3, <1>4, <1>5 DEF CloseStep

\* What one request does in a step.
Step(h) ==
  \/ h \in Staff /\ (StartStep(h) \/ ConfirmStep(h) \/ RejectStep(h) \/ CloseStep(h))
  \/ ItemStep(h) \/ SubmitStep(h) \/ Fails(h)

LEMMA StepMoves ==
  ASSUME Typed, IsFiniteSet(RoundId), NEW h \in Request, Step(h)
  PROVE  Moves(h) \/ LockRounds(h)
<1>1. CASE Fails(h)
  BY <1>1, Ends DEF Fails
<1> QED
  BY <1>1, StartMoves, ItemMoves, SubmitMoves, ConfirmMoves, RejectMoves, CloseMoves DEF Step

\* What LockRounds reads and locks, when it finds a round.
Locks(h) ==
  LET awaiting == AwaitingRounds(handler[h].session)
      d == handler'[h]
  IN  /\ \A r \in awaiting : ~Locked(r)
      /\ handler[h].pc = "readConfirm"
      /\ d \in HandlerState /\ Targets(d)
      /\ handler' = [handler EXCEPT ![h] = d]
      /\ d.pc = "locked" /\ d.round \in awaiting /\ d.locks = awaiting
      /\ d.session = handler[h].session /\ d.confirmedOrder = handler[h].confirmedOrder
      /\ UNCHANGED <<rows, orderVars>>

LEMMA ItemsTyped ==
  ASSUME Typed, NEW r \in RoundId
  PROVE  ItemsOf(r) \in Quantities
BY SessionsAssumption DEF Typed, TypeOK, ItemRow, ItemsOf, Quantities

LEMMA LockMoves ==
  ASSUME Typed, NEW h \in Request, LockRounds(h)
  PROVE  Moves(h) \/ Locks(h)
<1> DEFINE awaiting == AwaitingRounds(handler[h].session)
<1>1. CASE Done(h)
  BY <1>1, Ends
<1>2. CASE ~Done(h)
  <2>1. PICK r \in awaiting :
          handler' = [handler EXCEPT ![h] = [@ EXCEPT !.pc = "locked", !.round = r,
                                                      !.locks = awaiting, !.items = ItemsOf(r)]]
    BY <1>2 DEF LockRounds
  <2>2. r \in RoundId /\ awaiting \in SUBSET RoundId
    BY DEF AwaitingRounds
  <2>3. ItemsOf(r) \in Quantities
    BY <2>2, ItemsTyped
  <2>4. /\ handler \in [Request -> HandlerState] /\ handler[h] \in HandlerState
        /\ handler[h].session \in SessionId /\ handler[h].pc = "readConfirm"
        /\ \A q \in awaiting : ~Locked(q)
        /\ UNCHANGED <<rows, orderVars>>
    BY DEF Typed, HandlersTyped, Targets, LockRounds, At
  <2> DEFINE items == ItemsOf(r)
             d == WithLocks(handler[h], r, awaiting, items)
  <2>5. /\ d \in HandlerState /\ d.pc = "locked" /\ d.round = r /\ d.locks = awaiting
        /\ d.session = handler[h].session /\ d.confirmedOrder = handler[h].confirmedOrder
    <3>1. items \in Quantities
      BY <2>3
    <3> HIDE DEF awaiting, items
    <3> QED BY <2>2, <2>4, <3>1, ContinuesLocked
  <2>6. handler' = [handler EXCEPT ![h] = d]
    BY <2>1 DEF WithLocks
  <2> HIDE DEF d
  <2>7. handler'[h] = d /\ handler' = [handler EXCEPT ![h] = handler'[h]]
    BY <2>4, <2>6
  <2>8. Targets(d)
    BY <2>2, <2>4, <2>5 DEF Targets
  <2> HIDE DEF awaiting
  <2> QED BY <2>4, <2>5, <2>7, <2>8 DEF Locks, awaiting
<1> QED BY <1>1, <1>2

LEMMA StepHandlers ==
  ASSUME Typed, IsFiniteSet(RoundId), NEW h \in Request, Step(h)
  PROVE  /\ HandlersTyped'
         /\ \A g \in Request \ {h} : handler'[g] = handler[g]
         /\ MayKnow(h, handler'[h]) \/ Locks(h)
<1>0. handler \in [Request -> HandlerState] /\ \A g \in Request : Targets(handler[g])
  BY DEF Typed, HandlersTyped
<1>1. CASE Moves(h)
  <2>1. PICK d : MayKnow(h, d) /\ handler' = [handler EXCEPT ![h] = d]
    BY <1>1 DEF Moves
  <2>2. d \in HandlerState /\ Targets(d) /\ handler'[h] = d
    BY <1>0, <2>1 DEF MayKnow
  <2>3. \A g \in Request \ {h} : handler'[g] = handler[g]
    BY <1>0, <2>1
  <2>4. handler' \in [Request -> HandlerState]
    BY <1>0, <2>1, <2>2
  <2>5. \A g \in Request : Targets(handler'[g])
    BY <1>0, <2>2, <2>3
  <2> QED BY <2>1, <2>2, <2>3, <2>4, <2>5 DEF HandlersTyped, Targets
<1>2. CASE Locks(h)
  <2>1. handler'[h] \in HandlerState /\ Targets(handler'[h])
    BY <1>2 DEF Locks
  <2>2. handler' = [handler EXCEPT ![h] = handler'[h]]
    BY <1>2 DEF Locks
  <2>3. \A g \in Request \ {h} : handler'[g] = handler[g]
    BY <1>0, <2>2
  <2>4. handler' \in [Request -> HandlerState]
    BY <1>0, <2>1, <2>2
  <2>5. \A g \in Request : Targets(handler'[g])
    BY <1>0, <2>1, <2>3
  <2> QED BY <1>2, <2>3, <2>4, <2>5 DEF HandlersTyped, Targets
<1> QED BY <1>1, <1>2, StepMoves, LockMoves

-----------------------------------------------------------------------------
(* Rows *)

LEMMA SessionUpdates ==
  ASSUME NEW row \in SessionRow,
         NEW status \in {"ACTIVE", "AWAITING_CONFIRMATION", "CLOSED"}
  PROVE  /\ [row EXCEPT !.status = status] \in SessionRow
         /\ [row EXCEPT !.status = status].status = status
         /\ [row EXCEPT !.status = status].table = row.table
         /\ [row EXCEPT !.status = status].confirmedOrder = row.confirmedOrder
BY DEF SessionRow, OpenStatus

LEMMA SessionConfirmed ==
  ASSUME NEW row \in SessionRow, NEW o \in OrderId
  PROVE  LET new == [row EXCEPT !.status = "ACTIVE", !.confirmedOrder = o] IN
           /\ new \in SessionRow /\ new.status = "ACTIVE" /\ new.table = row.table
           /\ new.confirmedOrder = o
BY DEF SessionRow, OpenStatus

LEMMA RoundUpdates ==
  ASSUME NEW row \in RoundRow
  PROVE  \A status \in {"CANCELLED", "DELETED"} :
           LET new == [row EXCEPT !.status = status] IN
             /\ new \in RoundRow /\ new.status = status /\ new.session = row.session
             /\ new.orderNumber = row.orderNumber /\ new.order = row.order
BY DEF RoundRow

RoundConfirming(row, o, billed) ==
  [row EXCEPT !.status = "CONFIRMED", !.order = o, !.billed = billed]

LEMMA RoundConfirmed ==
  ASSUME NEW row \in RoundRow, NEW o \in OrderId, NEW billed \in Quantities
  PROVE  LET new == RoundConfirming(row, o, billed) IN
           /\ new \in RoundRow /\ new.status = "CONFIRMED" /\ new.session = row.session
           /\ new.orderNumber = row.orderNumber /\ new.order = o
BY DEF RoundRow, RoundConfirming

LEMMA NoRoundTyped == NoRound \in RoundRow /\ NoRound.order = None
BY SessionsAssumption DEF NoRound, RoundRow, Quantities, Nothing

RoundAwaiting(row, s, n) ==
  [row EXCEPT !.status = "AWAITING_CONFIRMATION", !.session = s, !.orderNumber = n]

LEMMA RoundInserted ==
  ASSUME NEW row \in RoundRow, NEW s \in SessionId, NEW n \in Nat
  PROVE  LET new == RoundAwaiting(row, s, n) IN
           /\ new \in RoundRow /\ new.status = "AWAITING_CONFIRMATION" /\ new.session = s
           /\ new.orderNumber = n /\ new.order = row.order
BY DEF RoundRow, RoundAwaiting

-----------------------------------------------------------------------------
(* Sessions *)

\* A session not yet started has no order.
Blank == \A s \in SessionId : session[s].status = "NONE" => session[s].confirmedOrder = None

OneOpen ==
  \A s1, s2 \in SessionId :
    Open(s1) /\ Open(s2) /\ session[s1].table = session[s2].table => s1 = s2

SessionsTyped == session \in [SessionId -> SessionRow]

SessionInv == SessionsTyped /\ Blank /\ OneOpen

\* No session changes its order.
OrdersKept == \A s \in SessionId : session'[s].confirmedOrder = session[s].confirmedOrder

\* Writing one row keeps the sessions in order if the row may be written as open.
LEMMA SessionWritten ==
  ASSUME SessionInv, NEW s \in SessionId, NEW row \in SessionRow,
         row.status \in OpenStatus => MayOpen(s, row.table),
         row.status = "NONE" => row.confirmedOrder = None,
         session' = [session EXCEPT ![s] = row]
  PROVE  SessionInv'
<1>1. SessionsTyped' /\ session'[s] = row /\ \A q \in SessionId \ {s} : session'[q] = session[q]
  BY DEF SessionInv, SessionsTyped
<1>2. Blank'
  BY <1>1 DEF SessionInv, Blank
<1>3. OneOpen'
  <2> SUFFICES ASSUME NEW s1 \in SessionId, NEW s2 \in SessionId, Open(s1)', Open(s2)',
                      session'[s1].table = session'[s2].table
               PROVE  s1 = s2
    BY DEF OneOpen
  <2>1. CASE s1 # s /\ s2 # s
    BY <1>1, <2>1 DEF SessionInv, OneOpen, Open
  <2>2. CASE s1 = s \/ s2 = s
    BY <1>1, <2>2 DEF Open, MayOpen, OpenOn
  <2> QED BY <2>1, <2>2
<1> QED BY <1>1, <1>2, <1>3 DEF SessionInv

LEMMA StatusSet ==
  ASSUME SessionInv, NEW s \in SessionId,
         NEW status \in {"ACTIVE", "AWAITING_CONFIRMATION", "CLOSED"}, SetStatus(s, status)
  PROVE  SessionInv' /\ OrdersKept
<1>1. CASE session' = session
  BY <1>1 DEF SessionInv, SessionsTyped, Blank, OneOpen, Open, OrdersKept
<1>2. CASE session' # session
  <2> DEFINE row == [session[s] EXCEPT !.status = status]
  <2>1. session' = [session EXCEPT ![s] = row]
    BY <1>2 DEF SetStatus
  <2>2. session[s] \in SessionRow
    BY DEF SessionInv, SessionsTyped
  <2>3. /\ row \in SessionRow /\ row.status = status /\ row.table = session[s].table
        /\ row.confirmedOrder = session[s].confirmedOrder
    BY <2>2, SessionUpdates
  <2>4. status \in OpenStatus => MayOpen(s, session[s].table)
    BY <1>2 DEF SetStatus
  <2> HIDE DEF row
  <2>5. SessionInv'
    BY <2>1, <2>3, <2>4, SessionWritten
  <2>6. OrdersKept
    BY <2>1, <2>3 DEF OrdersKept, SessionInv, SessionsTyped
  <2> QED BY <2>5, <2>6
<1> QED BY <1>1, <1>2

LEMMA SessionCreated ==
  ASSUME Typed, SessionInv, NEW h \in Request, CreateSession(h)
  PROVE  SessionInv' /\ OrdersKept
<1>1. CASE session' = session
  BY <1>1 DEF SessionInv, SessionsTyped, Blank, OneOpen, Open, OrdersKept
<1>2. CASE session' # session
  <2> DEFINE row == [status |-> "ACTIVE", table |-> handler[h].table, confirmedOrder |-> None]
  <2>1. PICK s \in SessionId :
          /\ ~Known(s) /\ MayOpen(s, handler[h].table)
          /\ session' = [session EXCEPT ![s] = row]
    BY <1>2 DEF CreateSession
  <2>2. handler[h].table \in Table \cup {None}
    BY DEF Typed, HandlersTyped, HandlerState
  <2>3. /\ row \in SessionRow /\ row.status = "ACTIVE" /\ row.table = handler[h].table
        /\ row.confirmedOrder = None
    BY <2>2 DEF SessionRow, OpenStatus
  <2>4. session[s].confirmedOrder = None
    BY <2>1 DEF SessionInv, Blank, Known
  <2> HIDE DEF row
  <2>5. SessionInv'
    BY <2>1, <2>3, SessionWritten
  <2>6. OrdersKept
    BY <2>1, <2>3, <2>4 DEF OrdersKept, SessionInv, SessionsTyped
  <2> QED BY <2>5, <2>6
<1> QED BY <1>1, <1>2

LEMMA SessionCommits ==
  ASSUME Typed, SessionInv, NEW h \in Request, CommitConfirm(h)
  PROVE  /\ SessionInv'
         /\ \A q \in SessionId \ {handler[h].session} : session'[q] = session[q]
         /\ session'[handler[h].session].status = "ACTIVE"
<1> DEFINE s == handler[h].session
<1>1. s \in SessionId /\ session[s] \in SessionRow
  BY DEF Typed, HandlersTyped, Targets, CommitConfirm, At, SessionInv, SessionsTyped
<1>2. PICK o \in OrderId :
        session' = [session EXCEPT ![s] = [@ EXCEPT !.status = "ACTIVE", !.confirmedOrder = o]]
  BY DEF CommitConfirm, StatusAfterConfirm
<1> DEFINE row == [session[s] EXCEPT !.status = "ACTIVE", !.confirmedOrder = o]
<1>3. row \in SessionRow /\ row.status = "ACTIVE" /\ row.table = session[s].table
  BY <1>1, SessionConfirmed
<1>4. session' = [session EXCEPT ![s] = row]
  BY <1>2
<1>5. MayOpen(s, session[s].table)
  BY DEF CommitConfirm
<1> HIDE DEF s, row
<1>6. SessionInv'
  BY <1>1, <1>3, <1>4, <1>5, SessionWritten
<1>7. session'[s].status = "ACTIVE" /\ \A q \in SessionId \ {s} : session'[q] = session[q]
  BY <1>1, <1>3, <1>4 DEF SessionInv, SessionsTyped
<1> QED BY <1>6, <1>7 DEF s

LEMMA SessionMoves ==
  ASSUME Typed, SessionInv, NEW h \in Request, Step(h)
  PROVE  SessionInv' /\ (OrdersKept \/ (h \in Staff /\ CommitConfirm(h)))
<1>0. Targets(handler[h])
  BY DEF Typed, HandlersTyped
<1>1. CASE UNCHANGED session
  BY <1>1 DEF SessionInv, SessionsTyped, Blank, OneOpen, Open, OrdersKept
<1>2. CASE CreateSession(h)
  BY <1>2, SessionCreated
<1>3. CASE h \in Staff /\ CommitConfirm(h)
  BY <1>3, SessionCommits
<1>4. CASE AwaitConfirmation(h)
  BY <1>0, <1>4, StatusSet DEF AwaitConfirmation, At, Targets
<1>5. CASE Reactivate(h)
  BY <1>0, <1>5, StatusSet DEF Reactivate, At, Targets
<1>6. CASE CloseSession(h)
  BY <1>0, <1>6, StatusSet DEF CloseSession, At, Targets
<1>7. ASSUME ~UNCHANGED session
      PROVE  \/ CreateSession(h) \/ (h \in Staff /\ CommitConfirm(h))
             \/ AwaitConfirmation(h) \/ Reactivate(h) \/ CloseSession(h)
  BY <1>7 DEF Step, StartStep, ItemStep, SubmitStep, ConfirmStep, RejectStep, CloseStep, Fails,
     rows, ReadForStart, OccupyTable, ReadForAdd, AddItem, ReadForEdit, EditItem, ReadForSubmit,
     NumberRound, InsertRound, RoundNumberTaken, LinkItems, ReadForConfirm, LockRounds,
     ReadForReject, FindPendingOrder, UnlinkItems, DeleteRound, ReadForClose, CheckSettled,
     CancelPendingOrders, FreeTable
<1> QED BY <1>1, <1>2, <1>3, <1>4, <1>5, <1>6, <1>7

-----------------------------------------------------------------------------
(* Rounds *)

RoundsTyped == round \in [RoundId -> RoundRow]

\* Only a decided round names an order.
Undecided ==
  \A r \in RoundId :
    round[r].status \in {"NONE", "AWAITING_CONFIRMATION", "CANCELLED"} => round[r].order = None

\* What a confirmation has locked stays as it read it, and is locked by it alone.
HeldRounds ==
  \A h \in Staff : handler[h].pc = "locked" =>
    /\ handler[h].round \in handler[h].locks
    /\ \A r \in handler[h].locks :
         /\ r \in RoundId
         /\ round[r].status = "AWAITING_CONFIRMATION"
         /\ round[r].session = handler[h].session

Exclusive == \A g, h \in Staff : g # h => handler[g].locks \cap handler[h].locks = {}

\* The unique index: the stored rounds of a session (or of none) have different numbers.
RoundNumbersUnique ==
  \A s \in SessionId \cup {None} : \A r1, r2 \in RoundsOf(s) :
    round[r1].orderNumber = round[r2].orderNumber => r1 = r2

RoundInv == RoundsTyped /\ Undecided /\ RoundNumbersUnique

LockInv == HeldRounds /\ Exclusive

\* What a step does to a round: RoundsDecidedOnce, and what its bill relies on.
Decides(r) ==
  /\ round[r].status = "CONFIRMED" => round'[r].status \in {"CONFIRMED", "DELETED"}
  /\ round[r].status = "CANCELLED" => round'[r].status \in {"CANCELLED", "DELETED"}
  /\ round[r].status = "DELETED" => round'[r].status = "DELETED"
  /\ round[r].order # None
       => round'[r].order = round[r].order /\ round'[r].session = round[r].session

\* A step other than a confirmation: order and session of a round stay, except that
\* an unused id becomes a round without an order; nothing becomes confirmed.
Undisputed ==
  \A r \in RoundId :
    /\ round'[r].order = round[r].order
    /\ round'[r].status = "CONFIRMED" => round[r].status = "CONFIRMED"
    /\ round[r].status # "NONE" => round'[r].session = round[r].session

HeldStay(h) == \A g \in Staff \ {h} : \A r \in handler[g].locks : round'[r] = round[r]

LEMMA RoundsUnchanged ==
  ASSUME RoundInv, UNCHANGED round, NEW h \in Request, LockInv, HandlersTyped
  PROVE  RoundInv' /\ Undisputed /\ HeldStay(h) /\ \A r \in RoundId : Decides(r)
BY DEF RoundInv, RoundsTyped, Undecided, RoundNumbersUnique, RoundsOf, Stored, Undisputed,
   HeldStay, Decides

LEMMA RoundInserts ==
  ASSUME Typed, RoundInv, LockInv, NEW h \in Request, InsertRound(h)
  PROVE  RoundInv' /\ Undisputed /\ HeldStay(h) /\ \A r \in RoundId : Decides(r)
<1> DEFINE s == handler[h].session
           n == handler[h].orderNumber
<1>1. s \in SessionId /\ n \in Nat
  BY DEF Typed, HandlersTyped, Targets, HandlerState, InsertRound, At
<1>2. PICK q \in RoundId :
        /\ round[q].status = "NONE"
        /\ round' = [round EXCEPT ![q] =
             [NoRound EXCEPT !.status = "AWAITING_CONFIRMATION", !.session = s,
                             !.orderNumber = n]]
  BY DEF InsertRound
<1>3. ~NumberTaken(s, n)
  BY DEF InsertRound
<1> HIDE DEF s, n
<1> DEFINE new == RoundAwaiting(NoRound, s, n)
<1>4. /\ new \in RoundRow /\ new.status = "AWAITING_CONFIRMATION" /\ new.session = s
      /\ new.orderNumber = n /\ new.order = NoRound.order
  BY <1>1, NoRoundTyped, RoundInserted
<1>5. round' = [round EXCEPT ![q] = new]
  BY <1>2 DEF RoundAwaiting
<1> HIDE DEF new
<1>6. round'[q] = new /\ \A r \in RoundId \ {q} : round'[r] = round[r]
  BY <1>5 DEF RoundInv, RoundsTyped
<1>7. round[q].order = None /\ new.order = None
  BY <1>2, <1>4, NoRoundTyped DEF RoundInv, Undecided
<1>8. RoundsTyped' /\ Undecided'
  BY <1>4, <1>5, <1>6, <1>7 DEF RoundInv, RoundsTyped, Undecided
<1>9. RoundNumbersUnique'
  <2> SUFFICES ASSUME NEW t \in SessionId \cup {None}, NEW r1 \in RoundsOf(t)', NEW r2 \in RoundsOf(t)',
                      round'[r1].orderNumber = round'[r2].orderNumber
               PROVE  r1 = r2
    BY DEF RoundNumbersUnique
  <2>1. CASE r1 # q /\ r2 # q
    <3>1. r1 \in RoundsOf(t) /\ r2 \in RoundsOf(t)
      BY <1>6, <2>1 DEF RoundsOf, Stored
    <3> QED BY <1>6, <2>1, <3>1 DEF RoundInv, RoundNumbersUnique, RoundsOf
  <2>2. CASE r1 = q \/ r2 = q
    BY <1>3, <1>4, <1>6, <2>2 DEF RoundsOf, Stored, NumberTaken
  <2> QED BY <2>1, <2>2
<1>10. HeldStay(h)
  <2> SUFFICES ASSUME NEW g \in Staff \ {h}, NEW r \in handler[g].locks
               PROVE  round'[r] = round[r]
    BY DEF HeldStay
  <2>1. handler[g].pc = "locked"
    BY DEF Typed, HandlersTyped, Targets, Request
  <2>2. r \in RoundId /\ round[r].status = "AWAITING_CONFIRMATION"
    BY <2>1 DEF LockInv, HeldRounds
  <2> QED BY <1>2, <1>6, <2>2
<1>11. Undisputed /\ \A r \in RoundId : Decides(r)
  BY <1>2, <1>4, <1>6, <1>7 DEF Undisputed, Decides
<1> QED BY <1>8, <1>9, <1>10, <1>11 DEF RoundInv

\* Rounds that lose their place without getting an order.
LEMMA RoundsWithdrawn ==
  ASSUME Typed, RoundInv, LockInv, NEW h \in Request,
         NEW status \in {"CANCELLED", "DELETED"}, NEW Q \in SUBSET RoundId,
         status = "CANCELLED" => \A r \in Q : round[r].status = "AWAITING_CONFIRMATION",
         \A r \in Q : ~Locked(r),
         round' \in [RoundId -> RoundRow],
         \A r \in Q : /\ round'[r].status = status /\ round'[r].session = round[r].session
                      /\ round'[r].orderNumber = round[r].orderNumber
                      /\ round'[r].order = round[r].order,
         \A r \in RoundId \ Q : round'[r] = round[r]
  PROVE  RoundInv' /\ Undisputed /\ HeldStay(h) /\ \A r \in RoundId : Decides(r)
<1>1. RoundsTyped' /\ Undecided'
  BY DEF RoundInv, RoundsTyped, Undecided
<1>2. \A s \in SessionId \cup {None} : \A r \in RoundsOf(s)' :
        r \in RoundsOf(s) /\ round'[r].orderNumber = round[r].orderNumber
  BY DEF RoundsOf, Stored
<1>3. RoundNumbersUnique'
  BY <1>2 DEF RoundInv, RoundNumbersUnique
<1>4. Undisputed /\ \A r \in RoundId : Decides(r)
  BY DEF Undisputed, Decides
<1>5. HeldStay(h)
  <2> SUFFICES ASSUME NEW g \in Staff \ {h}, NEW r \in handler[g].locks
               PROVE  round'[r] = round[r]
    BY DEF HeldStay
  <2>1. r \in RoundId
    BY DEF Typed, HandlersTyped, Request, HandlerState
  <2> QED BY <2>1 DEF Locked
<1> QED BY <1>1, <1>3, <1>4, <1>5 DEF RoundInv

LEMMA RoundDeletes ==
  ASSUME Typed, RoundInv, LockInv, NEW h \in Request, DeleteRound(h)
  PROVE  RoundInv' /\ Undisputed /\ HeldStay(h) /\ \A r \in RoundId : Decides(r)
<1> DEFINE q == handler[h].round
           new == [round[q] EXCEPT !.status = "DELETED"]
<1>1. q \in RoundId /\ round[q] \in RoundRow
  BY DEF Typed, HandlersTyped, Targets, DeleteRound, At, RoundInv, RoundsTyped
<1>2. round' = [round EXCEPT ![q] = new] /\ ~Locked(q)
  BY DEF DeleteRound
<1>3. /\ new \in RoundRow /\ new.status = "DELETED" /\ new.session = round[q].session
      /\ new.orderNumber = round[q].orderNumber /\ new.order = round[q].order
  <2> HIDE DEF q
  <2> QED BY <1>1, RoundUpdates
<1> HIDE DEF q, new
<1>4. /\ round'[q] = new /\ \A r \in RoundId \ {q} : round'[r] = round[r]
      /\ round' \in [RoundId -> RoundRow]
  BY <1>1, <1>2, <1>3 DEF RoundInv, RoundsTyped
<1>5. {q} \in SUBSET RoundId
  BY <1>1
<1>6. \A r \in {q} : /\ round'[r].status = "DELETED" /\ round'[r].session = round[r].session
                     /\ round'[r].orderNumber = round[r].orderNumber
                     /\ round'[r].order = round[r].order
  BY <1>3, <1>4
<1> QED BY <1>2, <1>4, <1>5, <1>6, RoundsWithdrawn

LEMMA RoundsCancel ==
  ASSUME Typed, RoundInv, LockInv, NEW h \in Request, CancelPendingOrders(h)
  PROVE  RoundInv' /\ Undisputed /\ HeldStay(h) /\ \A r \in RoundId : Decides(r)
<1> DEFINE Q == AwaitingRounds(handler[h].session)
<1>1. Q \in SUBSET RoundId /\ \A r \in Q : round[r].status = "AWAITING_CONFIRMATION"
  BY DEF AwaitingRounds
<1>2. /\ \A r \in Q : ~Locked(r)
      /\ round' = [r \in RoundId |-> IF r \in Q THEN [round[r] EXCEPT !.status = "CANCELLED"]
                                               ELSE round[r]]
  BY DEF CancelPendingOrders, CancelsRounds
<1> HIDE DEF Q
<1>3. ASSUME NEW r \in RoundId
      PROVE  LET new == [round[r] EXCEPT !.status = "CANCELLED"] IN
               /\ new \in RoundRow /\ new.status = "CANCELLED"
               /\ new.session = round[r].session
               /\ new.orderNumber = round[r].orderNumber /\ new.order = round[r].order
  <2>1. round[r] \in RoundRow
    BY DEF RoundInv, RoundsTyped
  <2> QED BY <2>1, RoundUpdates
<1>4. \A r \in RoundId : round'[r] \in RoundRow
  BY <1>2, <1>3 DEF RoundInv, RoundsTyped
<1>5. round' \in [RoundId -> RoundRow]
  BY <1>2, <1>4
<1>6. \A r \in Q : /\ round'[r].status = "CANCELLED" /\ round'[r].session = round[r].session
                   /\ round'[r].orderNumber = round[r].orderNumber
                   /\ round'[r].order = round[r].order
  BY <1>1, <1>2, <1>3
<1>7. \A r \in RoundId \ Q : round'[r] = round[r]
  BY <1>2
<1> QED BY <1>1, <1>2, <1>5, <1>6, <1>7, RoundsWithdrawn

\* The round a confirmation decides, with the order it goes to.
ConfirmsFor(h, o) ==
  LET q == handler[h].round IN
    /\ q \in RoundId
    /\ round[q].status = "AWAITING_CONFIRMATION" /\ round[q].session = handler[h].session
    /\ round[q].order = None
    /\ round'[q].status = "CONFIRMED" /\ round'[q].session = round[q].session
    /\ round'[q].order = o
    /\ \A r \in RoundId \ {q} : round'[r] = round[r]

LEMMA RoundCommits ==
  ASSUME Typed, RoundInv, LockInv, NEW h \in Staff, CommitConfirm(h), NEW o \in OrderId,
         round' = [round EXCEPT ![handler[h].round] =
                     [@ EXCEPT !.status = "CONFIRMED", !.order = o, !.billed = handler[h].items]]
  PROVE  /\ RoundInv' /\ HeldStay(h) /\ \A r \in RoundId : Decides(r)
         /\ ConfirmsFor(h, o)
<1> DEFINE q == handler[h].round
           items == handler[h].items
           new == RoundConfirming(round[q], o, items)
<1>1. /\ handler[h] \in HandlerState /\ handler[h].pc = "locked" /\ h \in Request
  BY DEF Typed, HandlersTyped, CommitConfirm, At, Request
<1>2. /\ q \in RoundId /\ q \in handler[h].locks /\ round[q].status = "AWAITING_CONFIRMATION"
      /\ round[q].session = handler[h].session
  BY <1>1 DEF LockInv, HeldRounds
<1>3. round[q] \in RoundRow /\ items \in Quantities /\ round[q].order = None
  BY <1>1, <1>2 DEF RoundInv, RoundsTyped, Undecided, HandlerState
<1>4. round' = [round EXCEPT ![q] = new]
  BY DEF RoundConfirming
<1>5. /\ new \in RoundRow /\ new.status = "CONFIRMED" /\ new.session = round[q].session
      /\ new.orderNumber = round[q].orderNumber /\ new.order = o
  <2> HIDE DEF q, items
  <2> QED BY <1>3, RoundConfirmed
<1>6. \A g \in Staff \ {h} : q \notin handler[g].locks
  BY <1>2 DEF LockInv, Exclusive
<1> HIDE DEF items, new
<1>7. round'[q] = new /\ \A r \in RoundId \ {q} : round'[r] = round[r]
  BY <1>2, <1>4 DEF RoundInv, RoundsTyped
<1>8. RoundsTyped' /\ Undecided'
  BY <1>2, <1>4, <1>5, <1>7 DEF RoundInv, RoundsTyped, Undecided
<1>9. \A s \in SessionId \cup {None} : \A r \in RoundsOf(s)' :
        r \in RoundsOf(s) /\ round'[r].orderNumber = round[r].orderNumber
  BY <1>2, <1>5, <1>7 DEF RoundsOf, Stored
<1>10. RoundNumbersUnique'
  BY <1>9 DEF RoundInv, RoundNumbersUnique
<1>11. HeldStay(h)
  <2> SUFFICES ASSUME NEW g \in Staff \ {h}, NEW r \in handler[g].locks
               PROVE  round'[r] = round[r]
    BY DEF HeldStay
  <2>1. r \in RoundId
    BY DEF Typed, HandlersTyped, Request, HandlerState
  <2> QED BY <1>6, <1>7, <2>1
<1>12. \A r \in RoundId : Decides(r)
  BY <1>2, <1>3, <1>5, <1>7 DEF Decides
<1>13. ConfirmsFor(h, o)
  BY <1>2, <1>3, <1>5, <1>7 DEF ConfirmsFor
<1> QED BY <1>8, <1>10, <1>11, <1>12, <1>13 DEF RoundInv

LEMMA RoundMoves ==
  ASSUME Typed, RoundInv, LockInv, NEW h \in Request, Step(h)
  PROVE  /\ RoundInv' /\ HeldStay(h) /\ \A r \in RoundId : Decides(r)
         /\ Undisputed \/ (h \in Staff /\ CommitConfirm(h))
<1>1. CASE UNCHANGED round
  BY <1>1, RoundsUnchanged DEF Typed
<1>2. CASE InsertRound(h) \/ DeleteRound(h) \/ CancelPendingOrders(h)
  BY <1>2, RoundInserts, RoundDeletes, RoundsCancel
<1>3. CASE h \in Staff /\ CommitConfirm(h)
  <2>1. PICK o \in OrderId :
          round' = [round EXCEPT ![handler[h].round] =
                     [@ EXCEPT !.status = "CONFIRMED", !.order = o, !.billed = handler[h].items]]
    BY <1>3 DEF CommitConfirm
  <2> QED BY <1>3, <2>1, RoundCommits
<1>4. ASSUME ~UNCHANGED round
      PROVE  \/ InsertRound(h) \/ DeleteRound(h) \/ CancelPendingOrders(h)
             \/ h \in Staff /\ CommitConfirm(h)
  BY <1>4 DEF Step, StartStep, ItemStep, SubmitStep, ConfirmStep, RejectStep, CloseStep, Fails,
     rows, ReadForStart, CreateSession, OccupyTable, ReadForAdd, AddItem, ReadForEdit, EditItem,
     ReadForSubmit, NumberRound, RoundNumberTaken, LinkItems, AwaitConfirmation, ReadForConfirm,
     LockRounds, ReadForReject, FindPendingOrder, UnlinkItems, Reactivate, ReadForClose,
     CheckSettled, CloseSession, FreeTable
<1> QED BY <1>1, <1>2, <1>3, <1>4

LEMMA LocksMove ==
  ASSUME Typed, IsFiniteSet(RoundId), RoundInv, LockInv, NEW h \in Request, Step(h)
  PROVE  LockInv'
<1>1. \A g \in Request \ {h} : handler'[g] = handler[g]
  BY StepHandlers
<1>2. HeldStay(h)
  BY RoundMoves
<1>3. \A g \in Staff : g \in Request /\ (handler[g].pc # "locked" => handler[g].locks = {})
  BY DEF Typed, HandlersTyped, Targets, Request
<1>4. CASE MayKnow(h, handler'[h])
  <2>1. handler'[h].pc # "locked" /\ handler'[h].locks = {}
    BY <1>4 DEF MayKnow
  <2> QED BY <1>1, <1>2, <1>3, <2>1 DEF LockInv, HeldRounds, Exclusive, HeldStay
<1>5. CASE Locks(h)
  <2> DEFINE awaiting == AwaitingRounds(handler[h].session)
  <2>1. /\ \A r \in awaiting : ~Locked(r)
        /\ handler'[h].round \in awaiting /\ handler'[h].locks = awaiting
        /\ handler'[h].session = handler[h].session /\ round' = round
    BY <1>5 DEF Locks, rows
  <2>2. HeldRounds'
    BY <1>1, <1>3, <2>1 DEF LockInv, HeldRounds, AwaitingRounds
  <2>3. \A g \in Staff \ {h} : handler[g].locks \cap awaiting = {}
    BY <2>1 DEF Locked
  <2> HIDE DEF awaiting
  <2>4. Exclusive'
    BY <1>1, <1>3, <2>1, <2>3 DEF LockInv, Exclusive
  <2> QED BY <2>2, <2>4 DEF LockInv
<1> QED BY <1>4, <1>5, StepHandlers

-----------------------------------------------------------------------------
(* Orders and bills *)

OrdersTyped ==
  /\ orderStatus \in [OrderId -> OrderStatus \cup {"NONE"}]
  /\ orderPayment \in [OrderId -> PaymentStatus]
  /\ orderTotal \in [OrderId -> Nat]
  /\ collected \in [OrderId -> Nat]

BillsTyped == bill \in [OrderId -> Bill]

LEMMA OrdersTypedAs ==
  (Order!LifecycleTypeOK <=> OrdersTyped) /\ (Order!LifecycleTypeOK' <=> OrdersTyped')
<1>1. [o \in OrderId |-> "DINE_IN"] \in [OrderId -> Order!OrderType]
  BY DEF Order!OrderType
<1>2. Order!OrderStatus = OrderStatus /\ Order!PaymentStatus = PaymentStatus
  BY DEF Order!OrderStatus, OrderStatus, Order!PaymentStatus, PaymentStatus
<1> QED BY <1>1, <1>2 DEF Order!LifecycleTypeOK, OrdersTyped

\* What other order endpoints do to orders: none appears or disappears, none becomes
\* appendable again, none unsettled.
LEMMA OrdersMove ==
  ASSUME OrdersTyped, NEW o \in OrderId, OrderMoved(o)
  PROVE  /\ OrdersTyped' /\ UNCHANGED <<orderTotal, session, round, item, handler, bill>>
         /\ \A p \in OrderId : /\ orderStatus'[p] = "NONE" <=> orderStatus[p] = "NONE"
                               /\ Appendable(p)' => Appendable(p)
                               /\ Settled(p) => Settled(p)'
<1> USE DEF OrdersTyped, Appendable, Settled, OrderStatus, ActiveStatus, PaymentStatus
<1>0. UNCHANGED <<session, round, item, handler, bill>>
  BY DEF OrderMoved
<1>1. CASE Order!Advance(o)
  <2>1. PICK new \in Order!ValidNext(orderStatus[o], "DINE_IN") :
          orderStatus' = [orderStatus EXCEPT ![o] = new]
    BY <1>1 DEF Order!Advance
  <2>2. UNCHANGED <<orderPayment, orderTotal, collected>>
    BY <1>1 DEF Order!Advance
  <2>3. /\ new \in OrderStatus /\ orderStatus[o] # "NONE" /\ orderStatus[o] # "CANCELLED"
        /\ new \in ActiveStatus => orderStatus[o] \in ActiveStatus
    BY <2>1 DEF Order!ValidNext
  <2> QED BY <1>0, <2>1, <2>2, <2>3
<1>2. CASE Order!Cancel(o)
  BY <1>0, <1>2 DEF Order!Cancel, Order!OrderStatus, Order!Terminal
<1>3. CASE Order!Pay(o)
  <2>1. /\ orderPayment' = [orderPayment EXCEPT ![o] = "PAID"]
        /\ collected' = [collected EXCEPT ![o] = @ + orderTotal[o]]
        /\ UNCHANGED <<orderStatus, orderTotal>>
    BY <1>3 DEF Order!Pay
  <2>2. collected[o] + orderTotal[o] \in Nat
    OBVIOUS
  <2>3. OrdersTyped'
    BY <2>1, <2>2
  <2> QED BY <1>0, <2>1, <2>3
<1> QED BY <1>1, <1>2, <1>3 DEF OrderMoved

\* What a confirmation does to the order it bills.
Bills(h, o) ==
  LET c == handler[h] IN
    /\ o \in OrderId
    /\ \/ o = c.confirmedOrder /\ Appendable(o)
       \/ orderStatus[o] = "NONE" /\ ~Appendable(c.confirmedOrder)
    /\ orderStatus[o] # "NONE" => orderTotal'[o] = orderTotal[o] + 1
    /\ orderStatus[o] = "NONE" => orderTotal'[o] = 1
    /\ orderStatus'[o] # "NONE"
    /\ \A p \in OrderId \ {o} : /\ orderStatus'[p] = orderStatus[p]
                                /\ orderTotal'[p] = orderTotal[p]
                                /\ bill'[p] = bill[p]
    /\ orderPayment' = orderPayment
    /\ \A p \in OrderId : Settled(p) => Settled(p)'
    /\ bill'[o].rounds = bill[o].rounds \cup {c.round}
    /\ ConfirmsFor(h, o)
    /\ session'[c.session].confirmedOrder = o
    /\ \A q \in SessionId \ {c.session} : session'[q] = session[q]

LEMMA CommitBills ==
  ASSUME Typed, SessionInv, RoundInv, LockInv, NEW h \in Staff, CommitConfirm(h)
  PROVE  OrdersTyped' /\ BillsTyped' /\ table' \in [Table -> {"AVAILABLE", "OCCUPIED"}]
         /\ \E o \in OrderId : Bills(h, o)
<1> DEFINE c == handler[h]
           s == c.session
<1>0. OrdersTyped
  BY OrdersTypedAs DEF Typed, TypeOK
<1>1. PICK o \in OrderId :
        /\ IF ExtendsOrder(c)
           THEN o = c.confirmedOrder /\ Order!AddRound(o) /\ UNCHANGED table
           ELSE PlaceOrder(o, session[s].table)
        /\ BillTo(o, session[s].table, c.round)
        /\ round' = [round EXCEPT ![c.round] =
              [@ EXCEPT !.status = "CONFIRMED", !.order = o, !.billed = c.items]]
        /\ session' = [session EXCEPT ![s] =
              [@ EXCEPT !.status = StatusAfterConfirm, !.confirmedOrder = o]]
  BY DEF CommitConfirm
<1>2. /\ c \in HandlerState /\ s \in SessionId /\ c.round \in RoundId
      /\ session[s] \in SessionRow
  BY DEF Typed, HandlersTyped, Targets, CommitConfirm, At, Request, SessionInv, SessionsTyped
<1>3. ConfirmsFor(h, o)
  BY <1>1, RoundCommits
<1>4. /\ session'[s].confirmedOrder = o
      /\ \A q \in SessionId \ {s} : session'[q] = session[q]
  BY <1>1, <1>2, SessionConfirmed DEF SessionInv, SessionsTyped, StatusAfterConfirm
<1>5. session[s].table \in Table \cup {None}
  BY <1>2 DEF SessionRow
<1>6. /\ BillsTyped' /\ bill'[o].rounds = bill[o].rounds \cup {c.round}
      /\ \A p \in OrderId \ {o} : bill'[p] = bill[p]
  BY <1>1, <1>2, <1>5 DEF Typed, TypeOK, BillsTyped, BillTo, Bill
<1>7. CASE ExtendsOrder(c)
  <2>1. o = c.confirmedOrder /\ Appendable(o) /\ Order!AddRound(o) /\ UNCHANGED table
    BY <1>1, <1>7 DEF ExtendsOrder
  <2>2. /\ orderTotal' = [orderTotal EXCEPT ![o] = @ + 1]
        /\ UNCHANGED <<orderStatus, orderPayment, collected>>
        /\ orderStatus[o] # "NONE"
    BY <2>1 DEF Order!AddRound, Order!ActiveStatus
  <2>3. OrdersTyped' /\ table' \in [Table -> {"AVAILABLE", "OCCUPIED"}]
    BY <1>0, <2>1, <2>2 DEF Typed, TypeOK, OrdersTyped
  <2>4. /\ orderTotal'[o] = orderTotal[o] + 1
        /\ \A p \in OrderId \ {o} : orderTotal'[p] = orderTotal[p]
    BY <1>0, <2>2 DEF OrdersTyped
  <2>5. \A p \in OrderId : Settled(p) => Settled(p)'
    BY <2>2 DEF Settled
  <2> QED BY <1>3, <1>4, <1>6, <2>1, <2>2, <2>3, <2>4, <2>5 DEF Bills
<1>8. CASE ~ExtendsOrder(c)
  <2>1. Order!Place(o) /\ orderStatus'[o] = "CONFIRMED"
        /\ table' = [table EXCEPT ![session[s].table] = "OCCUPIED"]
        /\ ~Appendable(c.confirmedOrder)
    BY <1>1, <1>8 DEF ExtendsOrder, PlaceOrder
  <2>2. /\ orderStatus[o] = "NONE"
        /\ orderTotal' = [orderTotal EXCEPT ![o] = 1]
        /\ UNCHANGED <<orderPayment, collected>>
    BY <2>1 DEF Order!Place
  <2>3. PICK first \in Order!FirstStatus : orderStatus' = [orderStatus EXCEPT ![o] = first]
    BY <2>1 DEF Order!Place
  <2>4. OrdersTyped' /\ table' \in [Table -> {"AVAILABLE", "OCCUPIED"}]
    BY <1>0, <2>1, <2>2, <2>3 DEF Typed, TypeOK, OrdersTyped, Order!FirstStatus, OrderStatus
  <2>5. /\ orderTotal'[o] = 1
        /\ \A p \in OrderId \ {o} : /\ orderTotal'[p] = orderTotal[p]
                                    /\ orderStatus'[p] = orderStatus[p]
    BY <1>0, <2>2, <2>3 DEF OrdersTyped
  <2>6. \A p \in OrderId : Settled(p) => Settled(p)'
    BY <2>1, <2>2, <2>5 DEF Settled
  <2> QED BY <1>3, <1>4, <1>6, <2>1, <2>2, <2>4, <2>5, <2>6 DEF Bills
<1> QED BY <1>7, <1>8

\* Only confirmations touch bills and, among the requests at tables, orders.
LEMMA BillsKept ==
  ASSUME NEW h \in Request, Step(h), ~(h \in Staff /\ CommitConfirm(h))
  PROVE  UNCHANGED <<bill, orderVars>>
BY DEF Step, StartStep, ItemStep, SubmitStep, ConfirmStep, RejectStep, CloseStep, Fails,
   rows, ReadForStart, CreateSession, OccupyTable, ReadForAdd, AddItem, ReadForEdit, EditItem,
   ReadForSubmit, NumberRound, InsertRound, RoundNumberTaken, LinkItems, AwaitConfirmation,
   ReadForConfirm, LockRounds, ReadForReject, FindPendingOrder, UnlinkItems, DeleteRound,
   Reactivate, ReadForClose, CheckSettled, CancelPendingOrders, CloseSession, FreeTable

-----------------------------------------------------------------------------
(* Bills agree with rounds *)

\* Order o is one that session s may name.
Belongs(o, s) ==
  o # None => /\ o \in OrderId
              /\ orderStatus[o] # "NONE"
              /\ \A r \in bill[o].rounds : round[r].session = s

Named == \A o \in OrderId : \A r \in bill[o].rounds : r \in RoundId /\ round[r].order = o

Counted ==
  \A o \in OrderId :
    IsFiniteSet(bill[o].rounds) /\ orderTotal[o] = Cardinality(bill[o].rounds)

Unplaced == \A o \in OrderId : orderStatus[o] = "NONE" <=> bill[o].rounds = {}

Confirmed ==
  \A r \in RoundId : round[r].status = "CONFIRMED" =>
    round[r].order \in OrderId /\ r \in bill[round[r].order].rounds

OneSession ==
  \A o \in OrderId : \A r1, r2 \in bill[o].rounds : round[r1].session = round[r2].session

SessionsKnow == \A s \in SessionId : Belongs(session[s].confirmedOrder, s)

RequestsKnow ==
  \A h \in Request : Belongs(handler[h].confirmedOrder, handler[h].session)

BillInv ==
  Named /\ Counted /\ Unplaced /\ Confirmed /\ OneSession /\ SessionsKnow /\ RequestsKnow

Inv == Typed /\ SessionInv /\ RoundInv /\ LockInv /\ BillInv

LEMMA BilledOnceFollows ==
  ASSUME Typed, BillInv
  PROVE  RoundsBilledOnce
BY SessionsAssumption DEF BillInv, Named, Counted, Confirmed, OneSession, RoundsBilledOnce

\* What a request knows it read from a session, now or before.
LEMMA RequestsKeepKnowing ==
  ASSUME Typed, IsFiniteSet(RoundId), NEW h \in Request, Step(h),
         \A o \in OrderId \cup {None}, s \in SessionId \cup {None} :
           Belongs(o, s) => Belongs(o, s)',
         SessionsKnow, RequestsKnow
  PROVE  RequestsKnow'
<1> SUFFICES ASSUME NEW g \in Request
             PROVE  Belongs(handler[g].confirmedOrder, handler[g].session)'
  BY DEF RequestsKnow
<1>0. /\ handler[g].confirmedOrder \in OrderId \cup {None}
      /\ handler[g].session \in SessionId \cup {None}
      /\ handler[h].confirmedOrder \in OrderId \cup {None}
      /\ handler[h].session \in SessionId \cup {None}
  BY DEF Typed, HandlersTyped, HandlerState
<1>1. CASE g # h
  <2>1. handler'[g] = handler[g]
    BY <1>1, StepHandlers
  <2>2. Belongs(handler[g].confirmedOrder, handler[g].session)
    BY DEF RequestsKnow
  <2> QED BY <1>0, <2>1, <2>2 DEF Belongs
<1>2. CASE g = h
  <2> DEFINE o == handler'[h].confirmedOrder
             s == handler'[h].session
  <2>1. CASE o = None
    BY <1>2, <2>1 DEF Belongs
  <2>2. CASE s = handler[h].session /\ o = handler[h].confirmedOrder
    <3>1. Belongs(handler[h].confirmedOrder, handler[h].session)
      BY DEF RequestsKnow
    <3> QED BY <1>0, <1>2, <2>2, <3>1 DEF Belongs
  <2>3. CASE s \in SessionId /\ o = session[s].confirmedOrder
    <3>1. Belongs(session[s].confirmedOrder, s)
      BY <2>3 DEF SessionsKnow
    <3>2. o \in OrderId \cup {None}
      BY <2>3 DEF Typed, TypeOK, SessionRow
    <3> QED BY <1>2, <2>3, <3>1, <3>2 DEF Belongs
  <2> QED BY <2>1, <2>2, <2>3, StepHandlers DEF MayKnow, Locks
<1> QED BY <1>1, <1>2

\* A step that bills nothing.
LEMMA BillsStay ==
  ASSUME Inv, IsFiniteSet(RoundId), NEW h \in Request, Step(h), Undisputed,
         \A r \in RoundId : Decides(r), OrdersKept, UNCHANGED <<bill, orderVars>>
  PROVE  BillInv'
<1> USE DEF Inv, BillInv, orderVars
<1>1. \A o \in OrderId : \A r \in bill[o].rounds :
        r \in RoundId /\ round'[r].order = o /\ round'[r].session = round[r].session
  BY SessionsAssumption DEF Named, Decides
<1>2. Named' /\ Counted' /\ Unplaced' /\ OneSession'
  BY <1>1 DEF Named, Counted, Unplaced, OneSession
<1>3. Confirmed'
  BY DEF Confirmed, Undisputed
<1>4. \A o \in OrderId \cup {None}, s \in SessionId \cup {None} :
        Belongs(o, s) => Belongs(o, s)'
  BY <1>1 DEF Belongs
<1>5. SessionsKnow'
  <2> SUFFICES ASSUME NEW s \in SessionId
               PROVE  Belongs(session[s].confirmedOrder, s)'
    BY DEF SessionsKnow
  <2>1. Belongs(session[s].confirmedOrder, s)
    BY DEF SessionsKnow
  <2>2. session[s].confirmedOrder \in OrderId \cup {None}
    BY DEF SessionInv, SessionsTyped, SessionRow
  <2>3. session'[s].confirmedOrder = session[s].confirmedOrder
    BY DEF OrdersKept
  <2> QED BY <1>4, <2>1, <2>2, <2>3 DEF Belongs
<1>6. RequestsKnow'
  BY <1>4, RequestsKeepKnowing
<1> QED BY <1>2, <1>3, <1>5, <1>6

\* What other order endpoints do leaves bills as they are.
LEMMA BillsOutlast ==
  ASSUME Inv, NEW o \in OrderId, OrderMoved(o)
  PROVE  BillInv'
<1>1. OrdersTyped
  BY OrdersTypedAs DEF Inv, Typed, TypeOK
<1>2. /\ UNCHANGED <<orderTotal, session, round, handler, bill>>
      /\ \A p \in OrderId : orderStatus'[p] = "NONE" <=> orderStatus[p] = "NONE"
  BY <1>1, OrdersMove
<1> USE <1>2 DEF Inv, BillInv
<1>3. Named' /\ Counted' /\ Unplaced' /\ OneSession' /\ Confirmed'
  BY DEF Named, Counted, Unplaced, OneSession, Confirmed
<1>4. SessionsKnow' /\ RequestsKnow'
  BY DEF SessionsKnow, RequestsKnow, Belongs
<1> QED BY <1>3, <1>4

\* A confirmation bills the round it has locked to one order of its session.
LEMMA BillsGrow ==
  ASSUME Inv, IsFiniteSet(RoundId), NEW h \in Staff, CommitConfirm(h), NEW o \in OrderId,
         Bills(h, o), \A r \in RoundId : Decides(r)
  PROVE  BillInv'
<1> DEFINE q == handler[h].round
           s == handler[h].session
<1> USE DEF Inv, BillInv
<1>1. /\ q \in RoundId /\ round[q].session = s /\ round[q].order = None
      /\ round'[q].status = "CONFIRMED" /\ round'[q].session = s /\ round'[q].order = o
      /\ \A r \in RoundId \ {q} : round'[r] = round[r]
  BY DEF Bills, ConfirmsFor
<1>2. /\ bill'[o].rounds = bill[o].rounds \cup {q}
      /\ \A p \in OrderId \ {o} : bill'[p] = bill[p]
  BY DEF Bills
<1>3. \A p \in OrderId : \A r \in bill[p].rounds : r \in RoundId \ {q} /\ round'[r] = round[r]
  BY <1>1, SessionsAssumption DEF Named
<1>4. Belongs(o, s) \/ orderStatus[o] = "NONE"
  <2>1. Belongs(handler[h].confirmedOrder, handler[h].session)
    BY DEF RequestsKnow, Request
  <2> QED BY <2>1 DEF Bills
<1>5. o # None /\ orderStatus'[o] # "NONE"
  BY SessionsAssumption DEF Bills
<1>6. \A r \in bill[o].rounds : round[r].session = s
  BY <1>4, <1>5 DEF Belongs, Unplaced
<1>7. Named'
  BY <1>1, <1>2, <1>3 DEF Named
<1>8. Unplaced'
  BY <1>2, <1>5 DEF Unplaced, Bills
<1>9. Confirmed'
  BY <1>1, <1>2 DEF Confirmed
<1>10. OneSession'
  BY <1>1, <1>2, <1>3, <1>6 DEF OneSession
<1>11. Counted'
  <2> SUFFICES ASSUME NEW p \in OrderId
               PROVE  IsFiniteSet(bill'[p].rounds) /\ orderTotal'[p] = Cardinality(bill'[p].rounds)
    BY DEF Counted
  <2>1. IsFiniteSet(bill[p].rounds) /\ orderTotal[p] = Cardinality(bill[p].rounds)
    BY DEF Counted
  <2>2. CASE p # o
    BY <1>2, <2>1, <2>2 DEF Bills
  <2>3. CASE p = o
    <3>1. q \notin bill[o].rounds
      BY <1>3
    <3>2. /\ IsFiniteSet(bill[o].rounds \cup {q})
          /\ Cardinality(bill[o].rounds \cup {q}) = Cardinality(bill[o].rounds) + 1
      BY <2>1, <2>3, <3>1, FS_AddElement
    <3>3. orderTotal'[o] = Cardinality(bill[o].rounds) + 1
      <4>1. CASE orderStatus[o] # "NONE"
        BY <2>1, <2>3, <4>1 DEF Bills
      <4>2. CASE orderStatus[o] = "NONE"
        <5>1. Cardinality(bill[o].rounds) = 0
          BY <4>2, FS_EmptySet DEF Unplaced
        <5> QED BY <4>2, <5>1 DEF Bills
      <4> QED BY <4>1, <4>2
    <3> QED BY <1>2, <2>3, <3>2, <3>3
  <2> QED BY <2>2, <2>3
<1>12. \A p \in OrderId \cup {None}, t \in SessionId \cup {None} :
         Belongs(p, t) => Belongs(p, t)'
  <2> SUFFICES ASSUME NEW p \in OrderId, NEW t \in SessionId \cup {None}, Belongs(p, t)
               PROVE  Belongs(p, t)'
    BY DEF Belongs
  <2>1. CASE p # o
    BY <1>2, <1>3, <2>1 DEF Belongs, Bills
  <2>2. CASE p = o
    <3>1. orderStatus[o] # "NONE"
      BY <1>5, <2>2 DEF Belongs
    <3>2. PICK r \in bill[o].rounds : TRUE
      BY <3>1 DEF Unplaced
    <3>3. round[r].session = t /\ round[r].session = s
      BY <1>5, <1>6, <2>2 DEF Belongs
    <3> QED BY <1>1, <1>2, <1>3, <1>5, <1>6, <2>2, <3>3 DEF Belongs
  <2> QED BY <2>1, <2>2
<1>13. SessionsKnow'
  <2> SUFFICES ASSUME NEW t \in SessionId
               PROVE  Belongs(session[t].confirmedOrder, t)'
    BY DEF SessionsKnow
  <2>1. CASE t = s
    <3>1. session'[s].confirmedOrder = o
      BY DEF Bills
    <3>2. o \in OrderId /\ \A r \in bill'[o].rounds : round'[r].session = s
      BY <1>1, <1>2, <1>3, <1>6
    <3> QED BY <1>5, <2>1, <3>1, <3>2 DEF Belongs
  <2>2. CASE t # s
    <3>1. session'[t] = session[t]
      BY <2>2 DEF Bills
    <3>2. Belongs(session[t].confirmedOrder, t)
      BY DEF SessionsKnow
    <3>3. session[t].confirmedOrder \in OrderId \cup {None}
      BY DEF SessionInv, SessionsTyped, SessionRow
    <3> QED BY <1>12, <3>1, <3>2, <3>3 DEF Belongs
  <2> QED BY <2>1, <2>2
<1>14. RequestsKnow'
  <2>1. h \in Request /\ Step(h)
    BY DEF Request, Step, ConfirmStep
  <2> QED BY <1>12, <2>1, RequestsKeepKnowing
<1> QED BY <1>7, <1>8, <1>9, <1>10, <1>11, <1>13, <1>14

-----------------------------------------------------------------------------
(* Types *)

LEMMA ItemsMove ==
  ASSUME Typed, NEW h \in Request, Step(h)
  PROVE  item' \in [ItemId -> ItemRow]
<1> USE DEF Typed, TypeOK
<1>0. handler[h] \in HandlerState /\ Targets(handler[h])
  BY DEF HandlersTyped
<1>1. ASSUME NEW r \in RoundId \cup {None}, NEW i \in ItemId
      PROVE  [item[i] EXCEPT !.round = r] \in ItemRow
  BY <1>1 DEF ItemRow
<1>2. CASE UNCHANGED item
  BY <1>2
<1>3. CASE AddItem(h)
  <2>1. PICK i \in ItemId, n \in 1..MaxQuantity :
          item' = [item EXCEPT ![i] = [session |-> handler[h].session, round |-> None,
                                       quantity |-> n]]
    BY <1>3 DEF AddItem
  <2>2. handler[h].session \in SessionId /\ n \in 0..MaxQuantity
    BY <1>0, <1>3, SessionsAssumption DEF AddItem, At, Targets
  <2>3. [session |-> handler[h].session, round |-> None, quantity |-> n] \in ItemRow
    BY <2>2 DEF ItemRow
  <2> QED BY <2>1, <2>3
<1>4. CASE EditItem(h)
  <2> DEFINE i == handler[h].item
  <2>1. PICK n \in 0..MaxQuantity :
          item' = IF item[i].quantity = 0 THEN item
                                          ELSE [item EXCEPT ![i] = [@ EXCEPT !.quantity = n]]
    BY <1>4 DEF EditItem
  <2>2. i \in ItemId => [item[i] EXCEPT !.quantity = n] \in ItemRow
    BY DEF ItemRow
  <2> HIDE DEF i
  <2> QED BY <2>1, <2>2
<1>5. CASE LinkItems(h)
  <2> DEFINE r == handler[h].round
             Linked == [i \in ItemId |-> IF i \in Cart(handler[h].session)
                                         THEN [item[i] EXCEPT !.round = r] ELSE item[i]]
  <2>1. item' = item \/ item' = Linked
    BY <1>5 DEF LinkItems
  <2>2. \A i \in ItemId : [item[i] EXCEPT !.round = r] \in ItemRow
    BY <1>0, <1>1, <1>5 DEF LinkItems, At, Targets
  <2>3. Linked \in [ItemId -> ItemRow]
    BY <2>2
  <2> HIDE DEF Linked
  <2> QED BY <2>1, <2>3
<1>6. CASE UnlinkItems(h) \/ DeleteRound(h)
  <2> DEFINE r == handler[h].round
  <2>1. item' = Unlinked(r)
    BY <1>6 DEF UnlinkItems, DeleteRound
  <2>2. \A i \in ItemId : [item[i] EXCEPT !.round = None] \in ItemRow
    BY <1>1
  <2> HIDE DEF r
  <2>3. Unlinked(r) \in [ItemId -> ItemRow]
    BY <2>2 DEF Unlinked
  <2> QED BY <2>1, <2>3
<1>7. ASSUME ~UNCHANGED item
      PROVE  AddItem(h) \/ EditItem(h) \/ LinkItems(h) \/ UnlinkItems(h) \/ DeleteRound(h)
  BY <1>7 DEF Step, StartStep, ItemStep, SubmitStep, ConfirmStep, RejectStep, CloseStep, Fails,
     rows, ReadForStart, CreateSession, OccupyTable, ReadForAdd, ReadForEdit,
     ReadForSubmit, NumberRound, InsertRound, RoundNumberTaken, AwaitConfirmation,
     ReadForConfirm, LockRounds, CommitConfirm, ReadForReject, FindPendingOrder, Reactivate,
     ReadForClose, CheckSettled, CancelPendingOrders, CloseSession, FreeTable
<1> QED BY <1>2, <1>3, <1>4, <1>5, <1>6, <1>7

LEMMA TablesMove ==
  ASSUME Typed, NEW h \in Request, Step(h), ~(h \in Staff /\ CommitConfirm(h))
  PROVE  table' \in [Table -> {"AVAILABLE", "OCCUPIED"}]
<1> USE DEF Typed, TypeOK
<1>1. CASE UNCHANGED table
  BY <1>1
<1>2. CASE OccupyTable(h) \/ FreeTable(h)
  BY <1>2 DEF OccupyTable, FreeTable
<1>3. ASSUME ~UNCHANGED table
      PROVE  OccupyTable(h) \/ FreeTable(h)
  BY <1>3 DEF Step, StartStep, ItemStep, SubmitStep, ConfirmStep, RejectStep, CloseStep, Fails,
     rows, ReadForStart, CreateSession, ReadForAdd, AddItem, ReadForEdit, EditItem,
     ReadForSubmit, NumberRound, InsertRound, RoundNumberTaken, LinkItems, AwaitConfirmation,
     ReadForConfirm, LockRounds, ReadForReject, FindPendingOrder, UnlinkItems, DeleteRound,
     Reactivate, ReadForClose, CheckSettled, CancelPendingOrders, CloseSession
<1> QED BY <1>1, <1>2, <1>3

-----------------------------------------------------------------------------
(* The invariant *)

LEMMA StepInv ==
  ASSUME Inv, IsFiniteSet(RoundId), NEW h \in Request, Step(h)
  PROVE  Inv' /\ \A r \in RoundId : Decides(r)
<1> USE DEF Inv
<1>1. HandlersTyped' /\ item' \in [ItemId -> ItemRow]
  BY StepHandlers, ItemsMove
<1>2. SessionInv' /\ RoundInv' /\ LockInv'
  BY SessionMoves, RoundMoves, LocksMove
<1>3. session' \in [SessionId -> SessionRow] /\ round' \in [RoundId -> RoundRow]
  BY <1>2 DEF SessionInv, SessionsTyped, RoundInv, RoundsTyped
<1>4. handler' \in [Staff \cup Guest -> HandlerState]
  BY <1>1 DEF HandlersTyped, Request
<1>5. CASE h \in Staff /\ CommitConfirm(h)
  <2>1. /\ Order!LifecycleTypeOK' /\ bill' \in [OrderId -> Bill]
        /\ table' \in [Table -> {"AVAILABLE", "OCCUPIED"}]
    BY <1>5, CommitBills, OrdersTypedAs DEF BillsTyped
  <2>2. PICK o \in OrderId : Bills(h, o)
    BY <1>5, CommitBills
  <2>3. \A r \in RoundId : Decides(r)
    BY RoundMoves
  <2>4. BillInv'
    BY <1>5, <2>2, <2>3, BillsGrow
  <2> QED BY <1>1, <1>2, <1>3, <1>4, <2>1, <2>3, <2>4 DEF Typed, TypeOK
<1>6. CASE ~(h \in Staff /\ CommitConfirm(h))
  <2>1. UNCHANGED <<bill, orderVars>>
    BY <1>6, BillsKept
  <2>2. Order!LifecycleTypeOK' /\ bill' \in [OrderId -> Bill]
    BY <2>1 DEF Typed, TypeOK, Order!LifecycleTypeOK, orderVars
  <2>3. table' \in [Table -> {"AVAILABLE", "OCCUPIED"}]
    BY <1>6, TablesMove
  <2>4. Undisputed /\ \A r \in RoundId : Decides(r)
    BY <1>6, RoundMoves
  <2>5. OrdersKept
    BY <1>6, SessionMoves
  <2>6. BillInv'
    BY <2>1, <2>4, <2>5, BillsStay
  <2> QED BY <1>1, <1>2, <1>3, <1>4, <2>2, <2>3, <2>4, <2>6 DEF Typed, TypeOK
<1> QED BY <1>5, <1>6

LEMMA OrderMovedInv ==
  ASSUME Inv, NEW o \in OrderId, OrderMoved(o)
  PROVE  Inv' /\ \A r \in RoundId : Decides(r)
<1> USE DEF Inv
<1>1. OrdersTyped
  BY OrdersTypedAs DEF Typed, TypeOK
<1>2. OrdersTyped' /\ UNCHANGED <<orderTotal, session, round, item, handler, bill>>
  BY <1>1, OrdersMove
<1>3. table' \in [Table -> {"AVAILABLE", "OCCUPIED"}]
  BY DEF Typed, TypeOK, OrderMoved
<1>4. Typed'
  BY <1>2, <1>3, OrdersTypedAs DEF Typed, TypeOK, HandlersTyped, Targets
<1>5. SessionInv'
  BY <1>2 DEF SessionInv, SessionsTyped, Blank, OneOpen, Open
<1>6. RoundInv' /\ LockInv' /\ \A r \in RoundId : Decides(r)
  BY <1>2 DEF RoundInv, RoundsTyped, Undecided, RoundNumbersUnique, RoundsOf, Stored, LockInv,
     HeldRounds, Exclusive, Decides
<1> QED BY <1>4, <1>5, <1>6, BillsOutlast

LEMMA InitInv ==
  ASSUME Init
  PROVE  Inv
<1> USE SessionsAssumption DEF Init
<1>1. Typed
  <2>1. Order!LifecycleTypeOK
    BY DEF Order!LifecycleInit, Order!LifecycleTypeOK, Order!OrderStatus, Order!OrderType,
       Order!PaymentStatus
  <2>2. HandlersTyped
    BY IdleTyped DEF HandlersTyped, Request
  <2>3. /\ session \in [SessionId -> SessionRow] /\ round \in [RoundId -> RoundRow]
        /\ item \in [ItemId -> ItemRow] /\ bill \in [OrderId -> Bill]
    BY NoRoundTyped DEF SessionRow, ItemRow, Bill
  <2> QED BY <2>1, <2>2, <2>3 DEF Typed, TypeOK, HandlersTyped, Request
<1>2. SessionInv
  BY <1>1 DEF SessionInv, SessionsTyped, Typed, TypeOK, Blank, OneOpen, Open, OpenStatus
<1>3. RoundInv
  BY <1>1 DEF RoundInv, RoundsTyped, Typed, TypeOK, Undecided, RoundNumbersUnique, RoundsOf,
     Stored, NoRound
<1>4. LockInv
  BY IdleTyped DEF LockInv, HeldRounds, Exclusive
<1>5. BillInv
  <2>1. Named /\ Unplaced /\ Confirmed /\ OneSession
    BY DEF Named, Unplaced, Confirmed, OneSession, NoRound, Order!LifecycleInit
  <2>2. Counted
    BY FS_EmptySet DEF Counted, Order!LifecycleInit
  <2>3. SessionsKnow /\ RequestsKnow
    BY IdleTyped DEF SessionsKnow, RequestsKnow, Belongs, Request
  <2> QED BY <2>1, <2>2, <2>3 DEF BillInv
<1> QED BY <1>1, <1>2, <1>3, <1>4, <1>5 DEF Inv

LEMMA NextInv ==
  ASSUME Inv, IsFiniteSet(RoundId), [Next]_vars
  PROVE  Inv' /\ \A r \in RoundId : Decides(r)
<1>1. CASE UNCHANGED vars
  <2>1. UNCHANGED <<session, round, item, table, handler, bill, orderVars>>
    BY <1>1 DEF vars, orderVars
  <2> USE <2>1 DEF Inv
  <2>2. Typed'
    BY DEF Typed, TypeOK, HandlersTyped, Targets, Order!LifecycleTypeOK, orderVars
  <2>3. SessionInv'
    BY DEF SessionInv, SessionsTyped, Blank, OneOpen, Open
  <2>4. RoundInv' /\ LockInv' /\ \A r \in RoundId : Decides(r)
    BY DEF RoundInv, RoundsTyped, Undecided, RoundNumbersUnique, RoundsOf, Stored, LockInv,
       HeldRounds, Exclusive, Decides
  <2>5. BillInv'
    BY DEF BillInv, Named, Counted, Unplaced, Confirmed, OneSession, SessionsKnow, RequestsKnow,
       Belongs, orderVars
  <2> QED BY <2>2, <2>3, <2>4, <2>5
<1>2. CASE \E h \in Request : Step(h)
  BY <1>2, StepInv
<1>3. CASE \E o \in OrderId : OrderMoved(o)
  BY <1>3, OrderMovedInv
<1>4. CASE Next
  <2>1. (\E h \in Request : Step(h)) \/ (\E o \in OrderId : OrderMoved(o))
    BY <1>4 DEF Next, Step, Request
  <2> QED BY <1>2, <1>3, <2>1
<1> QED BY <1>1, <1>4

LEMMA AlwaysInv ==
  ASSUME IsFiniteSet(RoundId)
  PROVE  Spec => []Inv
BY InitInv, NextInv, PTL DEF Spec

LEMMA OneOpenCounts ==
  ASSUME SessionInv
  PROVE  OneOpenSessionPerTable
<1> SUFFICES ASSUME NEW t \in Table
             PROVE  Cardinality(OpenOn(t)) <= 1
  BY DEF OneOpenSessionPerTable
<1>1. CASE OpenOn(t) = {}
  BY <1>1, FS_EmptySet
<1>2. CASE OpenOn(t) # {}
  <2>1. PICK s : s \in OpenOn(t)
    BY <1>2
  <2>2. OpenOn(t) = {s}
    BY <2>1 DEF OpenOn, SessionInv, OneOpen
  <2>3. Cardinality(OpenOn(t)) = 1
    BY <2>2, FS_Singleton
  <2> QED BY <2>3
<1> QED BY <1>1, <1>2

\* TableSessions is type correct for any number of tables, sessions, guests, employees,
\* items and orders (the rounds of a restaurant being finitely many).
THEOREM TypeCorrect ==
  ASSUME IsFiniteSet(RoundId)
  PROVE  Spec => []TypeOK
<1>1. Inv => TypeOK
  BY DEF Inv, Typed
<1> QED BY <1>1, AlwaysInv, PTL

\* startSession and the statements that reopen a session keep a table to one open
\* session, whatever overlaps.
THEOREM TablesHaveOneSession ==
  ASSUME IsFiniteSet(RoundId)
  PROVE  Spec => []OneOpenSessionPerTable
<1>1. Inv => OneOpenSessionPerTable
  BY OneOpenCounts DEF Inv
<1> QED BY <1>1, AlwaysInv, PTL

\* Confirming, returning and closing decide about a round once, however they overlap.
THEOREM DecisionsAreFinal ==
  ASSUME IsFiniteSet(RoundId)
  PROVE  Spec => RoundsDecidedOnce
<1>1. ASSUME Inv, [Next]_vars
      PROVE  [\A r \in RoundId :
                /\ round[r].status = "CONFIRMED" => round'[r].status \in {"CONFIRMED", "DELETED"}
                /\ round[r].status = "CANCELLED" => round'[r].status \in {"CANCELLED", "DELETED"}
                /\ round[r].status = "DELETED" => round'[r].status = "DELETED"
                /\ round[r].order # None => round'[r].order = round[r].order]_round
  BY <1>1, NextInv DEF Decides
<1> QED BY <1>1, AlwaysInv, PTL DEF Spec, RoundsDecidedOnce

\* confirmSession bills every round it confirms to one order, and an order's total is
\* exactly the rounds billed to it.
THEOREM BillsAreExact ==
  ASSUME IsFiniteSet(RoundId)
  PROVE  Spec => []RoundsBilledOnce
<1>1. Inv => RoundsBilledOnce
  BY BilledOnceFollows DEF Inv
<1> QED BY <1>1, AlwaysInv, PTL
=============================================================================
