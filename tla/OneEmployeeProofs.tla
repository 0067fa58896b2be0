--------------------------- MODULE OneEmployeeProofs ---------------------------
(***************************************************************************)
(* What holds of table sessions as long as one employee at a time decides, *)
(* whatever any number of guests and the order endpoints do meanwhile.     *)
(***************************************************************************)
EXTENDS TableSessionsProofs

OneEmployee == \A g, h \in Staff : g = h

\* What the employee's request has read of a session's order is still so.
Current ==
  \A h \in Staff : handler[h].session \in SessionId =>
    handler[h].confirmedOrder = session[handler[h].session].confirmedOrder

\* A session about to be closed has a settled order, or none.
Checked ==
  \A h \in Staff : handler[h].pc \in {"settled", "cancelled"}
    => MayClose(handler[h].confirmedOrder)

\* The round about to be returned is still undecided.
Found ==
  \A h \in Staff : handler[h].pc \in {"found", "unlinked"}
    => round[handler[h].round].status = "AWAITING_CONFIRMATION"

Returned == \A r \in RoundId : round[r].status = "DELETED" => round[r].order = None

\* Only the order a session names can still take a round of it.
Latest ==
  \A s \in SessionId, o \in OrderId :
    Appendable(o) /\ (\E r \in bill[o].rounds : round[r].session = s)
      => session[s].confirmedOrder = o

DecisionInv ==
  Current /\ Checked /\ Found /\ Returned /\ Latest /\ ClosedSessionIsSettled

-----------------------------------------------------------------------------
(* What single steps do *)

\* Only closing closes, and only returning deletes.
LEMMA OnlyClosingCloses ==
  ASSUME Inv, NEW h \in Request, Step(h), NEW s \in SessionId, session'[s].status = "CLOSED"
  PROVE  \/ session[s].status = "CLOSED" /\ session'[s].confirmedOrder = session[s].confirmedOrder
         \/ /\ h \in Staff /\ handler[h].pc = "cancelled" /\ handler[h].session = s
            /\ session'[s].confirmedOrder = session[s].confirmedOrder
<1> USE DEF Inv, SessionInv, SessionsTyped
<1>0. session \in [SessionId -> SessionRow]
  OBVIOUS
<1>1. CASE UNCHANGED session
  BY <1>1
<1>2. CASE CreateSession(h)
  BY <1>0, <1>2 DEF CreateSession
<1>3. CASE h \in Staff /\ CommitConfirm(h)
  <2>1. s # handler[h].session /\ session'[s] = session[s]
    BY <1>3, SessionCommits
  <2> QED BY <2>1
<1>4. CASE AwaitConfirmation(h)
  BY <1>0, <1>4 DEF AwaitConfirmation, SetStatus
<1>5. CASE h \in Staff /\ Reactivate(h)
  BY <1>0, <1>5 DEF Reactivate, SetStatus
<1>6. CASE h \in Staff /\ CloseSession(h)
  <2>1. SetStatus(handler[h].session, "CLOSED") /\ handler[h].pc = "cancelled"
    BY <1>6 DEF CloseSession, At
  <2>2. OrdersKept
    BY <2>1, StatusSet DEF Typed, HandlersTyped, Targets, Request
  <2>3. s # handler[h].session => session'[s] = session[s]
    BY <1>0, <2>1 DEF SetStatus
  <2> QED BY <1>6, <2>1, <2>2, <2>3 DEF OrdersKept
<1>7. ASSUME ~UNCHANGED session
      PROVE  \/ CreateSession(h) \/ (h \in Staff /\ CommitConfirm(h))
             \/ AwaitConfirmation(h) \/ (h \in Staff /\ Reactivate(h))
             \/ (h \in Staff /\ CloseSession(h))
  BY <1>7 DEF Step, StartStep, ItemStep, SubmitStep, ConfirmStep, RejectStep, CloseStep, Fails,
     rows, ReadForStart, OccupyTable, ReadForAdd, AddItem, ReadForEdit, EditItem, ReadForSubmit,
     NumberRound, InsertRound, RoundNumberTaken, LinkItems, ReadForConfirm, LockRounds,
     ReadForReject, FindPendingOrder, UnlinkItems, DeleteRound, ReadForClose, CheckSettled,
     CancelPendingOrders, FreeTable
<1> QED BY <1>1, <1>2, <1>3, <1>4, <1>5, <1>6, <1>7

LEMMA OnlyReturningDeletes ==
  ASSUME Inv, NEW h \in Request, Step(h), NEW r \in RoundId
  PROVE  /\ round'[r].status = "DELETED" =>
              \/ round[r].status = "DELETED"
              \/ h \in Staff /\ handler[h].pc = "unlinked" /\ handler[h].round = r
                 /\ round'[r].order = round[r].order
         /\ h \notin Staff /\ round[r].status # "NONE" => round'[r] = round[r]
<1> USE DEF Inv, RoundInv, RoundsTyped
<1>0. round \in [RoundId -> RoundRow]
  OBVIOUS
<1>1. CASE UNCHANGED round
  BY <1>1
<1>2. CASE InsertRound(h)
  BY <1>0, <1>2 DEF InsertRound, NoRound
<1>3. CASE h \in Staff /\ DeleteRound(h)
  BY <1>0, <1>3 DEF DeleteRound, At
<1>4. CASE h \in Staff /\ CancelPendingOrders(h)
  BY <1>0, <1>4 DEF CancelPendingOrders
<1>5. CASE h \in Staff /\ CommitConfirm(h)
  <2>1. PICK o \in OrderId : Bills(h, o)
    BY <1>5, CommitBills
  <2> QED BY <1>5, <2>1 DEF Bills, ConfirmsFor
<1>6. ASSUME ~UNCHANGED round
      PROVE  \/ InsertRound(h)
             \/ h \in Staff /\ (DeleteRound(h) \/ CancelPendingOrders(h) \/ CommitConfirm(h))
  BY <1>6 DEF Step, StartStep, ItemStep, SubmitStep, ConfirmStep, RejectStep, CloseStep, Fails,
     rows, ReadForStart, CreateSession, OccupyTable, ReadForAdd, AddItem, ReadForEdit, EditItem,
     ReadForSubmit, NumberRound, RoundNumberTaken, LinkItems, AwaitConfirmation, ReadForConfirm,
     LockRounds, ReadForReject, FindPendingOrder, UnlinkItems, Reactivate, ReadForClose,
     CheckSettled, CloseSession, FreeTable
<1> QED BY <1>1, <1>2, <1>3, <1>4, <1>5, <1>6

\* Settled orders stay settled.
LEMMA SettledStays ==
  ASSUME Inv, NEW h \in Request, Step(h)
  PROVE  \A o \in OrderId \cup {None} : MayClose(o) => MayClose(o)'
<1>1. CASE h \in Staff /\ CommitConfirm(h)
  <2>1. PICK o \in OrderId : Bills(h, o)
    BY <1>1, CommitBills DEF Inv
  <2> QED BY <2>1 DEF Bills, MayClose
<1>2. CASE ~(h \in Staff /\ CommitConfirm(h))
  BY <1>2, BillsKept DEF MayClose, Settled, orderVars
<1> QED BY <1>1, <1>2

-----------------------------------------------------------------------------
(* The invariant *)

LEMMA CurrentStays ==
  ASSUME Inv, OneEmployee, IsFiniteSet(RoundId), Current, NEW g \in Request, Step(g)
  PROVE  Current'
<1> SUFFICES ASSUME NEW h \in Staff, handler'[h].session \in SessionId
             PROVE  handler'[h].confirmedOrder = session'[handler'[h].session].confirmedOrder
  BY DEF Current
<1> USE DEF Inv
<1>0. h \in Request
  BY DEF Request
<1>1. CASE g # h
  <2>1. g \notin Staff /\ handler'[h] = handler[h]
    BY <1>0, <1>1, StepHandlers DEF OneEmployee
  <2>2. OrdersKept
    BY <2>1, SessionMoves
  <2> QED BY <2>1, <2>2 DEF Current, OrdersKept
<1>2. CASE g = h /\ CommitConfirm(h)
  <2>1. handler'[h] = Idle
    BY <1>0, <1>2 DEF CommitConfirm, Done, Typed, HandlersTyped
  <2> QED BY <2>1, IdleTyped, SessionsAssumption
<1>3. CASE g = h /\ ~CommitConfirm(h)
  <2>1. OrdersKept
    BY <1>3, SessionMoves
  <2>2. \/ handler'[h].session = handler[h].session
           /\ handler'[h].confirmedOrder = handler[h].confirmedOrder
        \/ handler'[h].confirmedOrder = session[handler'[h].session].confirmedOrder
    BY <1>3, StepHandlers, SessionsAssumption DEF MayKnow, Locks
  <2> QED BY <2>1, <2>2 DEF Current, OrdersKept
<1> QED BY <1>1, <1>2, <1>3

LEMMA CheckedStays ==
  ASSUME Inv, OneEmployee, IsFiniteSet(RoundId), Checked, NEW g \in Request, Step(g)
  PROVE  Checked'
<1> SUFFICES ASSUME NEW h \in Staff, handler'[h].pc \in {"settled", "cancelled"}
             PROVE  MayClose(handler[h].confirmedOrder)'
  BY DEF Checked
<1> USE DEF Inv
<1>1. PICK o \in OrderId \cup {None} : o = handler'[h].confirmedOrder
  BY StepHandlers DEF Request, HandlersTyped, HandlerState
<1>2. h \in Request
  BY DEF Request
<1>3. MayClose(o)
  <2>1. CASE g # h
    BY <1>1, <1>2, <2>1, StepHandlers DEF Checked
  <2>2. CASE g = h
    BY <1>1, <2>2, StepHandlers DEF MayKnow, Arrives, Locks, Checked
  <2> QED BY <2>1, <2>2
<1>4. MayClose(o)'
  BY <1>3, SettledStays
<1> QED BY <1>1, <1>4 DEF MayClose, Settled

LEMMA FoundStays ==
  ASSUME Inv, OneEmployee, IsFiniteSet(RoundId), Found, NEW g \in Request, Step(g)
  PROVE  Found'
<1> SUFFICES ASSUME NEW h \in Staff, handler'[h].pc \in {"found", "unlinked"}
             PROVE  round'[handler'[h].round].status = "AWAITING_CONFIRMATION"
  BY DEF Found
<1> USE DEF Inv
<1>0. h \in Request /\ handler'[h].round \in RoundId
  BY StepHandlers DEF Request, HandlersTyped, Targets
<1>1. CASE g # h
  <2>1. g \notin Staff /\ handler'[h] = handler[h]
    BY <1>0, <1>1, StepHandlers DEF OneEmployee
  <2>2. round[handler[h].round].status = "AWAITING_CONFIRMATION"
    BY <2>1 DEF Found
  <2> QED BY <1>0, <2>1, <2>2, OnlyReturningDeletes
<1>2. CASE g = h
  <2>1. MayKnow(h, handler'[h])
    BY <1>2, StepHandlers DEF Locks
  <2>2. round[handler'[h].round].status = "AWAITING_CONFIRMATION"
    BY <2>1 DEF MayKnow, Arrives, Found
  <2>3. UNCHANGED round
    <3>1. /\ h \in Request /\ handler \in [Request -> HandlerState]
          /\ handler[h] \in HandlerState /\ Targets(handler[h])
      BY <1>0 DEF Typed, HandlersTyped
    <3>2. ~DeleteRound(h)
      BY <3>1, Continues DEF DeleteRound, Goto
    <3>3. ~CancelPendingOrders(h)
      BY <3>1, Continues DEF CancelPendingOrders, Goto
    <3>4. ~CommitConfirm(h)
      BY <3>1, IdleTyped DEF CommitConfirm, Done
    <3>5. ~InsertRound(h)
      <4> SUFFICES ASSUME InsertRound(h) PROVE FALSE
        OBVIOUS
      <4>1. PICK r \in RoundId :
              handler' = [handler EXCEPT ![h] = [@ EXCEPT !.pc = "inserted", !.round = r]]
        BY DEF InsertRound
      <4> DEFINE d == [handler[h] EXCEPT !.pc = "inserted", !.round = r]
      <4>2. d.pc = "inserted"
        BY <3>1, ContinuesWith
      <4>3. handler'[h] = d
        BY <3>1, <4>1
      <4> HIDE DEF d
      <4> QED BY <4>2, <4>3
    <3> QED BY <1>2, <3>2, <3>3, <3>4, <3>5 DEF Step, StartStep, ItemStep, SubmitStep,
        ConfirmStep, RejectStep, CloseStep, Fails, rows, ReadForStart, CreateSession,
        OccupyTable, ReadForAdd, AddItem, ReadForEdit, EditItem, ReadForSubmit, NumberRound,
        RoundNumberTaken, LinkItems, AwaitConfirmation, ReadForConfirm, LockRounds,
        ReadForReject, FindPendingOrder, UnlinkItems, Reactivate, ReadForClose, CheckSettled,
        CloseSession, FreeTable
  <2> QED BY <2>2, <2>3
<1> QED BY <1>1, <1>2

LEMMA ReturnedStays ==
  ASSUME Inv, Found, Returned, NEW g \in Request, Step(g)
  PROVE  Returned'
<1> SUFFICES ASSUME NEW r \in RoundId, round'[r].status = "DELETED"
             PROVE  round'[r].order = None
  BY DEF Returned
<1> USE DEF Inv
<1>1. CASE round[r].status = "DELETED"
  <2>1. Undisputed \/ \E o \in OrderId : Bills(g, o)
    BY RoundMoves, CommitBills
  <2> QED BY <1>1, <2>1 DEF Undisputed, Returned, Bills, ConfirmsFor
<1>2. CASE round[r].status # "DELETED"
  <2>1. g \in Staff /\ handler[g].pc = "unlinked" /\ handler[g].round = r
        /\ round'[r].order = round[r].order
    BY <1>2, OnlyReturningDeletes
  <2> QED BY <2>1 DEF Found, RoundInv, Undecided
<1> QED BY <1>1, <1>2

LEMMA LatestStays ==
  ASSUME Inv, OneEmployee, Current, Latest, NEW g \in Request, Step(g)
  PROVE  Latest'
<1> SUFFICES ASSUME NEW s \in SessionId, NEW o \in OrderId, Appendable(o)',
                    NEW r \in bill'[o].rounds, round'[r].session = s
             PROVE  session'[s].confirmedOrder = o
  BY DEF Latest
<1> USE DEF Inv
<1>0. \A q \in bill[o].rounds : q \in RoundId /\ round[q].order = o
                                /\ round'[q].session = round[q].session
  BY RoundMoves, SessionsAssumption DEF BillInv, Named, Decides
<1>1. CASE g \in Staff /\ CommitConfirm(g)
  <2> DEFINE t == handler[g].session
  <2>1. PICK p \in OrderId : Bills(g, p)
    BY <1>1, CommitBills
  <2>2. t \in SessionId /\ handler[g].confirmedOrder = session[t].confirmedOrder
    BY <1>1 DEF Typed, HandlersTyped, Targets, CommitConfirm, At, Request, Current
  <2>3. CASE o = p
    <3>1. session'[t].confirmedOrder = p
      BY <2>1 DEF Bills
    <3>2. round[handler[g].round].session = t
      BY <2>1 DEF Bills, ConfirmsFor
    <3>3. r \in bill[p].rounds \cup {handler[g].round}
      BY <2>1, <2>3 DEF Bills
    <3>4. s = t
      <4>1. CASE r = handler[g].round
        BY <2>1, <3>2, <4>1 DEF Bills, ConfirmsFor
      <4>2. CASE r \in bill[p].rounds
        <5>1. orderStatus[p] # "NONE"
          BY <4>2 DEF BillInv, Unplaced
        <5>2. p = handler[g].confirmedOrder /\ p # None
          BY <2>1, <5>1, SessionsAssumption DEF Bills
        <5>3. Belongs(p, t)
          BY <1>1, <5>2 DEF BillInv, RequestsKnow, Request
        <5> QED BY <1>0, <2>3, <4>2, <5>2, <5>3 DEF Belongs
      <4> QED BY <3>3, <4>1, <4>2
    <3> QED BY <2>3, <3>1, <3>4
  <2>4. CASE o # p
    <3>1. /\ bill'[o] = bill[o] /\ orderStatus'[o] = orderStatus[o]
          /\ orderPayment' = orderPayment
      BY <2>1, <2>4 DEF Bills
    <3>2. Appendable(o) /\ round[r].session = s
      BY <1>0, <3>1 DEF Appendable
    <3>3. session[s].confirmedOrder = o
      BY <3>1, <3>2 DEF Latest
    <3>4. s # t
      BY <2>1, <2>2, <2>4, <3>2, <3>3 DEF Bills
    <3> QED BY <2>1, <3>3, <3>4 DEF Bills
  <2> QED BY <2>3, <2>4
<1>2. CASE ~(g \in Staff /\ CommitConfirm(g))
  <2>1. UNCHANGED <<bill, orderVars>> /\ OrdersKept
    BY <1>2, BillsKept, SessionMoves
  <2>2. Appendable(o) /\ r \in bill[o].rounds
    BY <2>1 DEF Appendable, orderVars
  <2> QED BY <1>0, <2>1, <2>2 DEF Latest, OrdersKept
<1> QED BY <1>1, <1>2

LEMMA ClosedStaysSettled ==
  ASSUME Inv, Current, Checked, ClosedSessionIsSettled, NEW g \in Request, Step(g)
  PROVE  ClosedSessionIsSettled'
<1> SUFFICES ASSUME NEW s \in SessionId, session'[s].status = "CLOSED",
                    session'[s].confirmedOrder # None
             PROVE  Settled(session[s].confirmedOrder)'
  BY DEF ClosedSessionIsSettled
<1> USE DEF Inv
<1>1. session'[s].confirmedOrder = session[s].confirmedOrder
  BY OnlyClosingCloses
<1>2. session[s].confirmedOrder \in OrderId \cup {None}
  BY DEF SessionInv, SessionsTyped, SessionRow
<1>3. PICK o \in OrderId : o = session[s].confirmedOrder
  BY <1>1, <1>2
<1>4. MayClose(o)
  <2>1. CASE session[s].status = "CLOSED"
    BY <1>1, <1>3, <2>1 DEF ClosedSessionIsSettled, MayClose
  <2>2. CASE g \in Staff /\ handler[g].pc = "cancelled" /\ handler[g].session = s
    BY <1>3, <2>2 DEF Current, Checked
  <2> QED BY <2>1, <2>2, OnlyClosingCloses
<1>5. MayClose(o)'
  BY <1>4, SettledStays
<1> QED BY <1>1, <1>3, <1>5 DEF MayClose, Settled

LEMMA StepDecisions ==
  ASSUME Inv, OneEmployee, IsFiniteSet(RoundId), DecisionInv, NEW g \in Request, Step(g)
  PROVE  DecisionInv'
BY CurrentStays, CheckedStays, FoundStays, ReturnedStays, LatestStays, ClosedStaysSettled
DEF DecisionInv

LEMMA OrderMovedDecisions ==
  ASSUME Inv, DecisionInv, NEW o \in OrderId, OrderMoved(o)
  PROVE  DecisionInv'
<1>1. OrdersTyped
  BY OrdersTypedAs DEF Inv, Typed, TypeOK
<1>2. /\ UNCHANGED <<session, round, handler, bill>>
      /\ \A p \in OrderId : (Appendable(p)' => Appendable(p)) /\ (Settled(p) => Settled(p)')
  BY <1>1, OrdersMove
<1>3. Current' /\ Found' /\ Returned'
  BY <1>2 DEF DecisionInv, Current, Found, Returned
<1>4. Latest'
  BY <1>2 DEF DecisionInv, Latest
<1>5. Checked'
  <2> SUFFICES ASSUME NEW h \in Staff, handler[h].pc \in {"settled", "cancelled"}
               PROVE  MayClose(handler[h].confirmedOrder)'
    BY <1>2 DEF Checked
  <2>1. handler[h].confirmedOrder \in OrderId \cup {None}
    BY DEF Inv, Typed, HandlersTyped, HandlerState, Request
  <2>2. PICK p \in OrderId \cup {None} : p = handler[h].confirmedOrder
    BY <2>1
  <2>3. MayClose(p)
    BY <2>2 DEF DecisionInv, Checked
  <2>4. MayClose(p)'
    BY <1>2, <2>3 DEF MayClose
  <2> QED BY <1>2, <2>2, <2>4 DEF MayClose, Settled
<1>6. ClosedSessionIsSettled'
  <2> SUFFICES ASSUME NEW s \in SessionId, session[s].status = "CLOSED",
                      session[s].confirmedOrder # None
               PROVE  Settled(session[s].confirmedOrder)'
    BY <1>2 DEF ClosedSessionIsSettled
  <2>1. session[s].confirmedOrder \in OrderId \cup {None}
    BY DEF Inv, SessionInv, SessionsTyped, SessionRow
  <2>2. PICK p \in OrderId : p = session[s].confirmedOrder
    BY <2>1
  <2>3. Settled(p)
    BY <2>2 DEF DecisionInv, ClosedSessionIsSettled
  <2>4. Settled(p)'
    BY <1>2, <2>3
  <2> QED BY <1>2, <2>2, <2>4 DEF Settled
<1> QED BY <1>3, <1>4, <1>5, <1>6 DEF DecisionInv

LEMMA NextDecisions ==
  ASSUME Inv, OneEmployee, IsFiniteSet(RoundId), DecisionInv, [Next]_vars
  PROVE  DecisionInv'
<1>1. CASE UNCHANGED vars
  BY <1>1 DEF vars, DecisionInv, Current, Checked, Found, Returned, Latest,
     ClosedSessionIsSettled, MayClose, Settled, Appendable
<1>2. CASE Next
  <2>1. (\E h \in Request : Step(h)) \/ (\E o \in OrderId : OrderMoved(o))
    BY <1>2 DEF Next, Step, Request
  <2> QED BY <2>1, StepDecisions, OrderMovedDecisions
<1> QED BY <1>1, <1>2

LEMMA InitDecisions ==
  ASSUME Init
  PROVE  DecisionInv
<1> USE IdleTyped, SessionsAssumption DEF Init
<1>1. Current /\ Checked /\ Found
  BY DEF Current, Checked, Found
<1>2. Returned /\ ClosedSessionIsSettled
  BY DEF Returned, ClosedSessionIsSettled, NoRound
<1>3. Latest
  BY DEF Latest
<1> QED BY <1>1, <1>2, <1>3 DEF DecisionInv

LEMMA AlwaysDecisions ==
  ASSUME OneEmployee, IsFiniteSet(RoundId)
  PROVE  Spec => [](Inv /\ DecisionInv)
<1>1. Init => Inv /\ DecisionInv
  BY InitInv, InitDecisions
<1>2. Inv /\ DecisionInv /\ [Next]_vars => (Inv /\ DecisionInv)'
  BY NextInv, NextDecisions
<1> QED BY <1>1, <1>2, PTL DEF Spec

\* A closed session's order is paid, refunded or cancelled if one employee at a time
\* decides, whatever the guests and the order endpoints do (closeSession).
THEOREM ClosedSessionsAreSettled ==
  ASSUME OneEmployee, IsFiniteSet(RoundId)
  PROVE  Spec => []ClosedSessionIsSettled
<1>1. Inv /\ DecisionInv => ClosedSessionIsSettled
  BY DEF DecisionInv
<1> QED BY <1>1, AlwaysDecisions, PTL

\* A round that rejectPendingOrder returned is on no bill if one employee at a time decides.
THEOREM ReturnedRoundsAreUnbilled ==
  ASSUME OneEmployee, IsFiniteSet(RoundId)
  PROVE  Spec => []ReturnedRoundIsNotBilled
<1>1. Inv /\ DecisionInv => ReturnedRoundIsNotBilled
  BY SessionsAssumption
  DEF Inv, BillInv, Named, DecisionInv, Returned, ReturnedRoundIsNotBilled
<1> QED BY <1>1, AlwaysDecisions, PTL

\* The rounds on a bill have different numbers if one employee at a time decides: the
\* unique index tells stored rounds of a session apart, and no billed round is deleted.
THEOREM BillsTellRoundsApart ==
  ASSUME OneEmployee, IsFiniteSet(RoundId)
  PROVE  Spec => []BilledNumbersUnique
<1>1. ASSUME Inv, DecisionInv, NEW o \in OrderId, NEW r1 \in bill[o].rounds,
             NEW r2 \in bill[o].rounds, round[r1].orderNumber = round[r2].orderNumber
      PROVE  r1 = r2
  <2>1. ASSUME NEW r \in bill[o].rounds
        PROVE  r \in RoundId /\ Stored(r) /\ round[r].order = o
    <3>1. r \in RoundId /\ round[r].order = o /\ o # None
      BY <1>1, SessionsAssumption DEF Inv, BillInv, Named
    <3>2. round[r].status \notin {"NONE", "DELETED"}
      BY <1>1, <3>1 DEF Inv, RoundInv, Undecided, DecisionInv, Returned
    <3> QED BY <3>1, <3>2 DEF Stored
  <2>2. round[r1].session = round[r2].session
    BY <1>1 DEF Inv, BillInv, OneSession
  <2>3. round[r1].session \in SessionId \cup {None}
    BY <1>1, <2>1 DEF Inv, RoundInv, RoundsTyped, RoundRow
  <2>4. r1 \in RoundsOf(round[r1].session) /\ r2 \in RoundsOf(round[r1].session)
    BY <2>1, <2>2 DEF RoundsOf
  <2> QED BY <1>1, <2>3, <2>4 DEF Inv, RoundInv, RoundNumbersUnique
<1>2. Inv /\ DecisionInv => BilledNumbersUnique
  BY <1>1 DEF BilledNumbersUnique
<1> QED BY <1>2, AlwaysDecisions, PTL

\* A session has at most one order that can still take a round if one employee at a
\* time decides (confirmSession).
THEOREM SessionsHaveOneOrder ==
  ASSUME OneEmployee, IsFiniteSet(RoundId)
  PROVE  Spec => []OneAppendableOrderPerSession
<1>1. ASSUME Latest
      PROVE  OneAppendableOrderPerSession
  <2> SUFFICES ASSUME NEW s \in SessionId
               PROVE  Cardinality({o \in OrderId :
                        Appendable(o) /\ \E r \in bill[o].rounds : round[r].session = s}) <= 1
    BY DEF OneAppendableOrderPerSession
  <2> DEFINE O == {o \in OrderId :
                     Appendable(o) /\ \E r \in bill[o].rounds : round[r].session = s}
  <2>1. CASE O = {}
    BY <2>1, FS_EmptySet
  <2>2. CASE O # {}
    <3>1. PICK o : o \in O
      BY <2>2
    <3>2. O = {o}
      BY <1>1, <3>1 DEF Latest
    <3>3. Cardinality(O) = 1
      BY <3>2, FS_Singleton
    <3> QED BY <3>3
  <2> QED BY <2>1, <2>2
<1>2. DecisionInv => OneAppendableOrderPerSession
  BY <1>1 DEF DecisionInv
<1> QED BY <1>2, AlwaysDecisions, PTL
=============================================================================
