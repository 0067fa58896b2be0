----------------------------- MODULE WebhookProofs -----------------------------
(***************************************************************************)
(* Redelivered webhooks are harmless: for any number of messages, webhook  *)
(* requests, employees and failures, WebhookEvents implements              *)
(* Conversations, what counts as processed is stored, and every order is   *)
(* confirmed.  Handled one at a time, messages order each item once, and   *)
(* are heard while an agent is waited for.                                 *)
(***************************************************************************)
EXTENDS WebhookEvents, FiniteSetTheorems, TLAPS

\* A handler that is busy has a message.
BusyHasMessage == \A h \in Handler : handler[h].pc # "idle" => handler[h].message \in Message

ConversationTyped ==
  /\ conv \in ConvRow
  /\ handler \in [Handler -> HandlerState]
  /\ BusyHasMessage

Typed ==
  /\ ConversationTyped
  /\ event \in [EventId -> {"NONE", "RECEIVED", "PROCESSED", "FAILED"}]
  /\ delivery \in [Handler -> DeliveryState]
  /\ \A d \in Handler :
       /\ delivery[d].pc # "idle" => delivery[d].id \in EventId
       /\ delivery[d].pc = "store" => delivery[d].id \in Message

\* Only a request that has stored its message runs the automation.
OneAutomation == \A d \in Handler : delivery[d].pc # "automation" => At(d, "idle")

\* Past the look-up, a request that goes on to mark a message's event has it stored.
MarksStored ==
  \A d \in Handler :
    delivery[d].pc \in {"automation", "status", "mark"} /\ delivery[d].id \in Message
      => delivery[d].id \in inbound

Inv == Typed /\ OneAutomation /\ MarksStored /\ ProcessedIsStored

-----------------------------------------------------------------------------
(* The steps of Conversations *)

Busy ==
  {"create", "reset", "reread", "act", "empty", "announce", "open", "record", "pending"}

LEMMA HandlerGoes ==
  ASSUME NEW r \in HandlerState, NEW pc \in Busy
  PROVE  /\ [r EXCEPT !.pc = pc] \in HandlerState
         /\ [r EXCEPT !.pc = pc].message = r.message
BY DEF HandlerState, Busy

LEMMA HandlerReads ==
  ASSUME NEW r \in HandlerState, NEW pc \in Busy, NEW row \in ConvRow
  PROVE  /\ [r EXCEPT !.pc = pc, !.copy = row] \in HandlerState
         /\ [r EXCEPT !.pc = pc, !.copy = row].message = r.message
BY DEF HandlerState, Busy

LEMMA IdleTyped == Idle \in HandlerState /\ Idle.pc = "idle" /\ Fresh \in ConvRow
BY DEF Idle, HandlerState, NoConversation, ConvRow, Fresh

\* What a step of one handler does to handlers.
Moves(h) ==
  \/ End(h)
  \/ \E pc \in Busy :
       Goto(h, pc) \/ \E row \in ConvRow : Keep(h, pc, row)

LEMMA MovesTyped ==
  ASSUME ConversationTyped, NEW h \in Handler, handler[h].pc # "idle", Moves(h)
  PROVE  /\ handler' \in [Handler -> HandlerState]
         /\ BusyHasMessage'
         /\ \A g \in Handler \ {h} : handler'[g] = handler[g]
<1> USE DEF ConversationTyped, BusyHasMessage
<1>0. handler[h] \in HandlerState /\ handler[h].message \in Message
  OBVIOUS
<1>1. CASE End(h)
  BY <1>1, IdleTyped DEF End
<1>2. ASSUME NEW pc \in Busy, Goto(h, pc)
      PROVE  /\ handler' \in [Handler -> HandlerState]
             /\ BusyHasMessage'
             /\ \A g \in Handler \ {h} : handler'[g] = handler[g]
  <2> DEFINE r == [handler[h] EXCEPT !.pc = pc]
  <2>1. r \in HandlerState /\ r.message = handler[h].message
    BY <1>0, HandlerGoes
  <2>2. handler' = [handler EXCEPT ![h] = r]
    BY <1>2 DEF Goto
  <2> HIDE DEF r
  <2> QED BY <1>0, <2>1, <2>2
<1>3. ASSUME NEW pc \in Busy, NEW row \in ConvRow, Keep(h, pc, row)
      PROVE  /\ handler' \in [Handler -> HandlerState]
             /\ BusyHasMessage'
             /\ \A g \in Handler \ {h} : handler'[g] = handler[g]
  <2> DEFINE r == [handler[h] EXCEPT !.pc = pc, !.copy = row]
  <2>1. r \in HandlerState /\ r.message = handler[h].message
    BY <1>0, HandlerReads
  <2>2. handler' = [handler EXCEPT ![h] = r]
    BY <1>3 DEF Keep
  <2> HIDE DEF r
  <2> QED BY <1>0, <2>1, <2>2
<1> QED BY <1>1, <1>2, <1>3 DEF Moves

LEMMA ConvUpdates ==
  ASSUME NEW row \in ConvRow
  PROVE  /\ \A state \in {"WELCOME", "MAIN_MENU", "PRODUCT_SELECT", "CART", "ADDRESS",
                          "CONFIRM_ORDER"}, cart \in SUBSET Pick :
              /\ [row EXCEPT !.state = state] \in ConvRow
              /\ [row EXCEPT !.state = state, !.cart = cart] \in ConvRow
         /\ \A status \in {"ACTIVE", "WAITING_AGENT", "CLOSED"} :
              [row EXCEPT !.status = status] \in ConvRow
BY DEF ConvRow

LEMMA HandlesMoves ==
  ASSUME ConversationTyped, NEW h \in Handler, Handles(h)
  PROVE  /\ conv' \in ConvRow
         /\ handler[h].pc # "idle" /\ Moves(h)
         /\ inbound' = inbound
<1> USE ConvUpdates, IdleTyped DEF ConversationTyped, At, Acts, SetState, Moves, Busy
<1>1. CASE FindConversation(h)
  BY <1>1 DEF FindConversation
<1>2. CASE CreateConversation(h)
  BY <1>2 DEF CreateConversation
<1>3. CASE ReopenConversation(h)
  BY <1>3 DEF ReopenConversation
<1>4. CASE ReadReopened(h)
  BY <1>4 DEF ReadReopened
<1>5. CASE Restart(h)
  BY <1>5 DEF Restart
<1>6. CASE Answer(h)
  BY <1>6 DEF Answer
<1>7. CASE ShowCategories(h)
  BY <1>7 DEF ShowCategories
<1>8. CASE ChooseCategory(h)
  BY <1>8 DEF ChooseCategory
<1>9. CASE ChooseProduct(h)
  <2>1. handler[h] \in HandlerState /\ handler[h].pc = "act"
    BY <1>9 DEF ChooseProduct
  <2>2. handler[h].copy \in ConvRow /\ handler[h].message \in Message
    BY <2>1 DEF BusyHasMessage, HandlerState
  <2>3. handler[h].copy.cart \subseteq Pick
    BY <2>2 DEF ConvRow
  <2>4. Copy(h).cart \cup {handler[h].message} \in SUBSET Pick
    BY <2>2, <2>3 DEF Copy, Pick
  <2> QED BY <1>9, <2>1, <2>4 DEF ChooseProduct
<1>10. CASE ShowCart(h)
  BY <1>10 DEF ShowCart
<1>11. CASE PromptAddress(h)
  BY <1>11 DEF PromptAddress
<1>12. CASE TakeAddress(h)
  BY <1>12 DEF TakeAddress
<1>13. CASE ConfirmOrder(h)
  BY <1>13 DEF ConfirmOrder
<1>14. CASE EmptyCart(h)
  BY <1>14 DEF EmptyCart, OrderedConversation
<1>15. CASE Handoff(h)
  BY <1>15 DEF Handoff
<1>16. CASE Announce(h)
  BY <1>16 DEF Announce, NextAfterAnnouncing
<1>17. CASE OpenInbox(h)
  BY <1>17 DEF OpenInbox
<1>18. CASE FindInbox(h)
  BY <1>18 DEF FindInbox
<1>19. CASE RecordMessage(h)
  BY <1>19 DEF RecordMessage
<1>20. CASE MarkPending(h)
  BY <1>20 DEF MarkPending
<1> QED
  BY <1>1, <1>2, <1>3, <1>4, <1>5, <1>6, <1>7, <1>8, <1>9, <1>10, <1>11, <1>12, <1>13,
     <1>14, <1>15, <1>16, <1>17, <1>18, <1>19, <1>20 DEF Handles

LEMMA StaffTyped ==
  ASSUME ConversationTyped, NEW e \in Employee, StaffStep(e)
  PROVE  conv' \in ConvRow /\ UNCHANGED <<handler, inbound>>
BY ConvUpdates
   DEF ConversationTyped, StaffStep, ReadForRequest, Finishes, Reply, Resolve, CloseInbox,
       Assign, TakeOver, ReturnToAgent, Reassign, HandoffConversation, CloseConversation,
       RequestFails
-----------------------------------------------------------------------------
(* The steps of WebhookEvents *)

Pcs == {"idle", "insert", "process", "store", "automation", "status", "mark", "fail"}

LEMMA StepMoves ==
  ASSUME delivery \in [Handler -> DeliveryState], NEW d \in Handler, NEW pc \in Pcs, Step(d, pc)
  PROVE  /\ delivery' \in [Handler -> DeliveryState]
         /\ delivery'[d].pc = pc /\ delivery'[d].id = delivery[d].id
         /\ delivery'[d].status = delivery[d].status
         /\ \A o \in Handler \ {d} : delivery'[o] = delivery[o]
<1> DEFINE r == [delivery[d] EXCEPT !.pc = pc]
<1>1. /\ r \in DeliveryState /\ r.pc = pc /\ r.id = delivery[d].id
      /\ r.status = delivery[d].status
  BY DEF DeliveryState, Pcs
<1>2. delivery' = [delivery EXCEPT ![d] = r]
  BY DEF Step
<1> HIDE DEF r
<1> QED BY <1>1, <1>2

LEMMA EndsMoves ==
  ASSUME delivery \in [Handler -> DeliveryState], NEW d \in Handler, Ends(d)
  PROVE  /\ delivery' \in [Handler -> DeliveryState]
         /\ delivery'[d].pc = "idle"
         /\ \A o \in Handler \ {d} : delivery'[o] = delivery[o]
<1> DEFINE r == NoDelivery
<1>1. r \in DeliveryState /\ r.pc = "idle"
  BY DEF DeliveryState, NoDelivery
<1>2. delivery' = [delivery EXCEPT ![d] = r]
  BY DEF Ends
<1> HIDE DEF r
<1> QED BY <1>1, <1>2

LEMMA InitInv == Init => Inv
BY WebhooksAssumption, StartAssumption, IdleTyped
   DEF Init, ConversationInit, Inv, Typed, ConversationTyped, BusyHasMessage, OneAutomation,
       MarksStored, ProcessedIsStored, At, NoDelivery, DeliveryState, EventId

\* A step of the automation alone disturbs what it types and which handlers are busy.
LEMMA AutomationInv ==
  ASSUME Inv, NEW d \in Handler, handler[d].pc # "idle", Moves(d), conv' \in ConvRow,
         inbound' = inbound, UNCHANGED <<event, delivery>>
  PROVE  Inv'
<1> USE DEF Inv, Typed, OneAutomation
<1>1. /\ handler' \in [Handler -> HandlerState]
      /\ BusyHasMessage'
      /\ \A g \in Handler \ {d} : handler'[g] = handler[g]
  BY MovesTyped
<1>2. ConversationTyped'
  BY <1>1 DEF ConversationTyped
<1>3. OneAutomation'
  BY <1>1 DEF At
<1> QED BY <1>2, <1>3 DEF MarksStored, ProcessedIsStored

\* Every step of the webhooks, the automation and the staff preserves the invariant.
LEMMA NextInv == Inv /\ [Next]_vars => Inv'
<1> SUFFICES ASSUME Inv, [Next]_vars PROVE Inv'
  OBVIOUS
<1> USE WebhooksAssumption DEF Inv
<1>t. /\ Typed /\ ConversationTyped /\ delivery \in [Handler -> DeliveryState]
      /\ handler \in [Handler -> HandlerState]
  BY DEF Typed, ConversationTyped
\* The parts that are about the webhooks only follow from what happens to one request.
<1>0. ASSUME NEW d \in Handler, UNCHANGED conversationVars,
             delivery' \in [Handler -> DeliveryState],
             \A o \in Handler \ {d} : delivery'[o] = delivery[o],
             delivery'[d].pc # "automation" => At(d, "idle"),
             delivery'[d].pc # "idle" => delivery'[d].id \in EventId,
             delivery'[d].pc = "store" => delivery'[d].id \in Message,
             delivery'[d].pc \in {"automation", "status", "mark"} /\ delivery'[d].id \in Message
               => delivery'[d].id \in inbound,
             event' \in [EventId -> {"NONE", "RECEIVED", "PROCESSED", "FAILED"}],
             \A m \in Message : event'[m] = "PROCESSED" => event[m] = "PROCESSED" \/ m \in inbound
      PROVE  Inv'
  <2>1. ConversationTyped' /\ inbound' = inbound /\ handler' = handler
    BY <1>0 DEF conversationVars, Typed, ConversationTyped, BusyHasMessage
  <2>2. Typed'
    BY <1>0, <2>1 DEF Typed
  <2>3. OneAutomation'
    BY <1>0, <2>1 DEF OneAutomation, At
  <2>4. MarksStored'
    BY <1>0, <2>1 DEF MarksStored
  <2>5. ProcessedIsStored'
    BY <1>0, <2>1 DEF ProcessedIsStored
  <2> QED BY <2>2, <2>3, <2>4, <2>5
<1>1. ASSUME NEW p \in Outbound, ProviderAccepts(p) \/ ProviderRefuses(p) \/ StoreSent(p)
      PROVE  Inv'
  BY <1>1 DEF ProviderAccepts, ProviderRefuses, StoreSent, StoredStatus, conversationVars, Typed,
     ConversationTyped, BusyHasMessage, OneAutomation, At, MarksStored, ProcessedIsStored
<1>2. ASSUME NEW d \in Handler, NEW i \in EventId, NEW s \in Reports \cup {None}, Deliver(d, i, s)
      PROVE  Inv'
  <2> DEFINE r == [pc |-> IF event[i] = "NONE" THEN "insert" ELSE "process",
                   id |-> i, status |-> s]
  <2>1. r \in DeliveryState /\ r.pc \in {"insert", "process"} /\ r.id = i
    BY DEF DeliveryState
  <2>2. delivery' = [delivery EXCEPT ![d] = r] /\ delivery[d].pc = "idle"
    BY <1>2 DEF Deliver
  <2> HIDE DEF r
  <2>3. /\ delivery' \in [Handler -> DeliveryState] /\ delivery'[d] = r
        /\ \A o \in Handler \ {d} : delivery'[o] = delivery[o]
    BY <1>t, <2>1, <2>2
  <2>4. UNCHANGED <<conversationVars, event>> /\ At(d, "idle")
    BY <1>2, <2>2 DEF Deliver, OneAutomation
  <2> QED BY <1>0, <2>1, <2>3, <2>4 DEF Typed
<1>3. ASSUME NEW d \in Handler, InsertEvent(d) PROVE Inv'
  <2>1. delivery[d].pc = "insert" /\ delivery[d].id \in EventId /\ At(d, "idle")
    BY <1>3 DEF InsertEvent, Typed, OneAutomation
  <2>2. event' \in [EventId -> {"NONE", "RECEIVED", "PROCESSED", "FAILED"}]
        /\ \A m \in Message : event'[m] = "PROCESSED" => event[m] = "PROCESSED"
    BY <1>3, <2>1 DEF InsertEvent, FirstStatus, Typed, EventId
  <2>3. UNCHANGED conversationVars /\ (Step(d, "process") \/ Ends(d))
    BY <1>3 DEF InsertEvent
  <2>4. CASE Step(d, "process")
    <3>1. "process" \in Pcs
      BY DEF Pcs
    <3> QED BY <1>0, <1>t, <2>1, <2>2, <2>3, <2>4, <3>1, StepMoves
  <2>5. CASE Ends(d)
    BY <1>0, <1>t, <2>1, <2>2, <2>3, <2>5, EndsMoves
  <2> QED BY <2>3, <2>4, <2>5
<1>4. ASSUME NEW d \in Handler, FindMessage(d) PROVE Inv'
  <2>1. /\ delivery[d].pc = "process" /\ delivery[d].id \in EventId /\ At(d, "idle")
        /\ UNCHANGED <<conversationVars, event>>
    BY <1>4 DEF FindMessage, Typed, OneAutomation
  <2>2. PICK pc \in {"store", "status", "mark"} :
          /\ Step(d, pc)
          /\ pc = "store" => delivery[d].id \in Message
          /\ pc \in {"status", "mark"} /\ delivery[d].id \in Message => delivery[d].id \in inbound
    BY <1>4 DEF FindMessage
  <2>3. pc \in Pcs
    BY DEF Pcs
  <2> QED BY <1>0, <1>t, <2>1, <2>2, <2>3, StepMoves DEF Typed
<1>5. ASSUME NEW d \in Handler, StoreMessage(d) PROVE Inv'
  <2>1. delivery[d].pc = "store" /\ delivery[d].id \in Message /\ At(d, "idle") /\ event' = event
    BY <1>5 DEF StoreMessage, Typed, OneAutomation
  <2>2. "automation" \in Pcs /\ "fail" \in Pcs
    BY DEF Pcs
  <2>3. CASE Step(d, "fail") /\ UNCHANGED conversationVars
    BY <1>0, <1>t, <2>1, <2>2, <2>3, StepMoves DEF Typed, EventId
  <2>4. CASE /\ inbound' = inbound \cup {delivery[d].id}
             /\ handler' = [handler EXCEPT ![d] =
                              [Idle EXCEPT !.pc = "find", !.message = delivery[d].id]]
             /\ Step(d, "automation")
             /\ UNCHANGED <<text, conv, inbox, agent, ordered, waited>>
    <3> DEFINE r == [Idle EXCEPT !.pc = "find", !.message = delivery[d].id]
    <3>1. r \in HandlerState /\ r.message \in Message
      BY <2>1 DEF Idle, HandlerState, NoConversation, ConvRow
    <3> HIDE DEF r
    <3>2. /\ handler' \in [Handler -> HandlerState] /\ handler'[d] = r
          /\ \A o \in Handler \ {d} : handler'[o] = handler[o]
      BY <1>t, <2>4, <3>1 DEF r
    <3>3. ConversationTyped'
      BY <1>t, <2>4, <3>1, <3>2 DEF ConversationTyped, BusyHasMessage
    <3>4. /\ delivery' \in [Handler -> DeliveryState]
          /\ delivery'[d].pc = "automation" /\ delivery'[d].id = delivery[d].id
          /\ \A o \in Handler \ {d} : delivery'[o] = delivery[o]
      BY <1>t, <2>2, <2>4, StepMoves
    <3>5. Typed'
      BY <2>1, <3>3, <3>4 DEF Typed, EventId
    <3>6. OneAutomation'
      BY <3>2, <3>4 DEF OneAutomation, At
    <3>7. MarksStored' /\ ProcessedIsStored'
      BY <2>1, <2>4, <3>4 DEF MarksStored, ProcessedIsStored
    <3> QED BY <3>5, <3>6, <3>7
  <2> QED BY <1>5, <2>3, <2>4 DEF StoreMessage
<1>6. ASSUME NEW d \in Handler, SetStatus(d) PROVE Inv'
  <2>1. /\ delivery[d].pc = "status" /\ delivery[d].id \in EventId /\ At(d, "idle")
        /\ Step(d, "mark") /\ UNCHANGED <<conversationVars, event>>
        /\ delivery[d].id \in Message => delivery[d].id \in inbound
    BY <1>6 DEF SetStatus, Typed, OneAutomation, MarksStored
  <2>2. "mark" \in Pcs
    BY DEF Pcs
  <2> QED BY <1>0, <1>t, <2>1, <2>2, StepMoves DEF Typed
<1>7. ASSUME NEW d \in Handler, MarkProcessed(d) PROVE Inv'
  <2>1. /\ delivery[d].pc \in {"mark", "automation"} /\ At(d, "idle") /\ delivery[d].id \in EventId
        /\ event' = [event EXCEPT ![delivery[d].id] = "PROCESSED"]
        /\ Ends(d) /\ UNCHANGED conversationVars
    BY <1>7 DEF MarkProcessed, Marks, OneAutomation, Typed
  <2>2. /\ event' \in [EventId -> {"NONE", "RECEIVED", "PROCESSED", "FAILED"}]
        /\ \A m \in Message : event'[m] = "PROCESSED" => event[m] = "PROCESSED" \/ m \in inbound
    BY <2>1 DEF Typed, EventId, MarksStored
  <2> QED BY <1>0, <1>t, <2>1, <2>2, EndsMoves
<1>8. ASSUME NEW d \in Handler, MarkFailed(d) PROVE Inv'
  <2>1. /\ delivery[d].pc = "fail" /\ At(d, "idle") /\ delivery[d].id \in EventId
        /\ event' = [event EXCEPT ![delivery[d].id] = "FAILED"]
        /\ Ends(d) /\ UNCHANGED conversationVars
    BY <1>8 DEF MarkFailed, OneAutomation, Typed
  <2>2. /\ event' \in [EventId -> {"NONE", "RECEIVED", "PROCESSED", "FAILED"}]
        /\ \A m \in Message : event'[m] = "PROCESSED" => event[m] = "PROCESSED"
    BY <2>1 DEF Typed, EventId
  <2> QED BY <1>0, <1>t, <2>1, <2>2, EndsMoves
<1>9. ASSUME NEW d \in Handler, StatementFails(d) PROVE Inv'
  <2>1. /\ delivery[d].pc # "idle" /\ At(d, "idle") /\ delivery[d].id \in EventId
        /\ Step(d, "fail") /\ UNCHANGED <<conversationVars, event>>
    BY <1>9 DEF StatementFails, Marks, OneAutomation, Typed
  <2>2. "fail" \in Pcs
    BY DEF Pcs
  <2> QED BY <1>0, <1>t, <2>1, <2>2, StepMoves DEF Typed
<1>10. ASSUME NEW d \in Handler, Handles(d), UNCHANGED webhookVars PROVE Inv'
  BY <1>10, <1>t, HandlesMoves, AutomationInv DEF webhookVars
<1>11. ASSUME NEW d \in Handler, AutomationFails(d) PROVE Inv'
  BY <1>11, <1>t, AutomationInv
     DEF AutomationFails, HandlerFails, At, Moves, ConversationTyped
<1>12. ASSUME NEW d \in Handler, Dies(d) PROVE Inv'
  <2>1. CASE At(d, "idle") /\ UNCHANGED conversationVars
    BY <1>0, <1>12, <1>t, <2>1, EndsMoves DEF Dies, Typed
  <2>2. CASE HandlerFails(d)
    <3>1. /\ handler' \in [Handler -> HandlerState] /\ handler'[d] = Idle
          /\ \A o \in Handler \ {d} : handler'[o] = handler[o]
          /\ UNCHANGED <<inbound, conv>>
      BY <1>t, <2>2, IdleTyped DEF HandlerFails, End
    <3>2. ConversationTyped'
      BY <1>t, <3>1, IdleTyped DEF ConversationTyped, BusyHasMessage
    <3>3. /\ delivery' \in [Handler -> DeliveryState] /\ delivery'[d].pc = "idle"
          /\ \A o \in Handler \ {d} : delivery'[o] = delivery[o]
          /\ event' = event
      BY <1>12, <1>t, EndsMoves DEF Dies
    <3>4. Typed'
      BY <3>2, <3>3 DEF Typed
    <3>5. OneAutomation'
      BY <3>1, <3>3, IdleTyped DEF OneAutomation, At
    <3>6. MarksStored' /\ ProcessedIsStored'
      BY <3>1, <3>3 DEF MarksStored, ProcessedIsStored
    <3> QED BY <3>4, <3>5, <3>6
  <2> QED BY <1>12, <2>1, <2>2 DEF Dies
<1>13. ASSUME NEW e \in Employee, StaffStep(e), UNCHANGED webhookVars PROVE Inv'
  <2>1. conv' \in ConvRow /\ UNCHANGED <<handler, inbound, event, delivery>>
    BY <1>13, <1>t, StaffTyped DEF webhookVars
  <2> QED BY <1>t, <2>1 DEF Typed, ConversationTyped, BusyHasMessage, OneAutomation, At,
             MarksStored, ProcessedIsStored
<1>14. CASE UNCHANGED vars
  BY <1>14 DEF vars, conversationVars, webhookVars, Typed, ConversationTyped, BusyHasMessage,
     OneAutomation, At, MarksStored, ProcessedIsStored
<1>15. ASSUME NEW d \in Handler, NEW m \in Message, DeliverMessage(d, m) PROVE Inv'
  BY <1>2, <1>15 DEF DeliverMessage, EventId
<1>16. ASSUME NEW d \in Handler, NEW p \in Outbound, NEW s \in Reports, DeliverStatus(d, p, s)
       PROVE  Inv'
  BY <1>2, <1>16 DEF DeliverStatus, EventId
<1> QED
  BY <1>1, <1>3, <1>4, <1>5, <1>6, <1>7, <1>8, <1>9, <1>10, <1>11, <1>12, <1>13, <1>14,
     <1>15, <1>16 DEF Next, Works

-----------------------------------------------------------------------------
(* Theorems *)

\* An event that counts as processed left its message stored, for any number of messages,
\* concurrent deliveries, retries and failures: the replay protection of the webhook
\* handler never turns away a message that was lost.
THEOREM ProcessedAreStored == Spec => []ProcessedIsStored
<1>1. Inv => ProcessedIsStored
  BY DEF Inv
<1> QED BY <1>1, InitInv, NextInv, PTL DEF Spec

\* Every step of the webhooks is a step of the conversation, or none of its business.
QuietNext ==
  \/ \E h \in Handler : (\E m \in Message : Start(h, m)) \/ Handles(h)
  \/ \E e \in Employee : StaffStep(e)

LEMMA NextDoes ==
  ASSUME Inv, [Next]_vars
  PROVE  \/ QuietNext
         \/ UNCHANGED conversationVars
         \/ Fails /\ \E h \in Handler : HandlerFails(h)
<1> DEFINE Does == \/ QuietNext
                   \/ UNCHANGED conversationVars
                   \/ Fails /\ \E h \in Handler : HandlerFails(h)
<1>1. ASSUME NEW d \in Handler, StoreMessage(d) PROVE Does
  <2>1. delivery[d].id \in Message /\ At(d, "idle")
    BY <1>1 DEF Inv, Typed, OneAutomation, StoreMessage
  <2>2. Start(d, delivery[d].id) \/ UNCHANGED conversationVars
    BY <1>1, <2>1 DEF StoreMessage, Stores, Start
  <2> QED BY <2>1, <2>2 DEF QuietNext
<1>2. ASSUME NEW d \in Handler, Works(d), ~StoreMessage(d) PROVE Does
  BY <1>2 DEF Works, InsertEvent, FindMessage, SetStatus, MarkProcessed, MarkFailed, QuietNext
<1>3. ASSUME NEW d \in Handler, StatementFails(d) \/ AutomationFails(d) \/ Dies(d) PROVE Does
  BY <1>3 DEF StatementFails, AutomationFails, Dies
<1>4. ASSUME NEW d \in Handler, NEW i, NEW s, Deliver(d, i, s) PROVE Does
  BY <1>4 DEF Deliver
<1>5. ASSUME NEW p \in Outbound, ProviderAccepts(p) \/ ProviderRefuses(p) \/ StoreSent(p)
      PROVE  Does
  BY <1>5 DEF ProviderAccepts, ProviderRefuses, StoreSent
<1>6. ASSUME NEW e \in Employee, StaffStep(e) PROVE Does
  BY <1>6 DEF QuietNext
<1> HIDE DEF Does
<1>7. UNCHANGED vars => Does
  BY DEF vars, Does
<1>8. Does
  BY <1>1, <1>2, <1>3, <1>4, <1>5, <1>6, <1>7 DEF Next, DeliverMessage, DeliverStatus
<1> QED BY <1>8 DEF Does

LEMMA NextImplements ==
  ASSUME Inv, [Next]_vars
  PROVE  [ConversationNext]_conversationVars
BY NextDoes DEF QuietNext, ConversationNext

\* However webhooks are redelivered, overlap, fail and are retried, the automation is given
\* each stored message once: with the webhooks hidden, every behaviour is one of Conversations.
THEOREM AutomationIsAtMostOnce == Spec => AutomationSeesMessagesOnce
<1>1. Init => ConversationInit
  BY DEF Init
<1>2. Inv /\ [Next]_vars => [ConversationNext]_conversationVars
  BY NextImplements
<1> QED BY <1>1, <1>2, InitInv, NextInv, PTL DEF Spec, AutomationSeesMessagesOnce, ConversationSpec

-----------------------------------------------------------------------------
(* What the steps of Conversations do to the rest of its state *)

\* The statements before a message has been acted upon.
Early == {"find", "create", "reset", "reread", "act"}

\* What a statement of one handler does, besides keeping types.
Effect(h) ==
  /\ handler[h].pc # "idle" /\ UNCHANGED <<text, inbound, agent>>
  /\ \A g \in Handler \ {h} : handler'[g] = handler[g]
  /\ \/ handler'[h].pc = "idle" /\ handler'[h].message = None
     \/ handler'[h].pc # "idle" /\ handler'[h].message = handler[h].message
  /\ handler'[h].pc \in Early => handler[h].pc \in Early
  /\ handler'[h].pc = "act" => handler'[h].copy = conv'
  /\ ordered' = ordered \/ ConfirmOrder(h)
  /\ handler'[h].pc = "empty" => ConfirmOrder(h)
  /\ conv'.cart \in {conv.cart, {}} \/ ChooseProduct(h)
  /\ handler[h].pc = "empty" => conv'.cart = {}
  /\ conv'.status = "WAITING_AGENT"
       => conv.status = "WAITING_AGENT" \/ handler'[h].pc = "announce"
  /\ handler[h].pc \in {"announce", "open"} => handler'[h].pc = "open" \/ inbox'.status # "NONE"
  /\ inbox' \in InboxRow /\ inbox.messages \subseteq inbox'.messages
  /\ inbox.status # "NONE" => inbox'.status # "NONE"
  /\ waited' = waited \/ FindInbox(h)
  /\ handler'[h].pc = "record" => FindInbox(h)
  /\ handler[h].pc = "record" => handler[h].message \in inbox'.messages

LEMMA AfterGoto ==
  ASSUME handler \in [Handler -> HandlerState], NEW h \in Handler, NEW pc, Goto(h, pc)
  PROVE  /\ handler'[h].pc = pc /\ handler'[h].message = handler[h].message
         /\ handler'[h].copy = handler[h].copy
         /\ \A g \in Handler \ {h} : handler'[g] = handler[g]
<1> DEFINE r == [handler[h] EXCEPT !.pc = pc]
<1>1. r.pc = pc /\ r.message = handler[h].message /\ r.copy = handler[h].copy
  BY DEF HandlerState
<1>2. handler' = [handler EXCEPT ![h] = r]
  BY DEF Goto
<1> HIDE DEF r
<1> QED BY <1>1, <1>2

LEMMA AfterKeep ==
  ASSUME handler \in [Handler -> HandlerState], NEW h \in Handler, NEW pc, NEW row,
         Keep(h, pc, row)
  PROVE  /\ handler'[h].pc = pc /\ handler'[h].message = handler[h].message
         /\ handler'[h].copy = row
         /\ \A g \in Handler \ {h} : handler'[g] = handler[g]
<1> DEFINE r == [handler[h] EXCEPT !.pc = pc, !.copy = row]
<1>1. r.pc = pc /\ r.message = handler[h].message /\ r.copy = row
  BY DEF HandlerState
<1>2. handler' = [handler EXCEPT ![h] = r]
  BY DEF Keep
<1> HIDE DEF r
<1> QED BY <1>1, <1>2

LEMMA AfterEnd ==
  ASSUME handler \in [Handler -> HandlerState], NEW h \in Handler, End(h)
  PROVE  /\ handler'[h].pc = "idle" /\ handler'[h].message = None
         /\ \A g \in Handler \ {h} : handler'[g] = handler[g]
<1>1. Idle.pc = "idle" /\ Idle.message = None
  BY DEF Idle
<1>2. handler' = [handler EXCEPT ![h] = Idle]
  BY DEF End
<1> QED BY <1>1, <1>2

\* What the statements of the conversation's row set.
LEMMA ConvReads ==
  ASSUME NEW row \in ConvRow, NEW state, NEW cart, NEW status
  PROVE  /\ [row EXCEPT !.state = state].cart = row.cart
         /\ [row EXCEPT !.state = state].status = row.status
         /\ [row EXCEPT !.state = state, !.cart = cart].cart = cart
         /\ [row EXCEPT !.state = state, !.cart = cart].status = row.status
         /\ [row EXCEPT !.status = status].cart = row.cart
         /\ [row EXCEPT !.status = status].status = status
         /\ Fresh.cart = {} /\ Fresh.status = "ACTIVE"
BY DEF ConvRow, Fresh

LEMMA InboxStatus ==
  ASSUME NEW row \in InboxRow, NEW new, NEW s \in {"WAITING", "PENDING", "ACTIVE", "RESOLVED", "CLOSED"},
         \/ new = [row EXCEPT !.status = s]
         \/ new = [row EXCEPT !.status = s, !.lockedBy = None]
  PROVE  new \in InboxRow /\ new.messages = row.messages /\ new.status # "NONE"
BY DEF InboxRow

LEMMA InboxLocked ==
  ASSUME NEW row \in InboxRow, NEW new, NEW l \in Employee \cup {None},
         new = [row EXCEPT !.lockedBy = l]
  PROVE  new \in InboxRow /\ new.messages = row.messages /\ new.status = row.status
BY DEF InboxRow

LEMMA InboxHears ==
  ASSUME NEW row \in InboxRow, NEW new, NEW m \in Message,
         new = [row EXCEPT !.messages = row.messages \cup {m}]
  PROVE  new \in InboxRow /\ new.messages = row.messages \cup {m} /\ new.status = row.status
BY DEF InboxRow

LEMMA HandlesEffect ==
  ASSUME ConversationTyped, inbox \in InboxRow, NEW h \in Handler, Handles(h)
  PROVE  Effect(h)
<1>0. /\ handler \in [Handler -> HandlerState] /\ conv \in ConvRow
      /\ handler[h].pc # "idle" => handler[h].message \in Message
  BY DEF ConversationTyped, BusyHasMessage
\* Statements that change at most the conversation.
<1>1. ASSUME handler[h].pc \notin {"idle", "announce", "open", "record"},
             UNCHANGED <<text, inbound, inbox, agent, ordered, waited>>,
             \/ End(h)
             \/ \E pc \in {"create", "reset", "reread"} :
                  handler[h].pc \in Early /\ Goto(h, pc)
             \/ handler[h].pc \in Early /\ Keep(h, "act", conv'),
             conv'.cart \in {conv.cart, {}} \/ ChooseProduct(h),
             handler[h].pc = "empty" => conv'.cart = {},
             conv'.status = "WAITING_AGENT" => conv.status = "WAITING_AGENT"
      PROVE  Effect(h)
  <2>1. CASE End(h)
    BY <1>0, <1>1, <2>1, AfterEnd DEF Effect, Early
  <2>2. CASE \E pc \in {"create", "reset", "reread"} :
               handler[h].pc \in Early /\ Goto(h, pc)
    BY <1>0, <1>1, <2>2, AfterGoto DEF Effect, Early
  <2>3. CASE handler[h].pc \in Early /\ Keep(h, "act", conv')
    <3>1. /\ handler'[h].pc = "act" /\ handler'[h].message = handler[h].message
          /\ handler'[h].copy = conv'
          /\ \A g \in Handler \ {h} : handler'[g] = handler[g]
      BY <1>0, <2>3, AfterKeep
    <3> QED BY <1>1, <2>3, <3>1 DEF Effect
  <2> QED BY <1>1, <2>1, <2>2, <2>3
<1>2. CASE FindConversation(h)
  <2>1. /\ UNCHANGED <<text, inbound, conv, inbox, agent, ordered, waited>>
        /\ handler[h].pc = "find"
        /\ Goto(h, "create") \/ Goto(h, "reset") \/ Keep(h, "act", conv)
    BY <1>2 DEF FindConversation, At
  <2>2. Goto(h, "create") \/ Goto(h, "reset") \/ Keep(h, "act", conv')
    BY <2>1
  <2> QED BY <1>1, <2>1, <2>2 DEF Early
<1>14. CASE CreateConversation(h)
  <2>1. /\ UNCHANGED <<text, inbound, inbox, agent, ordered, waited>>
        /\ handler[h].pc = "create"
        /\ \/ conv' = Fresh /\ Keep(h, "act", conv')
           \/ conv' = conv /\ End(h)
    BY <1>14 DEF CreateConversation, At, Keep
  <2> QED BY <1>0, <1>1, <2>1, ConvReads DEF Early
<1>15. CASE ReopenConversation(h)
  <2>1. /\ UNCHANGED <<text, inbound, inbox, agent, ordered, waited>>
        /\ handler[h].pc = "reset" /\ conv' = Fresh /\ Goto(h, "reread")
    BY <1>15 DEF ReopenConversation, At
  <2> QED BY <1>0, <1>1, <2>1, ConvReads DEF Early
<1>16. CASE ReadReopened(h)
  <2>1. /\ UNCHANGED <<text, inbound, conv, inbox, agent, ordered, waited>>
        /\ handler[h].pc = "reread" /\ Keep(h, "act", conv')
    BY <1>16 DEF ReadReopened, At, Keep
  <2> QED BY <1>1, <2>1 DEF Early
<1>3. CASE Restart(h) \/ Answer(h)
  BY <1>0, <1>1, <1>3, ConvReads DEF Restart, Answer, Acts, At
<1>4. CASE \/ ShowCategories(h) \/ ChooseCategory(h) \/ ShowCart(h) \/ PromptAddress(h)
           \/ TakeAddress(h)
  <2>1. /\ UNCHANGED <<text, inbound, inbox, agent, ordered, waited>>
        /\ handler[h].pc = "act" /\ End(h)
        /\ \E state : conv' = [conv EXCEPT !.state = state]
    BY <1>4, Zenon
       DEF ShowCategories, ChooseCategory, ShowCart, PromptAddress, TakeAddress, SetState, Acts, At
  <2>2. conv'.cart = conv.cart /\ conv'.status = conv.status
    BY <1>0, <2>1, ConvReads
  <2> QED BY <1>1, <2>1, <2>2
<1>5. CASE ChooseProduct(h)
  BY <1>0, <1>1, <1>5, ConvReads DEF ChooseProduct, Acts, At
<1>6. CASE EmptyCart(h)
  BY <1>0, <1>1, <1>6, ConvReads DEF EmptyCart, OrderedConversation, At
<1>7. CASE ConfirmOrder(h)
  <2>1. /\ UNCHANGED <<text, inbound, conv, inbox, agent, waited>> /\ handler[h].pc = "act"
        /\ Goto(h, "empty")
    BY <1>7 DEF ConfirmOrder, Acts, At
  <2> QED BY <1>0, <1>7, <2>1, AfterGoto DEF Effect, Early
<1>8. CASE Handoff(h)
  <2>1. /\ UNCHANGED <<text, inbound, inbox, agent, ordered, waited>> /\ handler[h].pc = "act"
        /\ Goto(h, "announce") /\ conv'.cart = conv.cart
    BY <1>0, <1>8, ConvReads DEF Handoff, Acts, At
  <2> QED BY <1>0, <2>1, AfterGoto DEF Effect, Early
<1>9. CASE Announce(h)
  <2>1. /\ UNCHANGED <<text, inbound, conv, inbox, agent, ordered, waited>>
        /\ handler[h].pc = "announce" /\ Goto(h, "open")
    BY <1>9 DEF Announce, NextAfterAnnouncing, At
  <2> QED BY <1>0, <2>1, AfterGoto DEF Effect, Early
<1>10. CASE OpenInbox(h)
  <2>1. /\ UNCHANGED <<text, inbound, conv, agent, ordered, waited>>
        /\ handler[h].pc = "open" /\ End(h)
        /\ \/ inbox.status # "NONE" /\ inbox' = inbox
           \/ inbox' = [inbox EXCEPT !.status = "WAITING"]
    BY <1>10 DEF OpenInbox, At
  <2>2. inbox' \in InboxRow /\ inbox'.messages = inbox.messages /\ inbox'.status # "NONE"
    BY <2>1, InboxStatus
  <2> QED BY <1>0, <2>1, <2>2, AfterEnd DEF Effect, Early
<1>11. CASE FindInbox(h)
  <2>1. /\ UNCHANGED <<text, inbound, conv, inbox, agent, ordered>> /\ handler[h].pc = "act"
        /\ End(h) \/ Goto(h, "record")
    BY <1>11 DEF FindInbox, Acts, At
  <2> QED BY <1>0, <1>11, <2>1, AfterEnd, AfterGoto DEF Effect, Early
<1>12. CASE RecordMessage(h)
  <2>1. /\ UNCHANGED <<text, inbound, conv, agent, ordered, waited>>
        /\ handler[h].pc = "record" /\ Goto(h, "pending")
        /\ inbox' = [inbox EXCEPT !.messages = inbox.messages \cup {handler[h].message}]
    BY <1>12 DEF RecordMessage, At
  <2>2. /\ inbox' \in InboxRow /\ inbox'.messages = inbox.messages \cup {handler[h].message}
        /\ inbox'.status = inbox.status
    BY <1>0, <2>1, InboxHears
  <2> QED BY <1>0, <2>1, <2>2, AfterGoto DEF Effect, Early
<1>13. CASE MarkPending(h)
  <2>1. /\ UNCHANGED <<text, inbound, conv, agent, ordered, waited>>
        /\ handler[h].pc = "pending" /\ End(h)
        /\ inbox' = [inbox EXCEPT !.status = "PENDING"]
    BY <1>13 DEF MarkPending, At
  <2>2. inbox' \in InboxRow /\ inbox'.messages = inbox.messages /\ inbox'.status # "NONE"
    BY <2>1, InboxStatus
  <2> QED BY <1>0, <2>1, <2>2, AfterEnd DEF Effect, Early
<1> QED
  BY <1>2, <1>3, <1>4, <1>5, <1>6, <1>7, <1>8, <1>9, <1>10, <1>11, <1>12, <1>13,
     <1>14, <1>15, <1>16 DEF Handles

\* What a request of staff does.
LEMMA StaffEffect ==
  ASSUME ConversationTyped, inbox \in InboxRow, agent \in [Employee -> StaffRequests \cup {None}],
         NEW e \in Employee, StaffStep(e)
  PROVE  /\ UNCHANGED <<text, inbound, handler, ordered, waited>>
         /\ conv'.cart = conv.cart
         /\ conv'.status = "WAITING_AGENT"
              => conv.status = "WAITING_AGENT" \/ "handoff" \in StaffRequests
         /\ inbox' \in InboxRow /\ inbox'.messages = inbox.messages
         /\ inbox.status # "NONE" => inbox'.status # "NONE"
         /\ agent' \in [Employee -> StaffRequests \cup {None}]
<1>0. conv \in ConvRow
  BY DEF ConversationTyped
<1>a. /\ UNCHANGED <<text, inbound, handler, ordered, waited>>
      /\ agent' \in [Employee -> StaffRequests \cup {None}]
  BY DEF StaffStep, ReadForRequest, Reply, Resolve, CloseInbox, Assign, TakeOver, ReturnToAgent,
         Reassign, HandoffConversation, CloseConversation, RequestFails, Finishes
<1>1. CASE ReadForRequest(e) \/ RequestFails(e)
  BY <1>1 DEF ReadForRequest, RequestFails, Finishes
<1>2. CASE Reply(e) \/ Resolve(e) \/ CloseInbox(e) \/ Assign(e) \/ Reassign(e)
  <2>1. /\ conv' = conv
        /\ \/ \E s \in {"ACTIVE", "RESOLVED", "CLOSED"} : inbox' = [inbox EXCEPT !.status = s]
           \/ inbox' = [inbox EXCEPT !.status = "ACTIVE", !.lockedBy = None]
    BY <1>2 DEF Reply, Resolve, CloseInbox, Assign, Reassign
  <2>2. PICK s \in {"WAITING", "PENDING", "ACTIVE", "RESOLVED", "CLOSED"} :
          \/ inbox' = [inbox EXCEPT !.status = s]
          \/ inbox' = [inbox EXCEPT !.status = s, !.lockedBy = None]
    BY <2>1
  <2>3. inbox' \in InboxRow /\ inbox'.messages = inbox.messages /\ inbox'.status # "NONE"
    BY <2>2, InboxStatus
  <2> QED BY <1>a, <2>1, <2>3
<1>3. CASE TakeOver(e) \/ ReturnToAgent(e)
  <2>1. conv' = conv /\ \E l \in Employee \cup {None} : inbox' = [inbox EXCEPT !.lockedBy = l]
    BY <1>3 DEF TakeOver, ReturnToAgent
  <2>2. PICK l \in Employee \cup {None} : inbox' = [inbox EXCEPT !.lockedBy = l]
    BY <2>1
  <2>3. inbox' \in InboxRow /\ inbox'.messages = inbox.messages /\ inbox'.status = inbox.status
    BY <2>2, InboxLocked
  <2> QED BY <1>a, <2>3, <2>1, <2>2
<1>4. CASE HandoffConversation(e)
  <2>1. "handoff" \in StaffRequests
    BY <1>4, ConversationsAssumption DEF HandoffConversation, Finishes, OpenRequests
  <2> QED BY <1>0, <1>4, <2>1, ConvReads DEF HandoffConversation, Finishes
<1>5. CASE CloseConversation(e)
  BY <1>0, <1>5, ConvReads DEF CloseConversation, Finishes
<1> QED BY <1>1, <1>2, <1>3, <1>4, <1>5 DEF StaffStep

-----------------------------------------------------------------------------
(* One message, one handler; one confirmation, one order *)

\* The confirmations that have been acted upon.
Confirmed ==
  {m \in inbound :
     /\ text[m] = "confirm"
     /\ \A h \in Handler : handler[h].message = m => handler[h].pc \notin Early}

DataTyped ==
  /\ text \in [Message -> Texts]
  /\ inbound \subseteq Message /\ IsFiniteSet(inbound)
  /\ inbox \in InboxRow
  /\ agent \in [Employee -> StaffRequests \cup {None}]
  /\ ordered \in [Pick -> Nat]
  /\ waited \subseteq Message

OneMessageEach ==
  /\ \A h \in Handler : IF handler[h].pc = "idle" THEN handler[h].message = None
                                                  ELSE handler[h].message \in inbound
  /\ \A g, h \in Handler :
       handler[h].pc # "idle" /\ handler[g].message = handler[h].message => g = h

ConversationInv ==
  /\ ConversationTyped /\ DataTyped /\ OneMessageEach
  /\ \A p \in Pick : ordered[p] <= Cardinality(Confirmed)

LEMMA ConfirmedIsFinite ==
  ASSUME IsFiniteSet(inbound)
  PROVE  /\ IsFiniteSet(Confirmed) /\ Cardinality(Confirmed) \in Nat
         /\ Cardinality(Confirmed) <= Cardinality({m \in inbound : text[m] = "confirm"})
         /\ Cardinality({m \in inbound : text[m] = "confirm"}) <= Cardinality(inbound)
<1> DEFINE S == {m \in inbound : text[m] = "confirm"}
<1>1. IsFiniteSet(S) /\ Cardinality(S) <= Cardinality(inbound)
  <2>1. S \subseteq inbound
    OBVIOUS
  <2> HIDE DEF S
  <2> QED BY <2>1, FS_Subset
<1>2. Confirmed \subseteq S
  BY DEF Confirmed
<1> HIDE DEF S
<1>3. IsFiniteSet(Confirmed) /\ Cardinality(Confirmed) <= Cardinality(S)
  BY <1>1, <1>2, FS_Subset
<1>4. Cardinality(Confirmed) \in Nat
  BY <1>3, FS_CardinalityType
<1> QED BY <1>1, <1>3, <1>4 DEF S

\* An order needs a message that says "confirm", a record one that waits for an agent.
LEMMA MeaningsMean ==
  ASSUME NEW h \in Handler
  PROVE  /\ "confirm" \in Meanings(h) => Says(h) = "confirm"
         /\ "record" \in Meanings(h) => Copy(h).status = "WAITING_AGENT"
BY DEF Meanings, Words, Digits, Choosing, Command

\* As long as no confirmation is forgotten, nothing is ordered without one.
LEMMA OrdersKept ==
  ASSUME ConversationInv, ordered' = ordered, IsFiniteSet(inbound'), Confirmed \subseteq Confirmed'
  PROVE  (\A p \in Pick : ordered[p] <= Cardinality(Confirmed))'
<1>1. /\ IsFiniteSet(Confirmed) /\ Cardinality(Confirmed) \in Nat
  BY ConfirmedIsFinite DEF ConversationInv, DataTyped
<1>2. Confirmed' \subseteq inbound'
  BY DEF Confirmed
<1>3. IsFiniteSet(Confirmed') /\ Cardinality(Confirmed') \in Nat
  BY <1>2, FS_Subset, FS_CardinalityType
<1>4. Cardinality(Confirmed) <= Cardinality(Confirmed')
  BY <1>3, FS_Subset
<1>5. \A p \in Pick : ordered[p] \in Nat /\ ordered[p] <= Cardinality(Confirmed)
  BY DEF ConversationInv, DataTyped
<1> QED BY <1>1, <1>3, <1>4, <1>5

LEMMA OrderedOnce ==
  ASSUME ConversationInv, NEW h \in Handler, ConfirmOrder(h), Effect(h)
  PROVE  /\ ordered' \in [Pick -> Nat]
         /\ (\A p \in Pick : ordered[p] <= Cardinality(Confirmed))'
<1> USE DEF ConversationInv
<1>0. PICK m : m = handler[h].message
  OBVIOUS
<1>1. /\ handler[h].pc = "act" /\ m \in inbound /\ text[m] = "confirm"
      /\ handler'[h].pc = "empty" /\ handler'[h].message = m
      /\ \A g \in Handler \ {h} : handler'[g] = handler[g] /\ handler[g].message # m
      /\ UNCHANGED <<text, inbound>>
  <2>1. /\ handler[h].pc = "act" /\ Goto(h, "empty") /\ "confirm" \in Meanings(h)
    BY DEF ConfirmOrder, Acts, At
  <2>2. text[m] = "confirm"
    BY <1>0, <2>1, MeaningsMean DEF Says
  <2>3. handler'[h].pc = "empty" /\ handler'[h].message = m
    BY <1>0, <2>1, AfterGoto DEF ConversationTyped
  <2> QED BY <1>0, <2>1, <2>2, <2>3 DEF Effect, OneMessageEach
<1>2. /\ IsFiniteSet(Confirmed) /\ Cardinality(Confirmed) \in Nat
  BY ConfirmedIsFinite DEF DataTyped
<1>3. m \notin Confirmed /\ Confirmed \cup {m} \subseteq Confirmed'
  BY <1>0, <1>1 DEF Confirmed, Early
<1>4. IsFiniteSet(Confirmed') /\ Cardinality(Confirmed') \in Nat
  <2>1. Confirmed' \subseteq inbound
    BY <1>1 DEF Confirmed
  <2> QED BY <2>1, FS_Subset, FS_CardinalityType DEF DataTyped
<1>5. Cardinality(Confirmed \cup {m}) = Cardinality(Confirmed) + 1
  BY <1>2, <1>3, FS_AddElement
<1>6. Cardinality(Confirmed \cup {m}) <= Cardinality(Confirmed')
  BY <1>3, <1>4, FS_Subset
<1>7. \A p \in Pick : /\ ordered[p] \in Nat /\ ordered[p] <= Cardinality(Confirmed)
                      /\ ordered'[p] \in {ordered[p], ordered[p] + 1}
  BY DEF DataTyped, ConfirmOrder
<1>8. ordered' \in [Pick -> Nat]
  BY <1>7 DEF ConfirmOrder, DataTyped
<1> QED BY <1>2, <1>4, <1>5, <1>6, <1>7, <1>8

LEMMA ConversationStep ==
  ASSUME ConversationInv, ConversationTyped', [ConversationNext]_conversationVars
  PROVE  ConversationInv'
<1> USE WebhooksAssumption DEF ConversationInv
<1>0. handler \in [Handler -> HandlerState] /\ conv \in ConvRow /\ BusyHasMessage
  BY DEF ConversationTyped
<1>1. ASSUME NEW h \in Handler, NEW m \in Message, Start(h, m) PROVE ConversationInv'
  <2> DEFINE r == [Idle EXCEPT !.pc = "find", !.message = m]
  <2>1. r.pc = "find" /\ r.message = m
    BY DEF Idle
  <2>2. handler' = [handler EXCEPT ![h] = r] /\ handler[h].pc = "idle"
    BY <1>1 DEF Start, At
  <2> HIDE DEF r
  <2>3. /\ handler'[h].pc = "find" /\ handler'[h].message = m
        /\ \A g \in Handler \ {h} : handler'[g] = handler[g]
    BY <1>0, <2>1, <2>2
  <2>4. /\ m \notin inbound /\ inbound' = inbound \cup {m}
        /\ UNCHANGED <<text, conv, inbox, agent, ordered, waited>>
    BY <1>1 DEF Start
  <2>5. IsFiniteSet(inbound')
    BY <2>4, FS_AddElement DEF DataTyped
  <2>6. Confirmed \subseteq Confirmed'
    BY <2>3, <2>4 DEF Confirmed
  <2>7. DataTyped'
    BY <2>4, <2>5 DEF DataTyped
  <2>8. OneMessageEach'
    BY <2>3, <2>4 DEF OneMessageEach, DataTyped
  <2> QED BY <2>4, <2>5, <2>6, <2>7, <2>8, OrdersKept
<1>2. ASSUME NEW h \in Handler,
             handler[h].pc # "idle", UNCHANGED <<text, inbound>>,
             \A g \in Handler \ {h} : handler'[g] = handler[g],
             \/ handler'[h].pc = "idle" /\ handler'[h].message = None
             \/ handler'[h].pc # "idle" /\ handler'[h].message = handler[h].message,
             handler'[h].pc \in Early => handler[h].pc \in Early
      PROVE  OneMessageEach' /\ Confirmed \subseteq Confirmed'
  <2>1. OneMessageEach'
    BY <1>2 DEF OneMessageEach, DataTyped
  <2>2. Confirmed \subseteq Confirmed'
    BY <1>2 DEF Confirmed, DataTyped
  <2> QED BY <2>1, <2>2
<1>3. ASSUME NEW h \in Handler, Handles(h) PROVE ConversationInv'
  <2>1. Effect(h)
    BY <1>3, HandlesEffect DEF DataTyped
  <2>2. OneMessageEach' /\ Confirmed \subseteq Confirmed'
    BY <1>2, <2>1 DEF Effect
  <2>3. waited' \subseteq Message
    BY <1>0, <2>1 DEF Effect, DataTyped, FindInbox, BusyHasMessage
  <2>4. /\ ordered' \in [Pick -> Nat]
        /\ (\A p \in Pick : ordered[p] <= Cardinality(Confirmed))'
    BY <2>1, <2>2, OrdersKept, OrderedOnce DEF Effect, DataTyped
  <2>5. DataTyped'
    BY <2>1, <2>3, <2>4 DEF Effect, DataTyped
  <2> QED BY <2>2, <2>4, <2>5
<1>4. ASSUME NEW h \in Handler, HandlerFails(h) PROVE ConversationInv'
  <2>1. /\ handler[h].pc # "idle" /\ UNCHANGED <<text, inbound, inbox, agent, ordered>>
        /\ End(h) /\ waited' \subseteq waited
    BY <1>4 DEF HandlerFails, At
  <2>2. /\ handler'[h].pc = "idle" /\ handler'[h].message = None
        /\ \A g \in Handler \ {h} : handler'[g] = handler[g]
    BY <1>0, <2>1, AfterEnd
  <2>3. OneMessageEach' /\ Confirmed \subseteq Confirmed'
    BY <1>2, <2>1, <2>2 DEF Early
  <2>4. DataTyped'
    BY <2>1 DEF DataTyped
  <2> QED BY <2>1, <2>3, <2>4, OrdersKept DEF DataTyped
<1>5. ASSUME UNCHANGED <<text, inbound, handler, ordered, waited>>,
             inbox' \in InboxRow, agent' \in [Employee -> StaffRequests \cup {None}]
      PROVE  ConversationInv'
  <2>1. DataTyped' /\ OneMessageEach' /\ Confirmed' = Confirmed
    BY <1>5 DEF DataTyped, OneMessageEach, Confirmed
  <2> QED BY <1>5, <2>1
<1>6. ASSUME NEW e \in Employee, StaffStep(e) PROVE ConversationInv'
  <2>1. /\ UNCHANGED <<text, inbound, handler, ordered, waited>>
        /\ inbox' \in InboxRow /\ agent' \in [Employee -> StaffRequests \cup {None}]
    BY <1>6, StaffEffect DEF DataTyped
  <2> QED BY <1>5, <2>1
<1>7. CASE UNCHANGED conversationVars
  BY <1>5, <1>7 DEF conversationVars, DataTyped
<1> QED BY <1>1, <1>3, <1>4, <1>6, <1>7 DEF ConversationNext

LEMMA ConversationStart == Init => ConversationInv
<1> SUFFICES ASSUME Init PROVE ConversationInv
  OBVIOUS
<1>1. ConversationTyped
  BY InitInv DEF Inv, Typed
<1>2. /\ Idle.pc = "idle" /\ Idle.message = None
      /\ \A h \in Handler : handler[h] = Idle
  BY DEF Init, ConversationInit, Idle
<1>3. inbox \in InboxRow /\ inbound = {} /\ waited = {}
  BY DEF Init, ConversationInit, InboxRow
<1>4. DataTyped
  BY <1>3, FS_EmptySet DEF Init, ConversationInit, DataTyped
<1>5. OneMessageEach
  BY <1>2 DEF OneMessageEach
<1>6. Confirmed = {} /\ Cardinality({}) = 0
  BY <1>3, FS_EmptySet DEF Confirmed
<1>7. \A p \in Pick : ordered[p] = 0
  BY DEF Init, ConversationInit
<1> QED BY <1>1, <1>4, <1>5, <1>6, <1>7 DEF ConversationInv

LEMMA ConversationHolds == Spec => [](Inv /\ ConversationInv)
<1>1. Inv /\ ConversationInv /\ [Next]_vars => ConversationInv'
  <2>1. ASSUME Inv, ConversationInv, [Next]_vars PROVE ConversationInv'
    <3>1. ConversationTyped'
      BY <2>1, NextInv DEF Inv, Typed
    <3>2. [ConversationNext]_conversationVars
      BY <2>1, NextImplements
    <3> QED BY <2>1, <3>1, <3>2, ConversationStep
  <2> QED BY <2>1
<1> QED BY <1>1, InitInv, NextInv, ConversationStart, PTL DEF Spec

\* However often webhooks are delivered, overlap, fail and are retried, and however many
\* messages there are, no item goes into more orders than the customer confirmed: each
\* order is a message's that said so, handled the one time it was stored.
THEOREM OrdersNeedConfirmations == Spec => []OrdersAreConfirmed
<1>1. ASSUME ConversationInv PROVE OrdersAreConfirmed
  <2>1. /\ Cardinality(Confirmed) \in Nat
        /\ Cardinality(Confirmed) <= Cardinality({m \in inbound : text[m] = "confirm"})
    BY <1>1, ConfirmedIsFinite DEF ConversationInv, DataTyped
  <2>2. Cardinality({m \in inbound : text[m] = "confirm"}) \in Nat
    <3> DEFINE S == {m \in inbound : text[m] = "confirm"}
    <3>1. S \subseteq inbound /\ IsFiniteSet(inbound)
      BY <1>1 DEF ConversationInv, DataTyped
    <3> HIDE DEF S
    <3>2. Cardinality(S) \in Nat
      BY <3>1, FS_Subset, FS_CardinalityType
    <3> QED BY <3>2 DEF S
  <2>3. \A p \in Pick : ordered[p] \in Nat /\ ordered[p] <= Cardinality(Confirmed)
    BY <1>1 DEF ConversationInv, DataTyped
  <2> QED BY <2>1, <2>2, <2>3 DEF OrdersAreConfirmed
<1>2. ConversationInv => OrdersAreConfirmed
  BY <1>1
<1> QED BY <1>2, ConversationHolds, PTL

-----------------------------------------------------------------------------
(* Types *)

\* A callback reports on a message of the tenant, and names one of the statuses.
WebhooksTyped ==
  /\ outbound \in [Outbound -> Reports \cup {"NONE", "REFUSED", "ACCEPTED", "SENT", "FAILED"}]
  /\ failures \in 0..MaxFailures
  /\ \A d \in Handler :
       /\ delivery[d].pc = "status" => delivery[d].id \in Outbound
       /\ delivery[d].pc # "idle" /\ delivery[d].id \in Outbound => delivery[d].status \in Reports

LEMMA WebhooksStep == Inv /\ WebhooksTyped /\ [Next]_vars => WebhooksTyped'
<1> SUFFICES ASSUME Inv, WebhooksTyped, [Next]_vars PROVE WebhooksTyped'
  OBVIOUS
<1> USE WebhooksAssumption
<1>t. delivery \in [Handler -> DeliveryState]
  BY DEF Inv, Typed
\* What happens to one request.
<1>0. ASSUME NEW d \in Handler,
             \A o \in Handler \ {d} : delivery'[o] = delivery[o],
             delivery'[d].pc = "status" => delivery'[d].id \in Outbound,
             delivery'[d].pc # "idle" /\ delivery'[d].id \in Outbound
               => delivery'[d].status \in Reports,
             outbound' \in [Outbound -> Reports \cup {"NONE", "REFUSED", "ACCEPTED", "SENT", "FAILED"}],
             failures' \in 0..MaxFailures
      PROVE  WebhooksTyped'
  BY <1>0 DEF WebhooksTyped
<1>1. ASSUME NEW d \in Handler, NEW pc \in Pcs, Step(d, pc), delivery[d].pc # "idle",
             pc = "status" => delivery[d].id \in Outbound,
             outbound' \in [Outbound -> Reports \cup {"NONE", "REFUSED", "ACCEPTED", "SENT", "FAILED"}],
             failures' \in 0..MaxFailures
      PROVE  WebhooksTyped'
  <2>1. /\ delivery'[d].pc = pc /\ delivery'[d].id = delivery[d].id
        /\ delivery'[d].status = delivery[d].status
        /\ \A o \in Handler \ {d} : delivery'[o] = delivery[o]
    BY <1>1, <1>t, StepMoves
  <2>2. delivery[d].id \in Outbound => delivery[d].status \in Reports
    BY <1>1 DEF WebhooksTyped
  <2> QED BY <1>0, <1>1, <2>1, <2>2
<1>2. ASSUME NEW d \in Handler, Ends(d), UNCHANGED outbound, failures' \in 0..MaxFailures
      PROVE  WebhooksTyped'
  <2>1. delivery'[d].pc = "idle" /\ \A o \in Handler \ {d} : delivery'[o] = delivery[o]
    BY <1>2, <1>t, EndsMoves
  <2> QED BY <1>0, <1>2, <2>1 DEF WebhooksTyped
<1>3. /\ failures \in 0..MaxFailures /\ (Fails => failures' \in 0..MaxFailures)
      /\ {"insert", "process", "store", "automation", "status", "mark", "fail"} \subseteq Pcs
      /\ outbound \in [Outbound -> Reports \cup {"NONE", "REFUSED", "ACCEPTED", "SENT", "FAILED"}]
  BY DEF WebhooksTyped, Fails, Pcs
<1>4. ASSUME NEW p \in Outbound, ProviderAccepts(p) \/ ProviderRefuses(p) \/ StoreSent(p)
      PROVE  WebhooksTyped'
  BY <1>3, <1>4 DEF ProviderAccepts, ProviderRefuses, StoreSent, StoredStatus, WebhooksTyped
<1>5. ASSUME NEW d \in Handler, NEW i, NEW s, Deliver(d, i, s), i \in Outbound => s \in Reports
      PROVE  WebhooksTyped'
  <2> DEFINE r == [pc |-> IF event[i] = "NONE" THEN "insert" ELSE "process",
                   id |-> i, status |-> s]
  <2>1. r.pc \in {"insert", "process"} /\ r.id = i /\ r.status = s
    OBVIOUS
  <2>2. delivery' = [delivery EXCEPT ![d] = r] /\ UNCHANGED <<outbound, failures>>
    BY <1>5 DEF Deliver
  <2> HIDE DEF r
  <2>3. delivery'[d] = r /\ \A o \in Handler \ {d} : delivery'[o] = delivery[o]
    BY <1>t, <2>2
  <2> QED BY <1>0, <1>3, <1>5, <2>1, <2>2, <2>3
<1>6. ASSUME NEW d \in Handler, NEW m \in Message, DeliverMessage(d, m) PROVE WebhooksTyped'
  BY <1>5, <1>6 DEF DeliverMessage
<1>7. ASSUME NEW d \in Handler, NEW p \in Outbound, NEW s \in Reports, DeliverStatus(d, p, s)
      PROVE  WebhooksTyped'
  BY <1>5, <1>7 DEF DeliverStatus
<1>8. ASSUME NEW d \in Handler, InsertEvent(d) \/ FindMessage(d) \/ StoreMessage(d)
      PROVE  WebhooksTyped'
  <2>1. /\ delivery[d].pc # "idle" /\ UNCHANGED <<outbound, failures>>
        /\ \/ Ends(d)
           \/ \E pc \in Pcs : Step(d, pc) /\ (pc = "status" => delivery[d].id \in Outbound)
    BY <1>3, <1>8 DEF InsertEvent, FindMessage, StoreMessage
  <2> QED BY <1>1, <1>2, <1>3, <2>1
<1>9. ASSUME NEW d \in Handler, SetStatus(d) PROVE WebhooksTyped'
  <2>1. /\ delivery[d].pc = "status" /\ UNCHANGED failures /\ Step(d, "mark")
        /\ outbound' = [outbound EXCEPT ![delivery[d].id] = delivery[d].status]
    BY <1>9 DEF SetStatus
  <2>2. delivery[d].id \in Outbound /\ delivery[d].status \in Reports
    BY <2>1 DEF WebhooksTyped
  <2> QED BY <1>1, <1>3, <2>1, <2>2
<1>10. ASSUME NEW d \in Handler, MarkProcessed(d) \/ MarkFailed(d) PROVE WebhooksTyped'
  BY <1>2, <1>3, <1>10 DEF MarkProcessed, MarkFailed
<1>11. ASSUME NEW d \in Handler, StatementFails(d) PROVE WebhooksTyped'
  <2>1. Step(d, "fail") /\ delivery[d].pc # "idle" /\ UNCHANGED outbound /\ Fails
    BY <1>11 DEF StatementFails, Marks
  <2> QED BY <1>1, <1>3, <2>1
<1>12. ASSUME NEW d \in Handler, Dies(d) PROVE WebhooksTyped'
  BY <1>2, <1>3, <1>12 DEF Dies
<1>13. ASSUME UNCHANGED <<outbound, delivery>>, UNCHANGED failures \/ Fails PROVE WebhooksTyped'
  BY <1>3, <1>13 DEF WebhooksTyped
<1>14. ASSUME NEW d \in Handler, AutomationFails(d) PROVE WebhooksTyped'
  BY <1>13, <1>14 DEF AutomationFails
<1>15. UNCHANGED webhookVars \/ UNCHANGED vars => WebhooksTyped'
  BY <1>13 DEF webhookVars, vars
<1> QED
  BY <1>4, <1>6, <1>7, <1>8, <1>9, <1>10, <1>11, <1>12, <1>14, <1>15 DEF Next, Works

LEMMA AllHold == Spec => [](Inv /\ ConversationInv /\ WebhooksTyped)
<1>1. Init => WebhooksTyped
  BY WebhooksAssumption DEF Init, WebhooksTyped, NoDelivery
<1>2. Spec => []WebhooksTyped
  BY <1>1, InitInv, NextInv, WebhooksStep, PTL DEF Spec
<1> QED BY <1>2, ConversationHolds, PTL

\* Every variable keeps its type, for any number of webhook requests and failures; that an
\* item is ordered at most as often as there are messages needs OrdersNeedConfirmations.
THEOREM WebhookTypes == IsFiniteSet(Message) /\ Spec => []TypeOK
<1>1. ASSUME IsFiniteSet(Message), Inv, ConversationInv, WebhooksTyped PROVE TypeOK
  <2>1. Cardinality(inbound) <= Cardinality(Message) /\ Cardinality(Message) \in Nat
    BY <1>1, FS_Subset, FS_CardinalityType DEF ConversationInv, DataTyped
  <2>2. /\ Cardinality(Confirmed) \in Nat /\ Cardinality(inbound) \in Nat
        /\ Cardinality(Confirmed) <= Cardinality(Message)
    <3>1. Cardinality(inbound) \in Nat /\ IsFiniteSet(inbound)
      BY <1>1, FS_CardinalityType DEF ConversationInv, DataTyped
    <3>2. Confirmed \subseteq inbound
      BY DEF Confirmed
    <3>3. Cardinality(Confirmed) <= Cardinality(inbound) /\ Cardinality(Confirmed) \in Nat
      BY <3>1, <3>2, FS_Subset, FS_CardinalityType
    <3> QED BY <2>1, <3>1, <3>3
  <2>3. \A p \in Pick : ordered[p] \in Nat /\ ordered[p] <= Cardinality(Confirmed)
    BY <1>1 DEF ConversationInv, DataTyped
  <2>4. ordered \in [Pick -> 0..Cardinality(Message)]
    <3>1. \A p \in Pick : ordered[p] \in 0..Cardinality(Message)
      BY <2>1, <2>2, <2>3
    <3> QED BY <1>1, <3>1 DEF ConversationInv, DataTyped
  <2>5. ConversationTypeOK
    BY <1>1, <2>4 DEF ConversationTypeOK, ConversationInv, ConversationTyped, DataTyped
  <2> QED BY <1>1, <2>5 DEF TypeOK, Inv, Typed, WebhooksTyped
<1>2. ASSUME IsFiniteSet(Message) PROVE Spec => []TypeOK
  <2>1. Inv /\ ConversationInv /\ WebhooksTyped => TypeOK
    BY <1>1, <1>2
  <2> QED BY <2>1, AllHold, PTL
<1> QED BY <1>2

-----------------------------------------------------------------------------
(* Messages handled one at a time *)

\* One webhook request at a time, no statement fails and the process does not die.
InTurn ==
  /\ \A g, h \in Handler : g = h
  /\ MaxFailures = 0

\* Nobody uses the hand-off endpoint, and no agent was waited for at the start.
NoOpenHandoff ==
  /\ "handoff" \notin StaffRequests
  /\ \A row \in StartConversations : row.status # "WAITING_AGENT"

\* What a handler decides on is the cart as it is.  An item that was ordered has left the
\* cart, or is about to; a message that has not been acted upon picked nothing yet.
CartInv ==
  /\ \A h \in Handler : handler[h].pc = "act" => handler[h].copy.cart = conv.cart
  /\ \A p \in Pick : /\ ordered[p] <= 1
                     /\ ordered[p] = 0 \/ p \notin conv.cart
                          \/ \E h \in Handler : handler[h].pc = "empty"
  /\ \A m \in Message :
       m \notin inbound \/ (\E h \in Handler : handler[h].message = m)
         => ordered[m] = 0 /\ m \notin conv.cart

\* When the conversation waits for an agent its inbox conversation exists, or is about to.
WaitInv ==
  /\ conv.status = "WAITING_AGENT" => \/ inbox.status # "NONE"
                                      \/ \E h \in Handler : handler[h].pc \in {"announce", "open"}
  /\ \A h \in Handler :
       handler[h].pc = "act" /\ handler[h].copy.status = "WAITING_AGENT" => inbox.status # "NONE"
  /\ \A m \in waited : \/ m \in inbox.messages
                       \/ \E h \in Handler : handler[h].pc = "record" /\ handler[h].message = m

LEMMA QuietStep ==
  ASSUME InTurn, Inv, WebhooksTyped, [Next]_vars
  PROVE  QuietNext \/ UNCHANGED conversationVars
<1>1. ~Fails
  BY DEF InTurn, WebhooksTyped, Fails
<1> QED BY <1>1, NextDoes

\* A message that starts is in nobody's cart.
LEMMA StartsClean ==
  ASSUME InTurn, ConversationInv, NEW h \in Handler, NEW m \in Message, Start(h, m)
  PROVE  /\ handler[h].pc = "idle" /\ handler'[h].pc = "find" /\ handler'[h].message = m
         /\ m \notin inbound /\ inbound' = inbound \cup {m}
         /\ UNCHANGED <<conv, inbox, ordered, waited>>
<1> DEFINE r == [Idle EXCEPT !.pc = "find", !.message = m]
<1>1. r.pc = "find" /\ r.message = m
  BY DEF Idle
<1>2. handler' = [handler EXCEPT ![h] = r]
  BY DEF Start
<1> HIDE DEF r
<1>3. handler'[h] = r
  BY <1>2 DEF ConversationInv, ConversationTyped
<1> QED BY <1>1, <1>3 DEF Start, At

LEMMA CartStep ==
  ASSUME InTurn, ConversationInv, CartInv, QuietNext \/ UNCHANGED conversationVars
  PROVE  CartInv'
<1> USE WebhooksAssumption DEF InTurn
<1>0. /\ ordered \in [Pick -> Nat] /\ inbox \in InboxRow /\ inbound \subseteq Message
      /\ agent \in [Employee -> StaffRequests \cup {None}]
      /\ ConversationTyped /\ handler \in [Handler -> HandlerState] /\ conv \in ConvRow
      /\ \A h \in Handler : IF handler[h].pc = "idle" THEN handler[h].message = None
                                                       ELSE handler[h].message \in inbound
  BY DEF ConversationInv, ConversationTyped, DataTyped, OneMessageEach
<1>1. ASSUME NEW h \in Handler, NEW m \in Message, Start(h, m) PROVE CartInv'
  <2>1. /\ handler[h].pc = "idle" /\ handler'[h].pc = "find" /\ handler'[h].message = m
        /\ m \notin inbound /\ inbound' = inbound \cup {m}
        /\ UNCHANGED <<conv, inbox, ordered, waited>>
    BY <1>1, StartsClean
  <2>2. \A g \in Handler : g = h
    OBVIOUS
  <2> QED BY <2>1, <2>2 DEF CartInv
<1>2. ASSUME NEW h \in Handler, Handles(h) PROVE CartInv'
  <2>0. \A g \in Handler : g = h
    OBVIOUS
  <2>1. /\ handler[h].pc # "idle" /\ inbound' = inbound
        /\ \/ handler'[h].pc = "idle" /\ handler'[h].message = None
           \/ handler'[h].pc # "idle" /\ handler'[h].message = handler[h].message
        /\ handler'[h].pc = "act" => handler'[h].copy = conv'
        /\ ordered' = ordered \/ ConfirmOrder(h)
        /\ handler'[h].pc = "empty" => ConfirmOrder(h)
        /\ conv'.cart \in {conv.cart, {}} \/ ChooseProduct(h)
        /\ handler[h].pc = "empty" => conv'.cart = {}
    BY <1>0, <1>2, HandlesEffect DEF Effect
  <2>2. CASE ConfirmOrder(h)
    <3>1. /\ handler[h].pc = "act" /\ Goto(h, "empty") /\ conv' = conv
          /\ ordered' = [p \in Pick |-> ordered[p] + IF p \in handler[h].copy.cart THEN 1 ELSE 0]
      BY <2>2 DEF ConfirmOrder, Acts, At, Copy
    <3>2. handler'[h].pc = "empty" /\ handler'[h].message = handler[h].message
      BY <1>0, <3>1, AfterGoto
    <3>3. handler[h].copy.cart = conv.cart
      BY <3>1 DEF CartInv
    <3>4. \A p \in Pick : IF p \in conv.cart THEN ordered[p] = 0 /\ ordered'[p] = 1
                                             ELSE ordered'[p] = ordered[p]
      BY <1>0, <2>0, <3>1, <3>3 DEF CartInv
    <3>5. \A m \in Message : m \in Pick
      BY DEF Pick
    <3> QED BY <1>0, <2>0, <2>1, <3>1, <3>2, <3>4, <3>5 DEF CartInv
  <2>3. CASE ~ConfirmOrder(h) /\ ~ChooseProduct(h)
    BY <1>0, <2>0, <2>1, <2>3 DEF CartInv
  <2>4. CASE ChooseProduct(h)
    <3>1. /\ handler[h].pc = "act" /\ End(h) /\ ordered' = ordered
          /\ conv' = [conv EXCEPT !.state = "CART",
                                  !.cart = handler[h].copy.cart \cup {handler[h].message}]
      BY <2>4 DEF ChooseProduct, Acts, At, Copy
    <3>2. handler'[h].pc = "idle" /\ handler'[h].message = None
      BY <1>0, <3>1, AfterEnd
    <3>3. conv'.cart = conv.cart \cup {handler[h].message}
      BY <1>0, <3>1, ConvReads DEF CartInv
    <3>4. ordered[handler[h].message] = 0 /\ handler[h].message \in inbound
      BY <1>0, <3>1 DEF CartInv
    <3> QED BY <1>0, <2>0, <2>1, <3>1, <3>2, <3>3, <3>4 DEF CartInv
  <2> QED BY <2>2, <2>3, <2>4
<1>3. ASSUME NEW e \in Employee, StaffStep(e) PROVE CartInv'
  <2>1. UNCHANGED <<inbound, handler, ordered>> /\ conv'.cart = conv.cart
    BY <1>0, <1>3, StaffEffect
  <2> QED BY <2>1 DEF CartInv
<1>4. CASE UNCHANGED conversationVars
  BY <1>4 DEF conversationVars, CartInv
<1> QED BY <1>1, <1>2, <1>3, <1>4 DEF QuietNext

LEMMA WaitStep ==
  ASSUME InTurn, "handoff" \notin StaffRequests, ConversationInv, WaitInv,
         QuietNext \/ UNCHANGED conversationVars
  PROVE  WaitInv'
<1> USE DEF InTurn
<1>0. /\ inbox \in InboxRow /\ agent \in [Employee -> StaffRequests \cup {None}]
      /\ ConversationTyped /\ handler \in [Handler -> HandlerState]
  BY DEF ConversationInv, ConversationTyped, DataTyped
<1>1. ASSUME NEW h \in Handler, NEW m \in Message, Start(h, m) PROVE WaitInv'
  <2>1. /\ handler[h].pc = "idle" /\ handler'[h].pc = "find"
        /\ UNCHANGED <<conv, inbox, ordered, waited>>
    BY <1>1, StartsClean
  <2>2. \A g \in Handler : g = h
    OBVIOUS
  <2> QED BY <2>1, <2>2 DEF WaitInv
<1>2. ASSUME NEW h \in Handler, Handles(h) PROVE WaitInv'
  <2>0. \A g \in Handler : g = h
    OBVIOUS
  <2>1. /\ handler'[h].pc = "act" => handler'[h].copy = conv'
        /\ conv'.status = "WAITING_AGENT"
             => conv.status = "WAITING_AGENT" \/ handler'[h].pc = "announce"
        /\ handler[h].pc \in {"announce", "open"}
             => handler'[h].pc = "open" \/ inbox'.status # "NONE"
        /\ inbox.messages \subseteq inbox'.messages
        /\ inbox.status # "NONE" => inbox'.status # "NONE"
        /\ waited' = waited \/ FindInbox(h)
        /\ handler'[h].pc = "record" => FindInbox(h)
        /\ handler[h].pc = "record" => handler[h].message \in inbox'.messages
    BY <1>0, <1>2, HandlesEffect DEF Effect
  <2>2. conv'.status = "WAITING_AGENT"
          => inbox'.status # "NONE" \/ handler'[h].pc \in {"announce", "open"}
    BY <2>0, <2>1 DEF WaitInv
  <2>3. handler'[h].pc = "act" /\ handler'[h].copy.status = "WAITING_AGENT"
          => inbox'.status # "NONE"
    BY <2>1, <2>2
  <2>4. ASSUME NEW m \in waited'
        PROVE  m \in inbox'.messages \/ (handler'[h].pc = "record" /\ handler'[h].message = m)
    <3>1. CASE FindInbox(h)
      <4>1. /\ handler[h].pc = "act" /\ "record" \in Meanings(h) /\ inbox' = inbox
            /\ waited' = waited \cup {handler[h].message}
            /\ IF inbox.status = "NONE" THEN End(h) ELSE Goto(h, "record")
        BY <3>1 DEF FindInbox, Acts, At
      <4>2. handler[h].copy.status = "WAITING_AGENT"
        BY <4>1, MeaningsMean DEF Copy
      <4>3. Goto(h, "record")
        BY <4>1, <4>2 DEF WaitInv
      <4>4. handler'[h].pc = "record" /\ handler'[h].message = handler[h].message
        BY <1>0, <4>3, AfterGoto
      <4>5. m \in waited => m \in inbox.messages
        BY <2>0, <4>1 DEF WaitInv
      <4> QED BY <2>4, <4>1, <4>4, <4>5
    <3>2. CASE waited' = waited
      BY <2>0, <2>1, <2>4, <3>2 DEF WaitInv
    <3> QED BY <2>1, <3>1, <3>2
  <2> QED BY <2>0, <2>2, <2>3, <2>4 DEF WaitInv
<1>3. ASSUME NEW e \in Employee, StaffStep(e) PROVE WaitInv'
  <2>1. /\ UNCHANGED <<handler, waited>> /\ inbox'.messages = inbox.messages
        /\ conv'.status = "WAITING_AGENT" => conv.status = "WAITING_AGENT"
        /\ inbox.status # "NONE" => inbox'.status # "NONE"
    BY <1>0, <1>3, StaffEffect
  <2> QED BY <2>1 DEF WaitInv
<1>4. CASE UNCHANGED conversationVars
  BY <1>4 DEF conversationVars, WaitInv
<1> QED BY <1>1, <1>2, <1>3, <1>4 DEF QuietNext

\* Handled one at a time, with nothing failing, the messages of a customer order each
\* picked item at most once, for any number of messages and whatever staff do meanwhile:
\* the order is made from the cart as it is, and the cart is emptied before the next one.
THEOREM PicksAreOrderedOnce == InTurn /\ Spec => []PicksOrderedOnce
<1>1. Init => CartInv
  <2> SUFFICES ASSUME Init PROVE CartInv
    OBVIOUS
  <2>1. /\ \A h \in Handler : handler[h].pc = "idle" /\ handler[h].message = None
        /\ \A p \in Pick : ordered[p] = 0
        /\ conv.cart \subseteq EarlierPick
    BY StartAssumption DEF Init, ConversationInit, Idle
  <2>2. \A m \in Message : m \in Pick /\ m \notin EarlierPick
    BY StartAssumption DEF Pick
  <2> QED BY <2>1, <2>2 DEF CartInv
<1>2. ASSUME InTurn PROVE Spec => []PicksOrderedOnce
  <2>1. Inv /\ ConversationInv /\ WebhooksTyped /\ CartInv /\ [Next]_vars => CartInv'
    BY <1>2, QuietStep, CartStep
  <2>2. CartInv => PicksOrderedOnce
    BY DEF CartInv, PicksOrderedOnce
  <2> QED BY <1>1, <2>1, <2>2, AllHold, PTL DEF Spec
<1> QED BY <1>2

\* Handled one at a time, with nothing failing and nobody using the hand-off endpoint, every
\* message that finds its conversation waiting for an agent reaches the inbox: the hand-off
\* has opened the inbox conversation by then.
THEOREM WaitingMessagesAreHeard ==
  InTurn /\ NoOpenHandoff /\ Spec => []WaitingMessagesReachInbox
<1>1. ASSUME NoOpenHandoff, Init PROVE WaitInv
  BY <1>1 DEF NoOpenHandoff, Init, ConversationInit, Idle, WaitInv
<1>2. ASSUME InTurn, NoOpenHandoff PROVE Spec => []WaitingMessagesReachInbox
  <2>1. Inv /\ ConversationInv /\ WebhooksTyped /\ WaitInv /\ [Next]_vars => WaitInv'
    BY <1>2, QuietStep, WaitStep DEF NoOpenHandoff
  <2>2. WaitInv => WaitingMessagesReachInbox
    BY DEF WaitInv, WaitingMessagesReachInbox
  <2>3. Init => WaitInv
    BY <1>1, <1>2
  <2> QED BY <2>1, <2>2, <2>3, AllHold, PTL DEF Spec
<1> QED BY <1>2
=============================================================================
