---------------------------- MODULE WebhookEvents ----------------------------
(***************************************************************************)
(* WhatsApp webhooks of one tenant's connection (whatsapp.service.js): the *)
(* provider delivers inbound messages and status callbacks, again and      *)
(* again until it is answered 200, in any order and several at once; an    *)
(* event is recorded, its message stored and given to the automation       *)
(* (Conversations), and the event marked.  Failed events are retried by    *)
(* an endpoint.  Statements fail and the process dies, a bounded number of *)
(* times.                                                                  *)
(*                                                                         *)
(* An event's id is the id of its message, for a status callback that of   *)
(* the outbound message it reports on.                                     *)
(***************************************************************************)
EXTENDS Conversations

CONSTANTS
  Outbound,     \* provider ids of messages the tenant sends
  Reports,      \* inputs: statuses the provider reports
  MaxFailures   \* bound: rejected statements and deaths of the process

ASSUME WebhooksAssumption ==
  /\ Message \cap Outbound = {}
  /\ None \notin Message \cup Outbound
  /\ Reports \subseteq {"SENT", "DELIVERED", "READ"}
  /\ MaxFailures \in Nat

VARIABLES
  event,       \* webhook_events.status by event id
  outbound,    \* outbound rows of whatsapp_messages by provider id
  delivery,    \* local state of each webhook request
  failures     \* failures so far

webhookVars == <<event, outbound, delivery, failures>>

vars == <<conversationVars, webhookVars>>

EventId == Message \cup Outbound

\* pc names the next statement; status is what a callback reports.
DeliveryState ==
  [pc : {"idle", "insert", "process", "store", "automation", "status", "mark", "fail"},
   id : EventId \cup {None}, status : Reports \cup {None}]

NoDelivery == [pc |-> "idle", id |-> None, status |-> None]

TypeOK ==
  /\ ConversationTypeOK
  /\ event \in [EventId -> {"NONE", "RECEIVED", "PROCESSED", "FAILED"}]
  /\ outbound \in [Outbound -> Reports \cup {"NONE", "REFUSED", "ACCEPTED", "SENT", "FAILED"}]
  /\ delivery \in [Handler -> DeliveryState]
  /\ failures \in 0..MaxFailures

Init ==
  /\ ConversationInit
  /\ event = [i \in EventId |-> "NONE"]
  /\ outbound = [p \in Outbound |-> "NONE"]
  /\ delivery = [d \in Handler |-> NoDelivery]
  /\ failures = 0

Step(d, pc) == delivery' = [delivery EXCEPT ![d] = [@ EXCEPT !.pc = pc]]

Ends(d) == delivery' = [delivery EXCEPT ![d] = NoDelivery]

-----------------------------------------------------------------------------
(* The provider, and messages sent *)

\* sendMessage: the provider accepts a message and knows its id before it is stored.
ProviderAccepts(p) ==
  /\ outbound[p] = "NONE"
  /\ outbound' = [outbound EXCEPT ![p] = "ACCEPTED"]
  /\ UNCHANGED <<conversationVars, event, delivery, failures>>

\* Both failures store a row FAILED; only after this one was nothing sent.
ProviderRefuses(p) ==
  /\ outbound[p] = "NONE"
  /\ outbound' = [outbound EXCEPT ![p] = "REFUSED"]
  /\ UNCHANGED <<conversationVars, event, delivery, failures>>

\* Seeded fault: the row is created without a status, which createMessage makes PENDING.
DefaultStatus == "PENDING"

StoredStatus == "SENT"

\* Stored as SENT; or, when that fails, as FAILED and without the provider's id.
StoreSent(p) ==
  /\ outbound[p] = "ACCEPTED"
  /\ \/ outbound' = [outbound EXCEPT ![p] = StoredStatus] /\ UNCHANGED failures
     \/ /\ failures < MaxFailures
        /\ failures' = failures + 1
        /\ outbound' = [outbound EXCEPT ![p] = "FAILED"]
  /\ UNCHANGED <<conversationVars, event, delivery>>

\* Seeded fault: an event another request has received is taken to be done.
ReplayedOnceReceived(i) == event[i] # "NONE"

Replayed(i) == event[i] = "PROCESSED"

\* The first delivery, a redelivery of what was not answered 200, or a retry of a
\* failed event: the same handler.  A PROCESSED event is answered without a change.
Deliver(d, i, status) ==
  /\ delivery[d].pc = "idle"
  /\ ~Replayed(i)
  /\ delivery' = [delivery EXCEPT ![d] =
       [pc |-> IF event[i] = "NONE" THEN "insert" ELSE "process", id |-> i, status |-> status]]
  /\ UNCHANGED <<conversationVars, event, outbound, failures>>

DeliverMessage(d, m) == Deliver(d, m, None)

\* Statuses come in any order, and may overtake the storing of the message.
DeliverStatus(d, p, status) ==
  /\ outbound[p] \notin {"NONE", "REFUSED"}
  /\ Deliver(d, p, status)

-----------------------------------------------------------------------------
(* handleInboundWebhook *)

\* Seeded fault: the event counts as processed from the start.
MarkedAtOnce == "PROCESSED"

FirstStatus == "RECEIVED"

\* One event per id: the loser's insert fails outside the try, and the provider is
\* answered an error.
InsertEvent(d) ==
  LET i == delivery[d].id IN
    /\ delivery[d].pc = "insert"
    /\ IF event[i] = "NONE"
       THEN event' = [event EXCEPT ![i] = FirstStatus] /\ Step(d, "process")
       ELSE UNCHANGED event /\ Ends(d)
    /\ UNCHANGED <<conversationVars, outbound, failures>>

\* Only a message stored as sent is stored with the provider's id.
HasId(p) == outbound[p] \in {"SENT"} \cup Reports

FindMessage(d) ==
  LET i == delivery[d].id IN
    /\ delivery[d].pc = "process"
    /\ Step(d, CASE i \in Message /\ i \notin inbound -> "store"
                 [] i \in Outbound /\ HasId(i) -> "status"
                 [] OTHER -> "mark")
    /\ UNCHANGED <<conversationVars, event, outbound, failures>>

\* Seeded fault: provider ids are not unique, so that a message is stored twice.
StoresTwice(m) == TRUE

\* The unique index on the provider's id.
Stores(m) == m \notin inbound

\* The stored message goes to the automation in the same request.
StoreMessage(d) ==
  LET m == delivery[d].id IN
    /\ delivery[d].pc = "store"
    /\ IF Stores(m)
       THEN /\ inbound' = inbound \cup {m}
            /\ handler' = [handler EXCEPT ![d] = [Idle EXCEPT !.pc = "find", !.message = m]]
            /\ Step(d, "automation")
            /\ UNCHANGED <<text, conv, inbox, agent, ordered, waited>>
       ELSE Step(d, "fail") /\ UNCHANGED conversationVars
    /\ UNCHANGED <<event, outbound, failures>>

SetStatus(d) ==
  LET p == delivery[d].id IN
    /\ delivery[d].pc = "status"
    /\ outbound' = [outbound EXCEPT ![p] = delivery[d].status]
    /\ Step(d, "mark")
    /\ UNCHANGED <<conversationVars, event, failures>>

Marks(d) == delivery[d].pc = "mark" \/ (delivery[d].pc = "automation" /\ At(d, "idle"))

\* Both marks are unconditional, and both are answered 200.
MarkProcessed(d) ==
  /\ Marks(d)
  /\ event' = [event EXCEPT ![delivery[d].id] = "PROCESSED"]
  /\ Ends(d)
  /\ UNCHANGED <<conversationVars, outbound, failures>>

MarkFailed(d) ==
  /\ delivery[d].pc = "fail"
  /\ event' = [event EXCEPT ![delivery[d].id] = "FAILED"]
  /\ Ends(d)
  /\ UNCHANGED <<conversationVars, outbound, failures>>

-----------------------------------------------------------------------------
(* Failures *)

Fails == failures < MaxFailures /\ failures' = failures + 1

\* A statement inside the try is rejected.
StatementFails(d) ==
  /\ Fails
  /\ delivery[d].pc \in {"process", "store", "status"} \/ Marks(d)
  /\ Step(d, "fail")
  /\ UNCHANGED <<conversationVars, event, outbound>>

\* The automation fails; its error is swallowed and the event goes on to be marked.
AutomationFails(d) ==
  /\ Fails
  /\ HandlerFails(d)
  /\ UNCHANGED <<event, outbound, delivery>>

\* The process dies with this request, inside the automation or not.
Dies(d) ==
  /\ Fails
  /\ delivery[d].pc # "idle"
  /\ Ends(d)
  /\ HandlerFails(d) \/ (At(d, "idle") /\ UNCHANGED conversationVars)
  /\ UNCHANGED <<event, outbound>>

Works(d) ==
  \/ InsertEvent(d) \/ FindMessage(d) \/ StoreMessage(d) \/ SetStatus(d)
  \/ MarkProcessed(d) \/ MarkFailed(d)
  \/ Handles(d) /\ UNCHANGED webhookVars

Next ==
  \/ \E p \in Outbound :
       ProviderAccepts(p) \/ ProviderRefuses(p) \/ StoreSent(p)
  \/ \E d \in Handler :
       \/ \E m \in Message : DeliverMessage(d, m)
       \/ \E p \in Outbound, s \in Reports : DeliverStatus(d, p, s)
       \/ Works(d) \/ StatementFails(d) \/ AutomationFails(d) \/ Dies(d)
  \/ \E e \in Employee : StaffStep(e) /\ UNCHANGED webhookVars

\* A running request proceeds, and the provider redelivers what it was not answered for.
Fairness ==
  /\ \A d \in Handler : WF_vars(Works(d))
  /\ \A m \in Message : WF_vars(\E d \in Handler : DeliverMessage(d, m))

Spec == Init /\ [][Next]_vars /\ Fairness

-----------------------------------------------------------------------------
(* Properties *)

\* However often webhooks are delivered, overlap, fail, and are retried, the automation
\* is given each message at most once: without the webhooks, what is left is a behaviour
\* of Conversations.
AutomationSeesMessagesOnce == ConversationSpec

\* Every order comes from a confirmation of its own: no redelivery or retry orders again.
OrdersAreConfirmed ==
  \A p \in Pick : ordered[p] <= Cardinality({m \in inbound : text[m] = "confirm"})

\* An event that counts as processed left its message stored: replay protection never
\* turns away a message that was lost.
ProcessedIsStored == \A m \in Message : event[m] = "PROCESSED" => m \in inbound

\* What the customer wrote ends as an event that is processed, or was and is kept for
\* the retry endpoint, whatever overlaps, fails or dies on the way.
EventsAreDecided == \A m \in Message : <>(event[m] \in {"PROCESSED", "FAILED"})
=============================================================================
