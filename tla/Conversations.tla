---------------------------- MODULE Conversations ----------------------------
(***************************************************************************)
(* One customer's WhatsApp conversation: the automation that answers each  *)
(* inbound message (automation.service.js), the inbox in which staff take  *)
(* over (inbox.service.js), and the requests of staff on both.             *)
(*                                                                         *)
(* A handler reads the conversation once, decides on that copy, and writes *)
(* some columns back in a later statement; nothing is locked and no update *)
(* is conditional.  Each message is handled at most once: that is what     *)
(* WebhookEvents makes true of redelivered webhooks, and this module is    *)
(* the specification it implements.                                        *)
(*                                                                         *)
(* A cart is the set of messages that picked its items.  Left out: the     *)
(* texts of answers, prices, the address and selectedCategoryId, which is  *)
(* set exactly when the state is PRODUCT_SELECT.  What the menu and the    *)
(* branches hold is a choice.  An answer that cannot be sent matters only  *)
(* where the code goes on after it.                                        *)
(***************************************************************************)
EXTENDS Integers, FiniteSets

CONSTANTS
  Message,            \* inbound messages of the customer
  Handler,            \* webhook requests in flight
  Employee,           \* employees, each with one request at a time
  None,               \* an absent value
  Texts,              \* inputs: what messages may say
  StaffRequests,      \* inputs: requests employees make
  EarlierPick,        \* items in the cart at the start
  StartConversations  \* what was reached before the messages modelled here

Words == {"reset", "menu", "cart", "checkout", "track", "help", "agent", "confirm", "other"}

Digits == {"1", "2", "3", "4", "5", "6"}

\* Requests that look at the manager's lock, and those that do not.
LockedRequests == {"reply", "resolve", "close"}

OpenRequests == {"assign", "takeover", "return", "reassign", "handoff", "end"}

ASSUME ConversationsAssumption ==
  /\ None \notin Employee \cup LockedRequests \cup OpenRequests
  /\ Texts \subseteq Words \cup Digits
  /\ StaffRequests \subseteq LockedRequests \cup OpenRequests

VARIABLES
  text,      \* what each message says, as its sender happens to write it
  inbound,   \* messages stored, and given to the automation
  conv,      \* the row of whatsapp_conversations
  inbox,     \* the row of inbox_conversations, with its customer messages
  handler,   \* local state of each message's handler
  agent,     \* the request each employee is in the middle of
  ordered,   \* auxiliary: in how many orders each picked item went
  waited     \* auxiliary: messages taken to be for a human, and not failed

conversationVars == <<text, inbound, conv, inbox, handler, agent, ordered, waited>>

Pick == Message \cup EarlierPick

ConvRow ==
  [status : {"NONE", "ACTIVE", "WAITING_AGENT", "CLOSED"},
   state : {"WELCOME", "MAIN_MENU", "PRODUCT_SELECT", "CART", "ADDRESS", "CONFIRM_ORDER"},
   cart : SUBSET Pick]

\* Items in the cart at the start were picked by messages that came before.
ASSUME StartAssumption ==
  /\ StartConversations \subseteq ConvRow
  /\ EarlierPick \cap Message = {}
  /\ \A row \in StartConversations : row.cart \subseteq EarlierPick

NoConversation == [status |-> "NONE", state |-> "WELCOME", cart |-> {}]

Fresh == [status |-> "ACTIVE", state |-> "WELCOME", cart |-> {}]

InboxRow ==
  [status : {"NONE", "WAITING", "PENDING", "ACTIVE", "RESOLVED", "CLOSED"},
   lockedBy : Employee \cup {None}, messages : SUBSET Message]

\* pc names the next statement; copy is the conversation as read.
HandlerState ==
  [pc : {"idle", "find", "create", "reset", "reread", "act", "empty", "announce", "open",
         "record", "pending"},
   message : Message \cup {None}, copy : ConvRow]

Idle == [pc |-> "idle", message |-> None, copy |-> NoConversation]

ConversationTypeOK ==
  /\ text \in [Message -> Texts]
  /\ inbound \in SUBSET Message
  /\ conv \in ConvRow
  /\ inbox \in InboxRow
  /\ handler \in [Handler -> HandlerState]
  /\ agent \in [Employee -> StaffRequests \cup {None}]
  /\ ordered \in [Pick -> 0..Cardinality(Message)]
  /\ waited \in SUBSET Message

ConversationInit ==
  /\ text \in [Message -> Texts]
  /\ inbound = {}
  /\ conv \in StartConversations
  /\ inbox = [status |-> "NONE", lockedBy |-> None, messages |-> {}]
  /\ handler = [h \in Handler |-> Idle]
  /\ agent = [e \in Employee |-> None]
  /\ ordered = [p \in Pick |-> 0]
  /\ waited = {}

-----------------------------------------------------------------------------
(* The automation's handler *)

At(h, pc) == handler[h].pc = pc

Goto(h, pc) == handler' = [handler EXCEPT ![h] = [@ EXCEPT !.pc = pc]]

End(h) == handler' = [handler EXCEPT ![h] = Idle]

Keep(h, pc, row) == handler' = [handler EXCEPT ![h] = [@ EXCEPT !.pc = pc, !.copy = row]]

Start(h, m) ==
  /\ At(h, "idle")
  /\ m \notin inbound
  /\ inbound' = inbound \cup {m}
  /\ handler' = [handler EXCEPT ![h] = [Idle EXCEPT !.pc = "find", !.message = m]]
  /\ UNCHANGED <<text, conv, inbox, agent, ordered, waited>>

FindConversation(h) ==
  /\ At(h, "find")
  /\ CASE conv.status = "NONE"   -> Goto(h, "create")
       [] conv.status = "CLOSED" -> Goto(h, "reset")
       [] OTHER                  -> Keep(h, "act", conv)
  /\ UNCHANGED <<text, inbound, conv, inbox, agent, ordered, waited>>

\* One conversation per connection and phone: the loser's error is swallowed.
CreateConversation(h) ==
  /\ At(h, "create")
  /\ IF conv.status = "NONE"
     THEN conv' = Fresh /\ Keep(h, "act", Fresh)
     ELSE conv' = conv /\ End(h)
  /\ UNCHANGED <<text, inbound, inbox, agent, ordered, waited>>

ReopenConversation(h) ==
  /\ At(h, "reset")
  /\ conv' = Fresh
  /\ Goto(h, "reread")
  /\ UNCHANGED <<text, inbound, inbox, agent, ordered, waited>>

ReadReopened(h) ==
  /\ At(h, "reread")
  /\ Keep(h, "act", conv)
  /\ UNCHANGED <<text, inbound, conv, inbox, agent, ordered, waited>>

Copy(h) == handler[h].copy

Says(h) == text[handler[h].message]

Command(said) ==
  CASE said = "1" -> "menu"  [] said = "2" -> "cart" [] said = "3" -> "checkout"
    [] said = "4" -> "track" [] said = "5" -> "help" [] said = "6" -> "agent"

\* The states in which a number first of all chooses from a list; a number the
\* list does not have is a command like any other.
Choosing == {"MAIN_MENU", "PRODUCT_SELECT"}

\* What a handler does with its message, in the order of the code's tests: words,
\* then the state, then numbers.
Meanings(h) ==
  LET said == Says(h) state == Copy(h).state IN
    IF said = "reset" THEN {"reset"}
    ELSE IF Copy(h).status = "WAITING_AGENT" THEN {"record"}
    ELSE IF said \in Words \ {"other", "confirm"} THEN {said}
    ELSE IF state \in Choosing /\ said \in Digits THEN {state, Command(said)}
    ELSE IF state = "ADDRESS" THEN {"ADDRESS"}
    ELSE IF state = "CONFIRM_ORDER" /\ said = "confirm" THEN {"confirm"}
    ELSE IF said \in Digits THEN {Command(said)}
    ELSE {"welcome"}

Acts(h, meaning) == At(h, "act") /\ meaning \in Meanings(h)

SetState(state) == conv' = [conv EXCEPT !.state = state]

Restart(h) ==
  /\ Acts(h, "reset")
  /\ conv' = Fresh
  /\ End(h)
  /\ UNCHANGED <<text, inbound, inbox, agent, ordered, waited>>

\* Answered without a change: welcome, help, an order's status, and whatever meets
\* an empty menu, category or cart, or no branch.
Answer(h) ==
  /\ \/ \E meaning \in {"welcome", "track", "help", "menu", "MAIN_MENU"} : Acts(h, meaning)
     \/ \E meaning \in {"cart", "checkout", "confirm"} :
          Acts(h, meaning) /\ (meaning = "confirm" \/ Copy(h).cart = {})
  /\ End(h)
  /\ UNCHANGED <<text, inbound, conv, inbox, agent, ordered, waited>>

ShowCategories(h) ==
  /\ Acts(h, "menu")
  /\ SetState("MAIN_MENU")
  /\ End(h)
  /\ UNCHANGED <<text, inbound, inbox, agent, ordered, waited>>

ChooseCategory(h) ==
  /\ Acts(h, "MAIN_MENU")
  /\ SetState("PRODUCT_SELECT")
  /\ End(h)
  /\ UNCHANGED <<text, inbound, inbox, agent, ordered, waited>>

\* The cart as read, with one item more, replaces the cart.
ChooseProduct(h) ==
  /\ Acts(h, "PRODUCT_SELECT")
  /\ conv' = [conv EXCEPT !.state = "CART", !.cart = Copy(h).cart \cup {handler[h].message}]
  /\ End(h)
  /\ UNCHANGED <<text, inbound, inbox, agent, ordered, waited>>

ShowCart(h) ==
  /\ Acts(h, "cart") /\ Copy(h).cart # {}
  /\ SetState("CART")
  /\ End(h)
  /\ UNCHANGED <<text, inbound, inbox, agent, ordered, waited>>

PromptAddress(h) ==
  /\ Acts(h, "checkout") /\ Copy(h).cart # {}
  /\ SetState("ADDRESS")
  /\ End(h)
  /\ UNCHANGED <<text, inbound, inbox, agent, ordered, waited>>

TakeAddress(h) ==
  /\ Acts(h, "ADDRESS")
  /\ SetState("CONFIRM_ORDER")
  /\ End(h)
  /\ UNCHANGED <<text, inbound, inbox, agent, ordered, waited>>

\* createOrder commits by itself, with no idempotency key; the cart is emptied in a
\* later statement.  When it refuses, the customer is told and nothing changes (Answer).
ConfirmOrder(h) ==
  /\ Acts(h, "confirm") /\ Copy(h).cart # {}
  /\ ordered' = [p \in Pick |-> ordered[p] + (IF p \in Copy(h).cart THEN 1 ELSE 0)]
  /\ Goto(h, "empty")
  /\ UNCHANGED <<text, inbound, conv, inbox, agent, waited>>

\* Seeded fault: the conversation stays where it was before the order.
ConversationKept == conv

OrderedConversation == [conv EXCEPT !.state = "WELCOME", !.cart = {}]

EmptyCart(h) ==
  /\ At(h, "empty")
  /\ conv' = OrderedConversation
  /\ End(h)
  /\ UNCHANGED <<text, inbound, inbox, agent, ordered, waited>>

Handoff(h) ==
  /\ Acts(h, "agent")
  /\ conv' = [conv EXCEPT !.status = "WAITING_AGENT"]
  /\ Goto(h, "announce")
  /\ UNCHANGED <<text, inbound, inbox, agent, ordered, waited>>

\* Seeded fault: the announcement ends the hand-off.
EndsAfterAnnouncing(h) == End(h)

NextAfterAnnouncing(h) == Goto(h, "open")

\* The hand-off goes on only if the announcement could be sent.
Announce(h) ==
  /\ At(h, "announce")
  /\ NextAfterAnnouncing(h)
  /\ UNCHANGED <<text, inbound, conv, inbox, agent, ordered, waited>>

\* An inbox conversation that exists is kept as it is; a second insert fails.
OpenInbox(h) ==
  /\ At(h, "open")
  /\ inbox' = IF inbox.status = "NONE" THEN [inbox EXCEPT !.status = "WAITING"] ELSE inbox
  /\ End(h)
  /\ UNCHANGED <<text, inbound, conv, agent, ordered, waited>>

FindInbox(h) ==
  /\ Acts(h, "record")
  /\ waited' = waited \cup {handler[h].message}
  /\ IF inbox.status = "NONE" THEN End(h) ELSE Goto(h, "record")
  /\ UNCHANGED <<text, inbound, conv, inbox, agent, ordered>>

RecordMessage(h) ==
  /\ At(h, "record")
  /\ inbox' = [inbox EXCEPT !.messages = @ \cup {handler[h].message}]
  /\ Goto(h, "pending")
  /\ UNCHANGED <<text, inbound, conv, agent, ordered, waited>>

MarkPending(h) ==
  /\ At(h, "pending")
  /\ inbox' = [inbox EXCEPT !.status = "PENDING"]
  /\ End(h)
  /\ UNCHANGED <<text, inbound, conv, agent, ordered, waited>>

\* A rejected statement or a message that cannot be sent: the webhook swallows it.
HandlerFails(h) ==
  /\ ~At(h, "idle")
  /\ End(h)
  /\ waited' = waited \ {handler[h].message}
  /\ UNCHANGED <<text, inbound, conv, inbox, agent, ordered>>

Handles(h) ==
  \/ FindConversation(h) \/ CreateConversation(h) \/ ReopenConversation(h) \/ ReadReopened(h)
  \/ Restart(h) \/ Answer(h) \/ ShowCategories(h) \/ ChooseCategory(h) \/ ChooseProduct(h)
  \/ ShowCart(h) \/ PromptAddress(h) \/ TakeAddress(h) \/ ConfirmOrder(h) \/ EmptyCart(h)
  \/ Handoff(h) \/ Announce(h) \/ OpenInbox(h)
  \/ FindInbox(h) \/ RecordMessage(h) \/ MarkPending(h)

-----------------------------------------------------------------------------
(* Requests of staff *)

MayModify(e) == inbox.lockedBy \in {None, e}

\* The row is read and checked here and written later.
ReadForRequest(e) ==
  /\ agent[e] = None
  /\ \E request \in StaffRequests :
       /\ IF request \in {"handoff", "end"} THEN conv.status # "NONE" ELSE inbox.status # "NONE"
       /\ request \in LockedRequests => MayModify(e)
       /\ agent' = [agent EXCEPT ![e] = request]
  /\ UNCHANGED <<text, inbound, conv, inbox, handler, ordered, waited>>

Finishes(e, request) ==
  /\ agent[e] = request
  /\ agent' = [agent EXCEPT ![e] = None]
  /\ UNCHANGED <<text, inbound, handler, ordered, waited>>

\* A reply is sent, stored, and makes the conversation active.
Reply(e) ==
  /\ Finishes(e, "reply")
  /\ inbox' = [inbox EXCEPT !.status = "ACTIVE"]
  /\ UNCHANGED conv

Resolve(e) ==
  /\ Finishes(e, "resolve")
  /\ inbox' = [inbox EXCEPT !.status = "RESOLVED"]
  /\ UNCHANGED conv

CloseInbox(e) ==
  /\ Finishes(e, "close")
  /\ inbox' = [inbox EXCEPT !.status = "CLOSED"]
  /\ UNCHANGED conv

Assign(e) ==
  /\ Finishes(e, "assign")
  /\ inbox' = [inbox EXCEPT !.status = "ACTIVE"]
  /\ UNCHANGED conv

TakeOver(e) ==
  /\ Finishes(e, "takeover")
  /\ inbox' = [inbox EXCEPT !.lockedBy = e]
  /\ UNCHANGED conv

ReturnToAgent(e) ==
  /\ Finishes(e, "return")
  /\ inbox' = [inbox EXCEPT !.lockedBy = None]
  /\ UNCHANGED conv

Reassign(e) ==
  /\ Finishes(e, "reassign")
  /\ inbox' = [inbox EXCEPT !.status = "ACTIVE", !.lockedBy = None]
  /\ UNCHANGED conv

\* The automation's endpoints do not touch the inbox.
HandoffConversation(e) ==
  /\ Finishes(e, "handoff")
  /\ conv' = [conv EXCEPT !.status = "WAITING_AGENT"]
  /\ UNCHANGED inbox

CloseConversation(e) ==
  /\ Finishes(e, "end")
  /\ conv' = [conv EXCEPT !.status = "CLOSED"]
  /\ UNCHANGED inbox

\* The statement is rejected, or the reply cannot be sent.
RequestFails(e) ==
  /\ agent[e] # None
  /\ Finishes(e, agent[e])
  /\ UNCHANGED <<conv, inbox>>

StaffStep(e) ==
  \/ ReadForRequest(e)
  \/ Reply(e) \/ Resolve(e) \/ CloseInbox(e) \/ Assign(e)
  \/ TakeOver(e) \/ ReturnToAgent(e) \/ Reassign(e)
  \/ HandoffConversation(e) \/ CloseConversation(e)
  \/ RequestFails(e)

ConversationNext ==
  \/ \E h \in Handler : (\E m \in Message : Start(h, m)) \/ Handles(h) \/ HandlerFails(h)
  \/ \E e \in Employee : StaffStep(e)

ConversationSpec == ConversationInit /\ [][ConversationNext]_conversationVars

-----------------------------------------------------------------------------
(* Properties *)

\* Confirming orders what is in the cart once: a second confirmation, or one repeated
\* after the cart was ordered but not emptied, orders nothing twice.  The code gives
\* createOrder no idempotency key: this holds while messages are handled one at a time
\* and nothing fails, and not otherwise.
PicksOrderedOnce == \A p \in Pick : ordered[p] <= 1

\* A customer handed over to a human is heard: a message handled while the conversation
\* waits for an agent reaches the inbox, unless a statement fails.  The inbox conversation
\* is opened after the hand-off is written: a message handled in between is dropped, so
\* this holds while messages are handled one at a time, and as long as nobody uses the
\* hand-off endpoint, which opens no inbox conversation.
WaitingMessagesReachInbox ==
  \A m \in waited : m \in inbox.messages \/ \E h \in Handler : handler[h].message = m
=============================================================================
