--------------------------- MODULE MCWebhookEvents ---------------------------
(***************************************************************************)
(* A small instance of WebhookEvents for TLC.                              *)
(***************************************************************************)
EXTENDS WebhookEvents

CONSTANT Item     \* the item in the cart of a customer who has chosen

MCEarlier == {Item}

Reached(state, cart) == [status |-> "ACTIVE", state |-> state, cart |-> cart]

\* A customer who never wrote, one whose conversation was closed, and one at every
\* point of ordering.
MCStart ==
  {NoConversation, [Reached("WELCOME", {}) EXCEPT !.status = "CLOSED"],
   Reached("MAIN_MENU", {}), Reached("PRODUCT_SELECT", {}),
   Reached("ADDRESS", {Item}), Reached("CONFIRM_ORDER", {Item})}

\* A customer who has only to confirm.
MCAboutToOrder == {Reached("CONFIRM_ORDER", {Item})}
=============================================================================
