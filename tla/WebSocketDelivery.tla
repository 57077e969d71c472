------------------------- MODULE WebSocketDelivery -------------------------
(***************************************************************************)
(* WebSocketSession implements ChatDelivery: members are the sessions in   *)
(* service, an inbox is what was written and what is still queued.         *)
(***************************************************************************)
EXTENDS WebSocketSession

Inbox == [s \in Sessions |-> written[s] \o queue[s]]

Delivery == INSTANCE ChatDelivery WITH
  members <- Served,
  owner <- latest,
  inbox <- Inbox,
  delivered <- [s \in Sessions |-> Len(written[s])],
  number <- frames

\* Every handshake, frame, completion, failure and crash is a step of the
\* abstract chat or changes nothing in it.
ImplementsDelivery == Delivery!Spec
=============================================================================
