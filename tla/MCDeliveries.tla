------------------------------ MODULE MCDeliveries ------------------------------
(* A small instance of the delivery of one activity to one channel. *)
EXTENDS Deliveries

CONSTANTS w1, w2, r1

MCWorkers == {w1, w2}
MCReceivers == {r1}

\* A provider with receipts, and a websocket channel that hands off.
Provider ==
  [outcomes |-> {"ok", "permanent", "transient", "halted"},
   receipts |-> {"delivered", "read", "failed"}]
WebSocket == [outcomes |-> {"ok", "pending", "halted"}, receipts |-> {}]

MCChannels == {Provider, WebSocket}
=============================================================================
