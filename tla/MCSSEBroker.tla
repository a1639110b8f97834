----------------------------- MODULE MCSSEBroker -----------------------------
(* SSEBroker for TLC: two requests, and channels short enough to fill. *)
EXTENDS SSEBroker
=============================================================================
