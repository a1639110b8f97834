------------------------------ MODULE MCWSHub ------------------------------
(* WSHub for TLC: one client, whose channel fills while writePump writes and *)
(* again while it batches.  WSHubProofs covers any number of clients.        *)
EXTENDS WSHub
=============================================================================
