-------------------------- MODULE MCRealtimeFetcher --------------------------
(* RealtimeFetcher for TLC: two fetches in flight and one frame in transit  *)
(* are enough for a late answer to meet a newer frame or a newer answer.    *)
(* RealtimeFetcherProofs covers any number of each.                         *)
EXTENDS RealtimeFetcher
=============================================================================
