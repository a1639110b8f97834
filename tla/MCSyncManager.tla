---------------------------- MODULE MCSyncManager ----------------------------
(* SyncManager for TLC: a provider whose backoff doubles, reaches its cap   *)
(* and then overflows a Duration, and one without backoff_max.              *)
EXTENDS SyncManager

CONSTANTS capped, uncapped, s1

MCBackoffInitial == [p \in Providers |-> IF p = capped THEN 0 ELSE 12]
MCBackoffMax == [p \in Providers |-> IF p = capped THEN 10 ELSE 0]
=============================================================================
