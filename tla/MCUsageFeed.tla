----------------------------- MODULE MCUsageFeed -----------------------------
(* UsageFeed for TLC: two pollers and the broadcaster; one platform is      *)
(* updated twice, so that batches of different age are in flight.           *)
EXTENDS UsageFeed

CONSTANTS kimi, zai

MCMaxVersion == [p \in Platforms |-> IF p = kimi THEN 2 ELSE 1]
=============================================================================
