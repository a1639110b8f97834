---------------------------- MODULE MCStreamStop ----------------------------
(***************************************************************************)
(* The broker (EXTENDS) and the hub (INSTANCE) side by side, for one       *)
(* question about both: whom does a shutdown of the process reach?  They   *)
(* share nothing but the order in which the coordinator stops them.        *)
(***************************************************************************)
EXTENDS SSEBroker

CONSTANT Clients
VARIABLES hubLoop, hubTodo, clients, hubDone, hubPanicked, hubAccepted, handler, writer,
          drain, reader, send, sendClosed, sent, open, peer

Hub == INSTANCE WSHub WITH
         loop <- hubLoop, todo <- hubTodo, done <- hubDone, panicked <- hubPanicked,
         accepted <- hubAccepted, buf <- send, closed <- sendClosed, last <- sent

hubVars == <<hubLoop, hubTodo, clients, hubDone, hubPanicked, hubAccepted, handler, writer,
             drain, reader, send, sendClosed, sent, open, peer>>
bothVars == <<vars, hubVars>>

BothInit == Init /\ Hub!Init

\* The hub was registered after the broker and is stopped before it.
BothNext == \/ Next /\ UNCHANGED hubVars /\ (done' => hubDone)
            \/ Hub!Next /\ UNCHANGED vars

BothSpec == BothInit /\ [][BothNext]_bothVars /\ Fairness /\ Hub!Fairness

\* README: shutdown "closes all subscriber channels" and "disconnects all
\* clients".  Of these two promises at least one is kept: every subscriber's
\* channel is closed once the broker's Run has returned, or every connection is
\* closed once the hub's has.  The run refutes even this, so it refutes both.
StopEndsAKind == []ClosesAllChannels \/ Hub!StopDisconnectsAll
=============================================================================
