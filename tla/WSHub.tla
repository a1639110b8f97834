------------------------------- MODULE WSHub -------------------------------
(***************************************************************************)
(* internal/transport/ws: the Hub's Run goroutine owns the set of clients; *)
(* a request to GET /ws upgrades the connection, registers the client and  *)
(* leaves it to two goroutines, readPump and writePump, which share the    *)
(* connection.  The register, unregister and broadcast channels are        *)
(* unbuffered: a send on them completes together with the receive in Run's *)
(* select.  Messages are numbered in the order in which Run receives them. *)
(* The onRefresh callback of readPump touches nothing here: a refresh      *)
(* message leaves readPump reading.                                        *)
(***************************************************************************)
EXTENDS Integers, Sequences, FiniteSets

CONSTANTS Clients,  \* the upgraded connections, one Client each
          BufSize,  \* sendBufferSize, the capacity of Client.send (256)
          MaxMsgs   \* bound: how many messages Run receives

ASSUME BufAssumption == BufSize \in Nat \ {0}
ASSUME MsgsAssumption == MaxMsgs \in Nat

VARIABLES
    loop,      \* where Run is: "off", "select", "working", "cleanup", "returned"
    todo,      \* the clients the broadcast loop has still to visit
    clients,   \* h.clients
    done,      \* h.done is closed
    panicked,  \* Run sent on, or closed, a closed channel
    accepted,  \* the number of the last message received by Run
    handler,   \* handler[c]: where WSHandler is
    writer,    \* writer[c]: where writePump is
    drain,     \* drain[c]: how many queued messages writePump still adds to its write
    reader,    \* reader[c]: where readPump is
    buf,       \* buf[c]: the content of Client.send
    closed,    \* closed[c]: Client.send is closed
    last,      \* history: the last message writePump took from Client.send
    open,      \* open[c]: the server has not closed the connection
    peer       \* peer[c]: the other side is there and answers

hubVars == <<loop, todo, clients, done, panicked, accepted>>
chanVars == <<buf, closed, last>>
connVars == <<open, peer>>
pumpVars == <<handler, writer, drain, reader>>
vars == <<hubVars, chanVars, connVars, pumpVars>>

Init == /\ loop = "off"
        /\ todo = {}
        /\ clients = {}
        /\ done = FALSE
        /\ panicked = FALSE
        /\ accepted = 0
        /\ handler = [c \in Clients |-> "none"]
        /\ writer = [c \in Clients |-> "none"]
        /\ drain = [c \in Clients |-> 0]
        /\ reader = [c \in Clients |-> "none"]
        /\ buf = [c \in Clients |-> << >>]
        /\ closed = [c \in Clients |-> FALSE]
        /\ last = [c \in Clients |-> 0]
        /\ open = [c \in Clients |-> FALSE]
        /\ peer = [c \in Clients |-> TRUE]

-----------------------------------------------------------------------------
(* Hub.Run.  While it serves a case it is "working" and receives nothing. *)

RunStart == /\ loop = "off"
            /\ loop' = "select"
            /\ UNCHANGED <<todo, clients, done, panicked, accepted>>
            /\ UNCHANGED <<chanVars, connVars, pumpVars>>

LoopBack == /\ loop = "working"
            /\ todo = {}
            /\ loop' = "select"
            /\ UNCHANGED <<todo, clients, done, panicked, accepted>>
            /\ UNCHANGED <<chanVars, connVars, pumpVars>>

\* h.hub.register <- client, in WSHandler, with the receive in Run; WSHandler
\* then starts both pumps and returns.
Register(c) == /\ loop = "select"
               /\ handler[c] = "registering"
               /\ loop' = "working"
               /\ clients' = clients \cup {c}
               /\ last' = [last EXCEPT ![c] = accepted]
               /\ handler' = [handler EXCEPT ![c] = "returned"]
               /\ writer' = [writer EXCEPT ![c] = "select"]
               /\ reader' = [reader EXCEPT ![c] = "reading"]
               /\ UNCHANGED <<todo, done, panicked, accepted, drain, buf, closed, connVars>>

\* A send on a closed channel and a second close panic.
Use(c) == panicked' = (panicked \/ closed[c])

\* close(client.send); delete(h.clients, client)
Drop(c) == /\ clients' = clients \ {c}
           /\ closed' = [closed EXCEPT ![c] = TRUE]
           /\ Use(c)

\* Bug: without the look-up in the map a dropped client is closed again.
UnregisterBlindly(c) == /\ loop = "select"
                        /\ reader[c] = "unregistering"
                        /\ loop' = "working"
                        /\ Drop(c)
                        /\ reader' = [reader EXCEPT ![c] = "closing"]
                        /\ UNCHANGED <<todo, done, accepted, buf, last, connVars>>
                        /\ UNCHANGED <<handler, writer, drain>>

\* Bug: readPump takes the client out of the map without waiting for Run, which
\* may be in the middle of a broadcast.
UnregisterAnytime(c) == /\ loop \in {"select", "working"}
                        /\ reader[c] = "unregistering"
                        /\ IF c \in clients THEN Drop(c)
                           ELSE UNCHANGED <<clients, closed, panicked>>
                        /\ reader' = [reader EXCEPT ![c] = "closing"]
                        /\ UNCHANGED <<loop, todo, done, accepted, buf, last, connVars>>
                        /\ UNCHANGED <<handler, writer, drain>>

\* c.hub.unregister <- c, in readPump, with the receive in Run
Unregister(c) == /\ loop = "select"
                 /\ reader[c] = "unregistering"
                 /\ loop' = "working"
                 /\ IF c \in clients THEN Drop(c)
                    ELSE UNCHANGED <<clients, closed, panicked>>
                 /\ reader' = [reader EXCEPT ![c] = "closing"]
                 /\ UNCHANGED <<todo, done, accepted, buf, last, connVars>>
                 /\ UNCHANGED <<handler, writer, drain>>

\* Broadcast: a non-blocking send, received only by a Run parked in its select.
\* A Broadcast that finds Run elsewhere drops its message and changes nothing.
Broadcast == /\ loop = "select"
             /\ accepted < MaxMsgs
             /\ loop' = "working"
             /\ accepted' = accepted + 1
             /\ todo' = clients
             /\ UNCHANGED <<clients, done, panicked, chanVars, connVars, pumpVars>>

\* Bug: a slow client misses the message and stays registered.
SendSkipsSlow(c) == /\ loop = "working"
                    /\ c \in todo
                    /\ todo' = todo \ {c}
                    /\ IF Len(buf[c]) < BufSize
                       THEN buf' = [buf EXCEPT ![c] = Append(@, accepted)] /\ Use(c)
                       ELSE UNCHANGED <<buf, panicked>>
                    /\ UNCHANGED <<loop, clients, done, accepted, closed, last>>
                    /\ UNCHANGED <<connVars, pumpVars>>

\* One iteration of the broadcast loop: a non-blocking send to c, or the drop.
Send(c) == /\ loop = "working"
           /\ c \in todo
           /\ todo' = todo \ {c}
           /\ IF Len(buf[c]) < BufSize
              THEN /\ buf' = [buf EXCEPT ![c] = Append(@, accepted)]
                   /\ Use(c)
                   /\ UNCHANGED <<clients, closed>>
              ELSE /\ Drop(c)
                   /\ UNCHANGED buf
           /\ UNCHANGED <<loop, done, accepted, last, connVars, pumpVars>>

DoneSeen == /\ loop = "select"
            /\ done
            /\ loop' = "cleanup"
            /\ UNCHANGED <<todo, clients, done, panicked, accepted>>
            /\ UNCHANGED <<chanVars, connVars, pumpVars>>

CleanUp(c) == /\ loop = "cleanup"
              /\ c \in clients
              /\ Drop(c)
              /\ UNCHANGED <<loop, todo, done, accepted, buf, last, connVars, pumpVars>>

RunReturn == /\ loop = "cleanup"
             /\ clients = {}
             /\ loop' = "returned"
             /\ UNCHANGED <<todo, clients, done, panicked, accepted>>
             /\ UNCHANGED <<chanVars, connVars, pumpVars>>

Stop == /\ ~done
        /\ done' = TRUE
        /\ UNCHANGED <<loop, todo, clients, panicked, accepted>>
        /\ UNCHANGED <<chanVars, connVars, pumpVars>>

-----------------------------------------------------------------------------
(* WSHandler *)

Upgrade(c) == /\ handler[c] = "none"
              /\ handler' = [handler EXCEPT ![c] = "registering"]
              /\ open' = [open EXCEPT ![c] = TRUE]
              /\ UNCHANGED <<hubVars, chanVars, peer, writer, drain, reader>>

\* The other side goes away, or stops answering.
PeerLeaves(c) == /\ open[c] /\ peer[c]
                 /\ peer' = [peer EXCEPT ![c] = FALSE]
                 /\ UNCHANGED <<hubVars, chanVars, open, pumpVars>>

Usable(c) == open[c] /\ peer[c]

-----------------------------------------------------------------------------
(* writePump *)

\* Bug: writePump leaves the connection to readPump.
WriterLeavesOpen(c) == /\ writer' = [writer EXCEPT ![c] = "returned"]
                       /\ UNCHANGED <<hubVars, handler, reader, connVars>>

\* The deferred conn.Close of writePump
WriterReturns(c) == /\ writer' = [writer EXCEPT ![c] = "returned"]
                    /\ open' = [open EXCEPT ![c] = FALSE]
                    /\ UNCHANGED <<hubVars, handler, reader, peer>>

Goto(c, place) == /\ writer' = [writer EXCEPT ![c] = place]
                  /\ UNCHANGED <<hubVars, handler, reader, connVars>>

\* Bug: the first message of a batch is overwritten by the next in the queue.
TakeNewest(c) == /\ buf[c] # << >>
                 /\ last' = [last EXCEPT ![c] = buf[c][Len(buf[c])]]
                 /\ buf' = [buf EXCEPT ![c] = << >>]
                 /\ UNCHANGED closed

Take(c) == /\ buf[c] # << >>
           /\ last' = [last EXCEPT ![c] = Head(buf[c])]
           /\ buf' = [buf EXCEPT ![c] = Tail(@)]
           /\ UNCHANGED closed

\* message, ok := <-c.send; NextWriter fails on a connection already closed or
\* past its write deadline, and the message is lost with the connection.
Receive(c) == /\ writer[c] = "select"
              /\ Take(c)
              /\ \/ /\ open[c]
                    /\ Goto(c, "writing")
                 \/ /\ ~Usable(c)
                    /\ WriterReturns(c)
              /\ UNCHANGED drain

\* n := len(c.send)
CountQueued(c) == /\ writer[c] = "writing"
                  /\ drain' = [drain EXCEPT ![c] = Len(buf[c])]
                  /\ Goto(c, "draining")
                  /\ UNCHANGED chanVars

Drain(c) == /\ writer[c] = "draining"
            /\ drain[c] > 0
            /\ Take(c)
            /\ drain' = [drain EXCEPT ![c] = @ - 1]
            /\ Goto(c, "draining")

\* w.Close
Flush(c) == /\ writer[c] = "draining"
            /\ drain[c] = 0
            /\ \/ open[c] /\ Goto(c, "select")
               \/ ~Usable(c) /\ WriterReturns(c)
            /\ UNCHANGED <<chanVars, drain>>

\* The receive reports !ok: a close frame is written and writePump returns.
SendClosed(c) == /\ writer[c] = "select"
                 /\ closed[c] /\ buf[c] = << >>
                 /\ WriterReturns(c)
                 /\ UNCHANGED <<chanVars, drain>>

\* The ping of ticker.C fails; one that succeeds changes nothing.
PingFails(c) == /\ writer[c] = "select"
                /\ ~Usable(c)
                /\ WriterReturns(c)
                /\ UNCHANGED <<chanVars, drain>>

-----------------------------------------------------------------------------
(* readPump *)

\* ReadMessage fails: the connection is closed, the peer is gone or silent for
\* pongWait, or it sends a frame that is malformed or longer than maxMessageSize.
ReadFails(c) == /\ reader[c] = "reading"
                /\ reader' = [reader EXCEPT ![c] = "unregistering"]
                /\ UNCHANGED <<hubVars, chanVars, connVars, handler, writer, drain>>

\* The done case of the deferred function of readPump
UnregisterDone(c) == /\ reader[c] = "unregistering"
                     /\ done
                     /\ reader' = [reader EXCEPT ![c] = "closing"]
                     /\ UNCHANGED <<hubVars, chanVars, connVars, handler, writer, drain>>

ReaderReturns(c) == /\ reader[c] = "closing"
                    /\ reader' = [reader EXCEPT ![c] = "returned"]
                    /\ open' = [open EXCEPT ![c] = FALSE]
                    /\ UNCHANGED <<hubVars, chanVars, peer, handler, writer, drain>>

-----------------------------------------------------------------------------
Run == \/ RunStart \/ LoopBack \/ Broadcast \/ DoneSeen \/ RunReturn
       \/ \E c \in Clients : Register(c) \/ Unregister(c) \/ Send(c) \/ CleanUp(c)

WritePump(c) == \/ Receive(c) \/ CountQueued(c) \/ Drain(c) \/ Flush(c)
                \/ SendClosed(c) \/ PingFails(c)

ReadPump(c) == ReadFails(c) \/ UnregisterDone(c) \/ ReaderReturns(c)

Next == \/ Run
        \/ Stop
        \/ \E c \in Clients : Upgrade(c) \/ PeerLeaves(c) \/ WritePump(c) \/ ReadPump(c)

Spec == Init /\ [][Next]_vars

(***************************************************************************)
(* Fairness.  Run is started with the process and every goroutine is       *)
(* scheduled while it can step.  Among the ready cases of a select Go      *)
(* picks at random, and goroutines blocked on a channel are served in      *)
(* order: strong fairness of a waiting register or unregister and of done. *)
(* Writes end because of the 10 s write deadline, pings come every 54 s,   *)
(* and reads of a connection that is closed or silent fail within 60 s.    *)
(* Nothing says that a peer connects or leaves, or that Stop is called.    *)
(***************************************************************************)
Progress == \/ RunStart \/ LoopBack \/ RunReturn
            \/ \E c \in Clients : Send(c) \/ CleanUp(c)

HubFair == WF_vars(Progress) /\ SF_vars(DoneSeen)

ClientFair(c) == /\ SF_vars(Register(c) \/ Unregister(c) \/ UnregisterDone(c))
                 /\ WF_vars(WritePump(c))
                 /\ WF_vars((~Usable(c) /\ ReadFails(c)) \/ ReaderReturns(c))

Fairness == HubFair /\ \A c \in Clients : ClientFair(c)

FairSpec == Spec /\ Fairness

-----------------------------------------------------------------------------
(* Properties *)

Places == {"none", "select", "writing", "draining", "returned"}

\* Every variable has its type, no channel holds more than its capacity, and
\* writePump never waits for a message that is not in the queue it counted.
TypeOK == /\ loop \in {"off", "select", "working", "cleanup", "returned"}
          /\ todo \in SUBSET clients
          /\ clients \in SUBSET Clients
          /\ done \in BOOLEAN
          /\ panicked \in BOOLEAN
          /\ accepted \in 0 .. MaxMsgs
          /\ handler \in [Clients -> {"none", "registering", "returned"}]
          /\ writer \in [Clients -> Places]
          /\ drain \in [Clients -> 0 .. BufSize]
          /\ reader \in [Clients -> {"none", "reading", "unregistering", "closing",
                                     "returned"}]
          /\ buf \in [Clients -> Seq(1 .. MaxMsgs)]
          /\ \A c \in Clients : drain[c] <= Len(buf[c]) /\ Len(buf[c]) <= BufSize
          /\ closed \in [Clients -> BOOLEAN]
          /\ last \in [Clients -> 0 .. MaxMsgs]
          /\ open \in [Clients -> BOOLEAN]
          /\ peer \in [Clients -> BOOLEAN]

\* Run never panics: although Client.send is closed in three places and both
\* pumps end at any time, it is never closed twice nor sent on when closed.
NoPanic == ~panicked

\* A client is never skipped: what waits in its channel continues what writePump
\* took without a gap and, while it is registered, reaches the latest message.
Pending(c) == IF c \in todo THEN 1 ELSE 0

NoSkip == \A c \in Clients :
             /\ \A i \in 1 .. Len(buf[c]) : buf[c][i] = last[c] + i
             /\ c \in clients => last[c] + Len(buf[c]) = accepted - Pending(c)

\* The hub implements the feed: each client is sent a contiguous part of the
\* accepted messages that starts where it registered, although writePump packs
\* several of them in one frame.
F == INSTANCE Feed WITH
        Readers <- Clients,
        log     <- accepted,
        status  <- [c \in Clients |-> IF c \in clients THEN "in"
                                      ELSE IF closed[c] THEN "cut" ELSE "out"],
        pos     <- last,
        end     <- [c \in Clients |-> last[c] + Len(buf[c])]

FeedSpec == F!Spec

Ended(c) == writer[c] = "returned" /\ reader[c] = "returned" /\ ~open[c]

\* A client ends if it was dropped for being slow, if its peer leaves, or if it
\* is connected when the hub stops: it is out of the map, both pumps have
\* returned and its connection is closed, even if the peer stays.
ClientEnds ==
    \A c \in Clients :
        (handler[c] = "returned" /\ (closed[c] \/ done \/ ~peer[c])) ~>
            (Ended(c) /\ c \notin clients)

\* README: stopping the hub "disconnects all clients".
StopDisconnectsAll ==
    \A c \in Clients : (loop = "returned" /\ open[c]) ~> ~open[c]
=============================================================================
