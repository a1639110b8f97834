------------------------------ MODULE SSEBroker ------------------------------
(***************************************************************************)
(* internal/transport/sse: the Broker's Run goroutine owns the set of      *)
(* subscriber channels; each HTTP request runs StreamHandler, which        *)
(* subscribes, writes what it receives and unsubscribes when it returns.   *)
(* The register, unregister and broadcast channels are unbuffered: a send  *)
(* on them completes together with the receive in Run's select.  Messages  *)
(* are numbered in the order in which Run receives them.                   *)
(***************************************************************************)
EXTENDS Integers, Sequences, FiniteSets

CONSTANTS Handlers,  \* the requests to GET /api/v1/stream, one channel each
          BufSize,   \* capacity of a subscriber channel (256)
          MaxMsgs    \* bound: how many messages Run receives

ASSUME BufAssumption == BufSize \in Nat \ {0}
ASSUME MsgsAssumption == MaxMsgs \in Nat

VARIABLES
    loop,         \* where Run is: "off", "select", "working", "cleanup", "returned"
    todo,         \* the subscribers the broadcast loop has still to visit
    subscribers,  \* b.subscribers: the handlers whose channel is in the map
    done,         \* b.done is closed
    panicked,     \* Run sent on, or closed, a closed channel
    accepted,     \* the number of the last message received by Run
    hpc,          \* hpc[h]: where the handler is
    buf,          \* buf[h]: the content of its channel
    closed,       \* closed[h]: its channel is closed
    last,         \* history: the last message h took from its channel
    left          \* left[h]: the client disconnected (request context done)

loopVars == <<loop, todo, subscribers, done, panicked, accepted>>
handlerVars == <<hpc, buf, closed, last, left>>
vars == <<loopVars, handlerVars>>

Init == /\ loop = "off"
        /\ todo = {}
        /\ subscribers = {}
        /\ done = FALSE
        /\ panicked = FALSE
        /\ accepted = 0
        /\ hpc = [h \in Handlers |-> "none"]
        /\ buf = [h \in Handlers |-> << >>]
        /\ closed = [h \in Handlers |-> FALSE]
        /\ last = [h \in Handlers |-> 0]
        /\ left = [h \in Handlers |-> FALSE]

Goto(h, place) == hpc' = [hpc EXCEPT ![h] = place]

-----------------------------------------------------------------------------
(* Broker.Run.  While it serves a case it is "working" and receives nothing. *)

RunStart == /\ loop = "off"
            /\ loop' = "select"
            /\ UNCHANGED <<todo, subscribers, done, panicked, accepted, handlerVars>>

LoopBack == /\ loop = "working"
            /\ todo = {}
            /\ loop' = "select"
            /\ UNCHANGED <<todo, subscribers, done, panicked, accepted, handlerVars>>

\* register <- ch, in Subscribe, with the receive in Run
Register(h) == /\ loop = "select"
               /\ hpc[h] = "subscribing"
               /\ loop' = "working"
               /\ subscribers' = subscribers \cup {h}
               /\ last' = [last EXCEPT ![h] = accepted]
               /\ Goto(h, "stream")
               /\ UNCHANGED <<todo, done, panicked, accepted, buf, closed, left>>

\* A send on a closed channel and a second close panic.
Use(h) == panicked' = (panicked \/ closed[h])

\* Bug: the channel is closed but stays in the map.
DropKeepsEntry(h) == /\ UNCHANGED subscribers
                     /\ closed' = [closed EXCEPT ![h] = TRUE]
                     /\ Use(h)

\* delete(b.subscribers, ch); close(ch)
Drop(h) == /\ subscribers' = subscribers \ {h}
           /\ closed' = [closed EXCEPT ![h] = TRUE]
           /\ Use(h)

\* Bug: Unsubscribe takes the channel out of the map without waiting for Run,
\* which may be in the middle of a broadcast.
UnregisterAnytime(h) == /\ loop \in {"select", "working"}
                        /\ hpc[h] = "unsubscribing"
                        /\ IF h \in subscribers THEN Drop(h)
                           ELSE UNCHANGED <<subscribers, closed, panicked>>
                        /\ Goto(h, "gone")
                        /\ UNCHANGED <<loop, todo, done, accepted, buf, last, left>>

\* unregister <- ch, in Unsubscribe, with the receive in Run
Unregister(h) == /\ loop = "select"
                 /\ hpc[h] = "unsubscribing"
                 /\ loop' = "working"
                 /\ IF h \in subscribers THEN Drop(h)
                    ELSE UNCHANGED <<subscribers, closed, panicked>>
                 /\ Goto(h, "gone")
                 /\ UNCHANGED <<todo, done, accepted, buf, last, left>>

\* Publish: a non-blocking send, received only by a Run parked in its select.
\* A Publish that finds Run elsewhere drops its message and changes nothing.
Publish == /\ loop = "select"
           /\ accepted < MaxMsgs
           /\ loop' = "working"
           /\ accepted' = accepted + 1
           /\ todo' = subscribers
           /\ UNCHANGED <<subscribers, done, panicked, handlerVars>>

\* Bug: a slow subscriber misses the message and stays subscribed.
SendSkipsSlow(h) == /\ loop = "working"
                    /\ h \in todo
                    /\ todo' = todo \ {h}
                    /\ IF Len(buf[h]) < BufSize
                       THEN buf' = [buf EXCEPT ![h] = Append(@, accepted)] /\ Use(h)
                       ELSE UNCHANGED <<buf, panicked>>
                    /\ UNCHANGED <<loop, subscribers, done, accepted, hpc, closed, last, left>>

\* Bug: the oldest message of a full channel makes room for the new one.
SendDropsOldest(h) == /\ loop = "working"
                      /\ h \in todo
                      /\ todo' = todo \ {h}
                      /\ buf' = [buf EXCEPT ![h] =
                                   IF Len(@) < BufSize THEN Append(@, accepted)
                                   ELSE Append(Tail(@), accepted)]
                      /\ Use(h)
                      /\ UNCHANGED <<loop, subscribers, done, accepted, hpc, closed, last, left>>

\* One iteration of the broadcast loop: a non-blocking send to h, or the drop.
Send(h) == /\ loop = "working"
           /\ h \in todo
           /\ todo' = todo \ {h}
           /\ IF Len(buf[h]) < BufSize
              THEN /\ buf' = [buf EXCEPT ![h] = Append(@, accepted)]
                   /\ Use(h)
                   /\ UNCHANGED <<subscribers, closed>>
              ELSE /\ Drop(h)
                   /\ UNCHANGED buf
           /\ UNCHANGED <<loop, done, accepted, hpc, last, left>>

\* Bug: Run returns without cleaning up.
DoneReturns == /\ loop = "select"
               /\ done
               /\ loop' = "returned"
               /\ UNCHANGED <<todo, subscribers, done, panicked, accepted, handlerVars>>

DoneSeen == /\ loop = "select"
            /\ done
            /\ loop' = "cleanup"
            /\ UNCHANGED <<todo, subscribers, done, panicked, accepted, handlerVars>>

CleanUp(h) == /\ loop = "cleanup"
              /\ h \in subscribers
              /\ Drop(h)
              /\ UNCHANGED <<loop, todo, done, accepted, hpc, buf, last, left>>

RunReturn == /\ loop = "cleanup"
             /\ subscribers = {}
             /\ loop' = "returned"
             /\ UNCHANGED <<todo, subscribers, done, panicked, accepted, handlerVars>>

Stop == /\ ~done
        /\ done' = TRUE
        /\ UNCHANGED <<loop, todo, subscribers, panicked, accepted, handlerVars>>

-----------------------------------------------------------------------------
(* StreamHandler *)

Connect(h) == /\ hpc[h] = "none"
              /\ Goto(h, "subscribing")
              /\ UNCHANGED <<loopVars, buf, closed, last, left>>

\* The done case of Subscribe: the channel is returned all the same.
SubscribeDone(h) == /\ hpc[h] = "subscribing"
                    /\ done
                    /\ Goto(h, "stream")
                    /\ UNCHANGED <<loopVars, buf, closed, last, left>>

Receive(h) == /\ hpc[h] = "stream"
              /\ buf[h] # << >>
              /\ last' = [last EXCEPT ![h] = Head(buf[h])]
              /\ buf' = [buf EXCEPT ![h] = Tail(@)]
              /\ Goto(h, "writing")
              /\ UNCHANGED <<loopVars, closed, left>>

WriteOk(h) == /\ hpc[h] = "writing"
              /\ Goto(h, "stream")
              /\ UNCHANGED <<loopVars, buf, closed, last, left>>

WriteErr(h) == /\ hpc[h] = "writing"
               /\ Goto(h, "unsubscribing")
               /\ UNCHANGED <<loopVars, buf, closed, last, left>>

\* The receive reports !ok, or the request context is done.
Return(h) == /\ hpc[h] = "stream"
             /\ left[h] \/ (closed[h] /\ buf[h] = << >>)
             /\ Goto(h, "unsubscribing")
             /\ UNCHANGED <<loopVars, buf, closed, last, left>>

\* The done case of the deferred Unsubscribe.
UnsubscribeDone(h) == /\ hpc[h] = "unsubscribing"
                      /\ done
                      /\ Goto(h, "gone")
                      /\ UNCHANGED <<loopVars, buf, closed, last, left>>

Disconnect(h) == /\ hpc[h] \notin {"none", "gone"}
                 /\ ~left[h]
                 /\ left' = [left EXCEPT ![h] = TRUE]
                 /\ UNCHANGED <<loopVars, hpc, buf, closed, last>>

-----------------------------------------------------------------------------
Run == \/ RunStart \/ LoopBack \/ Publish \/ DoneSeen \/ RunReturn
       \/ \E h \in Handlers : Register(h) \/ Unregister(h) \/ Send(h) \/ CleanUp(h)

Write(h) == WriteOk(h) \/ WriteErr(h)

Stream(h) == \/ Connect(h) \/ SubscribeDone(h) \/ Receive(h) \/ Write(h)
             \/ Return(h) \/ UnsubscribeDone(h) \/ Disconnect(h)

Next == Run \/ Stop \/ \E h \in Handlers : Stream(h)

Spec == Init /\ [][Next]_vars

(***************************************************************************)
(* Fairness.  Run is started with the process and, like every goroutine,   *)
(* is scheduled while it can step.  Among the ready cases of a select Go   *)
(* picks at random, and goroutines blocked on a channel are served in      *)
(* order, so a waiting register or unregister, and done once it is closed, *)
(* are not passed over for ever: strong fairness of those cases.  A write  *)
(* ends because the client reads or its TCP connection breaks.  No client  *)
(* need connect or leave, and Stop need not be called.                     *)
(***************************************************************************)
Progress == \/ RunStart \/ LoopBack \/ RunReturn
            \/ \E h \in Handlers : Send(h) \/ CleanUp(h)

LoopFair == WF_vars(Progress) /\ SF_vars(DoneSeen)

HandlerFair(h) == /\ SF_vars(\/ Register(h) \/ SubscribeDone(h)
                             \/ Unregister(h) \/ UnsubscribeDone(h))
                  /\ WF_vars(Write(h) \/ Receive(h) \/ Return(h))
                  /\ SF_vars(Return(h))

Fairness == LoopFair /\ \A h \in Handlers : HandlerFair(h)

FairSpec == Spec /\ Fairness

-----------------------------------------------------------------------------
(* Properties *)

\* Every variable has its type, and no channel holds more than its capacity.
TypeOK == /\ loop \in {"off", "select", "working", "cleanup", "returned"}
          /\ todo \in SUBSET subscribers
          /\ subscribers \in SUBSET Handlers
          /\ done \in BOOLEAN
          /\ panicked \in BOOLEAN
          /\ accepted \in 0 .. MaxMsgs
          /\ hpc \in [Handlers -> {"none", "subscribing", "stream", "writing",
                                   "unsubscribing", "gone"}]
          /\ buf \in [Handlers -> Seq(1 .. MaxMsgs)]
          /\ \A h \in Handlers : Len(buf[h]) <= BufSize
          /\ closed \in [Handlers -> BOOLEAN]
          /\ last \in [Handlers -> 0 .. MaxMsgs]
          /\ left \in [Handlers -> BOOLEAN]

\* Run never panics: although it closes channels in three places and handlers
\* unsubscribe at any time, no channel is closed twice or sent on when closed.
NoPanic == ~panicked

\* A subscriber is never skipped: what waits in its channel continues what it
\* took without a gap, and as long as it is in the map this reaches the latest
\* message, except for the one being sent to it.
Pending(h) == IF h \in todo THEN 1 ELSE 0

NoSkip == \A h \in Handlers :
             /\ \A i \in 1 .. Len(buf[h]) : buf[h][i] = last[h] + i
             /\ h \in subscribers =>
                   last[h] + Len(buf[h]) = accepted - Pending(h)

\* The broker implements the feed: each subscriber reads a contiguous part of
\* the accepted messages that starts where it registered.
F == INSTANCE Feed WITH
        Readers <- Handlers,
        log     <- accepted,
        status  <- [h \in Handlers |-> IF h \in subscribers THEN "in"
                                       ELSE IF closed[h] THEN "cut" ELSE "out"],
        pos     <- last,
        end     <- [h \in Handlers |-> last[h] + Len(buf[h])]

FeedSpec == F!Spec

\* A stream ends, and leaves neither a goroutine nor an entry in the map behind,
\* if its client disconnects or if it is registered when done is closed, whatever
\* the broker is doing meanwhile.
StreamEnds ==
    \A h \in Handlers :
        (left[h] \/ (done /\ h \in subscribers)) ~> (hpc[h] = "gone" /\ h \notin subscribers)

\* README: shutting down "closes all subscriber channels".  Once Run has
\* returned, the channel of every handler still streaming is closed.
ClosesAllChannels ==
    loop = "returned" => \A h \in Handlers : hpc[h] = "stream" => closed[h]
=============================================================================
