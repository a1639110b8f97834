--------------------------- MODULE RealtimeFetcher ---------------------------
(***************************************************************************)
(* frontend/src/api/use-realtime-refresh.ts: the dashboard polls over HTTP *)
(* while a WebSocket, and after two seconds an EventSource, try to         *)
(* connect; the first to open wins and replaces the polling, and when it   *)
(* breaks a new acquisition round begins.                                  *)
(*                                                                         *)
(* The browser runs one callback at a time: each is an action.  The state  *)
(* of the server is a version; a payload is the version it was made from,  *)
(* a WebSocket frame also says whether writePump joined several messages   *)
(* in it.  A connection is named by the round that made it.                *)
(***************************************************************************)
EXTENDS Naturals, Sequences

CONSTANTS Slots,       \* names for the fetches in flight (bound: how many at once)
          MaxRounds,   \* bound: acquisition rounds and stops
          MaxVersion,  \* bound: the last version of the server
          MaxWire      \* bound: frames in transit

ASSUME BoundsAssumption == /\ MaxRounds \in Nat \ {0}
                           /\ MaxVersion \in Nat \ {0}
                           /\ MaxWire \in Nat \ {0}

VARIABLES
    started,      \* this.started
    round,        \* this.roundId
    winner,       \* this.winner: "none", "ws" or "sse"
    polling,      \* this.pollingTimer is set
    sseDelay,     \* the round of the pending sseDelayTimer, or 0
    restart,      \* this.restartTimer is set
    socket,       \* the round of this.socket, or 0
    sock,         \* sock[r]: the WebSocket of round r
    eventSource,  \* the round of this.eventSource, or 0
    es,           \* es[r]: the EventSource of round r
    ctrl,         \* {} or {i}: the fetch of this.fetchController
    flight,       \* flight[i]: "free", "sent" or "answered"
    got,          \* got[i]: the version fetch i was answered with
    shown,        \* the version in state.data, 0 for null
    loading,      \* state.status is "loading"
    connected,    \* refreshState.isConnected
    server,       \* the server's version
    wire,         \* the frames in transit to the winner
    fetched       \* history: the version of the last fetch that was applied

roundVars == <<started, round, winner>>
timerVars == <<polling, sseDelay, restart>>
connVars  == <<socket, sock, eventSource, es>>
fetchVars == <<ctrl, flight, got>>
viewVars  == <<shown, loading, connected>>
envVars   == <<server, wire>>
vars == <<roundVars, timerVars, connVars, fetchVars, viewVars, envVars, fetched>>

Rounds == 1 .. MaxRounds

Init == /\ started = FALSE
        /\ round = 0
        /\ winner = "none"
        /\ polling = FALSE
        /\ sseDelay = 0
        /\ restart = FALSE
        /\ socket = 0
        /\ sock = [r \in Rounds |-> "none"]
        /\ eventSource = 0
        /\ es = [r \in Rounds |-> "none"]
        /\ ctrl = {}
        /\ flight = [i \in Slots |-> "free"]
        /\ got = [i \in Slots |-> 0]
        /\ shown = 0
        /\ loading = FALSE
        /\ connected = FALSE
        /\ server = 1
        /\ wire = << >>
        /\ fetched = 0

\* The bound on rounds: what would need a further one does not happen.
RoomForRound == round < MaxRounds

-----------------------------------------------------------------------------
(* Closing.  closeSocket and closeEventSource detach the callbacks first, so *)
(* a connection they close is heard of no more.                              *)

CloseRef(conn, ref) == [r \in Rounds |-> IF r = ref THEN "closed" ELSE conn[r]]

CloseSocket == sock' = CloseRef(sock, socket) /\ socket' = 0

CloseEventSource == es' = CloseRef(es, eventSource) /\ eventSource' = 0

ClearTimers == polling' = FALSE /\ sseDelay' = 0 /\ restart' = FALSE

-----------------------------------------------------------------------------
(* performFetch: the previous fetch is aborted and stops being this.fetchController *)

\* Bug: the previous fetch is not aborted.
PerformFetchOnly(i) == /\ flight[i] = "free"
                       /\ flight' = [flight EXCEPT ![i] = "sent"]
                       /\ ctrl' = ctrl \cup {i}
                       /\ UNCHANGED got

PerformFetch(i) == /\ flight[i] = "free"
                   /\ flight' = [flight EXCEPT ![i] = "sent"]
                   /\ ctrl' = {i}
                   /\ UNCHANGED got

Answer(i) == /\ flight[i] = "sent"
             /\ flight' = [flight EXCEPT ![i] = "answered"]
             /\ got' = [got EXCEPT ![i] = server]
             /\ UNCHANGED <<roundVars, timerVars, connVars, ctrl, viewVars, envVars, fetched>>

Settle(i) == /\ flight' = [flight EXCEPT ![i] = "free"]
             /\ got' = [got EXCEPT ![i] = 0]
             /\ UNCHANGED <<roundVars, timerVars, connVars, ctrl, connected, envVars>>

ApplyUsage(v) == shown' = v /\ loading' = FALSE

\* The continuation of an aborted or superseded fetch does nothing.
Superseded(i) == /\ flight[i] # "free"
                 /\ i \notin ctrl
                 /\ Settle(i)
                 /\ UNCHANGED <<shown, loading, fetched>>

\* Bug: the continuation does not look whether its fetch is still the current one.
FetchOkAlways(i) == /\ flight[i] = "answered"
                    /\ Settle(i)
                    /\ ApplyUsage(got[i])
                    /\ fetched' = got[i]

FetchOk(i) == /\ flight[i] = "answered"
              /\ i \in ctrl
              /\ Settle(i)
              /\ ApplyUsage(got[i])
              /\ fetched' = got[i]

\* A failed fetch clears the data, whatever the transport has delivered.
FetchFails(i) == /\ flight[i] # "free"
                 /\ i \in ctrl
                 /\ Settle(i)
                 /\ ApplyUsage(0)
                 /\ UNCHANGED fetched

\* The polling interval
PollDue(i) == /\ polling
              /\ PerformFetch(i)
              /\ UNCHANGED <<roundVars, timerVars, connVars, viewVars, envVars, fetched>>

\* The refresh button, shown while the hook is mounted
Refresh(i) == /\ started
              /\ PerformFetch(i)
              /\ loading' = TRUE
              /\ UNCHANGED <<roundVars, timerVars, connVars, shown, connected, envVars, fetched>>

-----------------------------------------------------------------------------
(* Rounds *)

\* The WebSocket constructor may be missing or throw.
BeginRound(i) == /\ round' = round + 1
                 /\ winner' = "none"
                 /\ polling' = TRUE
                 /\ restart' = FALSE
                 /\ sseDelay' = round'
                 /\ CloseEventSource
                 /\ \/ /\ sock' = [CloseRef(sock, socket) EXCEPT ![round'] = "connecting"]
                       /\ socket' = round'
                    \/ CloseSocket
                 /\ PerformFetch(i)
                 /\ loading' = TRUE
                 /\ connected' = FALSE
                 /\ wire' = << >>
                 /\ UNCHANGED <<shown, server, fetched>>

Start(i) == /\ ~started
            /\ RoomForRound
            /\ started' = TRUE
            /\ BeginRound(i)

\* restartTimer
Restart(i) == /\ restart
              /\ IF started THEN BeginRound(i)
                 ELSE /\ restart' = FALSE
                      /\ UNCHANGED <<round, winner, polling, sseDelay, connVars>>
                      /\ UNCHANGED <<fetchVars, viewVars, envVars, fetched>>
              /\ UNCHANGED started

\* Bug: the EventSource is not closed.
StopKeepsEventSource == /\ started
                        /\ RoomForRound
                        /\ started' = FALSE
                        /\ round' = round + 1
                        /\ ctrl' = {}
                        /\ ClearTimers
                        /\ CloseSocket
                        /\ wire' = << >>
                        /\ UNCHANGED <<winner, eventSource, es, flight, got>>
                        /\ UNCHANGED <<viewVars, server, fetched>>

Stop == /\ started
        /\ RoomForRound
        /\ started' = FALSE
        /\ round' = round + 1
        /\ ctrl' = {}
        /\ ClearTimers
        /\ CloseSocket
        /\ CloseEventSource
        /\ wire' = << >>
        /\ UNCHANGED <<winner, flight, got, viewVars, server, fetched>>

\* Bug: the polling is not resumed, and no restart is scheduled.
ScheduleRestartNever == /\ winner' = "none"
                        /\ connected' = FALSE
                        /\ wire' = << >>
                        /\ ClearTimers
                        /\ CloseSocket
                        /\ CloseEventSource

\* What onclose and onerror do for the winner, scheduleRestart included
ScheduleRestart == /\ winner' = "none"
                   /\ connected' = FALSE
                   /\ wire' = << >>
                   /\ polling' = FALSE
                   /\ sseDelay' = 0
                   /\ restart' = TRUE
                   /\ CloseSocket
                   /\ CloseEventSource

-----------------------------------------------------------------------------
(* startWebSocket's callbacks, which run until closeSocket detaches them *)

SocketOpens(r) ==
    /\ sock[r] = "connecting"
    /\ IF r # round \/ winner # "none"
       THEN /\ sock' = [sock EXCEPT ![r] = "closing"]
            /\ UNCHANGED <<winner, timerVars, socket, eventSource, es, connected>>
       ELSE /\ sock' = [sock EXCEPT ![r] = "open"]
            /\ winner' = "ws"
            /\ polling' = FALSE
            /\ sseDelay' = 0
            /\ CloseEventSource
            /\ connected' = TRUE
            /\ UNCHANGED <<restart, socket>>
    /\ UNCHANGED <<started, round, fetchVars, shown, loading, envVars, fetched>>

\* onerror closes the socket; onclose follows.
SocketFails(r) == /\ RoomForRound
                  /\ sock[r] \in {"connecting", "open"}
                  /\ sock' = [sock EXCEPT ![r] = "closing"]
                  /\ UNCHANGED <<roundVars, timerVars, socket, eventSource, es>>
                  /\ UNCHANGED <<fetchVars, viewVars, envVars, fetched>>

\* onclose
SocketCloses(r) ==
    /\ sock[r] \in {"connecting", "open", "closing"}
    /\ IF r = round /\ winner = "ws"
       THEN RoomForRound /\ ScheduleRestart
       ELSE /\ sock' = [sock EXCEPT ![r] = "closed"]
            /\ UNCHANGED <<winner, timerVars, socket, eventSource, es, connected, wire>>
    /\ UNCHANGED <<started, round, fetchVars, shown, loading, server, fetched>>

-----------------------------------------------------------------------------
(* startSse and its callbacks *)

SseDelayOver == /\ sseDelay # 0
                /\ sseDelay' = 0
                /\ IF round = sseDelay /\ winner = "none"
                   THEN \/ /\ es' = [es EXCEPT ![round] = "connecting"]
                           /\ eventSource' = round
                        \/ UNCHANGED <<es, eventSource>>
                   ELSE UNCHANGED <<es, eventSource>>
                /\ UNCHANGED <<roundVars, polling, restart, socket, sock>>
                /\ UNCHANGED <<fetchVars, viewVars, envVars, fetched>>

\* Bug: the WebSocket is left to connect.
SseOpensOnly(r) == /\ es[r] = "connecting"
                   /\ es' = [es EXCEPT ![r] = "open"]
                   /\ winner' = "sse"
                   /\ polling' = FALSE
                   /\ connected' = TRUE
                   /\ UNCHANGED <<started, round, sseDelay, restart, socket, sock, eventSource>>
                   /\ UNCHANGED <<fetchVars, shown, loading, envVars, fetched>>

SseOpens(r) ==
    /\ es[r] = "connecting"
    /\ IF r # round \/ winner # "none"
       THEN /\ es' = [es EXCEPT ![r] = "closed"]
            /\ UNCHANGED <<winner, polling, socket, sock, connected>>
       ELSE /\ es' = [es EXCEPT ![r] = "open"]
            /\ winner' = "sse"
            /\ polling' = FALSE
            /\ CloseSocket
            /\ connected' = TRUE
    /\ UNCHANGED <<started, round, sseDelay, restart, eventSource>>
    /\ UNCHANGED <<fetchVars, shown, loading, envVars, fetched>>

\* onerror, after a refused connection or a broken stream
SseFails(r) ==
    /\ es[r] \in {"connecting", "open"}
    /\ r = round
    /\ IF winner = "sse"
       THEN RoomForRound /\ ScheduleRestart
       ELSE /\ es' = [es EXCEPT ![r] = "closed"]
            /\ eventSource' = IF eventSource = r THEN 0 ELSE eventSource
            /\ UNCHANGED <<winner, timerVars, socket, sock, connected, wire>>
    /\ UNCHANGED <<started, round, fetchVars, shown, loading, server, fetched>>

-----------------------------------------------------------------------------
(* The server and the frames it sends *)

ServerUpdate == /\ server < MaxVersion
                /\ server' = server + 1
                /\ UNCHANGED <<roundVars, timerVars, connVars, fetchVars, viewVars, wire, fetched>>

LiveWinner == \/ winner = "ws" /\ socket # 0 /\ sock[socket] = "open"
              \/ winner = "sse" /\ eventSource # 0 /\ es[eventSource] = "open"

\* writePump joins the messages that wait for a slow client with newlines;
\* StreamHandler writes one event each.
Emit(joined) == /\ LiveWinner
                /\ joined => winner = "ws"
                /\ Len(wire) < MaxWire
                /\ wire' = Append(wire, [version |-> server, joined |-> joined])
                /\ UNCHANGED <<roundVars, timerVars, connVars, fetchVars, viewVars, server, fetched>>

\* Bug: the realtime payload is not applied.
DeliverNothing == /\ LiveWinner
                  /\ wire # << >>
                  /\ wire' = Tail(wire)
                  /\ UNCHANGED <<roundVars, timerVars, connVars, fetchVars, viewVars, server, fetched>>

\* onmessage: JSON.parse throws on two values joined by a newline, and
\* handleRealtimePayload ignores the frame.
Deliver == /\ LiveWinner
           /\ wire # << >>
           /\ wire' = Tail(wire)
           /\ IF Head(wire).joined
              THEN UNCHANGED <<shown, loading>>
              ELSE ApplyUsage(Head(wire).version)
           /\ UNCHANGED <<roundVars, timerVars, connVars, fetchVars, connected, server, fetched>>

-----------------------------------------------------------------------------
Fetching(i) == \/ Answer(i) \/ Superseded(i) \/ FetchOk(i) \/ FetchFails(i)
               \/ PollDue(i) \/ Refresh(i)

Connection(r) == \/ SocketOpens(r) \/ SocketFails(r) \/ SocketCloses(r)
                 \/ SseOpens(r) \/ SseFails(r)

Next == \/ \E i \in Slots : Fetching(i) \/ Start(i) \/ Restart(i)
        \/ \E r \in Rounds : Connection(r)
        \/ Stop \/ SseDelayOver \/ ServerUpdate \/ Deliver
        \/ \E joined \in BOOLEAN : Emit(joined)

Spec == Init /\ [][Next]_vars

(***************************************************************************)
(* Fairness.  Timers fire, callbacks that are due run, and a socket that   *)
(* is closing gets its close event.  Again and again a fetch is answered   *)
(* before the next one replaces it and succeeds, and the server, which     *)
(* publishes every second, sends a frame of one message on a live stream.  *)
(* No connection need ever open, and nothing need fail.                    *)
(***************************************************************************)
FetchFair(i) == /\ SF_vars(i \in ctrl /\ Answer(i))
                /\ SF_vars(FetchOk(i))
                /\ WF_vars(Superseded(i))

Fairness == /\ \A i \in Slots : FetchFair(i)
            /\ SF_vars(\E i \in Slots : PollDue(i) \/ Restart(i))
            /\ WF_vars(\E r \in Rounds : sock[r] = "closing" /\ SocketCloses(r))
            /\ SF_vars(Emit(FALSE))
            /\ WF_vars(Deliver)

FairSpec == Spec /\ Fairness

-----------------------------------------------------------------------------
(* Properties *)

\* Every variable has its type; at most one fetch is the current one.
TypeOK == /\ started \in BOOLEAN
          /\ round \in 0 .. MaxRounds
          /\ winner \in {"none", "ws", "sse"}
          /\ polling \in BOOLEAN
          /\ sseDelay \in 0 .. MaxRounds
          /\ restart \in BOOLEAN
          /\ socket \in 0 .. MaxRounds
          /\ sock \in [Rounds -> {"none", "connecting", "open", "closing", "closed"}]
          /\ eventSource \in 0 .. MaxRounds
          /\ es \in [Rounds -> {"none", "connecting", "open", "closed"}]
          /\ ctrl \in {{}} \cup {{i} : i \in Slots}
          /\ flight \in [Slots -> {"free", "sent", "answered"}]
          /\ got \in [Slots -> 0 .. MaxVersion]
          /\ shown \in 0 .. MaxVersion
          /\ loading \in BOOLEAN
          /\ connected \in BOOLEAN
          /\ server \in 1 .. MaxVersion
          /\ wire \in Seq([version : 1 .. MaxVersion, joined : BOOLEAN])
          /\ Len(wire) <= MaxWire
          /\ fetched \in 0 .. MaxVersion

\* There is one source of updates: the transport that won, alone and shown as
\* connected, or the polling; and no connection is left alive that the fetcher
\* has lost track of.
OneSource ==
    /\ started => (connected <=> winner # "none")
    /\ started /\ winner # "none" => ~polling /\ ~restart
    /\ started /\ winner = "ws" => sseDelay = 0 /\ eventSource = 0
    /\ started /\ winner = "sse" => socket = 0
    /\ \A r \in Rounds : sock[r] \in {"connecting", "open", "closing"} => r = socket
    /\ \A r \in Rounds : es[r] \in {"connecting", "open"} => r = eventSource

\* The dashboard never goes silent: while it is started it polls, is about to
\* begin a round, or has a winner whose end it will hear of.
NeverSilent ==
    started => \/ polling
               \/ restart
               \/ winner = "ws" /\ socket # 0 /\ sock[socket] \in {"open", "closing"}
               \/ winner = "sse" /\ eventSource # 0 /\ es[eventSource] = "open"

\* Once stopped, no timer is left to fire, no connection to report and no fetch
\* to change the state, whatever was under way.
StopReleases ==
    ~started => /\ ~polling /\ sseDelay = 0 /\ ~restart
                /\ ctrl = {}
                /\ \A r \in Rounds : /\ sock[r] \in {"none", "closed"}
                                      /\ es[r] \in {"none", "closed"}

\* Fetches that overtake each other never take the dashboard back to an older
\* version than an earlier fetch showed.
FetchesInOrder == [][fetched' >= fetched]_fetched

\* The dashboard catches up with a server that has come to rest, over lost
\* connections, failed fetches and late answers that undo a newer frame.
CatchesUp == (started /\ server = MaxVersion) ~> (shown = MaxVersion \/ ~started)

\* README: "Server broadcasts raw AccountSnapshot JSON to all connected clients
\* on each update": what the winner delivers is shown.
FramesAreShown == [][Deliver => shown' = Head(wire).version]_vars

Alone == /\ started /\ winner = "none" /\ ~restart /\ sseDelay = 0
         /\ \A r \in Rounds : sock[r] \in {"none", "closed"} /\ es[r] \in {"none", "closed"}

\* README: "Auto-reconnect: client should reconnect on disconnect", and the label
\* "POLLING (retrying)": a fetcher left with no connection tries another one.
Reconnects == Alone ~> ~Alone
=============================================================================
