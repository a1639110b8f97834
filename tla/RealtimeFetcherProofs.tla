------------------------ MODULE RealtimeFetcherProofs ------------------------
(***************************************************************************)
(* Theorems of RealtimeFetcher, for any number of fetches in flight, of    *)
(* acquisition rounds, of versions and of frames in transit.               *)
(***************************************************************************)
EXTENDS RealtimeFetcher, SequenceTheorems, TLAPS

(***************************************************************************)
(* The inductive invariant.  A reference to a connection is to one of this *)
(* round; the delay of the EventSource runs only until a transport wins or *)
(* an EventSource exists; a restart that is due finds everything closed,   *)
(* and a round left to begin.                                              *)
(***************************************************************************)
References == /\ socket \in {0, round}
              /\ eventSource \in {0, round}
              /\ sseDelay # 0 => /\ sseDelay = round
                                 /\ winner = "none"
                                 /\ eventSource = 0
              /\ restart => /\ round < MaxRounds
                            /\ winner = "none"
                            /\ socket = 0 /\ eventSource = 0 /\ sseDelay = 0
              /\ started => round # 0
              /\ ~started => socket = 0 /\ eventSource = 0

Linked == OneSource /\ NeverSilent /\ StopReleases /\ References

\* No answer is from the future, and the answer of the current fetch is at least
\* as new as the last one applied.
Ordered == /\ fetched <= server
           /\ \A i \in Slots : got[i] <= server
           /\ \A i \in ctrl : flight[i] = "answered" => fetched <= got[i]

Inv == TypeOK /\ Linked /\ Ordered

\* The conjuncts of TypeOK, by who changes the variables
ControlTyped == /\ started \in BOOLEAN
                /\ round \in 0 .. MaxRounds
                /\ winner \in {"none", "ws", "sse"}
                /\ polling \in BOOLEAN
                /\ sseDelay \in 0 .. MaxRounds
                /\ restart \in BOOLEAN
                /\ socket \in 0 .. MaxRounds
                /\ sock \in [Rounds -> {"none", "connecting", "open", "closing", "closed"}]
                /\ eventSource \in 0 .. MaxRounds
                /\ es \in [Rounds -> {"none", "connecting", "open", "closed"}]
                /\ connected \in BOOLEAN

FetchTyped == /\ ctrl \in {{}} \cup {{i} : i \in Slots}
              /\ flight \in [Slots -> {"free", "sent", "answered"}]
              /\ got \in [Slots -> 0 .. MaxVersion]
              /\ fetched \in 0 .. MaxVersion

ViewTyped == shown \in 0 .. MaxVersion /\ loading \in BOOLEAN

Frames == [version : 1 .. MaxVersion, joined : BOOLEAN]

WireTyped == wire \in Seq(Frames) /\ Len(wire) <= MaxWire

LEMMA TypeParts ==
    TypeOK <=> /\ ControlTyped /\ FetchTyped /\ ViewTyped /\ WireTyped
               /\ server \in 1 .. MaxVersion
BY DEF TypeOK, ControlTyped, FetchTyped, ViewTyped, WireTyped, Frames

LEMMA ControlUnchanged ==
    ASSUME ControlTyped, UNCHANGED <<roundVars, timerVars, connVars, connected>>
    PROVE  ControlTyped'
BY DEF ControlTyped, Rounds, roundVars, timerVars, connVars

LEMMA WireUnchanged ==
    ASSUME WireTyped, UNCHANGED wire
    PROVE  WireTyped'
BY DEF WireTyped, Frames

-----------------------------------------------------------------------------
LEMMA InitInv == Init => Inv
<1> SUFFICES ASSUME Init PROVE Inv
  OBVIOUS
<1> USE DEF Init
<1>1. TypeOK
  <2>1. ControlTyped
    <3>1. /\ round \in 0 .. MaxRounds /\ sseDelay \in 0 .. MaxRounds
          /\ socket \in 0 .. MaxRounds /\ eventSource \in 0 .. MaxRounds
      BY BoundsAssumption
    <3>2. /\ sock \in [Rounds -> {"none", "connecting", "open", "closing", "closed"}]
          /\ es \in [Rounds -> {"none", "connecting", "open", "closed"}]
      OBVIOUS
    <3> QED
      BY <3>1, <3>2 DEF ControlTyped
  <2>2. FetchTyped /\ ViewTyped
    <3>1. /\ 0 \in 0 .. MaxVersion
          /\ flight \in [Slots -> {"free", "sent", "answered"}]
      BY BoundsAssumption
    <3>2. got \in [Slots -> 0 .. MaxVersion]
      BY <3>1
    <3> QED
      BY <3>1, <3>2 DEF FetchTyped, ViewTyped
  <2>3. WireTyped
    BY EmptySeq, BoundsAssumption DEF WireTyped
  <2>4. server \in 1 .. MaxVersion
    BY BoundsAssumption
  <2> QED
    BY <2>1, <2>2, <2>3, <2>4, TypeParts
<1>2. Linked
  BY DEF Linked, OneSource, NeverSilent, StopReleases, References
<1>3. Ordered
  BY DEF Ordered
<1> QED
  BY <1>1, <1>2, <1>3 DEF Inv

\* Fetches, the server and the frames leave the connections and the timers alone.
LEMMA LinkedUnchanged ==
    ASSUME Linked, UNCHANGED <<roundVars, timerVars, connVars, connected>>,
           started \/ ctrl' = ctrl
    PROVE  Linked'
BY DEF Linked, OneSource, NeverSilent, StopReleases, References, roundVars, timerVars, connVars

\* performFetch makes its fetch the current one, not yet answered.
LEMMA PerformFetchInv ==
    ASSUME Inv, NEW i \in Slots, PerformFetch(i), UNCHANGED <<server, fetched>>
    PROVE  /\ Ordered'
           /\ ctrl' = {i}
           /\ ctrl' \in {{}} \cup {{j} : j \in Slots}
           /\ flight' \in [Slots -> {"free", "sent", "answered"}]
           /\ got' \in [Slots -> 0 .. MaxVersion]
<1>1. flight'[i] = "sent"
  BY DEF Inv, TypeOK, PerformFetch
<1> QED
  BY <1>1 DEF Inv, TypeOK, Ordered, PerformFetch

LEMMA FetchingInv ==
    ASSUME Inv, NEW i \in Slots, Fetching(i)
    PROVE  Inv' /\ fetched <= fetched'
<1>1. /\ Linked /\ Ordered
      /\ ControlTyped /\ FetchTyped /\ ViewTyped /\ WireTyped
      /\ server \in 1 .. MaxVersion
  BY TypeParts DEF Inv
<1>2. UNCHANGED <<roundVars, timerVars, connVars, connected, envVars>>
  BY DEF Fetching, Answer, Superseded, FetchOk, FetchFails, Settle, PollDue, Refresh, viewVars
<1>3. ControlTyped' /\ WireTyped' /\ server' \in 1 .. MaxVersion
  BY <1>1, <1>2, ControlUnchanged, WireUnchanged DEF envVars
<1>4. SUFFICES ViewTyped' /\ FetchTyped' /\ Linked' /\ Ordered' /\ fetched <= fetched'
  BY <1>3, TypeParts DEF Inv, TypeOK, ControlTyped, FetchTyped, ViewTyped, WireTyped, Frames
<1>5. CASE Answer(i)
  <2>1. /\ got' = [got EXCEPT ![i] = server]
        /\ flight' = [flight EXCEPT ![i] = "answered"]
        /\ UNCHANGED <<ctrl, shown, loading, fetched>>
    BY <1>5 DEF Answer, viewVars
  <2>2. ViewTyped' /\ FetchTyped'
    BY <1>1, <2>1 DEF ViewTyped, FetchTyped
  <2>3. Ordered' /\ fetched' = fetched
    BY <1>1, <1>2, <2>1 DEF FetchTyped, Ordered, envVars
  <2>4. Linked'
    BY <1>1, <1>2, <2>1, LinkedUnchanged
  <2> QED
    BY <1>1, <2>2, <2>3, <2>4 DEF FetchTyped
<1>6. CASE Superseded(i) \/ FetchOk(i) \/ FetchFails(i)
  <2>1. /\ got' = [got EXCEPT ![i] = 0]
        /\ flight' = [flight EXCEPT ![i] = "free"]
        /\ ctrl' = ctrl
    BY <1>6 DEF Superseded, FetchOk, FetchFails, Settle
  <2>2. /\ shown' = shown \/ shown' = got[i] \/ shown' = 0
        /\ loading' = loading \/ loading' = FALSE
        /\ \/ fetched' = fetched
           \/ fetched' = got[i] /\ flight[i] = "answered" /\ i \in ctrl
    BY <1>6 DEF Superseded, FetchOk, FetchFails, Settle, ApplyUsage
  <2>3. ViewTyped' /\ FetchTyped'
    <3>1. shown' \in 0 .. MaxVersion /\ fetched' \in 0 .. MaxVersion
      BY <1>1, <2>2, BoundsAssumption DEF ViewTyped, FetchTyped
    <3>2. loading' \in BOOLEAN
      BY <1>1, <2>2 DEF ViewTyped
    <3> QED
      BY <1>1, <2>1, <3>1, <3>2, BoundsAssumption DEF ViewTyped, FetchTyped
  <2>4. fetched <= fetched' /\ fetched' <= server
    BY <1>1, <2>2 DEF FetchTyped, Ordered
  <2>5. Ordered'
    <3>1. \A j \in ctrl' : flight'[j] = "answered" => j # i
      BY <1>1, <2>1 DEF FetchTyped
    <3>2. \A j \in Slots : got'[j] <= server
      BY <1>1, <2>1 DEF FetchTyped, Ordered
    <3>3. \A j \in ctrl' : j = i \/ ~(i \in ctrl)
      BY <1>1, <2>1 DEF FetchTyped
    <3>4. i \notin ctrl => fetched' = fetched
      BY <2>2
    <3>5. ASSUME NEW j \in ctrl', flight'[j] = "answered"
          PROVE  fetched' <= got'[j]
      <4>1. j # i /\ i \notin ctrl /\ fetched' = fetched /\ j \in Slots
        BY <1>1, <2>1, <3>1, <3>3, <3>4, <3>5 DEF FetchTyped
      <4> QED
        BY <1>1, <2>1, <3>5, <4>1 DEF FetchTyped, Ordered
    <3> QED
      BY <1>2, <2>4, <3>2, <3>5 DEF Ordered, envVars
  <2>6. Linked'
    BY <1>1, <1>2, <2>1, LinkedUnchanged
  <2> QED
    BY <2>3, <2>4, <2>5, <2>6
<1>7. CASE PollDue(i) \/ Refresh(i)
  <2>1. /\ PerformFetch(i) /\ UNCHANGED <<shown, fetched>>
        /\ loading' \in {loading, TRUE}
    BY <1>7 DEF PollDue, Refresh, viewVars
  <2>2. started
    BY <1>1, <1>7 DEF Linked, StopReleases, PollDue, Refresh
  <2>3. ViewTyped' /\ FetchTyped'
    BY <1>1, <2>1, PerformFetchInv DEF ViewTyped, FetchTyped, Inv, TypeOK, envVars, PerformFetch
  <2>4. Linked'
    BY <1>1, <1>2, <2>2, LinkedUnchanged
  <2>5. Ordered' /\ fetched' = fetched
    BY <1>2, <2>1, PerformFetchInv DEF envVars
  <2> QED
    BY <1>1, <2>3, <2>4, <2>5 DEF FetchTyped
<1> QED
  BY <1>5, <1>6, <1>7 DEF Fetching

LEMMA ServerInv ==
    ASSUME Inv, \/ ServerUpdate
                \/ Deliver
                \/ \E joined \in BOOLEAN : Emit(joined)
    PROVE  Inv' /\ fetched' = fetched
<1>1. /\ Linked /\ Ordered
      /\ ControlTyped /\ FetchTyped /\ ViewTyped /\ WireTyped
      /\ server \in 1 .. MaxVersion
  BY TypeParts DEF Inv
<1>2. /\ UNCHANGED <<roundVars, timerVars, connVars, connected, fetchVars, fetched>>
      /\ server' \in 1 .. MaxVersion /\ server <= server'
  <2>1. CASE ServerUpdate
    BY <1>1, <2>1, BoundsAssumption DEF ServerUpdate, viewVars
  <2>2. CASE Deliver \/ \E joined \in BOOLEAN : Emit(joined)
    <3>1. UNCHANGED <<roundVars, timerVars, connVars, connected, fetchVars, fetched, server>>
      BY ZenonT(20), <2>2 DEF Deliver, Emit, viewVars
    <3> QED
      BY <1>1, <3>1
  <2> QED
    BY <2>1, <2>2
<1>3. ControlTyped' /\ FetchTyped' /\ Linked'
  BY <1>1, <1>2, ControlUnchanged, LinkedUnchanged DEF fetchVars, FetchTyped
<1>4. Ordered'
  BY <1>1, <1>2 DEF FetchTyped, Ordered, fetchVars
<1>5. WireTyped' /\ ViewTyped'
  <2>1. CASE ServerUpdate
    <3>1. UNCHANGED <<wire, shown, loading>>
      BY <2>1 DEF ServerUpdate, viewVars
    <3>2. ViewTyped'
      BY <1>1, <3>1 DEF ViewTyped
    <3> QED
      BY <1>1, <3>1, <3>2, WireUnchanged
  <2>2. CASE Deliver
    <3>1. /\ Head(wire) \in Frames /\ Tail(wire) \in Seq(Frames)
          /\ Len(Tail(wire)) = Len(wire) - 1 /\ Len(wire) \in Nat
      BY <1>1, <2>2, HeadTailProperties, LenProperties DEF WireTyped, Deliver
    <3>2. wire' = Tail(wire)
      BY <2>2 DEF Deliver
    <3>3. WireTyped'
      BY <1>1, <3>1, <3>2, BoundsAssumption DEF WireTyped, Frames
    <3>4. Head(wire).version \in 0 .. MaxVersion
      BY <3>1 DEF Frames
    <3> QED
      BY <1>1, <2>2, <3>3, <3>4 DEF Deliver, ApplyUsage, ViewTyped
  <2>3. ASSUME NEW joined \in BOOLEAN, Emit(joined)
        PROVE  WireTyped' /\ ViewTyped'
    <3>1. /\ wire' = Append(wire, [version |-> server, joined |-> joined])
          /\ Len(wire) < MaxWire
          /\ UNCHANGED <<shown, loading>>
      BY <2>3 DEF Emit, viewVars
    <3>2. [version |-> server, joined |-> joined] \in Frames
      BY <1>1 DEF Frames
    <3>3. wire' \in Seq(Frames) /\ Len(wire') = Len(wire) + 1 /\ Len(wire) \in Nat
      BY <1>1, <3>1, <3>2, AppendProperties, LenProperties DEF WireTyped
    <3> QED
      BY <1>1, <3>1, <3>3, BoundsAssumption DEF WireTyped, ViewTyped, Frames
  <2> QED
    BY <2>1, <2>2, <2>3
<1> QED
  BY <1>2, <1>3, <1>4, <1>5
     DEF Inv, TypeOK, ControlTyped, FetchTyped, ViewTyped, WireTyped, Frames

\* What a step does when it only moves connections and timers
LEMMA ControlInv ==
    ASSUME Inv, ControlTyped', Linked',
           UNCHANGED <<fetchVars, shown, loading, server, fetched>>,
           wire' = wire \/ wire' = << >>
    PROVE  Inv' /\ fetched' = fetched
<1>1. /\ Ordered /\ FetchTyped /\ ViewTyped /\ WireTyped
      /\ server \in 1 .. MaxVersion
  BY TypeParts DEF Inv
<1>2. WireTyped'
  <2>1. CASE wire' = wire
    BY <1>1, <2>1, WireUnchanged
  <2>2. CASE wire' = << >>
    BY <2>2, EmptySeq, BoundsAssumption DEF WireTyped, Frames
  <2> QED
    BY <2>1, <2>2
<1>3. FetchTyped' /\ ViewTyped' /\ Ordered' /\ server' \in 1 .. MaxVersion
  BY <1>1 DEF FetchTyped, ViewTyped, Ordered, fetchVars
<1> QED
  BY <1>2, <1>3
     DEF Inv, TypeOK, ControlTyped, FetchTyped, ViewTyped, WireTyped, Frames

\* What Inv says of the connections of a started fetcher
LEMMA LinkedParts ==
    Inv => ControlTyped /\ OneSource /\ NeverSilent /\ StopReleases /\ References
BY TypeParts DEF Inv, Linked

LEMMA BeginRoundInv ==
    ASSUME Inv, NEW i \in Slots, round < MaxRounds, started', BeginRound(i)
    PROVE  Inv' /\ fetched' = fetched
<1>1. /\ ControlTyped /\ OneSource /\ References
  BY LinkedParts
<1>2. round' = round + 1 /\ round' \in 1 .. MaxRounds
  <2>1. round' = round + 1
    BY DEF BeginRound
  <2> QED
    BY <1>1, <2>1, BoundsAssumption DEF ControlTyped
<1>3. /\ winner' = "none" /\ polling' = TRUE /\ restart' = FALSE /\ sseDelay' = round'
      /\ connected' = FALSE /\ eventSource' = 0
      /\ \A r \in Rounds : es'[r] = IF r = eventSource THEN "closed" ELSE es[r]
      /\ es' = [r \in Rounds |-> IF r = eventSource THEN "closed" ELSE es[r]]
  BY DEF BeginRound, CloseEventSource, CloseRef
<1>4. /\ \/ /\ sock' = [CloseRef(sock, socket) EXCEPT ![round'] = "connecting"]
            /\ socket' = round'
         \/ /\ sock' = CloseRef(sock, socket)
            /\ socket' = 0
  BY DEF BeginRound, CloseSocket
<1>5. ControlTyped'
  <2>1. sock' \in [Rounds -> {"none", "connecting", "open", "closing", "closed"}]
    BY <1>1, <1>4 DEF ControlTyped, CloseRef
  <2>2. es' \in [Rounds -> {"none", "connecting", "open", "closed"}]
    BY <1>1, <1>3 DEF ControlTyped
  <2>3. socket' \in 0 .. MaxRounds
    BY <1>2, <1>4, BoundsAssumption
  <2>4. round' \in 0 .. MaxRounds /\ sseDelay' \in 0 .. MaxRounds /\ eventSource' \in 0 .. MaxRounds
    BY <1>2, <1>3, BoundsAssumption
  <2> QED
    BY <1>1, <1>3, <2>1, <2>2, <2>3, <2>4 DEF ControlTyped
<1>6. OneSource'
  <2>1. \A r \in Rounds : sock'[r] \in {"connecting", "open", "closing"} => r = socket'
    BY <1>1, <1>2, <1>4 DEF OneSource, CloseRef
  <2>2. \A r \in Rounds : es'[r] \notin {"connecting", "open"}
    BY <1>1, <1>3 DEF OneSource
  <2> QED
    BY <1>3, <2>1, <2>2 DEF OneSource, Rounds
<1>7. NeverSilent' /\ StopReleases'
  BY <1>3 DEF NeverSilent, StopReleases
<1>8. References'
  BY <1>2, <1>3, <1>4 DEF References
<1>9. PerformFetch(i) /\ UNCHANGED <<shown, server, fetched>> /\ wire' = << >> /\ loading' = TRUE
  BY DEF BeginRound
<1>10. WireTyped' /\ ViewTyped' /\ FetchTyped' /\ Ordered' /\ server' \in 1 .. MaxVersion
  <2>1. /\ Ordered /\ FetchTyped /\ ViewTyped
        /\ server \in 1 .. MaxVersion
    BY TypeParts DEF Inv
  <2>2. WireTyped'
    BY <1>9, EmptySeq, BoundsAssumption DEF WireTyped, Frames
  <2>3. Ordered' /\ FetchTyped'
    BY <1>9, <2>1, PerformFetchInv DEF FetchTyped
  <2> QED
    BY <1>9, <2>1, <2>2, <2>3 DEF ViewTyped
<1> QED
  BY <1>5, <1>6, <1>7, <1>8, <1>9, <1>10
     DEF Inv, Linked, TypeOK, ControlTyped, FetchTyped, ViewTyped, WireTyped, Frames

LEMMA StartInv ==
    ASSUME Inv, NEW i \in Slots, Start(i) \/ Restart(i)
    PROVE  Inv' /\ fetched' = fetched
<1>1. StopReleases /\ References
  BY LinkedParts
<1>2. BeginRound(i) /\ round < MaxRounds /\ started'
  BY <1>1 DEF Start, Restart, RoomForRound, StopReleases, References
<1> QED
  BY <1>2, BeginRoundInv

LEMMA StopInv ==
    ASSUME Inv, Stop
    PROVE  Inv' /\ fetched' = fetched
<1>1. /\ ControlTyped /\ OneSource /\ References
  BY LinkedParts
<1>2. /\ started' = FALSE /\ round' = round + 1 /\ round < MaxRounds /\ ctrl' = {}
      /\ polling' = FALSE /\ sseDelay' = 0 /\ restart' = FALSE
      /\ socket' = 0 /\ eventSource' = 0 /\ wire' = << >>
      /\ sock' = [r \in Rounds |-> IF r = socket THEN "closed" ELSE sock[r]]
      /\ es' = [r \in Rounds |-> IF r = eventSource THEN "closed" ELSE es[r]]
      /\ UNCHANGED <<winner, flight, got, shown, loading, connected, server, fetched>>
  BY DEF Stop, RoomForRound, ClearTimers, CloseSocket, CloseEventSource, CloseRef, viewVars
<1>3. ControlTyped'
  <2>1. /\ sock' \in [Rounds -> {"none", "connecting", "open", "closing", "closed"}]
        /\ es' \in [Rounds -> {"none", "connecting", "open", "closed"}]
    BY <1>1, <1>2 DEF ControlTyped
  <2>2. /\ round' \in 0 .. MaxRounds /\ sseDelay' \in 0 .. MaxRounds
        /\ socket' \in 0 .. MaxRounds /\ eventSource' \in 0 .. MaxRounds
    BY <1>1, <1>2, BoundsAssumption DEF ControlTyped
  <2> QED
    BY <1>1, <1>2, <2>1, <2>2 DEF ControlTyped
<1>4. \A r \in Rounds : sock'[r] \in {"none", "closed"} /\ es'[r] \in {"none", "closed"}
  BY <1>1, <1>2 DEF ControlTyped, OneSource
<1>5. OneSource' /\ NeverSilent' /\ StopReleases'
  BY <1>2, <1>4 DEF OneSource, NeverSilent, StopReleases, Rounds
<1>6. References'
  BY <1>2 DEF References
<1>7. WireTyped' /\ ViewTyped' /\ FetchTyped' /\ Ordered' /\ server' \in 1 .. MaxVersion
  <2>1. /\ Ordered /\ FetchTyped /\ ViewTyped
        /\ server \in 1 .. MaxVersion
    BY TypeParts DEF Inv
  <2>2. WireTyped'
    BY <1>2, EmptySeq, BoundsAssumption DEF WireTyped, Frames
  <2> QED
    BY <1>2, <2>1, <2>2 DEF ViewTyped, FetchTyped, Ordered
<1> QED
  BY <1>2, <1>3, <1>5, <1>6, <1>7
     DEF Inv, Linked, TypeOK, ControlTyped, FetchTyped, ViewTyped, WireTyped, Frames

\* The winner breaks: everything is closed and a restart is due.
LEMMA ScheduleRestartInv ==
    ASSUME Inv, started, round < MaxRounds, ScheduleRestart,
           UNCHANGED <<started, round>>
    PROVE  ControlTyped' /\ Linked'
<1>1. /\ ControlTyped /\ OneSource /\ References
  BY LinkedParts
<1>2. /\ winner' = "none" /\ connected' = FALSE /\ polling' = FALSE /\ sseDelay' = 0
      /\ restart' = TRUE /\ socket' = 0 /\ eventSource' = 0
      /\ sock' = [r \in Rounds |-> IF r = socket THEN "closed" ELSE sock[r]]
      /\ es' = [r \in Rounds |-> IF r = eventSource THEN "closed" ELSE es[r]]
  BY DEF ScheduleRestart, CloseSocket, CloseEventSource, CloseRef
<1>3. ControlTyped'
  <2>1. /\ sock' \in [Rounds -> {"none", "connecting", "open", "closing", "closed"}]
        /\ es' \in [Rounds -> {"none", "connecting", "open", "closed"}]
    BY <1>1, <1>2 DEF ControlTyped
  <2>2. /\ round' \in 0 .. MaxRounds /\ sseDelay' \in 0 .. MaxRounds
        /\ socket' \in 0 .. MaxRounds /\ eventSource' \in 0 .. MaxRounds
    BY <1>1, <1>2, BoundsAssumption DEF ControlTyped
  <2> QED
    BY <1>1, <1>2, <2>1, <2>2 DEF ControlTyped
<1>4. \A r \in Rounds : sock'[r] \in {"none", "closed"} /\ es'[r] \in {"none", "closed"}
  BY <1>1, <1>2 DEF ControlTyped, OneSource
<1>5. OneSource' /\ NeverSilent' /\ StopReleases' /\ References'
  BY <1>1, <1>2, <1>4 DEF OneSource, NeverSilent, StopReleases, References, Rounds
<1> QED
  BY <1>3, <1>5 DEF Linked

LEMMA SseDelayOverInv ==
    ASSUME Inv, SseDelayOver
    PROVE  Inv' /\ fetched' = fetched
<1>1. /\ ControlTyped /\ OneSource /\ NeverSilent /\ StopReleases /\ References
  BY LinkedParts
<1>2. /\ sseDelay # 0 /\ sseDelay' = 0 /\ started
      /\ sseDelay = round /\ winner = "none" /\ eventSource = 0 /\ round \in Rounds
  BY <1>1 DEF SseDelayOver, References, StopReleases, ControlTyped, Rounds
<1>3. /\ \/ es' = [es EXCEPT ![round] = "connecting"] /\ eventSource' = round
         \/ UNCHANGED <<es, eventSource>>
      /\ UNCHANGED <<started, round, winner, polling, restart, socket, sock, connected>>
      /\ UNCHANGED <<fetchVars, shown, loading, server, wire, fetched>>
  BY <1>2 DEF SseDelayOver, roundVars, viewVars, envVars
<1>4. ControlTyped'
  <2>1. /\ es' \in [Rounds -> {"none", "connecting", "open", "closed"}]
        /\ eventSource' \in 0 .. MaxRounds /\ sseDelay' \in 0 .. MaxRounds
    BY <1>1, <1>2, <1>3, BoundsAssumption DEF ControlTyped
  <2> QED
    BY <1>1, <1>3, <2>1 DEF ControlTyped
<1>5. OneSource'
  <2>1. \A r \in Rounds : es'[r] \in {"connecting", "open"} => r = eventSource'
    <3>1. \A r \in Rounds : es[r] \notin {"connecting", "open"}
      BY <1>1, <1>2 DEF OneSource, Rounds
    <3>2. \A r \in Rounds : es'[r] = es[r] \/ r = eventSource'
      BY <1>1, <1>2, <1>3 DEF ControlTyped
    <3> QED
      BY <3>1, <3>2
  <2> QED
    BY <1>1, <1>2, <1>3, <2>1 DEF OneSource
<1>6. NeverSilent' /\ StopReleases' /\ References'
  BY <1>1, <1>2, <1>3 DEF NeverSilent, StopReleases, References
<1> QED
  BY <1>3, <1>4, <1>5, <1>6, ControlInv DEF Linked

LEMMA SocketInv ==
    ASSUME Inv, NEW r \in Rounds, SocketOpens(r) \/ SocketFails(r) \/ SocketCloses(r)
    PROVE  Inv' /\ fetched' = fetched
<1>1. /\ ControlTyped /\ OneSource /\ NeverSilent /\ StopReleases /\ References
  BY LinkedParts
<1>2. /\ r = socket /\ r = round /\ started /\ winner # "sse"
      /\ sock[r] \in {"connecting", "open", "closing"}
  <2>1. r # 0
    BY DEF Rounds
  <2>2. sock[r] \in {"connecting", "open", "closing"}
    BY DEF SocketOpens, SocketFails, SocketCloses
  <2> QED
    BY <1>1, <2>1, <2>2 DEF OneSource, StopReleases, References
<1>3. ~restart /\ (winner = "ws" => sock[r] # "connecting")
  BY <1>1, <1>2 DEF NeverSilent, OneSource, References, Rounds
<1>4. UNCHANGED <<fetchVars, shown, loading, server, fetched, started, round>>
  BY DEF SocketOpens, SocketFails, SocketCloses, viewVars, envVars, roundVars
<1>5. CASE SocketOpens(r)
  <2>1. winner = "none" /\ sock[r] = "connecting"
    BY <1>1, <1>2, <1>3, <1>5 DEF SocketOpens, ControlTyped
  <2>2. /\ sock' = [sock EXCEPT ![r] = "open"] /\ winner' = "ws"
        /\ polling' = FALSE /\ sseDelay' = 0 /\ connected' = TRUE
        /\ eventSource' = 0
        /\ es' = [b \in Rounds |-> IF b = eventSource THEN "closed" ELSE es[b]]
        /\ UNCHANGED <<restart, socket, wire>>
    BY <1>2, <1>5, <2>1 DEF SocketOpens, CloseEventSource, CloseRef, envVars
  <2>3. ControlTyped'
    <3>1. /\ sock' \in [Rounds -> {"none", "connecting", "open", "closing", "closed"}]
          /\ es' \in [Rounds -> {"none", "connecting", "open", "closed"}]
      BY <1>1, <2>2 DEF ControlTyped
    <3>2. sseDelay' \in 0 .. MaxRounds /\ eventSource' \in 0 .. MaxRounds
      BY <2>2, BoundsAssumption
    <3> QED
      BY <1>1, <1>4, <2>2, <3>1, <3>2 DEF ControlTyped
  <2>4. OneSource'
    <3>1. \A b \in Rounds : sock'[b] \in {"connecting", "open", "closing"} => b = socket'
      BY <1>1, <1>2, <2>2 DEF ControlTyped, OneSource
    <3>2. \A b \in Rounds : es'[b] \notin {"connecting", "open"}
      BY <1>1, <2>2 DEF OneSource
    <3> QED
      BY <1>3, <2>2, <3>1, <3>2 DEF OneSource
  <2>5. NeverSilent' /\ StopReleases' /\ References'
    BY <1>1, <1>2, <1>3, <1>4, <2>2 DEF ControlTyped, NeverSilent, StopReleases, References, Rounds
  <2> QED
    BY <1>4, <2>2, <2>3, <2>4, <2>5, ControlInv DEF Linked
<1>6. CASE SocketFails(r) \/ (SocketCloses(r) /\ winner = "none")
  <2>1. PICK end \in {"closing", "closed"} :
           /\ sock' = [sock EXCEPT ![r] = end]
           /\ end = "closed" => winner = "none"
           /\ UNCHANGED <<winner, polling, sseDelay, restart, socket, eventSource, es>>
           /\ UNCHANGED <<connected, wire>>
    BY <1>2, <1>6 DEF SocketFails, SocketCloses, roundVars, timerVars, viewVars, envVars
  <2>2. sock' \in [Rounds -> {"none", "connecting", "open", "closing", "closed"}]
    BY <1>1, <2>1 DEF ControlTyped
  <2>3. ControlTyped'
    BY <1>1, <1>4, <2>1, <2>2 DEF ControlTyped
  <2>4. OneSource'
    <3>1. \A b \in Rounds : sock'[b] \in {"connecting", "open", "closing"} => b = socket'
      BY <1>1, <1>2, <2>1 DEF ControlTyped, OneSource
    <3> QED
      BY <1>1, <1>4, <2>1, <3>1 DEF OneSource
  <2>5. NeverSilent' /\ StopReleases' /\ References'
    BY <1>1, <1>2, <1>3, <1>4, <2>1 DEF ControlTyped, NeverSilent, StopReleases, References, Rounds
  <2> QED
    BY <1>4, <2>1, <2>3, <2>4, <2>5, ControlInv DEF Linked
<1>7. CASE SocketCloses(r) /\ winner = "ws"
  <2>1. ScheduleRestart /\ round < MaxRounds
    BY <1>2, <1>7 DEF SocketCloses, RoomForRound
  <2>2. wire' = << >>
    BY <2>1 DEF ScheduleRestart
  <2> QED
    BY <1>2, <1>4, <2>1, <2>2, ScheduleRestartInv, ControlInv
<1> QED
  BY <1>1, <1>2, <1>5, <1>6, <1>7 DEF ControlTyped

LEMMA SseInv ==
    ASSUME Inv, NEW r \in Rounds, SseOpens(r) \/ SseFails(r)
    PROVE  Inv' /\ fetched' = fetched
<1>1. /\ ControlTyped /\ OneSource /\ NeverSilent /\ StopReleases /\ References
  BY LinkedParts
<1>2. /\ r = eventSource /\ r = round /\ r # 0 /\ started /\ sseDelay = 0
      /\ es[r] \in {"connecting", "open"}
  <2>1. r # 0
    BY DEF Rounds
  <2>2. es[r] \in {"connecting", "open"}
    BY DEF SseOpens, SseFails
  <2> QED
    BY <1>1, <2>1, <2>2 DEF OneSource, StopReleases, References
<1>3. winner \in {"none", "sse"} /\ ~restart /\ (winner = "sse" => es[r] # "connecting")
  BY <1>1, <1>2 DEF ControlTyped, NeverSilent, OneSource, References
<1>4. UNCHANGED <<fetchVars, shown, loading, server, fetched, started, round>>
  BY DEF SseOpens, SseFails, envVars
<1>5. CASE SseOpens(r)
  <2>1. winner = "none"
    BY <1>3, <1>5 DEF SseOpens
  <2>2. /\ es' = [es EXCEPT ![r] = "open"] /\ winner' = "sse"
        /\ polling' = FALSE /\ connected' = TRUE /\ socket' = 0
        /\ sock' = [b \in Rounds |-> IF b = socket THEN "closed" ELSE sock[b]]
        /\ UNCHANGED <<sseDelay, restart, eventSource, wire>>
    BY <1>2, <1>5, <2>1 DEF SseOpens, CloseSocket, CloseRef, envVars
  <2>3. ControlTyped'
    <3>1. /\ sock' \in [Rounds -> {"none", "connecting", "open", "closing", "closed"}]
          /\ es' \in [Rounds -> {"none", "connecting", "open", "closed"}]
      BY <1>1, <2>2 DEF ControlTyped
    <3>2. socket' \in 0 .. MaxRounds
      BY <2>2, BoundsAssumption
    <3> QED
      BY <1>1, <1>4, <2>2, <3>1, <3>2 DEF ControlTyped
  <2>4. OneSource'
    <3>1. \A b \in Rounds : sock'[b] \notin {"connecting", "open", "closing"}
      BY <1>1, <2>2 DEF OneSource
    <3>2. \A b \in Rounds : es'[b] \in {"connecting", "open"} => b = eventSource'
      BY <1>1, <1>2, <2>2 DEF ControlTyped, OneSource
    <3> QED
      BY <1>3, <2>2, <3>1, <3>2 DEF OneSource
  <2>5. NeverSilent' /\ StopReleases' /\ References'
    BY <1>1, <1>2, <1>3, <1>4, <2>2 DEF ControlTyped, NeverSilent, StopReleases, References
  <2> QED
    BY <1>4, <2>2, <2>3, <2>4, <2>5, ControlInv DEF Linked
<1>6. CASE SseFails(r) /\ winner = "none"
  <2>1. /\ es' = [es EXCEPT ![r] = "closed"] /\ eventSource' = 0
        /\ UNCHANGED <<winner, polling, sseDelay, restart, socket, sock, connected, wire>>
    BY <1>2, <1>6 DEF SseFails, timerVars
  <2>2. ControlTyped'
    <3>1. /\ es' \in [Rounds -> {"none", "connecting", "open", "closed"}]
          /\ eventSource' \in 0 .. MaxRounds
      BY <1>1, <2>1, BoundsAssumption DEF ControlTyped
    <3> QED
      BY <1>1, <1>4, <2>1, <3>1 DEF ControlTyped
  <2>3. OneSource'
    <3>1. \A b \in Rounds : es'[b] \in {"connecting", "open"} => b = eventSource'
      BY <1>1, <1>2, <2>1 DEF ControlTyped, OneSource
    <3> QED
      BY <1>1, <1>4, <1>6, <2>1, <3>1 DEF OneSource
  <2>4. NeverSilent' /\ StopReleases' /\ References'
    BY <1>1, <1>2, <1>3, <1>4, <1>6, <2>1 DEF ControlTyped, NeverSilent, StopReleases, References
  <2> QED
    BY <1>4, <2>1, <2>2, <2>3, <2>4, ControlInv DEF Linked
<1>7. CASE SseFails(r) /\ winner = "sse"
  <2>1. ScheduleRestart /\ round < MaxRounds
    BY <1>7 DEF SseFails, RoomForRound
  <2>2. wire' = << >>
    BY <2>1 DEF ScheduleRestart
  <2> QED
    BY <1>2, <1>4, <2>1, <2>2, ScheduleRestartInv, ControlInv
<1> QED
  BY <1>3, <1>5, <1>6, <1>7

\* Inv is inductive, and no step shows a fetch older than the last one shown.
LEMMA NextInv == Inv /\ [Next]_vars => Inv' /\ (fetched' >= fetched)
<1> SUFFICES ASSUME Inv, [Next]_vars PROVE Inv' /\ fetched <= fetched'
  BY DEF Inv, TypeOK
<1>1. fetched \in Int
  BY DEF Inv, TypeOK
<1>2. CASE UNCHANGED vars
  <2>1. ControlTyped' /\ Linked'
    BY <1>2, LinkedParts, LinkedUnchanged, ControlUnchanged
       DEF vars, Inv, fetchVars, viewVars
  <2> QED
    BY <1>1, <1>2, <2>1, ControlInv DEF vars, viewVars, envVars
<1>3. ASSUME NEW i \in Slots, Fetching(i) \/ Start(i) \/ Restart(i)
      PROVE  Inv' /\ fetched <= fetched'
  BY <1>1, <1>3, FetchingInv, StartInv
<1>4. ASSUME NEW r \in Rounds, Connection(r)
      PROVE  Inv' /\ fetched <= fetched'
  BY <1>1, <1>4, SocketInv, SseInv DEF Connection
<1>5. CASE Stop \/ SseDelayOver
  BY <1>1, <1>5, StopInv, SseDelayOverInv
<1>6. CASE ServerUpdate \/ Deliver \/ \E joined \in BOOLEAN : Emit(joined)
  BY <1>1, <1>6, ServerInv
<1> QED
  BY <1>2, <1>3, <1>4, <1>5, <1>6 DEF Next

\* Inv holds of every behaviour.
THEOREM Invariance == Spec => []Inv
BY InitInv, NextInv, PTL DEF Spec

\* Every variable keeps its type, and at most one fetch is the current one.
THEOREM TypeCorrect == Spec => []TypeOK
<1>1. Inv => TypeOK
  BY DEF Inv
<1> QED
  BY <1>1, Invariance, PTL

\* The transport that won is alone and shown as connected, and no connection
\* lives that the fetcher has lost track of.
THEOREM HasOneSource == Spec => []OneSource
<1>1. Inv => OneSource
  BY DEF Inv, Linked
<1> QED
  BY <1>1, Invariance, PTL

\* Whatever opens, fails or closes, in any order, a started dashboard has a
\* source or is about to look for one.
THEOREM IsNeverSilent == Spec => []NeverSilent
<1>1. Inv => NeverSilent
  BY DEF Inv, Linked
<1> QED
  BY <1>1, Invariance, PTL

\* Stop leaves nothing behind that could still change the state.
THEOREM StopReleasesAll == Spec => []StopReleases
<1>1. Inv => StopReleases
  BY DEF Inv, Linked
<1> QED
  BY <1>1, Invariance, PTL

\* Fetches that overtake each other never take the dashboard back.
THEOREM AppliesInOrder == Spec => FetchesInOrder
<1>1. Inv /\ [Next]_vars => [fetched' >= fetched]_fetched
  BY NextInv
<1> QED
  BY <1>1, Invariance, PTL DEF Spec, FetchesInOrder
=============================================================================
