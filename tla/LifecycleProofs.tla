--------------------------- MODULE LifecycleProofs ---------------------------
(***************************************************************************)
(* Theorems of Lifecycle, for any configuration files and environments,    *)
(* any number of providers and of clients and any shutdown timeout.        *)
(***************************************************************************)
EXTENDS Lifecycle, TLAPS

(***************************************************************************)
(* The inductive invariant.  Shutdown has asked the first k components of  *)
(* the reversed registration order, the last of which may be at work, and  *)
(* has used at most k shares of the timeout.                               *)
(***************************************************************************)
Rest(k) == CASE k = 0 -> <<"sync", "ws", "sse", "metrics", "api">>
             [] k = 1 -> <<"ws", "sse", "metrics", "api">>
             [] k = 2 -> <<"sse", "metrics", "api">>
             [] k = 3 -> <<"metrics", "api">>
             [] k = 4 -> <<"api">>
             [] OTHER -> << >>

AskedBefore(k) == CASE k = 0 -> {}
                    [] k = 1 -> {"sync"}
                    [] k = 2 -> {"sync", "ws"}
                    [] k = 3 -> {"sync", "ws", "sse"}
                    [] k = 4 -> {"sync", "ws", "sse", "metrics"}
                    [] OTHER -> {"sync", "ws", "sse", "metrics", "api"}

Latest(k) == CASE k = 1 -> "sync" [] k = 2 -> "ws" [] k = 3 -> "sse"
               [] k = 4 -> "metrics" [] k = 5 -> "api" [] OTHER -> ""

Timeout == ShutdownTimeout(config)

Reached(k) == queue = Rest(k) /\ asked = AskedBefore(k) /\ current \in {"", Latest(k)}

OnTime(k) == /\ elapsed <= due
             /\ current = "" => elapsed <= k * Share
             /\ current # "" => due <= k * Share

At(k) == Reached(k) /\ OnTime(k)

Phases == /\ file \in Files /\ env \in Envs
          /\ stage \in {"loading", "refused"} => config = NoFile
          /\ stage \notin {"loading", "refused"} => Timeout \in Nat /\ MinTimeout <= Timeout
          /\ stage \in {"loading", "refused", "serving"} =>
                /\ queue = << >> /\ current = "" /\ asked = {} /\ failed = {}
                /\ elapsed = 0 /\ due = 0
          /\ stage \in {"stopping", "exited"} => \E k \in 0 .. 5 : At(k)
          /\ stage = "exited" => queue = << >> /\ current = ""

\* Once its Stop has succeeded, the sync manager runs no poller but strays.
PollersAttended ==
    /\ ("sync" \in asked /\ current # "sync" /\ "sync" \notin failed) =>
          \A p \in DOMAIN poller : poller[p] \in {"off", "ended", "stray"}
    /\ (\E p \in DOMAIN poller : poller[p] = "stray") => "sync" \in asked /\ current # "sync"

ClientsAttended ==
    \A s \in Servers : (s \in asked /\ current # s /\ s \notin failed) =>
        \A r \in ClientsOf(s) : conn[r] \in {"none", "closed"}

\* Time passes only for the slow: not for the other components, not for
\* streams that are read, and not for pollers under a cancelled context.
TimeIsForTheSlow ==
    /\ current \notin {"", "sync", "api", "metrics"} => elapsed < due
    /\ current \in Servers => elapsed < due \/ slow \cap ClientsOf(current) # {}
    /\ Cancelled /\ (asked = {} \/ current = "sync") => cancelledAt = elapsed

Inv == TypeOK /\ Phases /\ PollersAttended /\ ClientsAttended /\ TimeIsForTheSlow

\* The conjuncts of TypeOK, by their kind
Numbers == /\ cancelledAt \in Int /\ elapsed \in Nat /\ due \in Nat
           /\ serverErr \in 0 .. 1

Places == /\ stage \in {"loading", "refused", "serving", "stopping", "exited"}
          /\ server \in [Servers -> {"starting", "serving", "reporting", "closed"}]
          /\ \A p \in DOMAIN poller :
                poller[p] \in {"off", "fetching", "waiting", "ended", "stray"}
          /\ conn \in [Clients -> {"none", "open", "live", "stalled", "late", "closed"}]

Books == /\ asked \subseteq Components /\ failed \subseteq asked
         /\ current \in asked \cup {""} /\ slow \subseteq Clients

Deadlines == config # NoFile => elapsed <= due /\ due <= Timeout

LEMMA TypeParts == TypeOK <=> Numbers /\ Places /\ Books /\ Deadlines
BY DEF TypeOK, Numbers, Places, Books, Deadlines, Timeout

LEMMA TypePartsNext == TypeOK' <=> Numbers' /\ Places' /\ Books' /\ Deadlines'
BY DEF TypeOK, Numbers, Places, Books, Deadlines, Timeout

LEMMA Parts ==
    Inv => /\ Numbers /\ Places /\ Books /\ Deadlines
           /\ Phases /\ PollersAttended /\ ClientsAttended /\ TimeIsForTheSlow
BY TypeParts DEF Inv

\* A step outside the shutdown leaves its books, its time and its progress alone.
LEMMA PhasesUnchanged ==
    ASSUME Inv, UNCHANGED <<inputs, config, stage, progress>>
    PROVE  Phases' /\ Books' /\ Deadlines'
<1>1. \A k \in 0 .. 5 : At(k) => At(k)'
  BY DEF At, Reached, OnTime, progress, Share, Timeout
<1>2. Phases'
  BY <1>1, Parts DEF Phases, inputs, progress, Timeout
<1>3. Books'
  BY Parts DEF Books, progress
<1>4. Deadlines'
  BY Parts DEF Deadlines, progress, Timeout
<1> QED
  BY <1>2, <1>3, <1>4

-----------------------------------------------------------------------------
LEMMA InOrder == ShutdownOrder = Rest(0) /\ Len(Registered) = 5
<1>1. Len(Registered) = 5
  BY DEF Registered
<1>2. /\ Registered[1] = "api" /\ Registered[2] = "metrics" /\ Registered[3] = "sse"
      /\ Registered[4] = "ws" /\ Registered[5] = "sync"
  BY DEF Registered
<1>3. ShutdownOrder = [i \in 1 .. 5 |-> Registered[6 - i]]
  BY <1>1 DEF ShutdownOrder
<1>4. Rest(0) = [i \in 1 .. 5 |-> Registered[6 - i]]
  BY <1>2 DEF Rest
<1> QED
  BY <1>1, <1>3, <1>4

LEMMA Advance ==
    ASSUME NEW k \in 0 .. 5, Rest(k) # << >>
    PROVE  /\ k + 1 \in 1 .. 5
           /\ Head(Rest(k)) = Latest(k + 1)
           /\ Tail(Rest(k)) = Rest(k + 1)
           /\ AskedBefore(k) \cup {Latest(k + 1)} = AskedBefore(k + 1)
           /\ Latest(k + 1) # ""
<1>1. k # 5
  BY DEF Rest
<1>2. CASE k = 0
  BY <1>2 DEF Rest, Latest, AskedBefore
<1>3. CASE k = 1
  BY <1>3 DEF Rest, Latest, AskedBefore
<1>4. CASE k = 2
  BY <1>4 DEF Rest, Latest, AskedBefore
<1>5. CASE k = 3
  BY <1>5 DEF Rest, Latest, AskedBefore
<1>6. CASE k = 4
  BY <1>6 DEF Rest, Latest, AskedBefore
<1>7. k = 0 \/ k = 1 \/ k = 2 \/ k = 3 \/ k = 4
  BY <1>1
<1> QED
  BY <1>2, <1>3, <1>4, <1>5, <1>6, <1>7

\* The five shares fit in the timeout.
LEMMA SharesFit ==
    ASSUME Timeout \in Nat, MinTimeout <= Timeout
    PROVE  Share \in Nat \ {0} /\ 5 * Share <= Timeout
<1>1. Share = LET share == Timeout \div 5 IN IF share < MinShare THEN MinShare ELSE share
  BY InOrder DEF Share, Timeout
<1>2. ASSUME NEW t \in Nat, MinTimeout <= t
      PROVE  MinShare <= t \div 5 /\ 5 * (t \div 5) <= t /\ t \div 5 \in Nat
  <2>1. 5 * MinShare <= t /\ MinShare \in Nat \ {0}
    BY <1>2, ShareAssumption, TimeoutAssumption
  <2> QED
    BY <2>1
<1>3. MinShare <= Timeout \div 5 /\ 5 * (Timeout \div 5) <= Timeout /\ Timeout \div 5 \in Nat
  BY <1>2
<1> QED
  BY <1>1, <1>3, ShareAssumption

\* What each Stop or Shutdown waits for
LEMMA WaitsFor ==
    /\ Finished("sync") <=> \A p \in DOMAIN poller : poller[p] \in {"off", "ended"}
    /\ \A s \in Servers :
          Finished(s) <=> \A r \in ClientsOf(s) : conn[r] \in {"none", "closed"}
    /\ \A c : c \notin Servers \cup {"sync"} => Finished(c)
    /\ \A s \in Servers : s # "sync" /\ s # ""
BY DEF Finished, Servers

LEMMA Multiples ==
    ASSUME NEW n \in Nat, NEW k \in 0 .. 4
    PROVE  k * n + n = (k + 1) * n /\ (k + 1) * n <= 5 * n
<1>1. CASE k = 0
  BY <1>1
<1>2. CASE k = 1
  BY <1>2
<1>3. CASE k = 2
  BY <1>3
<1>4. CASE k = 3
  BY <1>4
<1>5. CASE k = 4
  BY <1>5
<1> QED
  BY <1>1, <1>2, <1>3, <1>4, <1>5

LEMMA InitInv == Init => Inv
<1> SUFFICES ASSUME Init PROVE Inv
  OBVIOUS
<1>1. DOMAIN poller = {}
  <2>1. poller = << >>
    BY DEF Init
  <2> QED
    BY <2>1
<1>2. cancelledAt = -1 /\ elapsed = 0 /\ due = 0 /\ serverErr = 0
  BY DEF Init, Never
<1>3. /\ config = NoFile /\ stage = "loading" /\ current = ""
      /\ queue = << >> /\ asked = {} /\ failed = {} /\ file \in Files /\ env \in Envs
  BY DEF Init
<1>4. TypeOK
  <2>1. Numbers
    BY <1>2 DEF Numbers
  <2>2. Places
    BY <1>1, <1>3 DEF Init, Places
  <2>3. Books /\ Deadlines
    BY <1>3 DEF Init, Books, Deadlines
  <2> QED
    BY <2>1, <2>2, <2>3, TypeParts
<1>5. Phases /\ PollersAttended /\ ClientsAttended /\ TimeIsForTheSlow
  BY <1>1, <1>2, <1>3
     DEF Phases, PollersAttended, ClientsAttended, TimeIsForTheSlow, Cancelled, Never, Servers
<1> QED
  BY <1>4, <1>5 DEF Inv

LEMMA LoadInv ==
    ASSUME Inv, Load
    PROVE  Inv'
<1>1. /\ stage = "loading" /\ UNCHANGED <<inputs, cancelledAt, server, serverErr, conn, progress>>
      /\ \/ /\ file # NoFile /\ stage' = "serving" /\ config' = ApplyEnvOverrides(file, env)
            /\ poller' = [p \in Polled(config') |-> "off"]
         \/ stage' = "refused" /\ UNCHANGED <<config, poller>>
  BY DEF Load
<1>2. \A p \in DOMAIN poller' : poller'[p] = "off" \/ poller' = poller
  BY <1>1
<1>3. UNCHANGED <<queue, current, asked, due, elapsed, failed, slow, file, env, cancelledAt>>
  BY <1>1 DEF inputs, progress
<1>4. /\ file \in Files /\ env \in Envs /\ config = NoFile
      /\ queue = << >> /\ asked = {} /\ failed = {} /\ current = ""
  BY <1>1, Parts DEF Phases
<1>5. elapsed = 0 /\ due = 0
  BY <1>1, Parts DEF Phases
<1>6. stage' = "serving" => Timeout' \in Nat /\ MinTimeout <= Timeout'
  <2>1. CASE stage' = "serving"
    <3>1. config'.maxStale \in Int
      BY <1>1, <1>4, <2>1, StaleAssumption
    <3> QED
      BY <3>1, TimeoutAssumption DEF Timeout, ShutdownTimeout
  <2> QED
    BY <2>1
<1>7. Phases'
  BY <1>1, <1>3, <1>4, <1>5, <1>6 DEF Phases
<1>8. Numbers' /\ Books'
  <2>1. Numbers'
    BY <1>1, <1>3, Parts DEF Numbers
  <2> QED
    BY <1>3, <2>1, Parts DEF Books
<1>9. Places'
  BY <1>1, <1>2, Parts DEF Places
<1>10. Deadlines'
  <2>1. CASE stage' = "serving"
    BY <1>3, <1>5, <1>6, <2>1 DEF Deadlines
  <2>2. CASE stage' # "serving"
    BY <1>1, <1>4, <2>2 DEF Deadlines
  <2> QED
    BY <2>1, <2>2
<1>11. PollersAttended' /\ ClientsAttended' /\ TimeIsForTheSlow'
  BY <1>1, <1>2, <1>3, <1>4, Parts
     DEF PollersAttended, ClientsAttended, TimeIsForTheSlow, Cancelled
<1> QED
  BY <1>7, <1>8, <1>9, <1>10, <1>11, TypePartsNext DEF Inv

\* The steps of the servers and the signal
LEMMA EnvironmentInv ==
    ASSUME Inv, \/ Signal
                \/ \E s \in Servers : Listen(s) \/ ServeFails(s) \/ ServerClosed(s) \/ Report(s)
    PROVE  Inv'
<1>1. UNCHANGED <<inputs, config, stage, progress, poller, conn>>
  BY DEF Signal, Listen, ServeFails, ServerClosed, Report, Become, parts
<1>2. Phases' /\ Books' /\ Deadlines'
  BY <1>1, PhasesUnchanged
<1>3. PollersAttended' /\ ClientsAttended'
  BY <1>1, Parts DEF PollersAttended, ClientsAttended, progress
<1>4. cancelledAt' = cancelledAt \/ cancelledAt' = elapsed
  BY DEF Signal, Listen, ServeFails, ServerClosed, Report, Become
<1>5. TimeIsForTheSlow'
  BY <1>1, <1>4, Parts DEF TimeIsForTheSlow, progress, Cancelled
<1>6. Places'
  <2>1. \/ server' = server
        \/ \E s \in Servers, place \in {"serving", "reporting", "closed"} :
              server' = [server EXCEPT ![s] = place]
    <3>1. CASE Signal
      BY <3>1 DEF Signal, parts
    <3>2. ASSUME NEW s \in Servers, Listen(s) \/ ServeFails(s) \/ ServerClosed(s) \/ Report(s)
          PROVE  \E place \in {"serving", "reporting", "closed"} :
                    server' = [server EXCEPT ![s] = place]
      BY <3>2 DEF Listen, ServeFails, ServerClosed, Report, Become
    <3> QED
      BY <3>1, <3>2
  <2>2. server' \in [Servers -> {"starting", "serving", "reporting", "closed"}]
    BY <2>1, Parts DEF Places
  <2> QED
    BY <1>1, <2>2, Parts DEF Places
<1>7. Numbers'
  <2>1. serverErr' = serverErr \/ (serverErr = 0 /\ serverErr' = serverErr + 1)
    BY DEF Signal, Listen, ServeFails, ServerClosed, Report, parts
  <2>2. elapsed' = elapsed /\ due' = due
    BY <1>1 DEF progress
  <2> QED
    BY <1>4, <2>1, <2>2, Parts DEF Numbers
<1> QED
  BY <1>2, <1>3, <1>5, <1>6, <1>7, TypePartsNext DEF Inv

LEMMA PollerInv ==
    ASSUME Inv, Launch \/ \E p \in DOMAIN poller : FetchReturns(p) \/ BeginFetch(p) \/ Quits(p)
    PROVE  Inv'
<1>1. /\ UNCHANGED <<inputs, config, stage, cancelledAt, server, serverErr, conn, progress>>
      /\ DOMAIN poller' = DOMAIN poller
  BY DEF Launch, FetchReturns, BeginFetch, Quits, Move
<1>2. UNCHANGED <<asked, current, failed, elapsed, due, queue, slow>>
  BY <1>1 DEF progress
<1>3. Phases' /\ Books' /\ Deadlines'
  BY <1>1, PhasesUnchanged
<1>4. Numbers'
  BY <1>1, <1>2, Parts DEF Numbers
<1>5. Places'
  <2>1. \A p \in DOMAIN poller : poller'[p] \in {"off", "fetching", "waiting", "ended", "stray"}
    BY Parts DEF Places, Launch, FetchReturns, BeginFetch, Quits, Move
  <2> QED
    BY <1>1, <2>1, Parts DEF Places
<1>6. PollersAttended'
  <2>1. CASE Launch
    BY <1>2, <2>1, Parts DEF PollersAttended, Launch
  <2>2. ASSUME NEW p \in DOMAIN poller, FetchReturns(p) \/ BeginFetch(p) \/ Quits(p)
        PROVE  PollersAttended'
    <3>1. /\ poller[p] \in {"fetching", "waiting"}
          /\ poller'[p] \in {"fetching", "waiting", "ended"}
          /\ \A q \in DOMAIN poller : q # p => poller'[q] = poller[q]
      BY <2>2 DEF FetchReturns, BeginFetch, Quits, Move
    <3> QED
      BY <1>1, <1>2, <3>1, Parts DEF PollersAttended
  <2> QED
    BY <2>1, <2>2
<1>7. ClientsAttended' /\ TimeIsForTheSlow'
  BY <1>1, <1>2, Parts DEF ClientsAttended, TimeIsForTheSlow, Cancelled
<1> QED
  BY <1>3, <1>4, <1>5, <1>6, <1>7, TypePartsNext DEF Inv

ClientSteps(r) == \/ Connect(r) \/ Subscribe(r) \/ Stall(r) \/ Resume(r)
                  \/ StreamEnds(r) \/ ClientLeaves(r)

\* Once a server's Shutdown has succeeded, none of its clients takes a step.
LEMMA ClientInv ==
    ASSUME Inv, NEW r \in Clients, ClientSteps(r)
    PROVE  Inv'
<1>1. UNCHANGED <<inputs, config, stage, cancelledAt, server, serverErr, poller, progress>>
  BY DEF ClientSteps, Connect, Subscribe, Stall, Resume, StreamEnds, ClientLeaves, Flow
<1>2. UNCHANGED <<asked, current, failed, elapsed, due, queue, slow>>
  BY <1>1 DEF progress
<1>3. Phases' /\ Books' /\ Deadlines'
  BY <1>1, PhasesUnchanged
<1>4. /\ \A t \in Clients : t # r => conn'[t] = conn[t]
      /\ conn' \in [Clients -> {"none", "open", "live", "stalled", "late", "closed"}]
  BY Parts DEF Places, ClientSteps, Connect, Subscribe, Stall, Resume, StreamEnds,
               ClientLeaves, Flow
<1>5. Numbers' /\ Places'
  <2>1. Numbers'
    BY <1>1, <1>2, Parts DEF Numbers
  <2> QED
    BY <1>1, <1>4, <2>1, Parts DEF Places
<1>6. \/ conn[r] \notin {"none", "closed"}
      \/ \E s \in Servers : r \in ClientsOf(s) /\ s \notin asked
  BY DEF ClientSteps, Connect, Subscribe, Stall, Resume, StreamEnds, ClientLeaves
<1>7. ClientsAttended'
  <2> SUFFICES ASSUME NEW s \in Servers, s \in asked, current # s, s \notin failed
               PROVE  \A t \in ClientsOf(s) : conn'[t] \in {"none", "closed"}
    BY <1>2 DEF ClientsAttended
  <2>1. \A t \in ClientsOf(s) : t \in Clients /\ conn[t] \in {"none", "closed"}
    BY Parts DEF ClientsAttended, ClientsOf, Clients, Servers
  <2>2. r \notin ClientsOf(s)
    BY <1>6, <2>1, ClientsAssumption DEF ClientsOf, Servers
  <2> QED
    BY <1>4, <2>1, <2>2
<1>8. PollersAttended' /\ TimeIsForTheSlow'
  BY <1>1, <1>2, Parts DEF PollersAttended, TimeIsForTheSlow, Cancelled
<1> QED
  BY <1>3, <1>5, <1>7, <1>8, TypePartsNext DEF Inv

\* The steps of the shutdown leave the pollers, the clients and the servers alone.
LEMMA StillStopping ==
    ASSUME NEW k \in 0 .. 5, Phases, UNCHANGED <<inputs, config>>,
           stage \in {"serving", "stopping"}, stage' = "stopping", Reached(k)', OnTime(k)'
    PROVE  Phases'
<1>1. At(k)'
  BY DEF At
<1>2. \E n \in 0 .. 5 : At(n)'
  BY <1>1
<1>3. Timeout' = Timeout /\ file' = file /\ env' = env
  BY DEF Timeout, inputs
<1>4. file' \in Files /\ env' \in Envs /\ Timeout' \in Nat /\ MinTimeout <= Timeout'
  BY <1>3 DEF Phases
<1>5. /\ stage' \notin {"loading", "refused", "serving"}
      /\ stage' # "exited"
  OBVIOUS
<1> HIDE DEF At
<1> QED
  BY <1>2, <1>4, <1>5 DEF Phases

LEMMA ShareUnchanged ==
    ASSUME UNCHANGED config
    PROVE  Share' = Share /\ Timeout' = Timeout
BY DEF Share, Timeout

LEMMA StoppingInv ==
    ASSUME Inv, Stopping
    PROVE  Inv'
<1>1. /\ stage = "serving" /\ stage' = "stopping" /\ queue' = Rest(0)
      /\ serverErr' = serverErr \/ (serverErr > 0 /\ serverErr' = serverErr - 1)
      /\ UNCHANGED <<inputs, config, cancelledAt, server, poller, conn>>
      /\ UNCHANGED <<current, asked, due, elapsed, failed, slow>>
  BY InOrder DEF Stopping
<1>2. asked = {} /\ failed = {} /\ current = ""
  BY <1>1, Parts DEF Phases
<1>3. elapsed = 0 /\ due = 0 /\ Timeout \in Nat /\ MinTimeout <= Timeout
  BY <1>1, Parts DEF Phases
<1>4. OnTime(0)'
  <2>1. Share' \in Nat
    BY <1>1, <1>3, SharesFit, ShareUnchanged
  <2>2. \A n \in Nat : 0 * n = 0
    OBVIOUS
  <2>3. 0 * Share' = 0
    BY <2>1, <2>2
  <2>4. elapsed' = 0 /\ due' = 0
    BY <1>1, <1>3
  <2>5. elapsed' <= due' /\ elapsed' <= 0
    BY <2>4
  <2>6. elapsed' <= 0 * Share'
    BY <2>3, <2>5
  <2>7. current' = ""
    BY <1>1, <1>2
  <2> QED
    BY <2>5, <2>6, <2>7 DEF OnTime
<1>5. Reached(0)'
  <2>1. AskedBefore(0) = {}
    BY DEF AskedBefore
  <2> QED
    BY <1>1, <1>2, <2>1 DEF Reached
<1>6. Phases'
  BY <1>1, <1>4, <1>5, StillStopping, Parts
<1>7. Numbers' /\ Deadlines'
  <2>1. serverErr' \in 0 .. 1
    BY <1>1, Parts DEF Numbers
  <2> QED
    BY <1>1, <2>1, Parts DEF Numbers, Deadlines, Timeout
<1>8. Places' /\ Books' /\ PollersAttended' /\ ClientsAttended' /\ TimeIsForTheSlow'
  BY <1>1, Parts
     DEF Places, Books, PollersAttended, ClientsAttended, TimeIsForTheSlow, Cancelled
<1> QED
  BY <1>6, <1>7, <1>8, TypePartsNext DEF Inv

LEMMA AskInv ==
    ASSUME Inv, Ask
    PROVE  Inv'
<1>1. /\ stage = "stopping" /\ current = "" /\ queue # << >>
      /\ current' = Head(queue) /\ queue' = Tail(queue)
      /\ asked' = asked \cup {Head(queue)}
      /\ due' = IF elapsed + Share < Timeout THEN elapsed + Share ELSE Timeout
      /\ UNCHANGED <<inputs, config, stage, cancelledAt, server, serverErr, poller, conn>>
      /\ UNCHANGED <<elapsed, failed, slow>>
  BY DEF Ask, parts, Timeout
<1>2. PICK k \in 0 .. 5 : At(k)
  BY <1>1, Parts DEF Phases
<1>3. queue = Rest(k) /\ asked = AskedBefore(k)
  BY <1>2 DEF At, Reached
<1>4. elapsed <= k * Share
  BY <1>1, <1>2 DEF At, OnTime
<1>5. /\ k + 1 \in 1 .. 5
      /\ Head(queue) = Latest(k + 1) /\ Tail(queue) = Rest(k + 1)
      /\ asked \cup {Latest(k + 1)} = AskedBefore(k + 1)
      /\ Latest(k + 1) # ""
  BY <1>1, <1>3, Advance
<1>6. /\ current' = Latest(k + 1) /\ current' # ""
      /\ queue' = Rest(k + 1) /\ asked' = AskedBefore(k + 1)
  BY <1>1, <1>5
<1>7. k \in 0 .. 4
  <2>1. k + 1 \in 1 .. 5
    BY <1>5
  <2> QED
    BY <2>1
<1>8. Timeout \in Nat /\ Share \in Nat \ {0} /\ 5 * Share <= Timeout /\ elapsed \in Nat
  <2>1. Timeout \in Nat /\ MinTimeout <= Timeout
    BY <1>1, Parts DEF Phases
  <2> QED
    BY <2>1, SharesFit, Parts DEF Numbers
<1>9. elapsed < due' /\ due' <= (k + 1) * Share /\ due' <= Timeout /\ due' \in Nat
  <2>1. k * Share + Share = (k + 1) * Share /\ (k + 1) * Share <= 5 * Share
    BY <1>7, <1>8, Multiples
  <2> DEFINE most == k * Share
             next == (k + 1) * Share
             full == 5 * Share
  <2>2. most \in Nat /\ next \in Nat /\ full \in Nat
    BY <1>7, <1>8
  <2>3. most + Share = next /\ next <= full /\ full <= Timeout /\ elapsed <= most
    BY <1>4, <1>8, <2>1
  <2> HIDE DEF most, next, full
  <2>4. elapsed + Share <= next /\ elapsed + Share <= Timeout
    BY <1>8, <2>2, <2>3
  <2>5. due' = elapsed + Share
    <3>1. due' = IF elapsed + Share < Timeout THEN elapsed + Share ELSE Timeout
      BY <1>1
    <3> QED
      BY <1>8, <2>4, <3>1
  <2>6. elapsed < due' /\ due' <= next /\ due' <= Timeout /\ due' \in Nat
    BY <1>8, <2>4, <2>5
  <2> QED
    BY <2>6 DEF next
<1>10. Phases'
  <2>1. Share' = Share /\ elapsed' = elapsed
    BY <1>1, ShareUnchanged
  <2>2. elapsed' <= due'
    BY <1>8, <1>9, <2>1
  <2>3. OnTime(k + 1)'
    BY <1>6, <1>9, <2>1, <2>2 DEF OnTime
  <2>4. Reached(k + 1)'
    BY <1>6 DEF Reached
  <2>5. k + 1 \in 0 .. 5
    BY <1>7
  <2> HIDE DEF OnTime, Reached
  <2> QED
    BY <1>1, <2>3, <2>4, <2>5, StillStopping, Parts
<1>11. Numbers'
  <2>1. UNCHANGED <<cancelledAt, elapsed, serverErr>>
    BY <1>1
  <2> QED
    BY <1>9, <2>1, Parts DEF Numbers
<1>12. Deadlines'
  <2>1. elapsed' = elapsed /\ Timeout' = Timeout
    BY <1>1, ShareUnchanged
  <2>2. elapsed' <= due' /\ due' <= Timeout'
    BY <1>8, <1>9, <2>1
  <2> QED
    BY <2>2 DEF Deadlines
<1>13. Places'
  BY <1>1, Parts DEF Places
<1>14. Books'
  <2>1. AskedBefore(k + 1) \subseteq Components
    BY DEF AskedBefore, Components
  <2>2. current' \in asked' /\ asked \subseteq asked' /\ failed' = failed /\ slow' = slow
    BY <1>1
  <2> QED
    BY <1>6, <2>1, <2>2, Parts DEF Books
<1>15. /\ "sync" \in asked' /\ ("sync" \in asked <=> current' # "sync")
       /\ \A s \in Servers : s \in asked' => s \in asked \/ current' = s
       /\ current' = "sync" => asked = {}
  <2>1. asked = AskedBefore(k) /\ asked' = AskedBefore(k + 1) /\ current' = Latest(k + 1)
    BY <1>3, <1>6
  <2>2. CASE k = 0
    BY <2>1, <2>2 DEF Latest, AskedBefore, Servers
  <2>3. CASE k = 1
    BY <2>1, <2>3 DEF Latest, AskedBefore, Servers
  <2>4. CASE k = 2
    BY <2>1, <2>4 DEF Latest, AskedBefore, Servers
  <2>5. CASE k = 3
    BY <2>1, <2>5 DEF Latest, AskedBefore, Servers
  <2>6. CASE k = 4
    BY <2>1, <2>6 DEF Latest, AskedBefore, Servers
  <2>7. k = 0 \/ k = 1 \/ k = 2 \/ k = 3 \/ k = 4
    BY <1>7
  <2> QED
    BY <2>2, <2>3, <2>4, <2>5, <2>6, <2>7
<1>16. PollersAttended' /\ ClientsAttended'
  <2>1. PollersAttended'
    BY <1>1, <1>15, Parts DEF PollersAttended
  <2>2. ASSUME NEW s \in Servers, s \in asked', current' # s, s \notin failed'
        PROVE  \A r \in ClientsOf(s) : conn'[r] \in {"none", "closed"}
    <3>1. s \in asked /\ current # s /\ s \notin failed
      BY <1>1, <1>15, <2>2, WaitsFor
    <3> QED
      BY <1>1, <3>1, Parts DEF ClientsAttended
  <2> QED
    BY <2>1, <2>2 DEF ClientsAttended
<1>17. TimeIsForTheSlow'
  <2>1. asked' # {} /\ elapsed' = elapsed /\ cancelledAt' = cancelledAt
    BY <1>1
  <2>2. elapsed' < due'
    BY <1>9, <2>1
  <2> QED
    BY <1>15, <2>1, <2>2, Parts DEF TimeIsForTheSlow, Cancelled
<1> QED
  BY <1>10, <1>11, <1>12, <1>13, <1>14, <1>16, <1>17, TypePartsNext DEF Inv

\* A Shutdown that returns, with or without an error
LEMMA ReturnsInv ==
    ASSUME Inv, Succeed \/ Expire
    PROVE  Inv'
<1>1. /\ stage = "stopping" /\ current # "" /\ current' = ""
      /\ \/ Finished(current) /\ failed' = failed
         \/ elapsed >= due /\ failed' = failed \cup {current}
      /\ UNCHANGED <<inputs, config, stage, cancelledAt, server, serverErr, poller, conn>>
      /\ UNCHANGED <<queue, asked, due, elapsed, slow>>
  BY DEF Succeed, Expire, parts
<1>2. current \in asked
  BY <1>1, Parts DEF Books
<1>3. Phases'
  <2>1. PICK k \in 0 .. 5 : At(k)
    BY <1>1, Parts DEF Phases
  <2>2. Reached(k)'
    BY <1>1, <2>1 DEF At, Reached
  <2>3. Share' = Share /\ elapsed' = elapsed /\ due' = due
    BY <1>1, ShareUnchanged
  <2>4. Share \in Nat
    <3>1. Timeout \in Nat /\ MinTimeout <= Timeout
      BY <1>1, Parts DEF Phases
    <3> QED
      BY <3>1, SharesFit
  <2>5. elapsed <= due /\ due <= k * Share
    BY <1>1, <2>1 DEF At, OnTime
  <2>6. elapsed <= k * Share
    <3> DEFINE most == k * Share
    <3>1. elapsed \in Nat /\ due \in Nat
      BY Parts DEF Numbers
    <3>2. most \in Nat
      BY <2>4
    <3>3. due <= most
      BY <2>5
    <3> HIDE DEF most
    <3>4. elapsed <= most
      BY <2>5, <3>1, <3>2, <3>3
    <3> QED
      BY <3>4 DEF most
  <2>7. OnTime(k)'
    BY <1>1, <2>3, <2>5, <2>6 DEF OnTime
  <2> HIDE DEF OnTime, Reached
  <2> QED
    BY <1>1, <2>2, <2>7, StillStopping, Parts
<1>4. Numbers' /\ Deadlines' /\ Places'
  BY <1>1, Parts DEF Numbers, Deadlines, Places, Timeout
<1>5. Books'
  BY <1>1, <1>2, Parts DEF Books
<1>6. PollersAttended' /\ ClientsAttended'
  <2>1. PollersAttended'
    BY <1>1, <1>2, WaitsFor, Parts DEF PollersAttended
  <2>2. ASSUME NEW s \in Servers, s \in asked', s \notin failed'
        PROVE  \A r \in ClientsOf(s) : conn'[r] \in {"none", "closed"}
    BY <1>1, <2>2, WaitsFor, Parts DEF ClientsAttended
  <2> QED
    BY <2>1, <2>2 DEF ClientsAttended
<1>7. TimeIsForTheSlow'
  <2>1. asked # {} /\ current' \notin Servers /\ current' # "sync"
    BY <1>1, <1>2 DEF Servers
  <2> QED
    BY <1>1, <2>1, Parts DEF TimeIsForTheSlow
<1> QED
  BY <1>3, <1>4, <1>5, <1>6, <1>7, TypePartsNext DEF Inv

LEMMA ReturnInv ==
    ASSUME Inv, Return
    PROVE  Inv'
<1>1. /\ stage = "stopping" /\ current = "" /\ queue = << >> /\ stage' = "exited"
      /\ UNCHANGED <<inputs, config, cancelledAt, server, serverErr, poller, conn>>
      /\ UNCHANGED <<queue, current, asked, due, elapsed, failed, slow>>
  BY DEF Return, parts, progress
<1>2. Phases'
  <2>1. \A k \in 0 .. 5 : At(k) => At(k)'
    BY <1>1 DEF At, Reached, OnTime, Share, Timeout
  <2> QED
    BY <1>1, <2>1, Parts DEF Phases, inputs, Timeout
<1>3. Numbers' /\ Deadlines'
  BY <1>1, Parts DEF Numbers, Deadlines, Timeout
<1>4. Places' /\ Books' /\ PollersAttended' /\ ClientsAttended' /\ TimeIsForTheSlow'
  BY <1>1, Parts
     DEF Places, Books, PollersAttended, ClientsAttended, TimeIsForTheSlow, Cancelled
<1> QED
  BY <1>2, <1>3, <1>4, TypePartsNext DEF Inv

LEMMA TickInv ==
    ASSUME Inv, Tick
    PROVE  Inv'
<1>1. /\ stage = "stopping" /\ current # "" /\ ~Prompt /\ elapsed' = elapsed + 1
      /\ UNCHANGED <<inputs, config, stage, cancelledAt, server, serverErr, poller, conn>>
      /\ UNCHANGED <<queue, current, asked, due, failed>>
  BY DEF Tick, parts
<1>2. elapsed' \in Nat /\ elapsed' <= due' /\ due' \in Nat
  <2>1. elapsed < due /\ elapsed \in Nat /\ due \in Nat
    BY Parts DEF Tick, Numbers
  <2>2. elapsed' = elapsed + 1 /\ due' = due
    BY <1>1
  <2> QED
    BY <2>1, <2>2
<1>3. PICK k \in 0 .. 5 : At(k)
  BY <1>1, Parts DEF Phases
<1>4. Phases'
  <2>1. Share' = Share /\ due' = due
    BY <1>1, ShareUnchanged
  <2>2. due <= k * Share
    BY <1>1, <1>3 DEF At, OnTime
  <2>3. OnTime(k)'
    BY <1>1, <1>2, <2>1, <2>2 DEF OnTime
  <2>4. Reached(k)'
    BY <1>1, <1>3 DEF At, Reached
  <2> HIDE DEF OnTime, Reached
  <2> QED
    BY <1>1, <2>3, <2>4, StillStopping, Parts
<1>5. Numbers' /\ Deadlines'
  <2>1. Timeout' = Timeout /\ config' = config /\ due' = due
    BY <1>1, ShareUnchanged
  <2>2. Deadlines'
    BY <1>2, <2>1, Parts DEF Deadlines
  <2>3. cancelledAt' = cancelledAt /\ serverErr' = serverErr
    BY <1>1
  <2> QED
    BY <1>2, <2>2, <2>3, Parts DEF Numbers
<1>6. Places' /\ Books' /\ PollersAttended' /\ ClientsAttended'
  <2>1. slow' \subseteq Clients
    BY Parts DEF Tick, Books, ClientsOf, Clients
  <2> QED
    BY <1>1, <2>1, Parts DEF Places, Books, PollersAttended, ClientsAttended
<1>7. current \in {"sync", "api", "metrics"} /\ asked # {}
  <2>1. ~Finished(current)
    BY <1>1 DEF Prompt
  <2> QED
    BY <1>1, <2>1, WaitsFor, Parts DEF Books, Servers
<1>8. TimeIsForTheSlow'
  <2>1. CASE current = "sync"
    <3>1. ~Cancelled
      <4>1. PICK p \in DOMAIN poller : poller[p] \notin {"off", "ended"}
        BY <1>1, <2>1, WaitsFor DEF Prompt
      <4>2. poller[p] \in {"fetching", "waiting"}
        BY <2>1, <4>1, Parts DEF Places, PollersAttended
      <4>3. "sync" \in asked
        BY <2>1, Parts DEF Books
      <4> QED
        BY <1>1, <4>2, <4>3 DEF Prompt
    <3>2. ~Cancelled' /\ current' = "sync"
      BY <1>1, <2>1, <3>1 DEF Cancelled
    <3> QED
      BY <3>2 DEF TimeIsForTheSlow, Servers
  <2>2. CASE current \in Servers
    <3>1. PICK r \in ClientsOf(current) : conn[r] \notin {"none", "closed"}
      BY <1>1, <2>2, WaitsFor DEF Prompt
    <3>2. r \in Clients
      BY <2>2 DEF Servers, ClientsOf, Clients
    <3>3. conn[r] # "live"
      <4>1. k = 0 \/ k = 1 \/ k = 2 \/ k = 3 \/ k = 4 \/ k = 5
        OBVIOUS
      <4>2. asked = AskedBefore(k) /\ current = Latest(k)
        BY <1>1, <1>3, <2>2, WaitsFor DEF At, Reached
      <4>3. "sse" \in asked
        <5>1. CASE current = "api"
          <6>1. asked = AskedBefore(k) /\ "api" = Latest(k)
            BY <4>2, <5>1
          <6> QED
            BY <4>1, <6>1 DEF Latest, AskedBefore
        <5>2. CASE current = "metrics"
          <6>1. asked = AskedBefore(k) /\ "metrics" = Latest(k)
            BY <4>2, <5>2
          <6> QED
            BY <4>1, <6>1 DEF Latest, AskedBefore
        <5> QED
          BY <2>2, <5>1, <5>2 DEF Servers
      <4> QED
        BY <1>1, <3>2, <4>3 DEF Prompt, BrokerDone
    <3>4. conn[r] \in {"open", "stalled", "late"}
      BY <3>1, <3>2, <3>3, Parts DEF Places
    <3>5. r \in slow' /\ r \in ClientsOf(current)
      BY <3>1, <3>4 DEF Tick
    <3>6. current' = current /\ asked' # {}
      BY <1>1, <1>7
    <3> QED
      BY <2>2, <3>5, <3>6 DEF TimeIsForTheSlow, Servers
  <2> QED
    BY <1>7, <2>1, <2>2 DEF Servers
<1> QED
  BY <1>4, <1>5, <1>6, <1>8, TypePartsNext DEF Inv

LEMMA StutterInv ==
    ASSUME Inv, UNCHANGED vars
    PROVE  Inv'
<1>1. UNCHANGED <<inputs, config, stage, progress>> /\ UNCHANGED <<cancelledAt, parts>>
  BY DEF vars, inputs, progress, parts
<1>2. Phases' /\ Books' /\ Deadlines'
  BY <1>1, PhasesUnchanged
<1>3. UNCHANGED <<stage, asked, current, failed, server, serverErr, poller, conn>>
  BY <1>1 DEF progress, parts
<1>4. UNCHANGED <<cancelledAt, elapsed, due, serverErr, slow>>
  BY <1>1 DEF progress, parts
<1>5. Numbers'
  BY <1>4, Parts DEF Numbers
<1>6. Places' /\ PollersAttended' /\ ClientsAttended'
  BY <1>3, Parts DEF Places, PollersAttended, ClientsAttended
<1>7. TimeIsForTheSlow'
  BY <1>3, <1>4, Parts DEF TimeIsForTheSlow, Cancelled
<1> QED
  BY <1>2, <1>5, <1>6, <1>7, TypePartsNext DEF Inv

-----------------------------------------------------------------------------
\* The invariant holds in every state: of every action in Next and of stuttering.
THEOREM Invariance == Spec => []Inv
<1>1. Inv /\ [Next]_vars => Inv'
  <2> SUFFICES ASSUME Inv, [Next]_vars
               PROVE  Inv'
    OBVIOUS
  <2>1. CASE Load
    BY <2>1, LoadInv
  <2>2. CASE Signal \/ \E s \in Servers : Listen(s) \/ ServeFails(s) \/ ServerClosed(s) \/ Report(s)
    BY <2>2, EnvironmentInv
  <2>3. CASE Launch \/ \E p \in DOMAIN poller : FetchReturns(p) \/ BeginFetch(p) \/ Quits(p)
    BY <2>3, PollerInv
  <2>4. CASE \E r \in Clients : ClientSteps(r)
    BY <2>4, ClientInv
  <2>5. CASE Shutdown
    BY <2>5, StoppingInv, AskInv, ReturnsInv, ReturnInv DEF Shutdown
  <2>6. CASE Tick
    BY <2>6, TickInv
  <2>7. CASE UNCHANGED vars
    BY <2>7, StutterInv
  <2> QED
    BY <2>1, <2>2, <2>3, <2>4, <2>5, <2>6, <2>7 DEF Next, ClientSteps
<1> QED
  BY InitInv, <1>1, PTL DEF Spec

\* Types, and with them: whatever fails, the shutdown stays within the overall
\* timeout, and an asker never waits for a component it has not asked.
THEOREM TypeCorrect == Spec => []TypeOK
<1>1. Inv => TypeOK
  BY DEF Inv
<1> QED
  BY Invariance, <1>1, PTL

\* A component that fails or runs out of its share does not keep the others
\* from being shut down.
THEOREM EveryoneIsAsked == Spec => []EveryoneAsked
<1>1. Inv => EveryoneAsked
  <2> SUFFICES ASSUME Inv, stage = "exited"
               PROVE  asked = Components /\ current = ""
    BY DEF EveryoneAsked
  <2>1. queue = << >> /\ current = ""
    BY Parts DEF Phases
  <2>2. PICK k \in 0 .. 5 : At(k)
    BY Parts DEF Phases
  <2>3. k = 5
    <3>1. Rest(k) = << >>
      BY <2>1, <2>2 DEF At, Reached
    <3> QED
      BY <3>1 DEF Rest
  <2>4. asked = AskedBefore(5)
    BY <2>2, <2>3 DEF At, Reached
  <2>5. AskedBefore(5) = {"sync", "ws", "sse", "metrics", "api"}
    BY DEF AskedBefore
  <2> QED
    BY <2>1, <2>4, <2>5 DEF Components
<1> QED
  BY Invariance, <1>1, PTL

\* Run returns nil only when no poller that Stop knew of and no client's request
\* or stream is left.
THEOREM NilIsQuiet == Spec => []NilMeansQuiet
<1>1. Inv /\ EveryoneAsked => NilMeansQuiet
  <2> SUFFICES ASSUME Inv, EveryoneAsked, stage = "exited", failed = {}
               PROVE  /\ \A r \in Clients : conn[r] \in {"none", "closed"}
                      /\ \A p \in DOMAIN poller : poller[p] \in {"ended", "off", "stray"}
    BY DEF NilMeansQuiet
  <2>1. asked = Components /\ current = ""
    BY DEF EveryoneAsked
  <2>2. \A p \in DOMAIN poller : poller[p] \in {"ended", "off", "stray"}
    BY <2>1, Parts DEF PollersAttended, Components
  <2>3. \A s \in Servers : \A r \in ClientsOf(s) : conn[r] \in {"none", "closed"}
    BY <2>1, Parts DEF ClientsAttended, Components, Servers
  <2> QED
    BY <2>2, <2>3 DEF Clients, ClientsOf, Servers
<1> QED
  BY Invariance, EveryoneIsAsked, <1>1, PTL

\* Only the two servers and the sync manager ever use up their share: a server
\* only on a client of its own that was slow, never on streams that are read, the
\* sync manager only on a Fetch whose context was alive.
THEOREM OnlySlowFail == Spec => OnlySlowTimesOut
<1> DEFINE Excused(c) == \/ c \in Servers /\ slow \cap ClientsOf(c) # {}
                         \/ c = "sync" /\ (~Cancelled \/ cancelledAt >= due)
<1>1. ASSUME Inv, [Next]_vars, NEW c \in failed' \ failed
      PROVE  Excused(c)
  <2>1. Expire
    BY <1>1 DEF Next, Load, Signal, Launch, Shutdown, Stopping, Ask, Succeed, Return, Tick,
                Listen, ServeFails, ServerClosed, Report, Become, FetchReturns, BeginFetch,
                Quits, Move, ClientSteps, Connect, Subscribe, Stall, Resume, StreamEnds, ClientLeaves, Flow, progress, vars
  <2>2. c = current /\ current # "" /\ elapsed >= due
    BY <1>1, <2>1 DEF Expire
  <2>3. ~(elapsed < due)
    <3>1. elapsed \in Nat /\ due \in Nat
      BY <1>1, Parts DEF Numbers
    <3>2. elapsed >= due
      BY <2>2
    <3> QED
      BY <3>1, <3>2
  <2>4. c = "sync" \/ c \in Servers
    BY <1>1, <2>2, <2>3, Parts DEF TimeIsForTheSlow, Servers
  <2>5. CASE c \in Servers
    BY <1>1, <2>2, <2>3, <2>5, Parts DEF TimeIsForTheSlow
  <2>6. CASE c = "sync"
    <3>1. Cancelled => cancelledAt = elapsed
      BY <1>1, <2>2, <2>6, Parts DEF TimeIsForTheSlow
    <3>2. Cancelled => cancelledAt >= due
      BY <2>2, <3>1
    <3> QED
      BY <2>6, <3>2
  <2> QED
    BY <2>4, <2>5, <2>6
<1>2. Inv /\ [Next]_vars => [\A c \in failed' \ failed : Excused(c)]_vars
  BY <1>1
<1> QED
  BY Invariance, <1>2, PTL DEF Spec, OnlySlowTimesOut
-----------------------------------------------------------------------------
(***************************************************************************)
(* What the process runs with.  These facts need nothing of the shutdown.  *)
(***************************************************************************)
Effective == ApplyEnvOverrides(file, env)

Configured == /\ stage \in {"loading", "refused", "serving", "stopping", "exited"}
              /\ file \in Files
              /\ stage = "refused" => file = NoFile \/ ~Valid(Effective)
              /\ Running => /\ file # NoFile /\ Valid(Effective)
                            /\ config = Effective /\ DOMAIN poller = Polled(config)

LEMMA LoadConfigures ==
    ASSUME Configured, Load
    PROVE  Configured'
<1>1. file' = file /\ Effective' = Effective
  BY DEF Load, inputs, Effective
<1>2. CASE file # NoFile /\ Valid(Effective)
  <2>1. stage' = "serving" /\ config' = Effective /\ poller' = [p \in Polled(Effective) |-> "off"]
    BY <1>2 DEF Load, Effective
  <2>2. DOMAIN poller' = Polled(config')
    BY <2>1
  <2> QED
    BY <1>1, <1>2, <2>1, <2>2 DEF Configured, Running
<1>3. CASE ~(file # NoFile /\ Valid(Effective))
  <2>1. stage' = "refused"
    BY <1>3 DEF Load, Effective
  <2> QED
    BY <1>1, <1>3, <2>1 DEF Configured, Running
<1> QED
  BY <1>2, <1>3

\* After Load nothing touches the configuration or the set of pollers.
LEMMA ConfigurationStays ==
    ASSUME [Next]_vars, ~Load
    PROVE  /\ UNCHANGED <<file, env, config>> /\ DOMAIN poller' = DOMAIN poller
           /\ \/ stage' = stage
              \/ stage = "serving" /\ stage' = "stopping"
              \/ stage = "stopping" /\ stage' = "exited"
<1>1. CASE Signal \/ Launch \/ Tick
  BY <1>1 DEF Signal, Launch, Tick, inputs, parts
<1>2. CASE Shutdown
  BY <1>2 DEF Shutdown, Stopping, Ask, Succeed, Expire, Return, inputs, parts
<1>3. CASE \E s \in Servers : Listen(s) \/ ServeFails(s) \/ ServerClosed(s) \/ Report(s)
  BY <1>3 DEF Listen, ServeFails, ServerClosed, Report, inputs
<1>4. CASE \E p \in DOMAIN poller : FetchReturns(p) \/ BeginFetch(p) \/ Quits(p)
  BY <1>4 DEF FetchReturns, BeginFetch, Quits, Move, inputs
<1>5. CASE \E r \in Clients : ClientSteps(r)
  BY <1>5 DEF ClientSteps, Connect, Subscribe, Stall, Resume, StreamEnds, ClientLeaves, Flow, inputs
<1>6. CASE UNCHANGED vars
  BY <1>6 DEF vars
<1> QED
  BY <1>1, <1>2, <1>3, <1>4, <1>5, <1>6 DEF Next, ClientSteps

LEMMA AlwaysConfigured == Spec => []Configured
<1>1. Init => Configured
  BY DEF Init, Configured, Running
<1>2. Configured /\ [Next]_vars => Configured'
  <2> SUFFICES ASSUME Configured, [Next]_vars
               PROVE  Configured'
    OBVIOUS
  <2>1. CASE Load
    BY <2>1, LoadConfigures
  <2>2. CASE ~Load
    <3>1. Effective' = Effective /\ file' = file
      BY <2>2, ConfigurationStays DEF Effective
    <3> QED
      BY <2>2, <3>1, ConfigurationStays DEF Configured, Running
  <2> QED
    BY <2>1, <2>2
<1> QED
  BY <1>1, <1>2, PTL DEF Spec

\* A provider's token is the environment's or else the file's; its type is the file's.
LEMMA EffectiveFields ==
    ASSUME file \in Files \ {NoFile}
    PROVE  /\ DOMAIN Effective.providers = DOMAIN file.providers
           /\ \A a \in DOMAIN file.providers :
                 /\ Effective.providers[a].token = TokenOf(a)
                 /\ Effective.providers[a].type = file.providers[a].type
<1>1. DOMAIN Effective.providers = DOMAIN file.providers
  BY DEF Effective, ApplyEnvOverrides
<1>2. ASSUME NEW a \in DOMAIN file.providers
      PROVE  /\ Effective.providers[a].token = TokenOf(a)
             /\ Effective.providers[a].type = file.providers[a].type
  <2>1. "token" \in DOMAIN file.providers[a] /\ "type" \in DOMAIN file.providers[a]
    BY FilesAssumption
  <2>2. Effective.providers[a] =
            [f \in DOMAIN file.providers[a] |-> ProviderField(file, env, a, f)]
    BY DEF Effective, ApplyEnvOverrides
  <2>3. /\ Effective.providers[a].token = ProviderField(file, env, a, "token")
        /\ Effective.providers[a].type = ProviderField(file, env, a, "type")
    BY <2>1, <2>2
  <2>4. ProviderField(file, env, a, "token") = TokenOf(a)
    BY DEF ProviderField, Override, TokenOf
  <2>5. ProviderField(file, env, a, "type") = file.providers[a].type
    BY DEF ProviderField
  <2> QED
    BY <2>3, <2>4, <2>5
<1> QED
  BY <1>1, <1>2

\* The process starts exactly as the file and the environment together say.
THEOREM StartsAsConfigured == Spec => []RunsAsConfigured
<1>1. Configured => RunsAsConfigured
  <2> SUFFICES ASSUME Configured PROVE RunsAsConfigured
    OBVIOUS
  <2>1. ASSUME stage = "refused", file # NoFile
        PROVE  \E a \in DOMAIN file.providers :
                  \/ TokenOf(a) = ""
                  \/ /\ file.providers[a].type # ""
                     /\ Lower[file.providers[a].type] \notin AdapterTypes
    <3>1. ~Valid(Effective) /\ file \in Files \ {NoFile}
      BY <2>1 DEF Configured
    <3>2. PICK a \in DOMAIN Effective.providers :
             ~(/\ Effective.providers[a].token # ""
               /\ \/ Effective.providers[a].type = ""
                  \/ Lower[Effective.providers[a].type] \in AdapterTypes)
      BY <3>1 DEF Valid
    <3> QED
      BY <3>1, <3>2, EffectiveFields
  <2>2. ASSUME Running, NEW a \in DOMAIN file.providers
        PROVE  /\ config.providers[a].token = TokenOf(a) /\ TokenOf(a) # ""
               /\ \/ a \in DOMAIN poller
                  \/ file.providers[a].type = "" /\ Lower[a] \notin AdapterTypes
    <3>1. /\ file \in Files \ {NoFile} /\ Valid(Effective)
          /\ config = Effective /\ DOMAIN poller = Polled(Effective)
      BY <2>2 DEF Configured
    <3>2. /\ a \in DOMAIN Effective.providers
          /\ Effective.providers[a].token = TokenOf(a)
          /\ Effective.providers[a].type = file.providers[a].type
      BY <3>1, EffectiveFields
    <3>3. /\ Effective.providers[a].token # ""
          /\ \/ Effective.providers[a].type = ""
             \/ Lower[Effective.providers[a].type] \in AdapterTypes
      BY <3>1, <3>2 DEF Valid
    <3>4. a \in Polled(Effective) \/ (file.providers[a].type = "" /\ Lower[a] \notin AdapterTypes)
      BY <3>2, <3>3 DEF Polled, AdapterType
    <3> QED
      BY <3>1, <3>2, <3>3, <3>4
  <2> QED
    BY <2>1, <2>2 DEF RunsAsConfigured
<1> QED
  BY AlwaysConfigured, <1>1, PTL

-----------------------------------------------------------------------------
(* The refinement of Workers, with the whole shutdown as the caller of the   *)
(* sync manager's Stop.                                                      *)

LEMMA Roles ==
    /\ Role["off"] = "off" /\ Role["fetching"] = "busy" /\ Role["waiting"] = "ready"
    /\ Role["ended"] = "gone" /\ Role["stray"] = "busy"
BY DEF Role

LEMMA WorkOf ==
    ASSUME NEW p \in AllPollers
    PROVE  Work[p] = IF p \in DOMAIN poller THEN Role[poller[p]] ELSE "off"
BY DEF Work

\* A poller that moves moves the worker it is, and no other.
LEMMA MoveWork ==
    ASSUME NEW p \in DOMAIN poller, NEW place, poller' = [poller EXCEPT ![p] = place]
    PROVE  \/ p \in AllPollers /\ Work' = [Work EXCEPT ![p] = Role[place]]
           \/ Work' = Work
BY DEF Work

LEMMA CallsOf ==
    /\ UNCHANGED Answer => UNCHANGED Call
    /\ Answer' = "called" => Call' = [Call EXCEPT !["sync"] = "called"]
    /\ Answer' = "answered" => Call' = [Call EXCEPT !["sync"] = "answered"]
    /\ Call["sync"] = Answer
BY DEF Call

\* While the configuration is loaded nothing is polled.
NonePolled == stage = "loading" => DOMAIN poller = {}

LEMMA NonePolledFirst == Spec => []NonePolled
<1>1. Init => NonePolled
  <2>1. Init => poller = << >>
    BY DEF Init
  <2>2. DOMAIN << >> = {}
    OBVIOUS
  <2> QED
    BY <2>1, <2>2 DEF NonePolled
<1>2. NonePolled /\ [Next]_vars => NonePolled'
  <2> SUFFICES ASSUME NonePolled, [Next]_vars, stage' = "loading"
               PROVE  DOMAIN poller' = {}
    BY DEF NonePolled
  <2>1. CASE UNCHANGED vars
    BY <2>1 DEF vars, NonePolled
  <2>2. ASSUME Next PROVE FALSE
    <3>1. ~Load /\ ~Shutdown /\ ~Tick
      BY DEF Load, Shutdown, Stopping, Ask, Succeed, Expire, Return, Tick
    <3>2. ~Signal /\ ~Launch
      BY DEF Signal, Launch, Running
    <3>3. ASSUME NEW s \in Servers
          PROVE  ~(Listen(s) \/ ServeFails(s) \/ ServerClosed(s) \/ Report(s))
      BY DEF Listen, ServeFails, ServerClosed, Report, Running
    <3>4. ASSUME NEW p \in DOMAIN poller
          PROVE  ~(FetchReturns(p) \/ BeginFetch(p) \/ Quits(p))
      BY DEF FetchReturns, BeginFetch, Quits, Move, Running
    <3>5. ASSUME NEW r \in Clients
          PROVE  ~ClientSteps(r)
      BY DEF ClientSteps, Connect, Subscribe, Stall, Resume, StreamEnds, ClientLeaves, Flow, Running
    <3> QED
      BY <2>2, <3>1, <3>2, <3>3, <3>4, <3>5 DEF Next, ClientSteps
  <2> QED
    BY <2>1, <2>2
<1> QED
  BY <1>1, <1>2, PTL DEF Spec

LEMMA WorkersQuiet ==
    ASSUME UNCHANGED <<Work, Told, Answer>>
    PROVE  UNCHANGED W!workVars
<1>1. UNCHANGED Call
  BY CallsOf
<1> QED
  BY <1>1 DEF W!workVars, Work, Told, Call, Answer

LEMMA WorkersInit == Init => W!Init
<1> SUFFICES ASSUME Init PROVE W!Init
  OBVIOUS
<1>1. poller = << >> /\ asked = {} /\ ~Cancelled
  BY DEF Init, Cancelled, Never
<1>2. DOMAIN poller = {}
  BY <1>1
<1>3. Work = [p \in AllPollers |-> "off"]
  BY <1>2 DEF Work
<1>4. Call = [c \in {"sync"} |-> "none"] /\ Told = FALSE
  BY <1>1 DEF Call, Answer, Told
<1> QED
  BY <1>3, <1>4 DEF W!Init

LEMMA WorkersPoll ==
    ASSUME Inv, NEW p \in DOMAIN poller, FetchReturns(p) \/ BeginFetch(p) \/ Quits(p)
    PROVE  [W!Next]_(W!workVars)
<1>1. UNCHANGED <<Told, Answer>>
  BY DEF FetchReturns, BeginFetch, Quits, Move, progress, Told, Answer, Cancelled
<1>2. UNCHANGED Call
  BY <1>1, CallsOf
<1>3. CASE Work' = Work
  BY <1>1, <1>3, WorkersQuiet
<1>4. CASE p \in AllPollers /\ Work' # Work
  <2>1. Work[p] = Role[poller[p]]
    BY <1>4, WorkOf
  <2>2. CASE FetchReturns(p)
    <3>1. poller[p] = "fetching" /\ poller' = [poller EXCEPT ![p] = "waiting"]
      BY <2>2 DEF FetchReturns, Move
    <3>2. Work' = [Work EXCEPT ![p] = Role["waiting"]]
      BY <1>4, <3>1, MoveWork
    <3>3. Work' = [Work EXCEPT ![p] = "ready"] /\ Work[p] = "busy"
      BY <2>1, <3>1, <3>2, Roles
    <3> QED
      BY <1>1, <1>2, <1>4, <3>3 DEF W!Next, W!Fetched
  <2>3. CASE BeginFetch(p)
    <3>1. poller[p] = "waiting" /\ poller' = [poller EXCEPT ![p] = "fetching"]
      BY <2>3 DEF BeginFetch, Move
    <3>2. Work' = [Work EXCEPT ![p] = Role["fetching"]]
      BY <1>4, <3>1, MoveWork
    <3>3. Work' = [Work EXCEPT ![p] = "busy"] /\ Work[p] = "ready"
      BY <2>1, <3>1, <3>2, Roles
    <3> QED
      BY <1>1, <1>2, <1>4, <3>3 DEF W!Next, W!Fetch
  <2>4. CASE Quits(p)
    <3>1. poller[p] = "waiting" /\ poller' = [poller EXCEPT ![p] = "ended"] /\ Told
      BY <2>4 DEF Quits, Move, Told
    <3>2. Work' = [Work EXCEPT ![p] = Role["ended"]]
      BY <1>4, <3>1, MoveWork
    <3>3. Work' = [Work EXCEPT ![p] = "gone"] /\ Work[p] = "ready"
      BY <2>1, <3>1, <3>2, Roles
    <3> QED
      BY <1>1, <1>2, <1>4, <3>1, <3>3 DEF W!Next, W!Leave
  <2> QED
    BY <2>2, <2>3, <2>4
<1>5. p \in AllPollers \/ Work' = Work
  BY MoveWork DEF FetchReturns, BeginFetch, Quits, Move
<1> QED
  BY <1>3, <1>4, <1>5

LEMMA WorkersLaunch ==
    ASSUME Inv, Launch
    PROVE  [W!Next]_(W!workVars)
<1> DEFINE group == AllPollers \cap DOMAIN poller
<1>1. UNCHANGED <<Told, Answer>>
  BY DEF Launch, progress, Told, Answer, Cancelled
<1>2. UNCHANGED Call
  BY <1>1, CallsOf
<1>3. /\ \A p \in DOMAIN poller : poller[p] = "off" /\ poller'[p] \in {"stray", "fetching"}
      /\ DOMAIN poller' = DOMAIN poller
  BY DEF Launch
<1>4. \A p \in AllPollers : Work'[p] = IF p \in group THEN "busy" ELSE Work[p]
  BY <1>3, Roles DEF Work
<1>5. Work' = [p \in AllPollers |-> IF p \in group THEN "busy" ELSE Work[p]]
  <2>1. Work' = [p \in AllPollers |-> Work'[p]]
    BY DEF Work
  <2> QED
    BY <1>4, <2>1
<1>6. \A p \in group : Work[p] = "off"
  BY <1>3, WorkOf, Roles
<1>7. group \in SUBSET AllPollers
  OBVIOUS
<1> HIDE DEF group
<1>8. W!Launch(group)
  BY <1>1, <1>2, <1>5, <1>6, <1>7 DEF W!Launch
<1>9. \E g \in SUBSET AllPollers : W!Launch(g)
  BY <1>7, <1>8
<1> QED
  BY <1>9 DEF W!Next

LEMMA SyncFirst ==
    /\ AskedBefore(0) = {} /\ Latest(1) = "sync"
    /\ \A k \in 1 .. 5 : "sync" \in AskedBefore(k) /\ Latest(k + 1) # "sync"
<1>1. AskedBefore(0) = {} /\ Latest(1) = "sync"
  BY DEF AskedBefore, Latest
<1>2. ASSUME NEW k \in 1 .. 5
      PROVE  "sync" \in AskedBefore(k)
  BY DEF AskedBefore
<1>3. ASSUME NEW k \in 1 .. 5
      PROVE  Latest(k + 1) # "sync"
  BY DEF Latest
<1> QED
  BY <1>1, <1>2, <1>3

\* Shutdown asks the sync manager first, and once.
LEMMA WorkersAsk ==
    ASSUME Inv, Ask
    PROVE  [W!Next]_(W!workVars)
<1>1. UNCHANGED <<cancelledAt, poller, failed>>
  BY DEF Ask, parts
<1>2. UNCHANGED Work
  BY <1>1 DEF Work
<1>3. /\ current = "" /\ current' = Head(queue) /\ queue # << >>
      /\ asked' = asked \cup {Head(queue)} /\ stage = "stopping"
  BY DEF Ask
<1>4. PICK k \in 0 .. 5 : Reached(k)
  BY <1>3, Parts DEF Phases, At
<1>5. /\ k + 1 \in 1 .. 5 /\ Head(queue) = Latest(k + 1)
      /\ asked = AskedBefore(k)
  BY <1>3, <1>4, Advance DEF Reached
<1>6. CASE k = 0
  <2>1. asked = {} /\ current' = "sync" /\ "sync" \in asked'
    <3>1. k + 1 = 1
      BY <1>6
    <3>2. Head(queue) = "sync" /\ asked = {}
      BY <1>5, <1>6, <3>1, SyncFirst
    <3> QED
      BY <1>3, <3>2
  <2>2. Answer = "none" /\ Answer' = "called" /\ Told' = TRUE
    BY <2>1 DEF Answer, Told
  <2>3. Call' = [Call EXCEPT !["sync"] = "called"] /\ Call["sync"] = "none"
    BY <2>2, CallsOf
  <2> QED
    BY <1>2, <2>2, <2>3 DEF W!Next, W!Ask
<1>7. CASE k # 0
  <2>1. "sync" \in asked /\ "sync" \in asked' /\ current' # "sync"
    <3>1. k \in 1 .. 5
      BY <1>7
    <3>2. Head(queue) # "sync" /\ "sync" \in asked
      BY <1>5, <3>1, SyncFirst
    <3> QED
      BY <1>3, <3>2
  <2>2. UNCHANGED <<Told, Answer>>
    BY <1>1, <1>3, <2>1 DEF Told, Answer, Cancelled
  <2> QED
    BY <1>2, <2>2, WorkersQuiet
<1> QED
  BY <1>6, <1>7

LEMMA WorkersSucceed ==
    ASSUME Inv, Succeed
    PROVE  [W!Next]_(W!workVars)
<1>1. UNCHANGED <<cancelledAt, poller, failed, asked>> /\ current # "" /\ current' = ""
  BY DEF Succeed, parts
<1>2. UNCHANGED <<Work, Told>>
  BY <1>1 DEF Work, Told, Cancelled
<1>3. CASE current = "sync" /\ "sync" \notin failed
  <2>1. "sync" \in asked
    BY <1>1, <1>3, Parts DEF Books
  <2>2. Answer = "called" /\ Answer' = "answered"
    BY <1>1, <1>3, <2>1 DEF Answer
  <2>3. Call' = [Call EXCEPT !["sync"] = "answered"] /\ Call["sync"] = "called"
    BY <2>2, CallsOf
  <2>4. \A p \in DOMAIN poller : poller[p] \in {"off", "ended"}
    BY <1>3, WaitsFor DEF Succeed
  <2>5. \A p \in AllPollers : Work[p] \in {"off", "gone"}
    BY <2>4, WorkOf, Roles
  <2>6. W!AtWork = {}
    BY <2>5 DEF W!AtWork, Work
  <2> QED
    BY <1>2, <2>3, <2>6 DEF W!Next, W!Answer
<1>4. CASE current # "sync" \/ "sync" \in failed
  <2>1. UNCHANGED Answer
    BY <1>1, <1>4 DEF Answer
  <2> QED
    BY <1>2, <2>1, WorkersQuiet
<1> QED
  BY <1>3, <1>4

\* The other steps do not show in the workers: not even the end of the sync
\* manager's time, after which its Stop is never heard of.
LEMMA WorkersOther ==
    ASSUME Inv, NonePolled,
           \/ Load \/ Stopping \/ Expire \/ Return \/ Tick \/ UNCHANGED vars
           \/ \E s \in Servers : Listen(s) \/ ServeFails(s) \/ ServerClosed(s) \/ Report(s)
           \/ \E r \in Clients : ClientSteps(r)
    PROVE  UNCHANGED W!workVars
<1>1. asked' = asked /\ cancelledAt' = cancelledAt
  BY DEF Load, Stopping, Expire, Return, Tick, vars, Listen, ServeFails, ServerClosed,
     Report, ClientSteps, Connect, Subscribe, Stall, Resume, StreamEnds, ClientLeaves, Become, Flow, progress, parts
<1>2. UNCHANGED Told
  BY <1>1 DEF Told, Cancelled
<1>3. UNCHANGED Answer
  <2>1. CASE Expire
    BY <2>1 DEF Expire, Answer
  <2>2. CASE ~Expire
    <3>1. UNCHANGED <<current, failed>>
      BY <2>2 DEF Load, Stopping, Return, Tick, vars, Listen, ServeFails, ServerClosed,
         Report, ClientSteps, Connect, Subscribe, Stall, Resume, StreamEnds, ClientLeaves, Become, Flow, progress, parts
    <3> QED
      BY <1>1, <3>1 DEF Answer
  <2> QED
    BY <2>1, <2>2
<1>4. UNCHANGED Work
  <2>1. CASE Load
    <3>1. poller' = poller \/ \A p \in DOMAIN poller' : poller'[p] = "off"
      BY <2>1 DEF Load
    <3>2. DOMAIN poller = {}
      BY <2>1 DEF Load, NonePolled
    <3> QED
      BY <3>1, <3>2, Roles DEF Work
  <2>2. CASE ~Load
    <3>1. poller' = poller
      BY <2>2 DEF Stopping, Expire, Return, Tick, vars, Listen, ServeFails, ServerClosed,
         Report, ClientSteps, Connect, Subscribe, Stall, Resume, StreamEnds, ClientLeaves, Become, Flow, progress, parts
    <3> QED
      BY <3>1 DEF Work
  <2> QED
    BY <2>1, <2>2
<1> QED
  BY <1>2, <1>3, <1>4, WorkersQuiet

LEMMA WorkersNext == Inv /\ NonePolled /\ [Next]_vars => [W!Next]_(W!workVars)
<1> SUFFICES ASSUME Inv, NonePolled, [Next]_vars PROVE [W!Next]_(W!workVars)
  OBVIOUS
<1>1. CASE Signal
  <2>1. UNCHANGED <<poller, current, failed, asked>> /\ Cancelled'
    BY <1>1, Parts DEF Signal, parts, progress, Cancelled, Never, Numbers
  <2>2. UNCHANGED <<Work, Answer>> /\ Told' = TRUE
    BY <2>1 DEF Work, Answer, Told
  <2>3. UNCHANGED Call
    BY <2>2, CallsOf
  <2> QED
    BY <2>2, <2>3 DEF W!Next, W!Tell
<1> QED
  BY <1>1, WorkersPoll, WorkersLaunch, WorkersAsk, WorkersSucceed, WorkersOther
     DEF Next, Shutdown, ClientSteps

\* What shutdown sees of the sync manager is what the sync manager promises: its
\* Stop succeeds only at a moment when no poller is at work, for any
\* configuration and however the pollers, signals and expiries interleave.
THEOREM ImplementsWorkers == Spec => WorkersSpec
BY WorkersInit, WorkersNext, Invariance, NonePolledFirst, PTL DEF Spec, WorkersSpec, W!Spec
=============================================================================
