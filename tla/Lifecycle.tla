----------------------------- MODULE Lifecycle -----------------------------
(***************************************************************************)
(* The life of the process: start-up from the configuration, the two HTTP  *)
(* servers, and the shutdown that a signal or a server error brings about. *)
(* The sync manager, the broker and the hub are reduced to what shutdown   *)
(* needs of them; their own modules have the rest.                         *)
(*                                                                         *)
(* Time passes only where the coordinator waits for something slow: a      *)
(* provider's answer under a context that is not cancelled, or a client    *)
(* that does not take what the server has for it.                          *)
(***************************************************************************)
EXTENDS Config, Sequences, FiniteSets

CONSTANTS Files,        \* configuration files; one that is not readable is NoFile
          NoFile,
          Envs,         \* environments
          ApiClients,   \* requests to the API server, for /api/v1/stream or another path
          MetricsClients,   \* requests to the metrics server
          MinShare      \* one second

ASSUME ShareAssumption == MinShare \in Nat \ {0} /\ 5 * MinShare <= MinTimeout
\* A provider's configuration is a struct with a type and a token.
ASSUME FilesAssumption ==
    \A f \in Files \ {NoFile} : \A a \in DOMAIN f.providers :
        {"type", "token"} \subseteq DOMAIN f.providers[a]
\* A max_stale_duration is a time.Duration.
ASSUME StaleAssumption ==
    \A f \in Files \ {NoFile}, e \in Envs : ApplyEnvOverrides(f, e).maxStale \in Int

ASSUME ClientsAssumption == ApiClients \cap MetricsClients = {}

Never == -1

VARIABLES file, env,    \* what the process finds
          config,       \* the configuration it runs with
          stage,        \* "loading", "refused", "serving", "stopping", "exited"
          cancelledAt,  \* the time at which main's context was cancelled, or Never
          server,       \* per server: where its ListenAndServe goroutine is
          serverErr,    \* elements in the channel of that name
          poller,       \* per polled provider: "off", "fetching", "waiting", "ended", or,
                        \*   launched after the sync manager's Stop has returned, "stray"
          conn,         \* per client: "none"; "open", a request the client has not sent to
                        \*   its end or whose answer it has not taken; "live", a stream whose
                        \*   handler waits in its select; "stalled", a stream whose handler
                        \*   waits in a write for the client to read; "late", a stream
                        \*   subscribed on a stopped broker; "closed"
          queue,        \* components still to be shut down
          current,      \* the one whose Shutdown is running, or ""
          asked,        \* those whose Stop or Shutdown has been called
          due,          \* when the current one's context expires
          elapsed,      \* time since shutdown began
          failed,       \* those whose Shutdown returned an error
          slow          \* clients that their server's Shutdown has spent time on

inputs == <<file, env>>
parts == <<server, serverErr, poller, conn>>
progress == <<queue, current, asked, due, elapsed, failed, slow>>
vars == <<file, env, config, stage, cancelledAt, server, serverErr, poller, conn,
          queue, current, asked, due, elapsed, failed, slow>>

Cancelled == cancelledAt # Never
Running == stage \in {"serving", "stopping"}
Servers == {"api", "metrics"}

-----------------------------------------------------------------------------
(* Start-up *)

\* Bug: the file is validated, not what the environment made of it.
LoadChecksFile ==
    /\ stage = "loading"
    /\ IF file # NoFile /\ Valid(file)
       THEN LET cfg == ApplyEnvOverrides(file, env)
            IN  /\ stage' = "serving" /\ config' = cfg
                /\ poller' = [p \in Polled(cfg) |-> "off"]
       ELSE stage' = "refused" /\ UNCHANGED <<config, poller>>
    /\ UNCHANGED <<inputs, cancelledAt, server, serverErr, conn, progress>>

Load ==
    /\ stage = "loading"
    /\ IF file # NoFile /\ Valid(ApplyEnvOverrides(file, env))
       THEN LET cfg == ApplyEnvOverrides(file, env)
            IN  /\ stage' = "serving" /\ config' = cfg
                /\ poller' = [p \in Polled(cfg) |-> "off"]
       ELSE stage' = "refused" /\ UNCHANGED <<config, poller>>
    /\ UNCHANGED <<inputs, cancelledAt, server, serverErr, conn, progress>>

Signal == /\ Running /\ ~Cancelled
          /\ cancelledAt' = elapsed
          /\ UNCHANGED <<inputs, config, stage, parts, progress>>

-----------------------------------------------------------------------------
(* The servers.  One that cannot listen, or whose accept fails, reports it;  *)
(* Shutdown ends ListenAndServe without an error, at once if it comes first. *)

Become(s, state) == server' = [server EXCEPT ![s] = state]

Listen(s) == /\ Running /\ server[s] = "starting" /\ s \notin asked
             /\ Become(s, "serving")
             /\ UNCHANGED <<inputs, config, stage, cancelledAt, serverErr, poller, conn, progress>>

ServeFails(s) == /\ Running /\ server[s] \in {"starting", "serving"} /\ s \notin asked
                 /\ Become(s, "reporting")
                 /\ UNCHANGED <<inputs, config, stage, cancelledAt, serverErr, poller, conn,
                                progress>>

ServerClosed(s) == /\ Running /\ server[s] \in {"starting", "serving"} /\ s \in asked
                   /\ Become(s, "closed")
                   /\ UNCHANGED <<inputs, config, stage, cancelledAt, serverErr, poller, conn,
                                  progress>>

\* Bug: the send does not wait for room in the channel.
ReportAnyway(s) == /\ Running /\ server[s] = "reporting"
                   /\ Become(s, "closed") /\ serverErr' = serverErr + 1
                   /\ UNCHANGED <<inputs, config, stage, cancelledAt, poller, conn, progress>>

Report(s) == /\ Running /\ server[s] = "reporting" /\ serverErr = 0
             /\ Become(s, "closed") /\ serverErr' = serverErr + 1
             /\ UNCHANGED <<inputs, config, stage, cancelledAt, poller, conn, progress>>

-----------------------------------------------------------------------------
(* The sync manager *)

Move(p, state) == /\ poller' = [poller EXCEPT ![p] = state]
                  /\ UNCHANGED <<inputs, config, stage, cancelledAt, server, serverErr, conn,
                                 progress>>

\* Start launches the pollers, whether Stop was called before or not.
Launch == /\ Running /\ \A p \in DOMAIN poller : poller[p] = "off"
          /\ poller' = [p \in DOMAIN poller |->
                           IF "sync" \in asked /\ current # "sync" THEN "stray" ELSE "fetching"]
          /\ UNCHANGED <<inputs, config, stage, cancelledAt, server, serverErr, conn, progress>>

FetchReturns(p) == Running /\ poller[p] = "fetching" /\ Move(p, "waiting")

BeginFetch(p) == Running /\ poller[p] = "waiting" /\ Move(p, "fetching")

Quits(p) == /\ Running /\ poller[p] = "waiting"
            /\ Cancelled \/ "sync" \in asked
            /\ Move(p, "ended")

-----------------------------------------------------------------------------
(* Clients.  A server waits for every request in flight, of whatever path,   *)
(* and sets no deadline for reading or writing.  WebSocket connections are   *)
(* hijacked: no server waits for them.                                       *)

ClientsOf(c) == CASE c = "api" -> ApiClients
                  [] c = "metrics" -> MetricsClients
                  [] OTHER -> {}
Clients == ApiClients \cup MetricsClients

BrokerDone == "sse" \in asked

Flow(r, state) == /\ conn' = [conn EXCEPT ![r] = state]
                  /\ UNCHANGED <<inputs, config, stage, cancelledAt, server, serverErr, poller,
                                 progress>>

Connect(r) == /\ Running /\ conn[r] = "none"
              /\ \E s \in Servers : r \in ClientsOf(s) /\ server[s] = "serving" /\ s \notin asked
              /\ Flow(r, "open")

\* StreamHandler has sent its header and subscribes, even if its server's
\* Shutdown has been called since.
Subscribe(r) == /\ Running /\ r \in ApiClients /\ conn[r] = "open"
                /\ Flow(r, "live") \/ (BrokerDone /\ Flow(r, "late"))

\* Fprintf or Flush finds the client's buffers full, until the client reads.
Stall(r) == Running /\ conn[r] = "live" /\ Flow(r, "stalled")

Resume(r) == Running /\ conn[r] = "stalled" /\ Flow(r, "live")

StreamEnds(r) == Running /\ conn[r] = "live" /\ BrokerDone /\ Flow(r, "closed")

\* The client has taken the answer or gives up.
ClientLeaves(r) == /\ Running /\ conn[r] \in {"open", "live", "stalled", "late"}
                   /\ Flow(r, "closed")

-----------------------------------------------------------------------------
(* Shutdown *)

Registered == <<"api", "metrics", "sse", "ws", "sync">>
Components == {"api", "metrics", "sse", "ws", "sync"}

\* Bug: in the order of registration.
OrderForward == Registered

ShutdownOrder == [i \in 1 .. Len(Registered) |-> Registered[Len(Registered) + 1 - i]]

Share == LET share == ShutdownTimeout(config) \div Len(Registered)
         IN  IF share < MinShare THEN MinShare ELSE share

\* Run leaves its select, by the context or by a server's error, and calls Stop.
Stopping == /\ stage = "serving"
            /\ \/ Cancelled /\ UNCHANGED serverErr
               \/ serverErr > 0 /\ serverErr' = serverErr - 1
            /\ stage' = "stopping" /\ queue' = ShutdownOrder
            /\ UNCHANGED <<inputs, config, cancelledAt, server, poller, conn, current, asked,
                           due, elapsed, failed, slow>>

Ask == /\ stage = "stopping" /\ current = "" /\ queue # <<>>
       /\ current' = Head(queue) /\ queue' = Tail(queue)
       /\ asked' = asked \cup {Head(queue)}
       /\ due' = IF elapsed + Share < ShutdownTimeout(config) THEN elapsed + Share
                 ELSE ShutdownTimeout(config)
       /\ UNCHANGED <<inputs, config, stage, cancelledAt, parts, elapsed, failed, slow>>

\* What the Stop or Shutdown of c waits for: the broker's and the hub's only
\* close a channel.
Finished(c) == CASE c = "sync" -> \A p \in DOMAIN poller : poller[p] \in {"off", "ended"}
                 [] c \in Servers -> \A r \in ClientsOf(c) : conn[r] \in {"none", "closed"}
                 [] OTHER -> TRUE

Succeed == /\ stage = "stopping" /\ current # "" /\ Finished(current)
           /\ current' = ""
           /\ UNCHANGED <<inputs, config, stage, cancelledAt, parts, queue, asked, due, elapsed,
                          failed, slow>>

\* Bug: the first failure ends the shutdown.
ExpireReturns == /\ stage = "stopping" /\ current # "" /\ elapsed >= due
                 /\ failed' = failed \cup {current} /\ current' = "" /\ queue' = <<>>
                 /\ UNCHANGED <<inputs, config, stage, cancelledAt, parts, asked, due, elapsed,
                                slow>>

\* Bug: a failure is logged and forgotten.
ExpireForgets == /\ stage = "stopping" /\ current # "" /\ elapsed >= due
                 /\ current' = ""
                 /\ UNCHANGED <<inputs, config, stage, cancelledAt, parts, queue, asked, due,
                                elapsed, failed, slow>>

\* Bug: Shutdown waits for its component whatever its context says.
ExpireNever == FALSE /\ UNCHANGED vars

Expire == /\ stage = "stopping" /\ current # "" /\ elapsed >= due
          /\ failed' = failed \cup {current} /\ current' = ""
          /\ UNCHANGED <<inputs, config, stage, cancelledAt, parts, queue, asked, due, elapsed,
                         slow>>

Return == /\ stage = "stopping" /\ current = "" /\ queue = <<>>
          /\ stage' = "exited"
          /\ UNCHANGED <<inputs, config, cancelledAt, parts, progress>>

\* Something will happen without delay.
Prompt == \/ Finished(current)
          \/ BrokerDone /\ \E r \in Clients : conn[r] = "live"
          \/ \E p \in DOMAIN poller :
                \/ poller[p] = "fetching" /\ Cancelled
                \/ poller[p] = "waiting" /\ (Cancelled \/ "sync" \in asked)

Tick == /\ stage = "stopping" /\ current # "" /\ elapsed < due /\ ~Prompt
        /\ elapsed' = elapsed + 1
        /\ slow' = slow \cup {r \in ClientsOf(current) : conn[r] \in {"open", "stalled", "late"}}
        /\ UNCHANGED <<inputs, config, stage, cancelledAt, parts, queue, current, asked, due, failed>>

-----------------------------------------------------------------------------
Init == /\ file \in Files /\ env \in Envs
        /\ config = NoFile /\ stage = "loading" /\ cancelledAt = Never
        /\ server = [s \in Servers |-> "starting"] /\ serverErr = 0
        /\ poller = <<>>
        /\ conn = [r \in Clients |-> "none"] /\ slow = {}
        /\ queue = <<>> /\ current = "" /\ asked = {} /\ due = 0 /\ elapsed = 0 /\ failed = {}

Shutdown == Stopping \/ Ask \/ Succeed \/ Expire \/ Return

Next == \/ Load \/ Signal \/ Launch \/ Shutdown \/ Tick
        \/ \E s \in Servers : Listen(s) \/ ServeFails(s) \/ ServerClosed(s) \/ Report(s)
        \/ \E p \in DOMAIN poller : FetchReturns(p) \/ BeginFetch(p) \/ Quits(p)
        \/ \E r \in Clients : \/ Connect(r) \/ Subscribe(r) \/ Stall(r) \/ Resume(r)
                             \/ StreamEnds(r) \/ ClientLeaves(r)

Spec == Init /\ [][Next]_vars

AllPollers == UNION {DOMAIN f.providers : f \in Files \ {NoFile}}

\* The goroutines run on, and the clock does.  A poller that finds its timer
\* and the stop channel ready takes the latter in the end.  The closed channel of
\* a stream holds finitely many messages, so its handler stalls finitely often.
FairSpec == /\ Spec
            /\ WF_vars(Load) /\ WF_vars(Shutdown) /\ WF_vars(Tick)
            /\ \A s \in Servers : WF_vars(Report(s))
            /\ \A r \in ApiClients : SF_vars(StreamEnds(r))
            /\ \A p \in AllPollers :
                  /\ WF_vars(p \in DOMAIN poller /\ FetchReturns(p))
                  /\ SF_vars(p \in DOMAIN poller /\ Quits(p))

-----------------------------------------------------------------------------
(* Properties *)

\* Types: at most one server error is pending, the component in Shutdown has
\* been asked, and none runs beyond the overall timeout.
TypeOK == /\ stage \in {"loading", "refused", "serving", "stopping", "exited"}
          /\ cancelledAt \in Int /\ elapsed \in Nat /\ due \in Nat
          /\ server \in [Servers -> {"starting", "serving", "reporting", "closed"}]
          /\ serverErr \in 0 .. 1
          /\ \A p \in DOMAIN poller : poller[p] \in {"off", "fetching", "waiting", "ended", "stray"}
          /\ conn \in [Clients -> {"none", "open", "live", "stalled", "late", "closed"}]
          /\ slow \subseteq Clients
          /\ asked \subseteq Components /\ failed \subseteq asked
          /\ current \in asked \cup {""}
          /\ config # NoFile => elapsed <= due /\ due <= ShutdownTimeout(config)

\* The process starts exactly with a readable file that, with the environment
\* laid over it, gives every provider a token and no unknown type.  It then
\* polls each of them, except those that say no type and whose alias is none.
TokenOf(a) == IF <<Upper[a], "token">> \in DOMAIN env.says
              THEN env.says[<<Upper[a], "token">>] ELSE file.providers[a].token
RunsAsConfigured ==
    /\ stage = "refused" =>
          \/ file = NoFile
          \/ \E a \in DOMAIN file.providers :
                \/ TokenOf(a) = ""
                \/ /\ file.providers[a].type # ""
                   /\ Lower[file.providers[a].type] \notin AdapterTypes
    /\ Running =>
          \A a \in DOMAIN file.providers :
             /\ config.providers[a].token = TokenOf(a) /\ TokenOf(a) # ""
             /\ a \in DOMAIN poller \/ (file.providers[a].type = "" /\ Lower[a] \notin AdapterTypes)

\* By the time Run returns every component has been asked to shut down,
\* whichever of them failed or ran out of its time.
EveryoneAsked == stage = "exited" => asked = Components /\ current = ""

\* Run returns nil only when nothing is left behind: the pollers have ended
\* (or were not launched before Stop returned) and no request of a client, nor a
\* stream, is still being served.
NilMeansQuiet ==
    (stage = "exited" /\ failed = {}) =>
        /\ \A r \in Clients : conn[r] \in {"none", "closed"}
        /\ \A p \in DOMAIN poller : poller[p] \in {"ended", "off", "stray"}

\* The order of shutdown lets everybody finish: a server's share runs out only
\* if it was spent on a client of that server that had not sent its request or
\* taken its answer, did not read its stream, or whose stream was subscribed
\* after the broker had stopped; streams that are read cost nothing.  The sync
\* manager's runs out only if the context was not cancelled before.  The others
\* never fail.
OnlySlowTimesOut ==
    [][ \A c \in failed' \ failed :
           \/ c \in Servers /\ slow \cap ClientsOf(c) # {}
           \/ c = "sync" /\ (~Cancelled \/ cancelledAt >= due) ]_vars

\* After a signal, or once a server has failed, the process ends, even if
\* clients hold connections open for ever.
Terminates == (Running /\ (Cancelled \/ serverErr > 0)) ~> (stage = "exited")

-----------------------------------------------------------------------------
Role == [off |-> "off", fetching |-> "busy", waiting |-> "ready", ended |-> "gone",
         stray |-> "busy"]

Work == [p \in AllPollers |-> IF p \in DOMAIN poller THEN Role[poller[p]] ELSE "off"]
Told == Cancelled \/ "sync" \in asked
Answer == IF "sync" \notin asked THEN "none"
          ELSE IF current = "sync" \/ "sync" \in failed THEN "called" ELSE "answered"
Call == [c \in {"sync"} |-> Answer]

W == INSTANCE Workers WITH
       Worker <- AllPollers, Callers <- {"sync"}, work <- Work, told <- Told, call <- Call

\* The pollers that shutdown sees keep the promise that the sync manager is
\* shown to keep: its Stop succeeds only at a moment when none is at work, and
\* none ends before the context is cancelled or that Stop is called.
WorkersSpec == W!Spec
=============================================================================
