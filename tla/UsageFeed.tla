------------------------------ MODULE UsageFeed ------------------------------
(***************************************************************************)
(* From store.Update to the dashboards: every poller and the one-second    *)
(* broadcaster build a batch of all snapshots and hand it to the SSE       *)
(* broker, then to the WebSocket hub.  A batch is read platform by         *)
(* platform, one lock each, so publishers interleave with each other and   *)
(* with updates, and a transport may receive batches in another order than *)
(* they were built, or miss one.                                           *)
(*                                                                         *)
(* A snapshot is its version.  An alias is the platform of one provider,   *)
(* so only the poller of a platform updates it.                            *)
(***************************************************************************)
EXTENDS Naturals

CONSTANTS Platforms,   \* the aliases of the configured providers
          Ticker,      \* the broadcaster's goroutine
          MaxVersion   \* bound: MaxVersion[p] updates of platform p

ASSUME PublishersAssumption == Ticker \notin Platforms
ASSUME VersionAssumption == MaxVersion \in [Platforms -> Nat]

Publishers == Platforms \cup {Ticker}
Transports == {"sse", "ws"}
Versions == UNION {0 .. MaxVersion[p] : p \in Platforms}

VARIABLES
    version,  \* the version of s.snapshots[p], 0 when there is none
    given,    \* given[p]: the version Update passed to the callback
    pc,       \* pc[a]: where publisher a is
    todo,     \* todo[a]: platforms Responses has listed and not yet read
    batch,    \* batch[a]: the versions in the batch under construction, 0 for none
    seen,     \* seen[t]: the last batch transport t accepted
    gauge,    \* gauge[p]: the version the Prometheus gauges of p were set from
    floor     \* history: the versions stored when the batch of a was begun

vars == <<version, given, pc, todo, batch, seen, gauge, floor>>

Nothing == [p \in Platforms |-> 0]

Init == /\ version = Nothing
        /\ given = Nothing
        /\ pc = [a \in Publishers |-> "idle"]
        /\ todo = [a \in Publishers |-> {}]
        /\ batch = [a \in Publishers |-> Nothing]
        /\ seen = [t \in Transports |-> Nothing]
        /\ gauge = Nothing
        /\ floor = [a \in Publishers |-> Nothing]

Goto(a, place) == pc' = [pc EXCEPT ![a] = place]

-----------------------------------------------------------------------------
(* store.Update: the version is counted up under the lock, and the callback *)
(* runs after the unlock, in the poller's goroutine.                        *)

\* Bug: the callback is given the snapshot before its version was counted up.
UpdateStale(p) == /\ pc[p] = "idle"
                  /\ version[p] < MaxVersion[p]
                  /\ version' = [version EXCEPT ![p] = @ + 1]
                  /\ given' = [given EXCEPT ![p] = version[p]]
                  /\ Goto(p, "listing")
                  /\ UNCHANGED <<todo, batch, seen, gauge, floor>>

Update(p) == /\ pc[p] = "idle"
             /\ version[p] < MaxVersion[p]
             /\ version' = [version EXCEPT ![p] = @ + 1]
             /\ given' = [given EXCEPT ![p] = version[p] + 1]
             /\ Goto(p, "listing")
             /\ UNCHANGED <<todo, batch, seen, gauge, floor>>

Tick == /\ pc[Ticker] = "idle"
        /\ Goto(Ticker, "listing")
        /\ UNCHANGED <<version, given, todo, batch, seen, gauge, floor>>

-----------------------------------------------------------------------------
(* Responses: Platforms under one lock, then Get of each under its own *)

Stored == {p \in Platforms : version[p] > 0}

List(a) == /\ pc[a] = "listing"
           /\ todo' = [todo EXCEPT ![a] = Stored]
           /\ floor' = [floor EXCEPT ![a] = version]
           /\ Goto(a, "reading")
           /\ UNCHANGED <<version, given, batch, seen, gauge>>

\* Bug: the snapshots are those of the previous batch where there was one.
ReadCached(a, p) == /\ pc[a] = "reading"
                    /\ p \in todo[a]
                    /\ todo' = [todo EXCEPT ![a] = @ \ {p}]
                    /\ batch' = [batch EXCEPT ![a][p] =
                                   IF seen["sse"][p] > 0 THEN seen["sse"][p] ELSE version[p]]
                    /\ UNCHANGED <<version, given, pc, seen, gauge, floor>>

Read(a, p) == /\ pc[a] = "reading"
              /\ p \in todo[a]
              /\ todo' = [todo EXCEPT ![a] = @ \ {p}]
              /\ batch' = [batch EXCEPT ![a][p] = version[p]]
              /\ UNCHANGED <<version, given, pc, seen, gauge, floor>>

-----------------------------------------------------------------------------
(* publishCurrentUsage: Publish on the broker, then Broadcast on the hub.   *)
(* Either drops the batch when its Run is not waiting for one (see          *)
(* SSEBroker and WSHub).                                                    *)

\* The batch and its history are forgotten once both transports were offered it.
Forget(a) == IF pc[a] = "reading" THEN UNCHANGED <<batch, floor>>
             ELSE /\ batch' = [batch EXCEPT ![a] = Nothing]
                  /\ floor' = [floor EXCEPT ![a] = Nothing]

\* The transport that a offers its batch to next
Target(a) == IF pc[a] = "reading" THEN "sse" ELSE "ws"

Complete(a) == (pc[a] = "reading" /\ todo[a] = {}) \/ pc[a] = "ws"

\* Bug: the broadcaster goes on to the gauges, like the callback of Update.
OfferedToGauges(a) == /\ Complete(a)
                      /\ Goto(a, IF pc[a] = "reading" THEN "ws" ELSE "gauge")
                      /\ Forget(a)
                      /\ UNCHANGED <<version, given, todo, gauge>>

Offered(a) == /\ Complete(a)
              /\ Goto(a, IF pc[a] = "reading" THEN "ws"
                         ELSE IF a = Ticker THEN "idle" ELSE "gauge")
              /\ Forget(a)
              /\ UNCHANGED <<version, given, todo, gauge>>

\* Bug: a transport that holds a batch accepts no later one.
AcceptOnce(a) == /\ Offered(a)
                 /\ seen' = [seen EXCEPT ![Target(a)] = IF @ = Nothing THEN batch[a] ELSE @]

Accept(a) == /\ Offered(a)
             /\ seen' = [seen EXCEPT ![Target(a)] = batch[a]]

DropBatch(a) == Offered(a) /\ UNCHANGED seen

\* UpdateFromSnapshot, with the snapshot the callback was given
Gauges(p) == /\ pc[p] = "gauge"
             /\ gauge' = [gauge EXCEPT ![p] = given[p]]
             /\ Goto(p, "idle")
             /\ UNCHANGED <<version, given, todo, batch, seen, floor>>

-----------------------------------------------------------------------------
Publish(a) == \/ List(a) \/ Accept(a) \/ DropBatch(a)
              \/ \E p \in Platforms : Read(a, p)

Next == \/ Tick
        \/ \E p \in Platforms : Update(p) \/ Gauges(p)
        \/ \E a \in Publishers : Publish(a)

Spec == Init /\ [][Next]_vars

(***************************************************************************)
(* Fairness.  The broadcaster ticks every second and every goroutine runs. *)
(* Run of the broker and of the hub comes back to its select after every   *)
(* case it serves, so of the endless ticks some are accepted, unless the   *)
(* transport is stopped.  No fetch need ever succeed.                      *)
(***************************************************************************)
Fairness == /\ WF_vars(Tick)
            /\ \A a \in Publishers : WF_vars(Publish(a))
            /\ \A t \in Transports : SF_vars(Target(Ticker) = t /\ Accept(Ticker))

FairSpec == Spec /\ Fairness

-----------------------------------------------------------------------------
(* Properties *)

\* Every variable has its type.
TypeOK == /\ version \in [Platforms -> Versions]
          /\ given \in [Platforms -> Versions]
          /\ pc \in [Publishers -> {"idle", "listing", "reading", "ws", "gauge"}]
          /\ pc[Ticker] # "gauge"
          /\ todo \in [Publishers -> SUBSET Platforms]
          /\ batch \in [Publishers -> [Platforms -> Versions]]
          /\ seen \in [Transports -> [Platforms -> Versions]]
          /\ gauge \in [Platforms -> Versions]
          /\ floor \in [Publishers -> [Platforms -> Versions]]

\* A batch that is published holds, for every platform, a version no older than
\* the one stored when the batch was begun, although it is read lock by lock;
\* the batch of a poller holds the very snapshot that its Update stored.
BatchIsFresh ==
    \A a \in Publishers : Complete(a) =>
        /\ \A p \in Platforms : floor[a][p] <= batch[a][p] /\ batch[a][p] <= version[p]
        /\ a \in Platforms => batch[a][a] = version[a]

\* The metrics agree with the store whenever a poller is between two fetches,
\* and in between they lag by one update at most.
GaugesAgree == \A p \in Platforms : /\ version[p] - gauge[p] \in {0, 1}
                                    /\ pc[p] = "idle" => gauge[p] = version[p]

\* Once every provider's data has come to rest, both transports end up with all
\* of it and never again go back, although batches were dropped and reordered.
Settles == (version = MaxVersion)
               ~> [](\A t \in Transports : seen[t] = version)
=============================================================================
