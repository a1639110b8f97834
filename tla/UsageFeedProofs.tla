--------------------------- MODULE UsageFeedProofs ---------------------------
(***************************************************************************)
(* Theorems of UsageFeed, for any set of platforms and any number of       *)
(* updates.                                                                *)
(***************************************************************************)
EXTENDS UsageFeed, TLAPS

(***************************************************************************)
(* The inductive invariant.  BatchIsFresh speaks of complete batches; what *)
(* carries it is that, while a batch is built, every platform that is not  *)
(* still to be read has a version that is fresh, because it was read or    *)
(* because nothing was stored when the batch was begun.                    *)
(***************************************************************************)
Building(a) == pc[a] \in {"reading", "ws"}

EmptyBefore == \A a \in Publishers : ~Building(a) => batch[a] = Nothing

TodoOnlyReading == \A a \in Publishers : pc[a] # "reading" => todo[a] = {}

ReadIsFresh ==
    \A a \in Publishers : Building(a) =>
        \A p \in Platforms : /\ floor[a][p] <= version[p]
                             /\ batch[a][p] <= version[p]
                             /\ p \notin todo[a] => floor[a][p] <= batch[a][p]

OwnSnapshot ==
    \A p \in Platforms : /\ pc[p] # "idle" => given[p] = version[p] /\ version[p] > 0
                         /\ Building(p) => p \in todo[p] \/ batch[p][p] = version[p]

GaugeLag == \A p \in Platforms :
               gauge[p] = IF pc[p] = "idle" THEN version[p] ELSE version[p] - 1

Inv == /\ TypeOK /\ EmptyBefore /\ TodoOnlyReading
       /\ ReadIsFresh /\ OwnSnapshot /\ GaugeLag

\* Versions are numbers, and counting up below the bound stays among them.
LEMMA VersionsAreNumbers ==
    /\ \A v \in Versions : v \in Nat
    /\ \A p \in Platforms : 0 \in Versions
    /\ \A p \in Platforms, v \in Versions : v < MaxVersion[p] => v + 1 \in Versions
BY VersionAssumption DEF Versions

LEMMA NothingIsTyped == Nothing \in [Platforms -> Versions]
BY VersionsAreNumbers DEF Nothing

LEMMA StateIsNumbers ==
    ASSUME TypeOK
    PROVE  /\ \A p \in Platforms : version[p] \in Nat /\ gauge[p] \in Nat
           /\ \A a \in Publishers, p \in Platforms :
                 batch[a][p] \in Nat /\ floor[a][p] \in Nat
<1>1. /\ \A p \in Platforms : version[p] \in Versions /\ gauge[p] \in Versions
      /\ \A a \in Publishers, p \in Platforms :
            batch[a][p] \in Versions /\ floor[a][p] \in Versions
  BY DEF TypeOK
<1> QED
  BY <1>1, VersionsAreNumbers

-----------------------------------------------------------------------------
LEMMA InitInv == Init => Inv
<1> SUFFICES ASSUME Init PROVE Inv
  OBVIOUS
<1> USE DEF Init
<1>1. TypeOK
  BY NothingIsTyped DEF TypeOK, Publishers, Transports
<1>2. EmptyBefore /\ TodoOnlyReading /\ ReadIsFresh
  BY DEF EmptyBefore, TodoOnlyReading, ReadIsFresh, Building
<1>3. OwnSnapshot
  BY DEF OwnSnapshot, Building, Publishers
<1>4. GaugeLag
  BY DEF GaugeLag, Publishers
<1> QED
  BY <1>1, <1>2, <1>3, <1>4 DEF Inv

LEMMA TickInv == Inv /\ Tick => Inv'
<1> SUFFICES ASSUME Inv, Tick PROVE Inv'
  OBVIOUS
<1> USE PublishersAssumption DEF Inv, Tick, Goto
<1>1. TypeOK'
  BY DEF TypeOK, Publishers
<1>2. EmptyBefore' /\ TodoOnlyReading'
  BY DEF EmptyBefore, TodoOnlyReading, Building, TypeOK, Publishers
<1>3. ReadIsFresh'
  BY DEF ReadIsFresh, Building, TypeOK, Publishers
<1>4. OwnSnapshot' /\ GaugeLag'
  BY DEF OwnSnapshot, GaugeLag, Building, TypeOK, Publishers
<1> QED
  BY <1>1, <1>2, <1>3, <1>4

LEMMA UpdateInv == ASSUME Inv, NEW q \in Platforms, Update(q) PROVE Inv'
<1> USE PublishersAssumption, VersionsAreNumbers DEF Inv, Update, Goto
<1>1. TypeOK'
  BY DEF TypeOK, Publishers
<1>2. EmptyBefore' /\ TodoOnlyReading'
  BY DEF EmptyBefore, TodoOnlyReading, Building, TypeOK, Publishers
<1>3. \A p \in Platforms :
         /\ version[p] \in Nat
         /\ version'[p] = IF p = q THEN version[p] + 1 ELSE version[p]
  BY StateIsNumbers DEF TypeOK
<1>4. ReadIsFresh'
  <2> SUFFICES ASSUME NEW a \in Publishers, Building(a)', NEW p \in Platforms
               PROVE  /\ floor[a][p] <= version'[p]
                      /\ batch[a][p] <= version'[p]
                      /\ p \notin todo[a] => floor[a][p] <= batch[a][p]
    BY DEF ReadIsFresh
  <2>1. Building(a)
    BY DEF Building, TypeOK, Publishers
  <2>2. floor[a][p] \in Nat /\ batch[a][p] \in Nat
    BY StateIsNumbers
  <2> QED
    BY <1>3, <2>1, <2>2 DEF ReadIsFresh
<1>5. OwnSnapshot'
  BY <1>3 DEF OwnSnapshot, Building, TypeOK, Publishers
<1>6. GaugeLag'
  BY <1>3 DEF GaugeLag, TypeOK, Publishers
<1> QED
  BY <1>1, <1>2, <1>4, <1>5, <1>6

LEMMA ListInv == ASSUME Inv, NEW a \in Publishers, List(a) PROVE Inv'
<1> USE PublishersAssumption, VersionsAreNumbers DEF Inv, List, Goto
<1>1. TypeOK'
  BY DEF TypeOK, Publishers, Stored
<1>2. EmptyBefore' /\ TodoOnlyReading'
  BY DEF EmptyBefore, TodoOnlyReading, Building, TypeOK, Publishers
<1>3. ReadIsFresh'
  <2> SUFFICES ASSUME NEW b \in Publishers, Building(b)', NEW p \in Platforms
               PROVE  /\ floor'[b][p] <= version[p]
                      /\ batch[b][p] <= version[p]
                      /\ p \notin todo'[b] => floor'[b][p] <= batch[b][p]
    BY DEF ReadIsFresh
  <2>1. version[p] \in Nat
    BY StateIsNumbers
  <2>2. CASE b = a
    <3>1. batch[b][p] = 0
      BY <2>2 DEF EmptyBefore, Building, Nothing
    <3>2. floor'[b][p] = version[p] /\ todo'[b] = Stored
      BY <2>2 DEF TypeOK
    <3> QED
      BY <2>1, <3>1, <3>2 DEF Stored
  <2>3. CASE b # a
    BY <2>3 DEF ReadIsFresh, Building, TypeOK
  <2> QED
    BY <2>2, <2>3
<1>4. OwnSnapshot'
  BY DEF OwnSnapshot, Building, TypeOK, Publishers, Stored
<1>5. GaugeLag'
  BY DEF GaugeLag, TypeOK, Publishers
<1> QED
  BY <1>1, <1>2, <1>3, <1>4, <1>5

LEMMA ReadInv ==
    ASSUME Inv, NEW a \in Publishers, NEW q \in Platforms, Read(a, q)
    PROVE  Inv'
<1> USE PublishersAssumption, VersionsAreNumbers DEF Inv, Read
<1>1. /\ batch' \in [Publishers -> [Platforms -> Versions]]
      /\ \A b \in Publishers, p \in Platforms :
            batch'[b][p] = IF b = a /\ p = q THEN version[q] ELSE batch[b][p]
      /\ \A b \in Publishers : todo'[b] = IF b = a THEN todo[a] \ {q} ELSE todo[b]
  BY DEF TypeOK
<1>2. TypeOK'
  BY <1>1 DEF TypeOK
<1>3. EmptyBefore' /\ TodoOnlyReading'
  BY DEF EmptyBefore, TodoOnlyReading, Building, TypeOK
<1>4. ReadIsFresh'
  <2> SUFFICES ASSUME NEW b \in Publishers, Building(b)', NEW p \in Platforms
               PROVE  /\ floor[b][p] <= version[p]
                      /\ batch'[b][p] <= version[p]
                      /\ p \notin todo'[b] => floor[b][p] <= batch'[b][p]
    BY DEF ReadIsFresh
  <2>1. Building(b)
    BY DEF Building
  <2>2. version[p] \in Nat /\ floor[b][p] \in Nat /\ batch[b][p] \in Nat
    BY StateIsNumbers
  <2> QED
    BY <1>1, <2>1, <2>2 DEF ReadIsFresh
<1>5. OwnSnapshot'
  BY <1>1 DEF OwnSnapshot, Building, Publishers
<1>6. GaugeLag'
  BY DEF GaugeLag
<1> QED
  BY <1>2, <1>3, <1>4, <1>5, <1>6

LEMMA OfferedInv ==
    ASSUME Inv, NEW a \in Publishers, Offered(a),
           seen' \in [Transports -> [Platforms -> Versions]]
    PROVE  Inv'
<1> USE PublishersAssumption, VersionsAreNumbers DEF Inv, Offered, Goto, Complete
<1>1. pc[a] = "reading" \/ pc[a] = "ws"
  OBVIOUS
<1>2. TypeOK'
  <2>1. /\ batch' \in [Publishers -> [Platforms -> Versions]]
        /\ floor' \in [Publishers -> [Platforms -> Versions]]
    BY NothingIsTyped DEF TypeOK, Forget
  <2>2. pc' \in [Publishers -> {"idle", "listing", "reading", "ws", "gauge"}]
    <3>1. CASE pc[a] = "reading"
      BY <3>1 DEF TypeOK
    <3>2. CASE pc[a] # "reading" /\ a = Ticker
      BY <3>2 DEF TypeOK
    <3>3. CASE pc[a] # "reading" /\ a # Ticker
      BY <3>3 DEF TypeOK
    <3> QED
      BY <3>1, <3>2, <3>3
  <2>3. pc'[Ticker] # "gauge"
    BY DEF TypeOK, Publishers
  <2>4. UNCHANGED <<version, given, todo, gauge>>
    OBVIOUS
  <2> QED
    BY <2>1, <2>2, <2>3, <2>4 DEF TypeOK
<1>3. EmptyBefore'
  BY <1>1 DEF EmptyBefore, Building, TypeOK, Forget
<1>4. TodoOnlyReading'
  BY <1>1 DEF TodoOnlyReading, TypeOK
<1>5. ReadIsFresh'
  <2> SUFFICES ASSUME NEW b \in Publishers, Building(b)', NEW p \in Platforms
               PROVE  /\ floor'[b][p] <= version[p]
                      /\ batch'[b][p] <= version[p]
                      /\ p \notin todo[b] => floor'[b][p] <= batch'[b][p]
    BY DEF ReadIsFresh
  <2>1. Building(b) /\ batch'[b] = batch[b] /\ floor'[b] = floor[b]
    BY <1>1 DEF Building, TypeOK, Forget
  <2> QED
    BY <2>1 DEF ReadIsFresh
<1>6. OwnSnapshot'
  <2> SUFFICES ASSUME NEW p \in Platforms
               PROVE  /\ pc'[p] # "idle" => given[p] = version[p] /\ version[p] > 0
                      /\ Building(p)' => p \in todo[p] \/ batch'[p][p] = version[p]
    BY DEF OwnSnapshot
  <2>1. p \in Publishers
    BY DEF Publishers
  <2>2. pc'[p] # "idle" => pc[p] # "idle"
    BY <1>1, <2>1 DEF TypeOK
  <2>3. Building(p)' => Building(p) /\ batch'[p] = batch[p]
    BY <1>1, <2>1 DEF Building, TypeOK, Forget
  <2> QED
    BY <2>2, <2>3 DEF OwnSnapshot
<1>7. GaugeLag'
  BY <1>1 DEF GaugeLag, TypeOK, Publishers
<1> QED
  BY <1>2, <1>3, <1>4, <1>5, <1>6, <1>7

LEMMA AcceptInv == ASSUME Inv, NEW a \in Publishers, Accept(a) PROVE Inv'
<1>1. seen' \in [Transports -> [Platforms -> Versions]]
  BY DEF Inv, TypeOK, Accept, Target, Transports
<1> QED
  BY <1>1, OfferedInv DEF Accept

LEMMA DropInv == ASSUME Inv, NEW a \in Publishers, DropBatch(a) PROVE Inv'
<1>1. seen' \in [Transports -> [Platforms -> Versions]]
  BY DEF Inv, TypeOK, DropBatch
<1> QED
  BY <1>1, OfferedInv DEF DropBatch

LEMMA GaugesInv == ASSUME Inv, NEW q \in Platforms, Gauges(q) PROVE Inv'
<1> USE PublishersAssumption DEF Inv, Gauges, Goto
<1>1. TypeOK'
  BY DEF TypeOK, Publishers
<1>2. EmptyBefore' /\ TodoOnlyReading'
  BY DEF EmptyBefore, TodoOnlyReading, Building, TypeOK, Publishers
<1>3. ReadIsFresh'
  BY DEF ReadIsFresh, Building, TypeOK, Publishers
<1>4. OwnSnapshot'
  BY DEF OwnSnapshot, Building, TypeOK, Publishers
<1>5. GaugeLag'
  BY DEF GaugeLag, OwnSnapshot, TypeOK, Publishers
<1> QED
  BY <1>1, <1>2, <1>3, <1>4, <1>5

-----------------------------------------------------------------------------
\* Every step keeps the invariant.
LEMMA NextInv == Inv /\ [Next]_vars => Inv'
<1> SUFFICES ASSUME Inv, [Next]_vars PROVE Inv'
  OBVIOUS
<1>1. CASE Tick
  BY <1>1, TickInv
<1>2. ASSUME NEW p \in Platforms, Update(p) PROVE Inv'
  BY <1>2, UpdateInv
<1>3. ASSUME NEW p \in Platforms, Gauges(p) PROVE Inv'
  BY <1>3, GaugesInv
<1>4. ASSUME NEW a \in Publishers, Publish(a) PROVE Inv'
  BY <1>4, ListInv, AcceptInv, DropInv, ReadInv DEF Publish
<1>5. CASE UNCHANGED vars
  BY <1>5 DEF vars, Inv, TypeOK, EmptyBefore, TodoOnlyReading, ReadIsFresh, OwnSnapshot,
              GaugeLag, Building
<1> QED
  BY <1>1, <1>2, <1>3, <1>4, <1>5 DEF Next

\* The invariant holds in every reachable state of the publication of usage data.
THEOREM Invariance == Spec => []Inv
<1>1. Init => Inv
  BY InitInv
<1>2. Inv /\ [Next]_vars => Inv'
  BY NextInv
<1> QED
  BY <1>1, <1>2, PTL DEF Spec

\* Type correctness of store, batches, transports and gauges.
THEOREM TypeCorrect == Spec => []TypeOK
<1>1. Inv => TypeOK
  BY DEF Inv
<1> QED
  BY <1>1, Invariance, PTL

\* A batch that Responses has read, lock by lock, holds nothing older than what
\* was stored when it was begun, and a poller's batch holds its own update.
THEOREM BatchesAreFresh == Spec => []BatchIsFresh
<1>1. Inv => BatchIsFresh
  <2> SUFFICES ASSUME Inv, NEW a \in Publishers, Complete(a)
               PROVE  /\ \A p \in Platforms :
                            floor[a][p] <= batch[a][p] /\ batch[a][p] <= version[p]
                      /\ a \in Platforms => batch[a][a] = version[a]
    BY DEF BatchIsFresh
  <2>1. todo[a] = {} /\ Building(a)
    BY DEF Inv, TodoOnlyReading, Complete, Building
  <2> QED
    BY <2>1 DEF Inv, ReadIsFresh, OwnSnapshot
<1> QED
  BY <1>1, Invariance, PTL

\* The Prometheus gauges of a platform follow the store: they agree with it when
\* its poller is between two fetches and lag by at most one update meanwhile.
THEOREM GaugesFollow == Spec => []GaugesAgree
<1>1. Inv => GaugesAgree
  <2> SUFFICES ASSUME Inv, NEW p \in Platforms
               PROVE  /\ version[p] - gauge[p] \in {0, 1}
                      /\ pc[p] = "idle" => gauge[p] = version[p]
    BY DEF GaugesAgree
  <2>1. version[p] \in Nat /\ gauge[p] \in Nat
    BY StateIsNumbers DEF Inv
  <2>2. CASE pc[p] = "idle"
    <3>1. gauge[p] = version[p]
      BY <2>2 DEF Inv, GaugeLag
    <3> QED
      BY <2>1, <3>1
  <2>3. CASE pc[p] # "idle"
    <3>1. gauge[p] = version[p] - 1
      BY <2>3 DEF Inv, GaugeLag
    <3>2. version[p] - gauge[p] = 1
      BY <2>1, <3>1
    <3> QED
      BY <2>3, <3>2
  <2> QED
    BY <2>2, <2>3
<1> QED
  BY <1>1, Invariance, PTL
=============================================================================
