----------------------------- MODULE WSHubProofs -----------------------------
(***************************************************************************)
(* Theorems of WSHub, for any set of clients, any channel capacity and any *)
(* number of messages.                                                     *)
(***************************************************************************)
EXTENDS WSHub, SequenceTheorems, TLAPS

(***************************************************************************)
(* The inductive invariant.  As in the SSE broker, a channel in the map is *)
(* open and a broadcast is under way only while Run is working.  What      *)
(* writePump adds: outside its batching loop it counts no message, so that *)
(* its other receive cannot take one it has counted.                       *)
(***************************************************************************)
MapIsOpen == \A c \in clients : ~closed[c]

Fresh == \A c \in Clients : handler[c] # "returned" =>
            c \notin clients /\ buf[c] = << >> /\ ~closed[c]

TodoOnlyWorking == loop # "working" => todo = {}

CountsInLoop == \A c \in Clients : writer[c] # "draining" => drain[c] = 0

Inv == TypeOK /\ NoPanic /\ MapIsOpen /\ Fresh /\ TodoOnlyWorking /\ CountsInLoop /\ NoSkip

Loops == {"off", "select", "working", "cleanup", "returned"}
Readers == {"none", "reading", "unregistering", "closing", "returned"}

-----------------------------------------------------------------------------
LEMMA InitInv == Init => Inv
<1> SUFFICES ASSUME Init PROVE Inv
  OBVIOUS
<1> USE DEF Init
<1>1. buf \in [Clients -> Seq(1 .. MaxMsgs)] /\ \A c \in Clients : Len(buf[c]) = 0
  OBVIOUS
<1>2. TypeOK
  <2>1. \A c \in Clients : drain[c] <= Len(buf[c]) /\ Len(buf[c]) <= BufSize
    BY <1>1, BufAssumption
  <2>2. /\ accepted \in 0 .. MaxMsgs
        /\ last \in [Clients -> 0 .. MaxMsgs]
        /\ drain \in [Clients -> 0 .. BufSize]
    BY MsgsAssumption, BufAssumption
  <2>3. /\ handler \in [Clients -> {"none", "registering", "returned"}]
        /\ writer \in [Clients -> Places]
        /\ reader \in [Clients -> Readers]
        /\ closed \in [Clients -> BOOLEAN]
        /\ open \in [Clients -> BOOLEAN]
        /\ peer \in [Clients -> BOOLEAN]
    BY DEF Places, Readers
  <2> QED
    BY <1>1, <2>1, <2>2, <2>3 DEF TypeOK, Readers
<1>3. NoPanic /\ MapIsOpen /\ Fresh /\ TodoOnlyWorking /\ CountsInLoop
  BY DEF NoPanic, MapIsOpen, Fresh, TodoOnlyWorking, CountsInLoop
<1>4. NoSkip
  BY <1>1 DEF NoSkip
<1> QED
  BY <1>2, <1>3, <1>4 DEF Inv

\* What a step does to the pumps and the connections, if not to the channels
PumpsTyped == /\ done' \in BOOLEAN
              /\ handler' \in [Clients -> {"none", "registering", "returned"}]
              /\ writer' \in [Clients -> Places]
              /\ drain' \in [Clients -> 0 .. BufSize]
              /\ reader' \in [Clients -> Readers]
              /\ open' \in [Clients -> BOOLEAN]
              /\ peer' \in [Clients -> BOOLEAN]
              /\ \A c \in Clients : handler'[c] # "returned" => handler[c] # "returned"
              /\ \A c \in Clients : writer'[c] # "draining" => drain'[c] = 0

\* Steps that leave the channels and the map alone keep everything about them.
LEMMA QuietInv ==
    ASSUME Inv, PumpsTyped,
           UNCHANGED <<todo, clients, panicked, accepted, buf, closed, last>>,
           todo = {} \/ loop' = loop,
           loop' \in Loops,
           \A c \in Clients : drain'[c] <= Len(buf[c])
    PROVE  Inv'
<1> USE DEF Inv, PumpsTyped
<1>1. TypeOK'
  BY DEF TypeOK, Loops, Readers
<1>2. NoPanic' /\ MapIsOpen' /\ Fresh' /\ TodoOnlyWorking' /\ CountsInLoop'
  BY DEF TypeOK, NoPanic, MapIsOpen, Fresh, TodoOnlyWorking, CountsInLoop
<1>3. NoSkip'
  BY DEF NoSkip, Pending
<1> QED
  BY <1>1, <1>2, <1>3

LEMMA PumpsUnchanged ==
    ASSUME Inv, UNCHANGED <<pumpVars, connVars>>, done' \in BOOLEAN
    PROVE  PumpsTyped /\ \A c \in Clients : drain'[c] <= Len(buf[c])
BY DEF Inv, TypeOK, CountsInLoop, PumpsTyped, pumpVars, connVars, Readers

LEMMA RegisterInv ==
    ASSUME Inv, NEW c \in Clients, Register(c)
    PROVE  Inv'
<1> USE DEF Inv, Register, connVars
<1>1. TypeOK'
  BY DEF TypeOK, Places
<1>2. NoPanic' /\ MapIsOpen' /\ Fresh' /\ TodoOnlyWorking'
  BY DEF TypeOK, NoPanic, MapIsOpen, Fresh, TodoOnlyWorking
<1>3. CountsInLoop'
  <2>1. buf[c] = << >> /\ drain[c] = 0
    BY DEF Fresh, TypeOK
  <2> QED
    BY <2>1 DEF TypeOK, CountsInLoop
<1>4. NoSkip'
  BY DEF TypeOK, Fresh, TodoOnlyWorking, NoSkip, Pending
<1> QED
  BY <1>1, <1>2, <1>3, <1>4

\* Drop, wherever it happens, with no broadcast pending for the dropped one after.
LEMMA DropInv ==
    ASSUME Inv, PumpsTyped, NEW c \in clients, Drop(c),
           UNCHANGED <<accepted, buf, last>>,
           todo' = todo \ {c},
           loop' = loop \/ loop' = "working",
           \A b \in Clients : drain'[b] <= Len(buf[b])
    PROVE  Inv'
<1> USE DEF Inv, PumpsTyped, Drop, Use
<1>1. c \in Clients
  BY DEF TypeOK
<1>2. TypeOK'
  BY <1>1 DEF TypeOK, Readers
<1>3. NoPanic' /\ MapIsOpen'
  BY <1>1 DEF TypeOK, NoPanic, MapIsOpen
<1>4. Fresh' /\ TodoOnlyWorking' /\ CountsInLoop'
  BY <1>1 DEF TypeOK, Fresh, TodoOnlyWorking, CountsInLoop
<1>5. NoSkip'
  BY DEF TypeOK, NoSkip, Pending
<1> QED
  BY <1>2, <1>3, <1>4, <1>5

LEMMA BroadcastInv ==
    ASSUME Inv, Broadcast
    PROVE  Inv'
<1> USE DEF Inv, Broadcast, chanVars, connVars, pumpVars
<1>1. TypeOK'
  BY MsgsAssumption DEF TypeOK
<1>2. NoPanic' /\ MapIsOpen' /\ Fresh' /\ TodoOnlyWorking' /\ CountsInLoop'
  BY DEF NoPanic, MapIsOpen, Fresh, TodoOnlyWorking, CountsInLoop
<1>3. NoSkip'
  BY DEF TypeOK, TodoOnlyWorking, NoSkip, Pending
<1> QED
  BY <1>1, <1>2, <1>3

LEMMA SendInv ==
    ASSUME Inv, NEW c \in Clients, Send(c)
    PROVE  Inv'
<1> USE DEF Inv, connVars, pumpVars
<1>1. c \in clients /\ ~closed[c]
  BY DEF Send, TypeOK, MapIsOpen
<1>2. CASE Len(buf[c]) < BufSize
  <2>1. /\ buf' = [buf EXCEPT ![c] = Append(buf[c], accepted)]
        /\ todo' = todo \ {c}
        /\ UNCHANGED <<clients, closed, loop, done, accepted, last>>
        /\ UNCHANGED <<handler, writer, drain, reader, open, peer>>
        /\ panicked' = panicked
    BY <1>1, <1>2 DEF Send, Use, TypeOK, NoPanic
  <2>2. last[c] + Len(buf[c]) = accepted - 1
    BY <1>1 DEF Send, TypeOK, NoSkip, Pending
  <2>3. accepted \in 1 .. MaxMsgs
    BY <2>2, MsgsAssumption DEF TypeOK
  <2>4. /\ buf'[c] \in Seq(1 .. MaxMsgs)
        /\ Len(buf'[c]) = Len(buf[c]) + 1
        /\ \A i \in 1 .. Len(buf'[c]) : buf'[c][i] = last[c] + i
    <3>1. buf[c] \in Seq(1 .. MaxMsgs) /\ buf'[c] = Append(buf[c], accepted)
      BY <2>1 DEF TypeOK
    <3>2. /\ buf'[c] \in Seq(1 .. MaxMsgs)
          /\ Len(buf'[c]) = Len(buf[c]) + 1
          /\ \A i \in 1 .. Len(buf[c]) : buf'[c][i] = buf[c][i]
          /\ buf'[c][Len(buf[c]) + 1] = accepted
      BY <2>3, <3>1, AppendProperties
    <3>3. last[c] \in Int /\ Len(buf[c]) \in Nat
      BY <3>1, LenProperties DEF TypeOK
    <3>4. \A i \in 1 .. Len(buf[c]) : buf[c][i] = last[c] + i
      BY DEF NoSkip
    <3>5. ASSUME NEW i \in 1 .. Len(buf[c]) + 1 PROVE buf'[c][i] = last[c] + i
      <4>1. CASE i \in 1 .. Len(buf[c])
        BY <3>2, <3>4, <4>1
      <4>2. CASE i = Len(buf[c]) + 1
        <5>1. accepted \in Int
          BY <2>3
        <5>2. last[c] + i = accepted
          BY <2>2, <3>3, <4>2, <5>1
        <5> QED
          BY <3>2, <4>2, <5>2
      <4> QED
        BY <3>3, <4>1, <4>2
    <3> QED
      BY <3>2, <3>5
  <2>5. \A b \in Clients \ {c} : buf'[b] = buf[b]
    BY <2>1 DEF TypeOK
  <2>6. TypeOK'
    <3>1. buf' \in [Clients -> Seq(1 .. MaxMsgs)]
      BY <2>1, <2>4, <2>5 DEF TypeOK
    <3>2. \A b \in Clients : drain'[b] <= Len(buf'[b]) /\ Len(buf'[b]) <= BufSize
      BY <1>2, <2>1, <2>4, <2>5, BufAssumption DEF TypeOK
    <3> QED
      BY <2>1, <3>1, <3>2 DEF TypeOK
  <2>7. NoPanic' /\ MapIsOpen' /\ Fresh' /\ TodoOnlyWorking' /\ CountsInLoop'
    BY <1>1, <2>1, <2>5 DEF NoPanic, MapIsOpen, Fresh, TodoOnlyWorking, CountsInLoop
  <2>8. NoSkip'
    BY <2>1, <2>2, <2>4, <2>5 DEF TypeOK, NoSkip, Pending
  <2> QED
    BY <2>6, <2>7, <2>8
<1>3. CASE ~(Len(buf[c]) < BufSize)
  BY <1>1, <1>3, DropInv, PumpsUnchanged DEF Send, TypeOK
<1> QED
  BY <1>2, <1>3

\* A message leaves the channel, and with it at most one that was counted.
LEMMA TakeInv ==
    ASSUME Inv, PumpsTyped, NEW c \in Clients, Take(c), UNCHANGED hubVars,
           \A b \in Clients \ {c} : drain'[b] = drain[b],
           drain'[c] <= Len(buf[c]) - 1
    PROVE  /\ Inv'
           /\ last'[c] = last[c] + 1
           /\ Len(buf'[c]) = Len(buf[c]) - 1
<1> USE DEF Inv, Take, hubVars, PumpsTyped
<1>1. /\ buf[c] \in Seq(1 .. MaxMsgs)
      /\ Len(buf[c]) \in Nat \ {0}
      /\ Head(buf[c]) = buf[c][1]
      /\ Head(buf[c]) \in 1 .. MaxMsgs
  <2>1. buf[c] \in Seq(1 .. MaxMsgs) /\ buf[c] # << >>
    BY DEF TypeOK
  <2>2. Head(buf[c]) \in 1 .. MaxMsgs /\ Len(buf[c]) \in Nat \ {0}
    BY <2>1, HeadTailProperties, EmptySeq
  <2>3. Head(buf[c]) = buf[c][1]
    BY <2>1
  <2> QED
    BY <2>1, <2>2, <2>3
<1>2. Head(buf[c]) = last[c] + 1
  <2>1. 1 \in 1 .. Len(buf[c])
    BY <1>1
  <2> QED
    BY <1>1, <2>1 DEF NoSkip
<1>3. /\ Tail(buf[c]) \in Seq(1 .. MaxMsgs)
      /\ Len(Tail(buf[c])) = Len(buf[c]) - 1
      /\ \A i \in 1 .. Len(buf[c]) - 1 : Tail(buf[c])[i] = buf[c][i + 1]
  BY <1>1, HeadTailProperties
<1>4. /\ buf'[c] = Tail(buf[c])
      /\ last'[c] = last[c] + 1
      /\ \A b \in Clients \ {c} : buf'[b] = buf[b] /\ last'[b] = last[b]
  BY <1>2 DEF TypeOK
<1>5. TypeOK'
  <2>1. buf' \in [Clients -> Seq(1 .. MaxMsgs)]
    BY <1>3 DEF TypeOK
  <2>2. \A b \in Clients : drain'[b] <= Len(buf'[b]) /\ Len(buf'[b]) <= BufSize
    BY <1>1, <1>3, <1>4, BufAssumption DEF TypeOK
  <2>3. last' \in [Clients -> 0 .. MaxMsgs]
    BY <1>1 DEF TypeOK
  <2> QED
    BY <2>1, <2>2, <2>3 DEF TypeOK, Readers
<1>6. NoPanic' /\ MapIsOpen' /\ TodoOnlyWorking' /\ CountsInLoop'
  BY DEF TypeOK, NoPanic, MapIsOpen, TodoOnlyWorking, CountsInLoop
<1>7. Fresh'
  BY <1>4 DEF TypeOK, Fresh
<1>8. NoSkip'
  <2>1. \A i \in 1 .. Len(buf'[c]) : buf'[c][i] = last'[c] + i
    BY <1>1, <1>3, <1>4 DEF TypeOK, NoSkip
  <2>2. last'[c] + Len(buf'[c]) = last[c] + Len(buf[c])
    BY <1>1, <1>3, <1>4 DEF TypeOK
  <2> QED
    BY <1>4, <2>1, <2>2 DEF NoSkip, Pending
<1> QED
  BY <1>3, <1>4, <1>5, <1>6, <1>7, <1>8

\* In the select of writePump
LEMMA ReceiveInv ==
    ASSUME Inv, NEW c \in Clients, Receive(c)
    PROVE  Inv' /\ last'[c] = last[c] + 1 /\ Len(buf'[c]) = Len(buf[c]) - 1
<1>1. UNCHANGED hubVars /\ drain' = drain /\ Take(c)
  BY DEF Receive, Goto, WriterReturns
<1>2. PumpsTyped
  <2>1. /\ writer' \in [Clients -> Places]
        /\ \A b \in Clients : writer'[b] # "draining" => drain'[b] = 0
    BY DEF Inv, TypeOK, CountsInLoop, Receive, Goto, WriterReturns, Places
  <2>2. open' \in [Clients -> BOOLEAN] /\ peer' = peer /\ handler' = handler
        /\ reader' = reader
    BY DEF Inv, TypeOK, Receive, Goto, WriterReturns, connVars
  <2> QED
    BY <1>1, <2>1, <2>2 DEF PumpsTyped, Inv, TypeOK, hubVars, Readers
<1>3. drain'[c] <= Len(buf[c]) - 1
  <2>1. drain'[c] = 0
    BY <1>1 DEF Inv, CountsInLoop, Receive
  <2>2. Len(buf[c]) \in Nat \ {0}
    BY <1>1, EmptySeq DEF Inv, TypeOK, Take
  <2> QED
    BY <2>1, <2>2
<1> QED
  BY <1>1, <1>2, <1>3, TakeInv

\* In its batching loop
LEMMA DrainInv ==
    ASSUME Inv, NEW c \in Clients, Drain(c)
    PROVE  Inv' /\ last'[c] = last[c] + 1 /\ Len(buf'[c]) = Len(buf[c]) - 1
<1>1. UNCHANGED hubVars /\ Take(c)
  BY DEF Drain, Goto
<1>2. drain' = [drain EXCEPT ![c] = drain[c] - 1] /\ drain[c] \in 1 .. BufSize
  BY BufAssumption DEF Drain, Inv, TypeOK
<1>3. PumpsTyped
  <2>1. /\ writer' = [writer EXCEPT ![c] = "draining"]
        /\ UNCHANGED <<handler, reader, open, peer>>
    BY DEF Drain, Goto, connVars
  <2>2. drain' \in [Clients -> 0 .. BufSize]
    BY <1>2, BufAssumption DEF Inv, TypeOK
  <2>3. \A b \in Clients : writer'[b] # "draining" => drain'[b] = 0
    BY <1>2, <2>1 DEF Inv, TypeOK, CountsInLoop
  <2> QED
    BY <1>1, <2>1, <2>2, <2>3 DEF PumpsTyped, Inv, TypeOK, hubVars, Readers, Places
<1>4. drain'[c] <= Len(buf[c]) - 1 /\ \A b \in Clients \ {c} : drain'[b] = drain[b]
  <2>1. Len(buf[c]) \in Nat /\ drain[c] <= Len(buf[c])
    BY LenProperties DEF Inv, TypeOK
  <2> QED
    BY <1>2, <2>1 DEF Inv, TypeOK
<1> QED
  BY <1>1, <1>3, <1>4, TakeInv

LEMMA UnregisterInv ==
    ASSUME Inv, NEW c \in Clients, Unregister(c)
    PROVE  Inv'
<1>1. todo = {} /\ todo' = todo \ {c}
  BY DEF Inv, TodoOnlyWorking, Unregister
<1>2. PumpsTyped /\ \A b \in Clients : drain'[b] <= Len(buf[b])
  BY DEF Inv, TypeOK, CountsInLoop, Unregister, PumpsTyped, connVars, Readers
<1>3. CASE c \in clients
  BY <1>1, <1>2, <1>3, DropInv DEF Unregister
<1>4. CASE c \notin clients
  BY <1>1, <1>2, <1>4, QuietInv DEF Unregister, Loops
<1> QED
  BY <1>3, <1>4

LEMMA CleanUpInv ==
    ASSUME Inv, NEW c \in Clients, CleanUp(c)
    PROVE  Inv'
<1>1. todo = {} /\ todo' = todo \ {c}
  BY DEF Inv, TodoOnlyWorking, CleanUp
<1> QED
  BY <1>1, DropInv, PumpsUnchanged DEF CleanUp, Inv, TypeOK, pumpVars, connVars

\* The steps of Run and Stop that touch no channel.
LEMMA LoopInv ==
    ASSUME Inv, RunStart \/ LoopBack \/ DoneSeen \/ RunReturn \/ Stop
    PROVE  Inv'
<1>1. RunStart \/ DoneSeen \/ RunReturn => todo = {}
  BY DEF Inv, TodoOnlyWorking, RunStart, DoneSeen, RunReturn
<1>2. /\ loop' \in Loops /\ done' \in BOOLEAN
      /\ UNCHANGED <<todo, clients, panicked, accepted, buf, closed, last, pumpVars, connVars>>
  BY DEF Inv, TypeOK, RunStart, LoopBack, DoneSeen, RunReturn, Stop, chanVars, Loops
<1>3. todo = {} \/ loop' = loop
  BY <1>1 DEF LoopBack, Stop
<1> QED
  BY <1>2, <1>3, QuietInv, PumpsUnchanged DEF pumpVars, connVars

\* The steps of the handler, the peer and the pumps that touch no channel.
QuietStep(c) == \/ Upgrade(c) \/ PeerLeaves(c) \/ CountQueued(c) \/ Flush(c)
                \/ SendClosed(c) \/ PingFails(c) \/ ReadPump(c)

LEMMA QuietStepInv ==
    ASSUME Inv, NEW c \in Clients, QuietStep(c)
    PROVE  Inv'
<1> USE DEF Inv, TypeOK
<1>1. UNCHANGED <<hubVars, chanVars>>
  BY DEF QuietStep, Upgrade, PeerLeaves, CountQueued, Flush, SendClosed, PingFails, ReadPump,
     ReadFails, UnregisterDone, ReaderReturns, Goto, WriterReturns
<1>2. /\ handler' \in [Clients -> {"none", "registering", "returned"}]
      /\ \A b \in Clients : handler'[b] # "returned" => handler[b] # "returned"
  BY DEF QuietStep, Upgrade, PeerLeaves, CountQueued, Flush, SendClosed, PingFails, ReadPump,
     ReadFails, UnregisterDone, ReaderReturns, Goto, WriterReturns, pumpVars
<1>3. reader' \in [Clients -> Readers]
  BY DEF QuietStep, Upgrade, PeerLeaves, CountQueued, Flush, SendClosed, PingFails, ReadPump,
     ReadFails, UnregisterDone, ReaderReturns, Goto, WriterReturns, pumpVars, Readers
<1>4. open' \in [Clients -> BOOLEAN] /\ peer' \in [Clients -> BOOLEAN]
  BY DEF QuietStep, Upgrade, PeerLeaves, CountQueued, Flush, SendClosed, PingFails, ReadPump,
     ReadFails, UnregisterDone, ReaderReturns, Goto, WriterReturns, connVars
<1>5. /\ writer' \in [Clients -> Places]
      /\ drain' \in [Clients -> 0 .. BufSize]
      /\ \A b \in Clients : drain'[b] <= Len(buf[b])
      /\ \A b \in Clients : writer'[b] # "draining" => drain'[b] = 0
  <2>1. CASE CountQueued(c)
    <3>1. Len(buf[c]) \in 0 .. BufSize
      BY LenProperties, BufAssumption
    <3> QED
      BY <2>1, <3>1 DEF CountQueued, Goto, Places, CountsInLoop
  <2>2. CASE Flush(c) \/ SendClosed(c) \/ PingFails(c)
    BY <2>2 DEF Flush, SendClosed, PingFails, Goto, WriterReturns, Places, CountsInLoop
  <2>3. CASE Upgrade(c) \/ PeerLeaves(c) \/ ReadPump(c)
    BY <2>3 DEF Upgrade, PeerLeaves, ReadPump, ReadFails, UnregisterDone, ReaderReturns,
       pumpVars, CountsInLoop
  <2> QED
    BY <2>1, <2>2, <2>3 DEF QuietStep
<1>6. PumpsTyped
  BY <1>1, <1>2, <1>3, <1>4, <1>5 DEF PumpsTyped, hubVars
<1> QED
  BY <1>1, <1>5, <1>6, QuietInv DEF hubVars, chanVars, Loops

\* Inv is inductive.
LEMMA NextInv == Inv /\ [Next]_vars => Inv'
<1> SUFFICES ASSUME Inv, [Next]_vars PROVE Inv'
  OBVIOUS
<1>1. CASE UNCHANGED vars
  BY <1>1, QuietInv, PumpsUnchanged DEF vars, hubVars, chanVars, pumpVars, connVars, Inv,
     TypeOK, Loops
<1>2. CASE Run
  BY <1>2, LoopInv, RegisterInv, UnregisterInv, BroadcastInv, SendInv, CleanUpInv DEF Run
<1>3. CASE Stop
  BY <1>3, LoopInv
<1>4. ASSUME NEW c \in Clients, Upgrade(c) \/ PeerLeaves(c) \/ WritePump(c) \/ ReadPump(c)
      PROVE  Inv'
  BY <1>4, ReceiveInv, DrainInv, QuietStepInv DEF WritePump, QuietStep
<1> QED
  BY <1>1, <1>2, <1>3, <1>4 DEF Next

\* Inv holds of every behaviour.
THEOREM Invariance == Spec => []Inv
BY InitInv, NextInv, PTL DEF Spec

\* Every variable keeps its type, no channel exceeds its capacity, and writePump
\* never waits in its batching loop for a message that does not come.
THEOREM TypeCorrect == Spec => []TypeOK
<1>1. Inv => TypeOK
  BY DEF Inv
<1> QED
  BY <1>1, Invariance, PTL

\* Run never closes a channel twice nor sends on a closed one, whatever the
\* pumps of any number of clients do.
THEOREM NeverPanics == Spec => []NoPanic
<1>1. Inv => NoPanic
  BY DEF Inv
<1> QED
  BY <1>1, Invariance, PTL

\* No client ever misses a message while it stays in the map.
THEOREM NeverSkips == Spec => []NoSkip
<1>1. Inv => NoSkip
  BY DEF Inv
<1> QED
  BY <1>1, Invariance, PTL

-----------------------------------------------------------------------------
(* The refinement of Feed *)

LEMMA FeedInit == Init => F!Init
<1> SUFFICES ASSUME Init PROVE F!Init
  OBVIOUS
<1>1. \A c \in Clients : c \notin clients /\ ~closed[c] /\ last[c] = 0 /\ Len(buf[c]) = 0
  BY DEF Init
<1>2. accepted = 0 /\ last = [c \in Clients |-> 0]
  BY DEF Init
<1> QED
  BY <1>1, <1>2 DEF F!Init

LEMMA FeedQuiet ==
    ASSUME UNCHANGED <<accepted, clients, closed, buf, last>>
    PROVE  UNCHANGED F!feedVars
BY DEF F!feedVars

LEMMA FeedDrop ==
    ASSUME Inv, NEW c \in clients, Drop(c), UNCHANGED <<accepted, buf, last>>
    PROVE  F!Cut(c)
<1>1. c \in Clients
  BY DEF Inv, TypeOK
<1>2. \A b \in Clients \ {c} : (b \in clients' <=> b \in clients) /\ closed'[b] = closed[b]
  BY DEF Drop, Inv, TypeOK
<1>3. c \notin clients' /\ closed'[c]
  BY <1>1 DEF Drop, Inv, TypeOK
<1> QED
  BY <1>1, <1>2, <1>3 DEF F!Cut

LEMMA FeedRegister ==
    ASSUME Inv, NEW c \in Clients, Register(c)
    PROVE  F!Join(c)
<1>1. c \notin clients /\ ~closed[c] /\ Len(buf[c]) = 0
  BY DEF Inv, Fresh, Register
<1>2. accepted \in Nat /\ accepted' = accepted /\ buf' = buf /\ closed' = closed
  BY MsgsAssumption DEF Inv, TypeOK, Register
<1>3. /\ last' = [last EXCEPT ![c] = accepted]
      /\ last'[c] = accepted
      /\ \A b \in Clients \ {c} : last'[b] = last[b]
  BY DEF Inv, TypeOK, Register
<1>4. clients' = clients \cup {c}
  BY DEF Register
<1>5. /\ last'[c] + Len(buf'[c]) = accepted
      /\ \A b \in Clients \ {c} : last'[b] + Len(buf'[b]) = last[b] + Len(buf[b])
  BY <1>1, <1>2, <1>3
<1> QED
  BY <1>1, <1>2, <1>3, <1>4, <1>5 DEF F!Join

LEMMA FeedSend ==
    ASSUME Inv, NEW c \in Clients, Send(c)
    PROVE  F!Queue(c) \/ F!Cut(c)
<1>1. c \in clients
  BY DEF Inv, TypeOK, Send
<1>2. CASE Len(buf[c]) < BufSize
  <2>1. UNCHANGED <<accepted, clients, closed, last>>
    BY <1>2 DEF Send
  <2>2. buf[c] \in Seq(1 .. MaxMsgs) /\ last[c] \in Int /\ accepted \in Int
    BY MsgsAssumption DEF Inv, TypeOK
  <2>3. last[c] + Len(buf[c]) = accepted - 1
    BY <1>1 DEF Inv, NoSkip, Pending, Send
  <2>4. /\ buf'[c] = Append(buf[c], accepted)
        /\ \A b \in Clients \ {c} : buf'[b] = buf[b]
    BY <1>2 DEF Inv, TypeOK, Send
  <2>5. Len(buf'[c]) = Len(buf[c]) + 1 /\ Len(buf[c]) \in Nat
    BY <2>2, <2>4
  <2>6. /\ last[c] + Len(buf[c]) < accepted
        /\ last[c] + Len(buf'[c]) = last[c] + Len(buf[c]) + 1
    BY <2>2, <2>3, <2>5
  <2> QED
    BY <1>1, <2>1, <2>4, <2>6 DEF F!Queue
<1>3. CASE ~(Len(buf[c]) < BufSize)
  BY <1>1, <1>3, FeedDrop DEF Send
<1> QED
  BY <1>2, <1>3

\* Either receive of writePump
LEMMA FeedTake ==
    ASSUME Inv, NEW c \in Clients, Receive(c) \/ Drain(c)
    PROVE  F!Take(c)
<1>1. UNCHANGED <<accepted, clients, closed>> /\ Take(c)
  BY DEF Receive, Drain, Take, Goto, WriterReturns, hubVars
<1>2. last'[c] = last[c] + 1 /\ Len(buf'[c]) = Len(buf[c]) - 1
  BY ReceiveInv, DrainInv
<1>3. \A b \in Clients \ {c} : last'[b] = last[b] /\ buf'[b] = buf[b]
  BY <1>1 DEF Inv, TypeOK, Take
<1>4. buf[c] \in Seq(1 .. MaxMsgs) /\ buf[c] # << >> /\ last[c] \in Int
  BY <1>1, MsgsAssumption DEF Inv, TypeOK, Take
<1>5. Len(buf[c]) \in Nat \ {0}
  BY <1>4, EmptySeq
<1>6. /\ last[c] < last[c] + Len(buf[c])
      /\ last'[c] + Len(buf'[c]) = last[c] + Len(buf[c])
  BY <1>2, <1>4, <1>5
<1>7. last' = [last EXCEPT ![c] = last[c] + 1]
  BY <1>1, <1>2, <1>3 DEF Inv, TypeOK, Take
<1> QED
  BY <1>1, <1>3, <1>6, <1>7 DEF F!Take

LEMMA FeedNext == Inv /\ [Next]_vars => [F!Next]_(F!feedVars)
<1> SUFFICES ASSUME Inv, [Next]_vars PROVE [F!Next]_(F!feedVars)
  OBVIOUS
<1>1. CASE UNCHANGED vars
  BY <1>1, FeedQuiet DEF vars, hubVars, chanVars
<1>2. CASE RunStart \/ LoopBack \/ DoneSeen \/ RunReturn \/ Stop
  BY <1>2, FeedQuiet DEF RunStart, LoopBack, DoneSeen, RunReturn, Stop, chanVars
<1>3. CASE Broadcast
  BY <1>3 DEF Broadcast, chanVars, F!Next, F!Accept
<1>4. ASSUME NEW c \in Clients, Register(c) PROVE F!Next
  BY <1>4, FeedRegister DEF F!Next
<1>5. ASSUME NEW c \in Clients, Unregister(c) PROVE [F!Next]_(F!feedVars)
  <2>1. CASE c \in clients
    BY <1>5, <2>1, FeedDrop DEF Unregister, F!Next
  <2>2. CASE c \notin clients
    BY <1>5, <2>2, FeedQuiet DEF Unregister
  <2> QED
    BY <2>1, <2>2
<1>6. ASSUME NEW c \in Clients, Send(c) PROVE F!Next
  BY <1>6, FeedSend DEF F!Next
<1>7. ASSUME NEW c \in Clients, CleanUp(c) PROVE F!Next
  BY <1>7, FeedDrop DEF CleanUp, F!Next
<1>8. ASSUME NEW c \in Clients, Receive(c) \/ Drain(c) PROVE F!Next
  BY <1>8, FeedTake DEF F!Next
<1>9. ASSUME NEW c \in Clients, QuietStep(c)
      PROVE  UNCHANGED F!feedVars
  BY <1>9, FeedQuiet DEF QuietStep, Upgrade, PeerLeaves, CountQueued, Flush, SendClosed,
     PingFails, ReadPump, ReadFails, UnregisterDone, ReaderReturns, Goto, WriterReturns,
     hubVars, chanVars
<1> QED
  BY <1>1, <1>2, <1>3, <1>4, <1>5, <1>6, <1>7, <1>8, <1>9 DEF Next, Run, WritePump, QuietStep

\* The hub implements the feed: although writePump packs messages, drops hit
\* slow clients and any goroutine may end first, each client is sent a gapless
\* run of the accepted messages.
THEOREM ImplementsFeed == Spec => FeedSpec
BY FeedInit, FeedNext, Invariance, PTL DEF Spec, FeedSpec, F!Spec
=============================================================================
