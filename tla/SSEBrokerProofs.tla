--------------------------- MODULE SSEBrokerProofs ---------------------------
(***************************************************************************)
(* Theorems of SSEBroker, for any set of requests, any channel capacity    *)
(* and any number of messages.                                             *)
(***************************************************************************)
EXTENDS SSEBroker, SequenceTheorems, TLAPS

(***************************************************************************)
(* The inductive invariant.  A channel in the map is open, because the     *)
(* step that closes it also takes it out, and belongs to a handler that    *)
(* has registered, which it does once; a broadcast is under way only while *)
(* Run is working, so nothing joins or leaves the map during one.          *)
(***************************************************************************)
MapIsOpen == \A h \in subscribers : ~closed[h]

Fresh == \A h \in Handlers : hpc[h] \in {"none", "subscribing"} =>
            h \notin subscribers /\ buf[h] = << >> /\ ~closed[h]

TodoOnlyWorking == loop # "working" => todo = {}

Inv == TypeOK /\ NoPanic /\ MapIsOpen /\ Fresh /\ TodoOnlyWorking /\ NoSkip

-----------------------------------------------------------------------------
LEMMA InitInv == Init => Inv
<1> SUFFICES ASSUME Init PROVE Inv
  OBVIOUS
<1> USE DEF Init
<1>1. buf \in [Handlers -> Seq(1 .. MaxMsgs)] /\ \A h \in Handlers : Len(buf[h]) = 0
  OBVIOUS
<1>2. TypeOK
  <2>1. \A h \in Handlers : Len(buf[h]) <= BufSize
    BY <1>1, BufAssumption
  <2>2. accepted \in 0 .. MaxMsgs /\ last \in [Handlers -> 0 .. MaxMsgs]
    BY MsgsAssumption
  <2>3. /\ hpc \in [Handlers -> {"none", "subscribing", "stream", "writing",
                                "unsubscribing", "gone"}]
        /\ closed \in [Handlers -> BOOLEAN]
        /\ left \in [Handlers -> BOOLEAN]
    OBVIOUS
  <2> QED
    BY <1>1, <2>1, <2>2, <2>3 DEF TypeOK
<1>3. NoPanic /\ MapIsOpen /\ Fresh /\ TodoOnlyWorking
  BY DEF NoPanic, MapIsOpen, Fresh, TodoOnlyWorking
<1>4. NoSkip
  BY <1>1 DEF NoSkip
<1> QED
  BY <1>2, <1>3, <1>4 DEF Inv

\* Steps that leave the channels and the map alone keep everything about them.
LEMMA QuietInv ==
    ASSUME Inv,
           UNCHANGED <<todo, subscribers, panicked, accepted, buf, closed, last>>,
           todo = {} \/ loop' = loop,
           loop' \in {"off", "select", "working", "cleanup", "returned"},
           done' \in BOOLEAN,
           left' \in [Handlers -> BOOLEAN],
           hpc' \in [Handlers -> {"none", "subscribing", "stream", "writing",
                                  "unsubscribing", "gone"}],
           \A h \in Handlers : hpc'[h] \in {"none", "subscribing"} =>
                                  hpc[h] \in {"none", "subscribing"}
    PROVE  Inv'
BY DEF Inv, TypeOK, NoPanic, MapIsOpen, Fresh, TodoOnlyWorking, NoSkip, Pending

LEMMA RegisterInv ==
    ASSUME Inv, NEW h \in Handlers, Register(h)
    PROVE  Inv'
<1> USE DEF Inv, Register, Goto
<1>1. TypeOK'
  BY DEF TypeOK
<1>2. NoPanic' /\ MapIsOpen' /\ Fresh' /\ TodoOnlyWorking'
  BY DEF TypeOK, NoPanic, MapIsOpen, Fresh, TodoOnlyWorking
<1>3. NoSkip'
  BY DEF TypeOK, Fresh, TodoOnlyWorking, NoSkip, Pending
<1> QED
  BY <1>1, <1>2, <1>3

\* Drop, wherever it happens, with no broadcast pending for the dropped one after.
LEMMA DropInv ==
    ASSUME Inv, NEW h \in subscribers, Drop(h),
           UNCHANGED <<accepted, buf, last>>,
           todo' = todo \ {h},
           loop' = loop \/ loop' = "working",
           done' \in BOOLEAN,
           left' \in [Handlers -> BOOLEAN],
           hpc' \in [Handlers -> {"none", "subscribing", "stream", "writing",
                                  "unsubscribing", "gone"}],
           \A g \in Handlers : hpc'[g] \in {"none", "subscribing"} =>
                                  hpc[g] \in {"none", "subscribing"}
    PROVE  Inv'
<1> USE DEF Inv, Drop, Use
<1>1. h \in Handlers
  BY DEF TypeOK
<1>2. TypeOK'
  BY <1>1 DEF TypeOK
<1>3. NoPanic' /\ MapIsOpen'
  BY <1>1 DEF TypeOK, NoPanic, MapIsOpen
<1>4. Fresh' /\ TodoOnlyWorking'
  BY <1>1 DEF TypeOK, Fresh, TodoOnlyWorking
<1>5. NoSkip'
  BY DEF TypeOK, NoSkip, Pending
<1> QED
  BY <1>2, <1>3, <1>4, <1>5

LEMMA PublishInv ==
    ASSUME Inv, Publish
    PROVE  Inv'
<1> USE DEF Inv, Publish, handlerVars
<1>1. TypeOK'
  BY MsgsAssumption DEF TypeOK
<1>2. NoPanic' /\ MapIsOpen' /\ Fresh' /\ TodoOnlyWorking'
  BY DEF NoPanic, MapIsOpen, Fresh, TodoOnlyWorking
<1>3. NoSkip'
  BY DEF TypeOK, TodoOnlyWorking, NoSkip, Pending
<1> QED
  BY <1>1, <1>2, <1>3

LEMMA SendInv ==
    ASSUME Inv, NEW h \in Handlers, Send(h)
    PROVE  Inv'
<1> USE DEF Inv
<1>1. h \in subscribers /\ ~closed[h]
  BY DEF Send, TypeOK, MapIsOpen
<1>2. CASE Len(buf[h]) < BufSize
  <2>1. /\ buf' = [buf EXCEPT ![h] = Append(buf[h], accepted)]
        /\ todo' = todo \ {h}
        /\ UNCHANGED <<subscribers, closed, loop, done, accepted, hpc, last, left>>
        /\ panicked' = panicked
    BY <1>1, <1>2 DEF Send, Use, TypeOK, NoPanic
  <2>2. last[h] + Len(buf[h]) = accepted - 1
    BY <1>1 DEF Send, TypeOK, NoSkip, Pending
  <2>3. accepted \in 1 .. MaxMsgs
    BY <2>2, MsgsAssumption DEF TypeOK
  <2>4. /\ buf'[h] \in Seq(1 .. MaxMsgs)
        /\ Len(buf'[h]) = Len(buf[h]) + 1
        /\ \A i \in 1 .. Len(buf'[h]) : buf'[h][i] = last[h] + i
    <3>1. buf[h] \in Seq(1 .. MaxMsgs) /\ buf'[h] = Append(buf[h], accepted)
      BY <2>1 DEF TypeOK
    <3>2. /\ buf'[h] \in Seq(1 .. MaxMsgs)
          /\ Len(buf'[h]) = Len(buf[h]) + 1
          /\ \A i \in 1 .. Len(buf[h]) : buf'[h][i] = buf[h][i]
          /\ buf'[h][Len(buf[h]) + 1] = accepted
      BY <2>3, <3>1, AppendProperties
    <3>3. last[h] \in Int /\ Len(buf[h]) \in Nat
      BY <3>1, LenProperties DEF TypeOK
    <3>4. \A i \in 1 .. Len(buf[h]) : buf[h][i] = last[h] + i
      BY DEF NoSkip
    <3>5. ASSUME NEW i \in 1 .. Len(buf[h]) + 1 PROVE buf'[h][i] = last[h] + i
      <4>1. CASE i \in 1 .. Len(buf[h])
        BY <3>2, <3>4, <4>1
      <4>2. CASE i = Len(buf[h]) + 1
        <5>1. accepted \in Int
          BY <2>3
        <5>2. last[h] + i = accepted
          BY <2>2, <3>3, <4>2, <5>1
        <5> QED
          BY <3>2, <4>2, <5>2
      <4> QED
        BY <3>3, <4>1, <4>2
    <3> QED
      BY <3>2, <3>5
  <2>5. \A g \in Handlers \ {h} : buf'[g] = buf[g]
    BY <2>1 DEF TypeOK
  <2>6. TypeOK'
    <3>1. buf' \in [Handlers -> Seq(1 .. MaxMsgs)]
      BY <2>1, <2>4, <2>5 DEF TypeOK
    <3>2. \A g \in Handlers : Len(buf'[g]) <= BufSize
      BY <1>2, <2>4, <2>5, BufAssumption DEF TypeOK
    <3> QED
      BY <2>1, <3>1, <3>2 DEF TypeOK
  <2>7. NoPanic' /\ MapIsOpen' /\ Fresh' /\ TodoOnlyWorking'
    BY <1>1, <2>1, <2>5 DEF NoPanic, MapIsOpen, Fresh, TodoOnlyWorking
  <2>8. NoSkip'
    BY <2>1, <2>2, <2>4, <2>5 DEF TypeOK, NoSkip, Pending
  <2> QED
    BY <2>6, <2>7, <2>8
<1>3. CASE ~(Len(buf[h]) < BufSize)
  BY <1>1, <1>3, DropInv DEF Send, TypeOK
<1> QED
  BY <1>2, <1>3

LEMMA ReceiveInv ==
    ASSUME Inv, NEW h \in Handlers, Receive(h)
    PROVE  /\ Inv'
           /\ last'[h] = last[h] + 1
           /\ Len(buf'[h]) = Len(buf[h]) - 1
<1> USE DEF Inv, Receive, Goto, loopVars
<1>1. /\ buf[h] \in Seq(1 .. MaxMsgs)
      /\ Len(buf[h]) \in Nat \ {0}
      /\ Head(buf[h]) = buf[h][1]
      /\ Head(buf[h]) \in 1 .. MaxMsgs
  <2>1. buf[h] \in Seq(1 .. MaxMsgs) /\ buf[h] # << >>
    BY DEF TypeOK
  <2>2. Head(buf[h]) \in 1 .. MaxMsgs /\ Len(buf[h]) \in Nat \ {0}
    BY <2>1, HeadTailProperties, EmptySeq
  <2>3. Head(buf[h]) = buf[h][1]
    BY <2>1
  <2> QED
    BY <2>1, <2>2, <2>3
<1>2. Head(buf[h]) = last[h] + 1
  <2>1. 1 \in 1 .. Len(buf[h])
    BY <1>1
  <2> QED
    BY <1>1, <2>1 DEF NoSkip
<1>3. /\ Tail(buf[h]) \in Seq(1 .. MaxMsgs)
      /\ Len(Tail(buf[h])) = Len(buf[h]) - 1
      /\ \A i \in 1 .. Len(buf[h]) - 1 : Tail(buf[h])[i] = buf[h][i + 1]
  BY <1>1, HeadTailProperties
<1>4. /\ buf'[h] = Tail(buf[h])
      /\ last'[h] = last[h] + 1
      /\ \A g \in Handlers \ {h} : buf'[g] = buf[g] /\ last'[g] = last[g]
  BY <1>2 DEF TypeOK
<1>5. TypeOK'
  <2>1. buf' \in [Handlers -> Seq(1 .. MaxMsgs)]
    BY <1>3 DEF TypeOK
  <2>2. \A g \in Handlers : Len(buf'[g]) <= BufSize
    BY <1>1, <1>3, <1>4, BufAssumption DEF TypeOK
  <2>3. last' \in [Handlers -> 0 .. MaxMsgs]
    BY <1>1 DEF TypeOK
  <2> QED
    BY <2>1, <2>2, <2>3 DEF TypeOK
<1>6. NoPanic' /\ MapIsOpen' /\ Fresh' /\ TodoOnlyWorking'
  BY <1>4 DEF TypeOK, NoPanic, MapIsOpen, Fresh, TodoOnlyWorking
<1>7. NoSkip'
  <2>1. \A i \in 1 .. Len(buf'[h]) : buf'[h][i] = last'[h] + i
    BY <1>1, <1>3, <1>4 DEF TypeOK, NoSkip
  <2>2. last'[h] + Len(buf'[h]) = last[h] + Len(buf[h])
    BY <1>1, <1>3, <1>4 DEF TypeOK
  <2> QED
    BY <1>4, <2>1, <2>2 DEF NoSkip, Pending
<1> QED
  BY <1>3, <1>4, <1>5, <1>6, <1>7

LEMMA UnregisterInv ==
    ASSUME Inv, NEW h \in Handlers, Unregister(h)
    PROVE  Inv'
<1>1. todo = {} /\ todo' = todo \ {h}
  BY DEF Inv, TodoOnlyWorking, Unregister
<1>2. /\ hpc' \in [Handlers -> {"none", "subscribing", "stream", "writing",
                                "unsubscribing", "gone"}]
      /\ \A g \in Handlers : hpc'[g] \in {"none", "subscribing"} =>
                                hpc[g] \in {"none", "subscribing"}
  BY DEF Inv, TypeOK, Unregister, Goto
<1>3. CASE h \in subscribers
  BY <1>1, <1>2, <1>3, DropInv DEF Inv, TypeOK, Unregister
<1>4. CASE h \notin subscribers
  BY <1>1, <1>2, <1>4, QuietInv DEF Inv, TypeOK, Unregister
<1> QED
  BY <1>3, <1>4

LEMMA CleanUpInv ==
    ASSUME Inv, NEW h \in Handlers, CleanUp(h)
    PROVE  Inv'
<1>1. todo = {} /\ todo' = todo \ {h}
  BY DEF Inv, TodoOnlyWorking, CleanUp
<1> QED
  BY <1>1, DropInv DEF Inv, TypeOK, CleanUp

\* The steps of Run and Stop that touch no channel.
LEMMA LoopInv ==
    ASSUME Inv, RunStart \/ LoopBack \/ DoneSeen \/ RunReturn \/ Stop
    PROVE  Inv'
<1>1. RunStart \/ DoneSeen \/ RunReturn => todo = {}
  BY DEF Inv, TodoOnlyWorking, RunStart, DoneSeen, RunReturn
<1> QED
  BY <1>1, QuietInv DEF Inv, TypeOK, RunStart, LoopBack, DoneSeen, RunReturn, Stop,
     handlerVars

\* The steps of a handler that touch no channel.
LEMMA HandlerInv ==
    ASSUME Inv, NEW h \in Handlers,
           \/ Connect(h) \/ SubscribeDone(h) \/ Write(h) \/ Return(h)
           \/ UnsubscribeDone(h) \/ Disconnect(h)
    PROVE  Inv'
<1>1. /\ UNCHANGED <<loopVars, buf, closed, last>>
      /\ left' \in [Handlers -> BOOLEAN]
  BY DEF Inv, TypeOK, Connect, SubscribeDone, Write, WriteOk, WriteErr, Return,
     UnsubscribeDone, Disconnect
<1>2. /\ hpc' \in [Handlers -> {"none", "subscribing", "stream", "writing",
                                "unsubscribing", "gone"}]
      /\ \A g \in Handlers : hpc'[g] \in {"none", "subscribing"} =>
                                hpc[g] \in {"none", "subscribing"}
  BY DEF Inv, TypeOK, Connect, SubscribeDone, Write, WriteOk, WriteErr, Return,
     UnsubscribeDone, Disconnect, Goto
<1> QED
  BY <1>1, <1>2, QuietInv DEF Inv, TypeOK, loopVars

\* Inv is inductive.
LEMMA NextInv == Inv /\ [Next]_vars => Inv'
<1> SUFFICES ASSUME Inv, [Next]_vars PROVE Inv'
  OBVIOUS
<1>1. CASE UNCHANGED vars
  BY <1>1, QuietInv DEF vars, loopVars, handlerVars, Inv, TypeOK
<1>2. CASE Run
  BY <1>2, LoopInv, RegisterInv, UnregisterInv, PublishInv, SendInv, CleanUpInv DEF Run
<1>3. CASE Stop
  BY <1>3, LoopInv
<1>4. ASSUME NEW h \in Handlers, Stream(h) PROVE Inv'
  BY <1>4, ReceiveInv, HandlerInv DEF Stream
<1> QED
  BY <1>1, <1>2, <1>3, <1>4 DEF Next

\* Inv holds of every behaviour.
THEOREM Invariance == Spec => []Inv
BY InitInv, NextInv, PTL DEF Spec

\* Every variable keeps its type and no channel exceeds its capacity, for any
\* number of requests and messages and any capacity.
THEOREM TypeCorrect == Spec => []TypeOK
<1>1. Inv => TypeOK
  BY DEF Inv
<1> QED
  BY <1>1, Invariance, PTL

\* Run never closes a channel twice nor sends on a closed one.
THEOREM NeverPanics == Spec => []NoPanic
<1>1. Inv => NoPanic
  BY DEF Inv
<1> QED
  BY <1>1, Invariance, PTL

\* No subscriber ever misses a message while it stays in the map.
THEOREM NeverSkips == Spec => []NoSkip
<1>1. Inv => NoSkip
  BY DEF Inv
<1> QED
  BY <1>1, Invariance, PTL

-----------------------------------------------------------------------------
(* The refinement of Feed: each step of the broker is a step of the feed or *)
(* leaves it unchanged.                                                     *)

LEMMA FeedInit == Init => F!Init
<1> SUFFICES ASSUME Init PROVE F!Init
  OBVIOUS
<1>1. \A h \in Handlers : h \notin subscribers /\ ~closed[h] /\ last[h] = 0
                          /\ Len(buf[h]) = 0
  BY DEF Init
<1>2. accepted = 0 /\ last = [h \in Handlers |-> 0]
  BY DEF Init
<1> QED
  BY <1>1, <1>2 DEF F!Init

LEMMA FeedQuiet ==
    ASSUME UNCHANGED <<accepted, subscribers, closed, buf, last>>
    PROVE  UNCHANGED F!feedVars
BY DEF F!feedVars

LEMMA FeedDrop ==
    ASSUME Inv, NEW h \in subscribers, Drop(h), UNCHANGED <<accepted, buf, last>>
    PROVE  F!Cut(h)
<1>1. h \in Handlers
  BY DEF Inv, TypeOK
<1>2. \A g \in Handlers \ {h} : (g \in subscribers' <=> g \in subscribers)
                                /\ closed'[g] = closed[g]
  BY DEF Drop, Inv, TypeOK
<1>3. h \notin subscribers' /\ closed'[h]
  BY <1>1 DEF Drop, Inv, TypeOK
<1> QED
  BY <1>1, <1>2, <1>3 DEF F!Cut

LEMMA FeedRegister ==
    ASSUME Inv, NEW h \in Handlers, Register(h)
    PROVE  F!Join(h)
<1>1. h \notin subscribers /\ ~closed[h] /\ Len(buf[h]) = 0
  BY DEF Inv, Fresh, Register
<1>2. accepted \in Nat /\ accepted' = accepted /\ buf' = buf /\ closed' = closed
  BY MsgsAssumption DEF Inv, TypeOK, Register
<1>3. /\ last' = [last EXCEPT ![h] = accepted]
      /\ last'[h] = accepted
      /\ \A g \in Handlers \ {h} : last'[g] = last[g]
  BY DEF Inv, TypeOK, Register
<1>4. subscribers' = subscribers \cup {h}
  BY DEF Register
<1>5. /\ last'[h] + Len(buf'[h]) = accepted
      /\ \A g \in Handlers \ {h} : last'[g] + Len(buf'[g]) = last[g] + Len(buf[g])
  BY <1>1, <1>2, <1>3
<1> QED
  BY <1>1, <1>2, <1>3, <1>4, <1>5 DEF F!Join

LEMMA FeedSend ==
    ASSUME Inv, NEW h \in Handlers, Send(h)
    PROVE  F!Queue(h) \/ F!Cut(h)
<1>1. h \in subscribers
  BY DEF Inv, TypeOK, Send
<1>2. CASE Len(buf[h]) < BufSize
  <2>1. UNCHANGED <<accepted, subscribers, closed, last>>
    BY <1>2 DEF Send
  <2>2. /\ buf[h] \in Seq(1 .. MaxMsgs)
        /\ last[h] \in Int
        /\ accepted \in Int
    BY MsgsAssumption DEF Inv, TypeOK
  <2>3. last[h] + Len(buf[h]) = accepted - 1
    BY <1>1 DEF Inv, NoSkip, Pending, Send
  <2>4. /\ buf'[h] = Append(buf[h], accepted)
        /\ \A g \in Handlers \ {h} : buf'[g] = buf[g]
    BY <1>2 DEF Inv, TypeOK, Send
  <2>5. Len(buf'[h]) = Len(buf[h]) + 1 /\ Len(buf[h]) \in Nat
    BY <2>2, <2>4
  <2>6. /\ last[h] + Len(buf[h]) < accepted
        /\ last[h] + Len(buf'[h]) = last[h] + Len(buf[h]) + 1
    BY <2>2, <2>3, <2>5
  <2> QED
    BY <1>1, <2>1, <2>4, <2>6 DEF F!Queue
<1>3. CASE ~(Len(buf[h]) < BufSize)
  BY <1>1, <1>3, FeedDrop DEF Send
<1> QED
  BY <1>2, <1>3

LEMMA FeedReceive ==
    ASSUME Inv, NEW h \in Handlers, Receive(h)
    PROVE  F!Take(h)
<1>1. UNCHANGED <<accepted, subscribers, closed>>
  BY DEF Receive, loopVars
<1>2. last'[h] = last[h] + 1 /\ Len(buf'[h]) = Len(buf[h]) - 1
  BY ReceiveInv
<1>3. \A g \in Handlers \ {h} : last'[g] = last[g] /\ buf'[g] = buf[g]
  BY DEF Inv, TypeOK, Receive
<1>4. buf[h] \in Seq(1 .. MaxMsgs) /\ buf[h] # << >> /\ last[h] \in Int
  BY MsgsAssumption DEF Inv, TypeOK, Receive
<1>5. Len(buf[h]) \in Nat \ {0}
  BY <1>4, EmptySeq
<1>6. /\ last[h] < last[h] + Len(buf[h])
      /\ last'[h] + Len(buf'[h]) = last[h] + Len(buf[h])
  BY <1>2, <1>4, <1>5
<1>7. last' = [last EXCEPT ![h] = last[h] + 1]
  BY <1>2, <1>3 DEF Inv, TypeOK, Receive
<1> QED
  BY <1>1, <1>3, <1>6, <1>7 DEF F!Take

LEMMA FeedNext == Inv /\ [Next]_vars => [F!Next]_(F!feedVars)
<1> SUFFICES ASSUME Inv, [Next]_vars PROVE [F!Next]_(F!feedVars)
  OBVIOUS
<1>1. CASE UNCHANGED vars
  BY <1>1, FeedQuiet DEF vars, loopVars, handlerVars
<1>2. CASE RunStart \/ LoopBack \/ DoneSeen \/ RunReturn \/ Stop
  BY <1>2, FeedQuiet DEF RunStart, LoopBack, DoneSeen, RunReturn, Stop, handlerVars
<1>3. CASE Publish
  BY <1>3 DEF Publish, handlerVars, F!Next, F!Accept
<1>4. ASSUME NEW h \in Handlers, Register(h) PROVE F!Next
  BY <1>4, FeedRegister DEF F!Next
<1>5. ASSUME NEW h \in Handlers, Unregister(h) PROVE [F!Next]_(F!feedVars)
  <2>1. CASE h \in subscribers
    BY <1>5, <2>1, FeedDrop DEF Unregister, F!Next
  <2>2. CASE h \notin subscribers
    BY <1>5, <2>2, FeedQuiet DEF Unregister
  <2> QED
    BY <2>1, <2>2
<1>6. ASSUME NEW h \in Handlers, Send(h) PROVE F!Next
  BY <1>6, FeedSend DEF F!Next
<1>7. ASSUME NEW h \in Handlers, CleanUp(h) PROVE F!Next
  BY <1>7, FeedDrop DEF CleanUp, F!Next
<1>8. ASSUME NEW h \in Handlers, Receive(h) PROVE F!Next
  BY <1>8, FeedReceive DEF F!Next
<1>9. ASSUME NEW h \in Handlers,
             \/ Connect(h) \/ SubscribeDone(h) \/ Write(h) \/ Return(h)
             \/ UnsubscribeDone(h) \/ Disconnect(h)
      PROVE  UNCHANGED F!feedVars
  BY <1>9, FeedQuiet DEF Connect, SubscribeDone, Write, WriteOk, WriteErr, Return,
     UnsubscribeDone, Disconnect, loopVars
<1> QED
  BY <1>1, <1>2, <1>3, <1>4, <1>5, <1>6, <1>7, <1>8, <1>9 DEF Next, Run, Stream

\* The broker implements the feed: whatever it drops, and however slow its
\* readers are, each of them reads a gapless run of the accepted messages.
THEOREM ImplementsFeed == Spec => FeedSpec
BY FeedInit, FeedNext, Invariance, PTL DEF Spec, FeedSpec, F!Spec
=============================================================================
