-------------------------- MODULE SyncManagerProofs --------------------------
(***************************************************************************)
(* Theorems of SyncManager, for any set of providers, any backoff          *)
(* configuration and any number of goroutines that call Stop.              *)
(***************************************************************************)
EXTENDS SyncManager, FiniteSetTheorems, NatRecursion, TLAPS

(***************************************************************************)
(* The inductive invariant.  The counter of the WaitGroup counts the       *)
(* running pollers, so a waiter it let through saw none running; and none  *)
(* starts later if all had been launched before that waiter arrived.       *)
(***************************************************************************)
WgCounts == wg = Cardinality(Running)

LaunchedBefore ==
    /\ starter \in Waiting => Launched = Providers
    /\ \A s \in Stoppers : launched[s] => Launched = Providers

ReleasedWhenIdle ==
    /\ starter \in {"released", "returned"} => Running = {}
    /\ \A s \in Stoppers :
          launched[s] /\ stopper[s] \in {"released", "returned"} => Running = {}

PanicIsRace ==
    panicked => \E s \in Stoppers : stopper[s] = "released" /\ ~launched[s]

Inv == /\ TypeOK
       /\ WgCounts
       /\ LaunchedBefore
       /\ ReleasedWhenIdle
       /\ PanicIsRace

-----------------------------------------------------------------------------
\* Doubling a duration in two's complement gives a duration.
LEMMA TwiceDuration ==
    ASSUME NEW x \in Duration
    PROVE  Twice(x) \in Duration
BY DurationAssumption DEF Duration, Twice

\* The first backoff is a positive duration.
LEMMA FirstBackoffDuration ==
    ASSUME NEW p \in Providers
    PROVE  FirstBackoff(p) \in Duration /\ FirstBackoff(p) > 0
BY DurationAssumption DEF Duration, FirstBackoff

\* The next backoff is at most backoff_max, and positive when that is, whatever
\* the current one is and even if doubling it overflows.
LEMMA NextBackoffBounds ==
    ASSUME NEW p \in Providers, backoff[p] \in Duration
    PROVE  /\ NextBackoff(p) \in Duration
           /\ IF BackoffMax[p] > 0 THEN NextBackoff(p) \in 1 .. BackoffMax[p]
                                   ELSE NextBackoff(p) <= BackoffMax[p]
<1>1. Twice(backoff[p]) \in Duration
  BY TwiceDuration
<1>2. BackoffMax[p] \in Duration
  BY DurationAssumption
<1> QED
  BY <1>1, <1>2, DurationAssumption DEF Duration, NextBackoff, Least

\* The counter is bounded by the number of providers, and is zero exactly when
\* no poller runs.
LEMMA WgBounds ==
    ASSUME WgCounts
    PROVE  /\ IsFiniteSet(Running)
           /\ wg \in 0 .. Cardinality(Providers)
           /\ wg = 0 <=> Running = {}
<1>1. /\ IsFiniteSet(Running)
      /\ Cardinality(Running) <= Cardinality(Providers)
  BY ProvidersAssumption, FS_Subset DEF Running
<1>2. Cardinality(Running) \in Nat /\ Cardinality(Providers) \in Nat
  BY <1>1, ProvidersAssumption, FS_CardinalityType
<1> QED
  BY <1>1, <1>2, FS_EmptySet DEF WgCounts

-----------------------------------------------------------------------------
LEMMA InitInv == Init => Inv
<1> SUFFICES ASSUME Init PROVE Inv
  OBVIOUS
<1>1. WgCounts
  BY FS_EmptySet DEF Init, WgCounts, Running
<1>2. wg \in 0 .. Cardinality(Providers)
  BY <1>1, WgBounds
<1>3. backoff \in [Providers -> Duration]
  BY FirstBackoffDuration DEF Init
<1>4. fails \in [Providers -> 0 .. MaxFails]
  BY FailsAssumption DEF Init
<1>5. TypeOK
  BY <1>2, <1>3, <1>4 DEF Init, TypeOK, Waiting
<1> QED
  BY <1>1, <1>5
  DEF Init, Inv, LaunchedBefore, ReleasedWhenIdle, PanicIsRace, Waiting

-----------------------------------------------------------------------------
\* Launching a poller.
LEMMA LaunchInv ==
    ASSUME Inv, NEW p \in Providers, Launch(p), ~panicked
    PROVE  Inv'
<1> USE DEF Inv
<1>1. Running' = Running \cup {p} /\ p \notin Running
  BY DEF Launch, Running, TypeOK
<1>2. WgCounts'
  BY <1>1, WgBounds, FS_AddElement DEF Launch, WgCounts
<1>3. TypeOK'
  <2>1. wg' \in 0 .. Cardinality(Providers)
    <3>1. Running' \in SUBSET Providers
      BY DEF Running
    <3>2. /\ Cardinality(Running') <= Cardinality(Providers)
          /\ Cardinality(Running') \in Nat
          /\ Cardinality(Providers) \in Nat
      BY <3>1, ProvidersAssumption, FS_Subset, FS_CardinalityType
    <3> QED
      BY <1>2, <3>2 DEF WgCounts
  <2> QED
    BY <2>1 DEF Launch, TypeOK, stopVars
<1>4. Launched # Providers
  BY DEF Launch, Launched
<1>5. LaunchedBefore'
  BY <1>4 DEF Launch, LaunchedBefore, Waiting, stopVars
<1>6. ReleasedWhenIdle'
  BY <1>4 DEF Launch, LaunchedBefore, ReleasedWhenIdle, stopVars
<1>7. PanicIsRace'
  BY DEF Launch, PanicIsRace
<1> QED
  BY <1>2, <1>3, <1>5, <1>6, <1>7

\* A poller that returns, and the waiters its Done releases.
LEMMA QuitInv ==
    ASSUME Inv, NEW p \in Providers, Quit(p), ~panicked
    PROVE  Inv'
<1> USE DEF Inv
<1>1. Running' = Running \ {p} /\ p \in Running
  BY DEF Quit, Running, TypeOK
<1>2. Launched' = Launched
  BY DEF Quit, Launched, TypeOK
<1>3. WgCounts'
  BY <1>1, WgBounds, FS_RemoveElement DEF Quit, WgDone, WgCounts
<1>4. wg # 0
  BY <1>1, WgBounds
<1>5. wg = 1 => Running' = {}
  <2>1. IsFiniteSet(Running')
    BY <1>1, WgBounds, FS_RemoveElement
  <2> QED
    BY <2>1, <1>3, FS_EmptySet DEF WgCounts, Quit, WgDone
<1>6. TypeOK'
  BY <1>4, ProvidersAssumption, FS_CardinalityType
  DEF Quit, WgDone, Unpark, TypeOK, Waiting, stopVars
<1>7. LaunchedBefore'
  <2>1. starter' \in Waiting => starter \in Waiting
    BY DEF Quit, WgDone, Unpark, TypeOK, Waiting
  <2> QED
    BY <1>2, <2>1 DEF Quit, WgDone, LaunchedBefore, stopVars
<1>8. ReleasedWhenIdle'
  <2>1. CASE wg = 1
    BY <1>5, <2>1 DEF ReleasedWhenIdle
  <2>2. CASE wg # 1
    BY <1>1, <2>2 DEF Quit, WgDone, ReleasedWhenIdle, stopVars
  <2> QED
    BY <2>1, <2>2
<1>9. PanicIsRace'
  BY DEF Quit, WgDone, PanicIsRace
<1> QED
  BY <1>3, <1>6, <1>7, <1>8, <1>9

\* The steps of the goroutines that call Start and Stop.
LEMMA WaitInv ==
    ASSUME Inv, ~panicked,
           \/ StartCall \/ StartWait \/ StartWake
           \/ \E s \in Stoppers : StopNext(s)
    PROVE  Inv'
<1> USE DEF Inv
<1>1. pc' = pc /\ wg' = wg
  BY DEF StartCall, StartWait, StartWake, StopNext, StopCall, StopWait, StopWake, pollVars
<1>2. Running' = Running /\ Launched' = Launched
  BY <1>1 DEF Running, Launched
<1>3. WgCounts'
  BY <1>1, <1>2 DEF WgCounts
<1>4. wg = 0 <=> Running = {}
  BY WgBounds
<1>5. CASE StartCall
  BY <1>2, <1>3, <1>5 DEF StartCall, pollVars, stopVars, TypeOK, Waiting,
     LaunchedBefore, ReleasedWhenIdle, PanicIsRace
<1>6. CASE StartWait
  BY <1>2, <1>3, <1>4, <1>6 DEF StartWait, WaitResult, pollVars, stopVars, TypeOK,
     Waiting, LaunchedBefore, ReleasedWhenIdle, PanicIsRace
<1>7. CASE StartWake
  BY <1>2, <1>3, <1>4, <1>7 DEF StartWake, pollVars, stopVars, TypeOK, Waiting,
     LaunchedBefore, ReleasedWhenIdle, PanicIsRace
<1>8. ASSUME NEW s \in Stoppers, StopCall(s) PROVE Inv'
  BY <1>2, <1>3, <1>8 DEF StopCall, pollVars, TypeOK, Waiting,
     LaunchedBefore, ReleasedWhenIdle, PanicIsRace
<1>9. ASSUME NEW s \in Stoppers, StopWait(s) PROVE Inv'
  BY <1>2, <1>3, <1>4, <1>9 DEF StopWait, WaitResult, pollVars, stopVars, TypeOK,
     Waiting, LaunchedBefore, ReleasedWhenIdle, PanicIsRace
<1>10. ASSUME NEW s \in Stoppers, StopWake(s) PROVE Inv'
  BY <1>2, <1>3, <1>4, <1>10 DEF StopWake, pollVars, stopVars, TypeOK, Waiting,
     LaunchedBefore, ReleasedWhenIdle, PanicIsRace
<1> QED
  BY <1>5, <1>6, <1>7, <1>8, <1>9, <1>10 DEF StopNext

\* The other steps leave the WaitGroup and its waiters alone.
LEMMA OtherInv ==
    ASSUME Inv, ~panicked,
           \/ CtxCancel
           \/ \E p \in Providers :
                 Refresh(p) \/ FetchOk(p) \/ FetchFail(p) \/ Wait(p)
    PROVE  Inv'
<1> USE DEF Inv
<1>1. UNCHANGED waitVars /\ launched' = launched
  BY DEF CtxCancel, Refresh, FetchOk, FetchFail, Wait, BackoffOver, IntervalOver,
     TakeRefresh, BeginFetch, stopVars
<1>2. Running' = Running /\ Launched' = Launched
  BY DEF CtxCancel, Refresh, FetchOk, FetchFail, Wait, BackoffOver, IntervalOver,
     TakeRefresh, BeginFetch, pollVars, Running, Launched, TypeOK
<1>3. /\ WgCounts' /\ LaunchedBefore' /\ ReleasedWhenIdle' /\ PanicIsRace'
  BY <1>1, <1>2
  DEF waitVars, WgCounts, LaunchedBefore, ReleasedWhenIdle, PanicIsRace
<1>4. CASE CtxCancel
  BY <1>3, <1>4 DEF CtxCancel, TypeOK, pollVars, waitVars
<1>5. ASSUME NEW p \in Providers, Refresh(p) PROVE TypeOK'
  BY <1>5 DEF Refresh, TypeOK, waitVars, stopVars
<1>6. ASSUME NEW p \in Providers, FetchOk(p) PROVE TypeOK'
  BY <1>6, FirstBackoffDuration, FailsAssumption DEF FetchOk, TypeOK, waitVars, stopVars
<1>7. ASSUME NEW p \in Providers, FetchFail(p) PROVE TypeOK'
  <2>1. NextBackoff(p) \in Duration
    BY NextBackoffBounds DEF TypeOK
  <2>2. Least(fails[p] + 1, MaxFails) \in 0 .. MaxFails
    BY FailsAssumption DEF TypeOK, Least
  <2> QED
    BY <1>7, <2>1, <2>2 DEF FetchFail, TypeOK, waitVars, stopVars
<1>8. ASSUME NEW p \in Providers, Wait(p) PROVE TypeOK'
  BY <1>8 DEF Wait, BackoffOver, IntervalOver, TakeRefresh, BeginFetch, TypeOK,
     waitVars, stopVars
<1> QED
  BY <1>3, <1>4, <1>5, <1>6, <1>7, <1>8

\* Inv is inductive.
LEMMA NextInv == Inv /\ [Next]_vars => Inv'
<1> SUFFICES ASSUME Inv, [Next]_vars PROVE Inv'
  OBVIOUS
<1>1. CASE UNCHANGED vars
  BY <1>1 DEF vars, pollVars, waitVars, stopVars, Inv, TypeOK, WgCounts, Running,
     LaunchedBefore, Launched, ReleasedWhenIdle, PanicIsRace
<1>2. CASE Next
  BY <1>2, LaunchInv, QuitInv, WaitInv, OtherInv DEF Next, StartNext, Poll
<1> QED
  BY <1>1, <1>2

\* Inv holds of every behaviour.
THEOREM Invariance == Spec => []Inv
BY InitInv, NextInv, PTL DEF Spec

\* Every variable keeps its type, and the WaitGroup counter its range, for any
\* set of providers.
THEOREM TypeCorrect == Spec => []TypeOK
<1>1. Inv => TypeOK
  BY DEF Inv
<1> QED
  BY <1>1, Invariance, PTL

\* A Stop called once Start had launched every poller returns only when all of
\* them have, and the WaitGroup panics only in a Stop called before that.
THEOREM StopIsComplete == Spec => []StopWaits
<1>1. Inv => StopWaits
  <2> SUFFICES ASSUME Inv PROVE StopWaits
    OBVIOUS
  <2>1. ASSUME NEW s \in Stoppers, launched[s], stopper[s] = "returned",
               NEW p \in Providers
        PROVE  pc[p] = "done"
    BY <2>1 DEF Inv, LaunchedBefore, ReleasedWhenIdle, Launched, Running
  <2> QED
    BY <2>1 DEF Inv, PanicIsRace, StopWaits
<1> QED
  BY <1>1, Invariance, PTL

-----------------------------------------------------------------------------
\* A coalesced refresh is never lost: while no Fetch has begun since the request,
\* refreshCh holds one.
THEOREM RefreshNeverLost == Spec => []RefreshHonoured
<1>1. Init => RefreshHonoured
  BY DEF Init, RefreshHonoured
<1>2. TypeOK /\ RefreshHonoured /\ [Next]_vars => RefreshHonoured'
  <2> SUFFICES ASSUME TypeOK, RefreshHonoured, [Next]_vars PROVE RefreshHonoured'
    OBVIOUS
  <2> USE DEF RefreshHonoured
  <2>1. CASE UNCHANGED <<owed, token>>
    BY <2>1
  <2>2. ASSUME NEW p \in Providers, Refresh(p) PROVE RefreshHonoured'
    BY <2>2 DEF Refresh, TypeOK
  <2>3. ASSUME NEW p \in Providers, Launch(p) PROVE RefreshHonoured'
    BY <2>3 DEF Launch, TypeOK
  <2>4. ASSUME NEW p \in Providers, IntervalOver(p) \/ TakeRefresh(p)
        PROVE  RefreshHonoured'
    BY <2>4 DEF IntervalOver, TakeRefresh, BeginFetch, TypeOK
  <2>5. ASSUME NEW s \in Stoppers, StopNext(s) PROVE UNCHANGED <<owed, token>>
    BY <2>5 DEF StopNext, StopCall, StopWait, StopWake, pollVars
  <2>6. ASSUME NEW p \in Providers,
               FetchOk(p) \/ FetchFail(p) \/ BackoffOver(p) \/ Quit(p)
        PROVE  UNCHANGED <<owed, token>>
    BY <2>6 DEF FetchOk, FetchFail, BackoffOver, Quit
  <2>7. CASE StartCall \/ StartWait \/ StartWake \/ CtxCancel
    BY <2>1, <2>7 DEF StartCall, StartWait, StartWake, CtxCancel, pollVars
  <2>8. CASE UNCHANGED vars
    BY <2>1, <2>8 DEF vars, pollVars
  <2> QED
    BY <2>1, <2>2, <2>3, <2>4, <2>5, <2>6, <2>7, <2>8
    DEF Next, StartNext, Poll, Wait
<1> QED
  BY <1>1, <1>2, TypeCorrect, PTL DEF Spec

\* The delay before a retry stays between 1 and backoff_max, and is none without
\* a backoff_max, for every int64 configuration.
THEOREM RetryIsPaced == Spec => []BackoffBounded
<1>1. Init => BackoffBounded
  BY DEF Init, BackoffBounded
<1>2. TypeOK /\ BackoffBounded /\ [Next]_vars => BackoffBounded'
  <2> SUFFICES ASSUME TypeOK, BackoffBounded, [Next]_vars,
                      NEW p \in Providers, pc'[p] = "backoff"
               PROVE  IF BackoffMax[p] > 0 THEN backoff'[p] \in 1 .. BackoffMax[p]
                                           ELSE backoff'[p] <= BackoffMax[p]
    BY DEF BackoffBounded
  <2>1. CASE FetchFail(p)
    BY <2>1, NextBackoffBounds DEF FetchFail, TypeOK
  <2>2. CASE pc[p] = "backoff" /\ backoff'[p] = backoff[p]
    BY <2>2 DEF BackoffBounded
  <2>3. \/ FetchFail(p)
        \/ pc[p] = "backoff" /\ backoff'[p] = backoff[p]
    <3>1. CASE UNCHANGED <<pc, backoff>>
      BY <3>1
    <3>2. ASSUME NEW q \in Providers, FetchFail(q), q # p
          PROVE  pc[p] = "backoff" /\ backoff'[p] = backoff[p]
      BY <3>2 DEF FetchFail, TypeOK
    <3>3. ASSUME NEW q \in Providers,
                 Launch(q) \/ FetchOk(q) \/ Wait(q) \/ Quit(q)
          PROVE  pc[p] = "backoff" /\ backoff'[p] = backoff[p]
      BY <3>3 DEF Launch, FetchOk, Wait, BackoffOver, IntervalOver, TakeRefresh,
         BeginFetch, Quit, TypeOK
    <3>4. ASSUME NEW s \in Stoppers, StopNext(s) PROVE UNCHANGED <<pc, backoff>>
      BY <3>4 DEF StopNext, StopCall, StopWait, StopWake, pollVars
    <3>5. CASE \/ StartCall \/ StartWait \/ StartWake \/ CtxCancel
               \/ \E q \in Providers : Refresh(q)
      BY <3>1, <3>5 DEF StartCall, StartWait, StartWake, CtxCancel, Refresh, pollVars
    <3>6. CASE UNCHANGED vars
      BY <3>1, <3>6 DEF vars, pollVars
    <3> QED
      BY <3>1, <3>2, <3>3, <3>4, <3>5, <3>6 DEF Next, StartNext, Poll
  <2> QED
    BY <2>1, <2>2, <2>3
<1> QED
  BY <1>1, <1>2, TypeCorrect, PTL DEF Spec

-----------------------------------------------------------------------------
(***************************************************************************)
(* The schedule.  Power is defined by recursion, so that it has a value at *)
(* all is the first thing to prove.                                        *)
(***************************************************************************)
LEMMA PowerEquation ==
    /\ Power \in [Nat -> Nat \ {0}]
    /\ Power[0] = 1
    /\ \A n \in Nat : Power[n + 1] = 2 * Power[n]
<1> DEFINE V == Nat \ {0}
           step == [n \in Nat |-> [x \in V |-> 2 * x]]
<1>1. 1 \in V /\ step \in [Nat -> [V -> V]]
  OBVIOUS
<1>2. PICK f : IsRecursive(f, V, 1, step)
  <2> HIDE DEF V, step
  <2> QED
    BY <1>1, Recursion
<1>3. ASSUME NEW n \in Nat \ {0} PROVE f[n] = 2 * f[n - 1]
  <2>1. n - 1 \in Nat /\ f[n - 1] \in V
    BY <1>2 DEF IsRecursive
  <2>2. step[n][f[n - 1]] = 2 * f[n - 1]
    BY <2>1
  <2> HIDE DEF step
  <2> QED
    BY <1>2, <2>2 DEF IsRecursive
<1>4. f = [n \in Nat |-> IF n = 0 THEN 1 ELSE 2 * f[n - 1]]
  <2>1. f = [n \in Nat |-> f[n]]
    BY <1>2 DEF IsRecursive
  <2>2. ASSUME NEW n \in Nat PROVE f[n] = IF n = 0 THEN 1 ELSE 2 * f[n - 1]
    BY <1>2, <1>3 DEF IsRecursive
  <2> QED
    BY <2>1, <2>2
<1>5. Power = [n \in Nat |-> IF n = 0 THEN 1 ELSE 2 * Power[n - 1]]
  <2>1. \E g : g = [n \in Nat |-> IF n = 0 THEN 1 ELSE 2 * g[n - 1]]
    BY <1>4
  <2> QED
    BY <2>1, Zenon DEF Power
<1>6. Power[0] = 1 /\ \A n \in Nat : Power[n + 1] = 2 * Power[n]
  <2> DEFINE g == Power
  <2>1. g = [n \in Nat |-> IF n = 0 THEN 1 ELSE 2 * g[n - 1]]
    BY <1>5
  <2> HIDE DEF g
  <2>2. g[0] = 1 /\ \A n \in Nat : g[n + 1] = 2 * g[n]
    BY <2>1
  <2> QED
    BY <2>2 DEF g
<1>7. Power \in [Nat -> V]
  <2> DEFINE S == {n \in Nat : Power[n] \in V}
  <2>1. 0 \in S
    BY <1>6
  <2>2. \A n \in S : n + 1 \in S
    BY <1>6
  <2>3. S = Nat
    <3> HIDE DEF S
    <3>1. S \in SUBSET Nat
      BY DEF S
    <3> QED
      BY <2>1, <2>2, <3>1, SetInduction
  <2>4. DOMAIN Power = Nat /\ Power = [n \in Nat |-> Power[n]]
    BY <1>5
  <2> QED
    BY <2>3, <2>4
<1> QED
  BY <1>6, <1>7

\* The delay that n failures in a row lead to
Scheduled(p, n) == IF n = 0 THEN FirstBackoff(p)
                   ELSE Least(FirstBackoff(p) * Power[n], BackoffMax[p])

\* One more failure goes one step further in the schedule: a doubling that
\* overflows would have exceeded backoff_max anyway.
LEMMA NextIsScheduled ==
    ASSUME NEW p \in Providers, NEW n \in Nat, BackoffMax[p] > 0,
           backoff[p] = Scheduled(p, n)
    PROVE  NextBackoff(p) = Scheduled(p, n + 1)
<1> DEFINE F == FirstBackoff(p)
           M == BackoffMax[p]
           B == backoff[p]
           x == F * Power[n]
<1>1. F \in Nat /\ F > 0 /\ F <= DurationMax
  BY FirstBackoffDuration DEF Duration
<1>2. M \in Nat /\ M > 0 /\ M <= DurationMax /\ DurationMax \in Nat
  BY DurationAssumption DEF Duration
<1>3. x \in Nat /\ F * Power[n + 1] = 2 * x /\ (n = 0 => x = F)
  <2>1. Power[n] \in Nat /\ Power[n + 1] = 2 * Power[n] /\ (n = 0 => Power[n] = 1)
    BY PowerEquation
  <2>2. \A f \in Nat, y \in Nat : f * y \in Nat /\ f * (2 * y) = 2 * (f * y) /\ f * 1 = f
    OBVIOUS
  <2> HIDE DEF F
  <2> QED
    BY <1>1, <2>1, <2>2
<1>4. B = IF n = 0 THEN x ELSE Least(x, M)
  BY <1>3 DEF Scheduled
<1>5. x > 0
  BY <1>1, PowerEquation
<1>6. NextBackoff(p) = LET b == Least(Twice(B), M) IN IF b <= 0 THEN M ELSE b
  BY DEF NextBackoff
<1>7. Scheduled(p, n + 1) = Least(2 * x, M)
  BY <1>3 DEF Scheduled
<1>8. n = 0 => x <= DurationMax
  BY <1>1, <1>3
<1> HIDE DEF F, M, B, x
<1> QED
  BY <1>2, <1>3, <1>4, <1>5, <1>6, <1>7, <1>8 DEF Least, Twice

\* The delay before a retry follows the schedule in unbounded arithmetic, for
\* every int64 configuration with a positive backoff_max.
THEOREM RetryIsScheduled == Spec => []BackoffSchedule
<1> USE DEF BackoffSchedule
<1>1. Init => BackoffSchedule
  BY DEF Init
<1>2. TypeOK /\ BackoffSchedule /\ [Next]_vars => BackoffSchedule'
  <2> SUFFICES ASSUME TypeOK, BackoffSchedule, [Next]_vars,
                      NEW p \in Providers, BackoffMax[p] > 0, fails'[p] < MaxFails
               PROVE  backoff'[p] = Scheduled(p, fails'[p])
    BY DEF Scheduled
  <2>1. CASE UNCHANGED <<backoff, fails>>
    BY <2>1 DEF Scheduled
  <2>2. CASE FetchOk(p)
    BY <2>2 DEF FetchOk, TypeOK, Scheduled
  <2>3. CASE FetchFail(p)
    <3>1. fails[p] \in Nat /\ fails'[p] = fails[p] + 1 /\ fails[p] < MaxFails
      BY <2>3, FailsAssumption DEF FetchFail, TypeOK, Least
    <3>2. backoff[p] = Scheduled(p, fails[p])
      BY <3>1 DEF Scheduled
    <3>3. backoff'[p] = NextBackoff(p)
      BY <2>3 DEF FetchFail, TypeOK
    <3> QED
      BY <3>1, <3>2, <3>3, NextIsScheduled
  <2>4. ASSUME NEW q \in Providers, q # p, FetchOk(q) \/ FetchFail(q)
        PROVE  backoff'[p] = backoff[p] /\ fails'[p] = fails[p]
    BY <2>4 DEF FetchOk, FetchFail, TypeOK
  <2>5. ASSUME NEW q \in Providers, Launch(q) \/ Refresh(q) \/ Wait(q) \/ Quit(q)
        PROVE  UNCHANGED <<backoff, fails>>
    BY <2>5 DEF Launch, Refresh, Wait, BackoffOver, IntervalOver, TakeRefresh,
       BeginFetch, Quit
  <2>6. ASSUME NEW s \in Stoppers, StopNext(s) PROVE UNCHANGED <<backoff, fails>>
    BY <2>6 DEF StopNext, StopCall, StopWait, StopWake, pollVars
  <2>7. CASE StartCall \/ StartWait \/ StartWake \/ CtxCancel \/ UNCHANGED vars
    BY <2>1, <2>7 DEF StartCall, StartWait, StartWake, CtxCancel, pollVars, vars
  <2>8. ASSUME backoff'[p] = backoff[p], fails'[p] = fails[p]
        PROVE  backoff'[p] = Scheduled(p, fails'[p])
    BY <2>8 DEF Scheduled
  <2> QED
    BY <2>1, <2>2, <2>3, <2>4, <2>5, <2>6, <2>7, <2>8 DEF Next, StartNext, Poll
<1> QED
  BY <1>1, <1>2, TypeCorrect, PTL DEF Spec

-----------------------------------------------------------------------------
(* The refinement of Workers: each step of Start, poll, Stop or Refresh is a *)
(* step of the workers or leaves them unchanged.                             *)

LEMMA Roles ==
    /\ Role["none"] = "off" /\ Role["fetch"] = "busy" /\ Role["done"] = "gone"
    /\ Role["select"] = "ready" /\ Role["backoff"] = "ready"
BY DEF Role

LEMMA Replies ==
    /\ Reply["idle"] = "none" /\ Reply["closing"] = "called" /\ Reply["parked"] = "called"
    /\ Reply["released"] = "called" /\ Reply["returned"] = "answered"
BY DEF Reply

\* A poller that moves moves the worker it is, and no other.
LEMMA MoveWork ==
    ASSUME NEW p \in Providers, NEW place, TypeOK, pc' = [pc EXCEPT ![p] = place]
    PROVE  Work' = [Work EXCEPT ![p] = Role[place]]
BY DEF Work, TypeOK

LEMMA WorkOf ==
    ASSUME NEW p \in Providers
    PROVE  Work[p] = Role[pc[p]]
BY DEF Work

LEMMA CallOf ==
    ASSUME NEW s \in Stoppers
    PROVE  Call[s] = Reply[stopper[s]]
BY DEF Call

\* So does a goroutine that calls Stop.
LEMMA MoveCall ==
    ASSUME NEW s \in Stoppers, NEW place, TypeOK,
           stopper' = [stopper EXCEPT ![s] = place]
    PROVE  Call' = [Call EXCEPT ![s] = Reply[place]]
BY DEF Call, TypeOK

LEMMA WorkersInit == Init => W!Init
BY Roles, Replies DEF Init, W!Init, Work, Told, Call

LEMMA WorkersQuiet ==
    ASSUME UNCHANGED <<Work, Told, Call>>
    PROVE  UNCHANGED W!workVars
BY DEF W!workVars

\* The waiters that the last poller releases have not returned yet.
LEMMA UnparkQuiet ==
    ASSUME TypeOK, WgDone
    PROVE  Call' = Call
<1>1. ASSUME NEW s \in Stoppers
      PROVE  stopper'[s] = stopper[s] \/ (stopper[s] = "parked" /\ stopper'[s] = "released")
  BY DEF WgDone, Unpark, TypeOK
<1> QED
  BY <1>1, Replies DEF Call

LEMMA NoneAtWork ==
    ASSUME Inv, wg = 0
    PROVE  W!AtWork = {}
<1>1. Running = {}
  BY WgBounds DEF Inv
<1>2. \A p \in Providers : pc[p] \in {"none", "done"}
  BY <1>1 DEF Running
<1> QED
  BY <1>2, Roles DEF W!AtWork, Work

LEMMA WorkersPoll ==
    ASSUME Inv, NEW p \in Providers, Launch(p) \/ Refresh(p) \/ Poll(p)
    PROVE  [W!Next]_(W!workVars)
<1> USE DEF Inv
<1>1. CASE Launch(p)
  <2>1. Work' = [Work EXCEPT ![p] = "busy"] /\ Work[p] = "off"
    BY <1>1, MoveWork, WorkOf, Roles DEF Launch
  <2>2. UNCHANGED <<Told, Call>>
    BY <1>1 DEF Launch, stopVars, Told, Call
  <2>3. Work' = [q \in Providers |-> IF q \in {p} THEN "busy" ELSE Work[q]]
    BY <2>1 DEF Work
  <2>4. W!Launch({p})
    BY <2>1, <2>2, <2>3 DEF W!Launch
  <2> QED
    BY <2>4 DEF W!Next
<1>2. CASE FetchOk(p) \/ FetchFail(p)
  <2>1. Work' = [Work EXCEPT ![p] = "ready"] /\ Work[p] = "busy"
    BY <1>2, MoveWork, WorkOf, Roles DEF FetchOk, FetchFail
  <2>2. UNCHANGED <<Told, Call>>
    BY <1>2 DEF FetchOk, FetchFail, waitVars, stopVars, Told, Call
  <2> QED
    BY <2>1, <2>2 DEF W!Next, W!Fetched
<1>3. CASE IntervalOver(p) \/ TakeRefresh(p)
  <2>1. Work' = [Work EXCEPT ![p] = "busy"] /\ Work[p] = "ready"
    BY <1>3, MoveWork, WorkOf, Roles DEF IntervalOver, TakeRefresh, BeginFetch
  <2>2. UNCHANGED <<Told, Call>>
    BY <1>3 DEF IntervalOver, TakeRefresh, BeginFetch, waitVars, stopVars, Told, Call
  <2> QED
    BY <2>1, <2>2 DEF W!Next, W!Fetch
<1>4. CASE BackoffOver(p)
  <2>1. Work' = [Work EXCEPT ![p] = "ready"] /\ Work[p] = "ready"
    BY <1>4, MoveWork, WorkOf, Roles DEF BackoffOver
  <2>2. Work' = Work
    BY <2>1 DEF Work
  <2> QED
    BY <1>4, <2>2, WorkersQuiet DEF BackoffOver, waitVars, stopVars, Told, Call
<1>5. CASE Quit(p)
  <2>1. Work' = [Work EXCEPT ![p] = "gone"] /\ Work[p] = "ready"
    <3>1. pc[p] \in {"select", "backoff"} /\ pc' = [pc EXCEPT ![p] = "done"]
      BY <1>5 DEF Quit
    <3>2. Work' = [Work EXCEPT ![p] = Role["done"]]
      BY <3>1, MoveWork
    <3> QED
      BY <3>1, <3>2, WorkOf, Roles
  <2>2. Told /\ UNCHANGED <<Told, Call>>
    BY <1>5, UnparkQuiet DEF Quit, stopVars, Told
  <2> QED
    BY <2>1, <2>2 DEF W!Next, W!Leave
<1>6. CASE Refresh(p)
  BY <1>6, WorkersQuiet DEF Refresh, waitVars, stopVars, Work, Told, Call
<1> QED
  BY <1>1, <1>2, <1>3, <1>4, <1>5, <1>6 DEF Poll, Wait

LEMMA WorkersStop ==
    ASSUME Inv, NEW s \in Stoppers, StopNext(s)
    PROVE  [W!Next]_(W!workVars)
<1> USE DEF Inv
<1>1. Work' = Work
  BY DEF StopNext, StopCall, StopWait, StopWake, pollVars, Work
<1>2. CASE StopCall(s)
  <2>1. Call' = [Call EXCEPT ![s] = "called"] /\ Call[s] = "none" /\ Told' = TRUE
    <3>1. /\ stopper[s] = "idle" /\ stopper' = [stopper EXCEPT ![s] = "closing"]
          /\ stopped' = TRUE
      BY <1>2 DEF StopCall
    <3>2. Call' = [Call EXCEPT ![s] = Reply["closing"]]
      BY <3>1, MoveCall
    <3>3. Told' = TRUE
      BY <3>1 DEF Told
    <3> QED
      BY <3>1, <3>2, <3>3, CallOf, Replies
  <2> QED
    BY <1>1, <2>1 DEF W!Next, W!Ask
<1>3. CASE (StopWait(s) \/ StopWake(s)) /\ stopper'[s] = "returned"
  <2>1. /\ wg = 0 /\ stopper[s] \in {"closing", "released"}
        /\ stopper' = [stopper EXCEPT ![s] = "returned"]
    BY <1>3 DEF StopWait, StopWake, WaitResult, TypeOK
  <2>2. Call' = [Call EXCEPT ![s] = "answered"] /\ Call[s] = "called"
    <3>1. Call' = [Call EXCEPT ![s] = Reply["returned"]]
      BY <2>1, MoveCall
    <3> QED
      BY <2>1, <3>1, CallOf, Replies
  <2>3. Told' = Told
    BY <1>3 DEF StopWait, StopWake, stopVars, Told
  <2> QED
    BY <1>1, <2>1, <2>2, <2>3, NoneAtWork DEF W!Next, W!Answer
<1>4. CASE (StopWait(s) \/ StopWake(s)) /\ stopper'[s] # "returned"
  <2>1. Call' = Call
    <3>1. \/ stopper' = stopper
          \/ stopper[s] = "closing" /\ stopper' = [stopper EXCEPT ![s] = "parked"]
      BY <1>4 DEF StopWait, StopWake, WaitResult, TypeOK
    <3>2. ASSUME stopper[s] = "closing", stopper' = [stopper EXCEPT ![s] = "parked"]
          PROVE  Call' = [Call EXCEPT ![s] = "called"] /\ Call[s] = "called"
      <4>1. Call' = [Call EXCEPT ![s] = Reply["parked"]]
        BY <3>2, MoveCall
      <4> QED
        BY <3>2, <4>1, CallOf, Replies
    <3> QED
      BY <3>1, <3>2 DEF Call
  <2>2. Told' = Told
    BY <1>4 DEF StopWait, StopWake, stopVars, Told
  <2> QED
    BY <1>1, <2>1, <2>2, WorkersQuiet
<1> QED
  BY <1>2, <1>3, <1>4 DEF StopNext

LEMMA WorkersNext == Inv /\ [Next]_vars => [W!Next]_(W!workVars)
<1> SUFFICES ASSUME Inv, [Next]_vars PROVE [W!Next]_(W!workVars)
  OBVIOUS
<1>1. CASE StartCall \/ StartWait \/ StartWake
  BY <1>1, WorkersQuiet
     DEF StartCall, StartWait, StartWake, pollVars, stopVars, Work, Told, Call
<1>2. CASE CtxCancel
  BY <1>2 DEF CtxCancel, pollVars, waitVars, W!Next, W!Tell, Work, Told, Call
<1>3. CASE UNCHANGED vars
  BY <1>3, WorkersQuiet DEF vars, pollVars, waitVars, stopVars, Work, Told, Call
<1> QED
  BY <1>1, <1>2, <1>3, WorkersPoll, WorkersStop DEF Next, StartNext

\* The sync manager implements the workers: however Start, Stop and Refresh
\* interleave, a Stop answers only when no poller is at work, and none leaves
\* before it is told to.
THEOREM ImplementsWorkers == Spec => WorkersSpec
BY WorkersInit, WorkersNext, Invariance, PTL DEF Spec, WorkersSpec, W!Spec
=============================================================================
