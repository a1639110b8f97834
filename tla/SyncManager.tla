----------------------------- MODULE SyncManager -----------------------------
(***************************************************************************)
(* internal/runtime/syncmanager: one polling goroutine per provider, with  *)
(* a retry backoff, coalesced manual refreshes, and a Stop that closes     *)
(* stopCh and waits on the WaitGroup that Start fills.                     *)
(*                                                                         *)
(* A timer may fire at any moment (time.After is a lower bound only), a    *)
(* select takes any ready case, and Fetch returns a snapshot or an error   *)
(* at any moment.  Durations are int64, so doubling one wraps.             *)
(***************************************************************************)
EXTENDS Integers, FiniteSets

CONSTANTS Providers,       \* sm.providers, by name; New makes one providerState each
          Stoppers,        \* the goroutines that may call Stop
          BackoffInitial,  \* [Providers -> Duration], config backoff_initial
          BackoffMax,      \* [Providers -> Duration], config backoff_max
          OneSecond,       \* 1 * time.Second, in the model's unit
          DurationMax,     \* the largest time.Duration
          MaxFails         \* bound: where the history counter fails saturates

Duration == -(DurationMax + 1) .. DurationMax

ASSUME ProvidersAssumption == IsFiniteSet(Providers)
ASSUME DurationAssumption ==
    /\ DurationMax \in Nat
    /\ OneSecond \in Duration
    /\ OneSecond > 0
    /\ BackoffInitial \in [Providers -> Duration]
    /\ BackoffMax \in [Providers -> Duration]
ASSUME FailsAssumption == MaxFails \in Nat

VARIABLES
    pc,        \* pc[p]: where the polling goroutine of p is
    backoff,   \* backoff[p]: the local variable of poll
    token,     \* token[p]: refreshCh (capacity 1) of p holds a request
    wg,        \* the counter of sm.wg
    starter,   \* where the goroutine that calls Start is
    stopper,   \* stopper[s]: where the goroutine s that calls Stop is
    stopped,   \* stopCh is closed
    ctxDone,   \* the context given to Start is cancelled
    panicked,  \* a WaitGroup misuse panic ended the process
    owed,      \* history: Refresh(p) was called and no Fetch of p began since
    fails,     \* history: consecutive failed fetches of p, saturating at MaxFails
    launched   \* history: every poller was launched when s called Stop

pollVars == <<pc, backoff, token, owed, fails>>
waitVars == <<wg, starter, stopper, panicked>>
stopVars == <<stopped, ctxDone, launched>>
vars == <<pollVars, waitVars, stopVars>>

-----------------------------------------------------------------------------
(* Backoff arithmetic *)

\* x * 2 in two's complement, for a Duration x
Twice(x) == LET d == 2 * x
            IN  IF d > DurationMax THEN d - 2 * (DurationMax + 1)
                ELSE IF d < -(DurationMax + 1) THEN d + 2 * (DurationMax + 1)
                ELSE d

Least(a, b) == IF a <= b THEN a ELSE b

FirstBackoff(p) == IF BackoffInitial[p] <= 0 THEN OneSecond ELSE BackoffInitial[p]

\* Bug: the int64 overflow of backoff*2 is not caught.
NextBackoffOverflow(p) == Least(Twice(backoff[p]), BackoffMax[p])

\* Bug: backoff_max is applied only to a delay that overflowed.
NextBackoffUncapped(p) == LET b == Twice(backoff[p])
                          IN  IF BackoffMax[p] > 0 /\ b <= 0 THEN BackoffMax[p] ELSE b

NextBackoff(p) == LET b == Least(Twice(backoff[p]), BackoffMax[p])
                  IN  IF BackoffMax[p] > 0 /\ b <= 0 THEN BackoffMax[p] ELSE b

-----------------------------------------------------------------------------
Launched == {p \in Providers : pc[p] # "none"}
Running  == {p \in Providers : pc[p] \notin {"none", "done"}}

Init == /\ pc = [p \in Providers |-> "none"]
        /\ backoff = [p \in Providers |-> FirstBackoff(p)]
        /\ token = [p \in Providers |-> FALSE]
        /\ wg = 0
        /\ starter = "idle"
        /\ stopper = [s \in Stoppers |-> "idle"]
        /\ stopped = FALSE
        /\ ctxDone = FALSE
        /\ panicked = FALSE
        /\ owed = [p \in Providers |-> FALSE]
        /\ fails = [p \in Providers |-> 0]
        /\ launched = [s \in Stoppers |-> FALSE]

(***************************************************************************)
(* sync.WaitGroup.  A Wait that finds the counter at zero returns at once; *)
(* otherwise it parks.  The Done that brings the counter to zero releases  *)
(* every parked waiter, and a released waiter that finds the counter       *)
(* nonzero when it runs again panics ("WaitGroup is reused before previous *)
(* Wait has returned").                                                    *)
(***************************************************************************)
WaitResult == IF wg = 0 THEN "returned" ELSE "parked"

Unpark(w) == IF w = "parked" THEN "released" ELSE w

\* Bug: wg.Done is called before returning as well as by the deferred call.
WgDoneTwice == /\ wg' = wg - 2
               /\ starter' = Unpark(starter)
               /\ stopper' = [s \in Stoppers |-> Unpark(stopper[s])]
               /\ UNCHANGED panicked

WgDone == /\ wg' = wg - 1
          /\ IF wg = 1
             THEN /\ starter' = Unpark(starter)
                  /\ stopper' = [s \in Stoppers |-> Unpark(stopper[s])]
             ELSE UNCHANGED <<starter, stopper>>
          /\ UNCHANGED panicked

-----------------------------------------------------------------------------
(* Start: lock startMu, then wg.Add(1) and go poll for each provider, then wg.Wait *)

StartCall == /\ starter = "idle"
             /\ starter' = "launching"
             /\ UNCHANGED <<pollVars, wg, stopper, panicked, stopVars>>

\* The new goroutine's first blocking step is the initial Fetch.
Launch(p) == /\ starter = "launching"
             /\ pc[p] = "none"
             /\ wg' = wg + 1
             /\ pc' = [pc EXCEPT ![p] = "fetch"]
             /\ owed' = [owed EXCEPT ![p] = FALSE]
             /\ UNCHANGED <<backoff, token, fails, starter, stopper, panicked, stopVars>>

StartWait == /\ starter = "launching"
             /\ Launched = Providers
             /\ starter' = WaitResult
             /\ UNCHANGED <<pollVars, wg, stopper, panicked, stopVars>>

StartWake == /\ starter = "released"
             /\ IF wg = 0 THEN starter' = "returned" /\ UNCHANGED panicked
                          ELSE panicked' = TRUE /\ UNCHANGED starter
             /\ UNCHANGED <<pollVars, wg, stopper, stopVars>>

-----------------------------------------------------------------------------
(* Stop: close stopCh once, then wg.Wait *)

StopCall(s) == /\ stopper[s] = "idle"
               /\ stopped' = TRUE
               /\ stopper' = [stopper EXCEPT ![s] = "closing"]
               /\ launched' = [launched EXCEPT ![s] =
                                 starter # "idle" /\ Launched = Providers]
               /\ UNCHANGED <<pollVars, wg, starter, panicked, ctxDone>>

\* Bug: Stop does not wait.
StopReturns(s) == /\ stopper[s] = "closing"
                  /\ stopper' = [stopper EXCEPT ![s] = "returned"]
                  /\ UNCHANGED <<pollVars, wg, starter, panicked, stopVars>>

StopWait(s) == /\ stopper[s] = "closing"
               /\ stopper' = [stopper EXCEPT ![s] = WaitResult]
               /\ UNCHANGED <<pollVars, wg, starter, panicked, stopVars>>

StopWake(s) == /\ stopper[s] = "released"
               /\ IF wg = 0
                  THEN stopper' = [stopper EXCEPT ![s] = "returned"] /\ UNCHANGED panicked
                  ELSE panicked' = TRUE /\ UNCHANGED stopper
               /\ UNCHANGED <<pollVars, wg, starter, stopVars>>

CtxCancel == /\ ~ctxDone
             /\ ctxDone' = TRUE
             /\ UNCHANGED <<pollVars, waitVars, stopped, launched>>

-----------------------------------------------------------------------------
(* Refresh: a non-blocking send on refreshCh; a request that finds the buffer *)
(* full is dropped.  The name of an unknown provider changes nothing.         *)

\* Bug: refreshCh is unbuffered, so only a poller in its select hears a request.
RefreshUnbuffered(p) == /\ token' = [token EXCEPT ![p] = (pc[p] = "select")]
                        /\ owed' = [owed EXCEPT ![p] = TRUE]
                        /\ UNCHANGED <<pc, backoff, fails, waitVars, stopVars>>

Refresh(p) == /\ token' = [token EXCEPT ![p] = TRUE]
              /\ owed' = [owed EXCEPT ![p] = TRUE]
              /\ UNCHANGED <<pc, backoff, fails, waitVars, stopVars>>

-----------------------------------------------------------------------------
(* poll *)

FetchOk(p) == /\ pc[p] = "fetch"
              /\ pc' = [pc EXCEPT ![p] = "select"]
              /\ backoff' = [backoff EXCEPT ![p] = FirstBackoff(p)]
              /\ fails' = [fails EXCEPT ![p] = 0]
              /\ UNCHANGED <<token, owed, waitVars, stopVars>>

\* Bug: a provider that fails is given up.
FetchFailQuits(p) == /\ pc[p] = "fetch"
                     /\ pc' = [pc EXCEPT ![p] = "done"]
                     /\ WgDone
                     /\ UNCHANGED <<backoff, token, owed, fails, stopVars>>

FetchFail(p) == /\ pc[p] = "fetch"
                /\ pc' = [pc EXCEPT ![p] = "backoff"]
                /\ backoff' = [backoff EXCEPT ![p] = NextBackoff(p)]
                /\ fails' = [fails EXCEPT ![p] = Least(fails[p] + 1, MaxFails)]
                /\ UNCHANGED <<token, owed, waitVars, stopVars>>

\* Bug: the backoff is waited for again and again.
BackoffStuck(p) == pc[p] = "backoff" /\ UNCHANGED vars

\* The retry then waits for the interval again: "continue" goes back to the select.
BackoffOver(p) == /\ pc[p] = "backoff"
                  /\ pc' = [pc EXCEPT ![p] = "select"]
                  /\ UNCHANGED <<backoff, token, owed, fails, waitVars, stopVars>>

BeginFetch(p) == /\ pc' = [pc EXCEPT ![p] = "fetch"]
                 /\ owed' = [owed EXCEPT ![p] = FALSE]
                 /\ UNCHANGED <<backoff, fails, waitVars, stopVars>>

IntervalOver(p) == /\ pc[p] = "select"
                   /\ BeginFetch(p)
                   /\ UNCHANGED token

TakeRefresh(p) == /\ pc[p] = "select"
                  /\ token[p]
                  /\ token' = [token EXCEPT ![p] = FALSE]
                  /\ BeginFetch(p)

\* Bug: the selects have no stopCh case.
QuitOnCtx(p) == /\ pc[p] \in {"select", "backoff"}
                /\ ctxDone
                /\ pc' = [pc EXCEPT ![p] = "done"]
                /\ WgDone
                /\ UNCHANGED <<backoff, token, owed, fails, stopVars>>

\* ctx.Done or stopCh in either select, and the deferred wg.Done.
Quit(p) == /\ pc[p] \in {"select", "backoff"}
           /\ stopped \/ ctxDone
           /\ pc' = [pc EXCEPT ![p] = "done"]
           /\ WgDone
           /\ UNCHANGED <<backoff, token, owed, fails, stopVars>>

-----------------------------------------------------------------------------
StartNext == StartCall \/ (\E p \in Providers : Launch(p)) \/ StartWait \/ StartWake

StopNext(s) == StopCall(s) \/ StopWait(s) \/ StopWake(s)

Wait(p) == BackoffOver(p) \/ IntervalOver(p) \/ TakeRefresh(p)

Poll(p) == FetchOk(p) \/ FetchFail(p) \/ Wait(p) \/ Quit(p)

Next == /\ ~panicked
        /\ \/ StartNext
           \/ \E s \in Stoppers : StopNext(s)
           \/ CtxCancel
           \/ \E p \in Providers : Refresh(p) \/ Poll(p)

Spec == Init /\ [][Next]_vars

(***************************************************************************)
(* Fairness.  A runnable goroutine runs; Fetch returns because every       *)
(* provider's HTTP client has a 30 s timeout; timers fire.  A select with  *)
(* several ready cases picks one at random, so the stop case, ready in     *)
(* every select from the moment stopCh is closed, is not passed over for   *)
(* ever: strong fairness of Quit.  Nothing says that Start, Stop or        *)
(* Refresh is called.                                                      *)
(***************************************************************************)
PollFair(p) == WF_vars(~panicked /\ Poll(p)) /\ SF_vars(~panicked /\ Quit(p))

StartStep == StartWait \/ StartWake \/ \E p \in Providers : Launch(p)

Fairness == /\ WF_vars(~panicked /\ StartStep)
            /\ \A s \in Stoppers : WF_vars(~panicked /\ (StopWait(s) \/ StopWake(s)))
            /\ \A p \in Providers : PollFair(p)

FairSpec == Spec /\ Fairness

-----------------------------------------------------------------------------
(* Properties *)

Waiting == {"parked", "released", "returned"}

\* Every variable has its type; the WaitGroup counter is never negative
\* (a negative counter is a panic) and never counts more than the pollers.
TypeOK == /\ pc \in [Providers -> {"none", "fetch", "backoff", "select", "done"}]
          /\ backoff \in [Providers -> Duration]
          /\ token \in [Providers -> BOOLEAN]
          /\ wg \in 0 .. Cardinality(Providers)
          /\ starter \in {"idle", "launching"} \cup Waiting
          /\ stopper \in [Stoppers -> {"idle", "closing"} \cup Waiting]
          /\ stopped \in BOOLEAN
          /\ ctxDone \in BOOLEAN
          /\ panicked \in BOOLEAN
          /\ owed \in [Providers -> BOOLEAN]
          /\ fails \in [Providers -> 0 .. MaxFails]
          /\ launched \in [Stoppers -> BOOLEAN]

\* Coalescing loses no request: while a Refresh has not been followed by the
\* start of a Fetch of that provider, a request waits in refreshCh, wherever
\* the poller is (fetching, backing off, not launched yet).
RefreshHonoured == \A p \in Providers : owed[p] => token[p]

\* 2 to the power of n, for every natural n
Power[n \in Nat] == IF n = 0 THEN 1 ELSE 2 * Power[n - 1]

\* After n consecutive failures the delay before the retry is the first delay
\* doubled n times and capped by backoff_max, in unbounded arithmetic: the
\* int64 overflow of backoff*2 never shows, and a success starts it over.
BackoffSchedule ==
    \A p \in Providers : BackoffMax[p] > 0 /\ fails[p] < MaxFails =>
        backoff[p] = IF fails[p] = 0 THEN FirstBackoff(p)
                     ELSE Least(FirstBackoff(p) * Power[fails[p]], BackoffMax[p])

\* A retry is never later than backoff_max and, if there is one, never
\* immediate.  If there is none (the default is 0, and nothing rejects less), a
\* failure is not backed off from at all, whatever backoff_initial says.
BackoffBounded ==
    \A p \in Providers : pc[p] = "backoff" =>
        IF BackoffMax[p] > 0 THEN backoff[p] \in 1 .. BackoffMax[p]
                             ELSE backoff[p] <= BackoffMax[p]

\* "Stop cancels all polling goroutines and waits for them to finish" holds of
\* a Stop called when Start has launched them all: no poller runs after it has
\* returned.  A WaitGroup panic only hits a Stop that was called before that.
StopWaits == /\ \A s \in Stoppers : launched[s] /\ stopper[s] = "returned" =>
                    \A p \in Providers : pc[p] = "done"
             /\ panicked => \E s \in Stoppers : stopper[s] = "released" /\ ~launched[s]

\* The same promise as the comment on Stop makes it, whatever Start is doing:
\* once Stop has returned no polling goroutine runs.
StopWaitsAlways == \A s \in Stoppers : stopper[s] = "returned" => Running = {}

\* A manual refresh is followed by a Fetch, unless polling, or the process, ends
\* first.
RefreshServed ==
    \A p \in Providers :
        (owed[p] /\ pc[p] # "none") ~> (~owed[p] \/ pc[p] = "done" \/ panicked)

\* Stop ends: if every poller was launched before, they all finish, and Stop
\* and Start both return, even while refreshes keep arriving.
StopEnds ==
    \A s \in Stoppers :
        (launched[s] /\ stopper[s] = "closing") ~>
            \/ panicked
            \/ /\ \A p \in Providers : pc[p] = "done"
               /\ stopper[s] = "returned"
               /\ starter = "returned"

-----------------------------------------------------------------------------
Role == [none |-> "off", fetch |-> "busy", select |-> "ready", backoff |-> "ready",
         done |-> "gone"]
Reply == [idle |-> "none", closing |-> "called", parked |-> "called", released |-> "called",
          returned |-> "answered"]


Work == [p \in Providers |-> Role[pc[p]]]
Told == stopped \/ ctxDone
Call == [s \in Stoppers |-> Reply[stopper[s]]]

W == INSTANCE Workers WITH
       Worker <- Providers, Callers <- Stoppers, work <- Work, told <- Told, call <- Call

\* Start, poll and Stop do for the pollers what Workers promises, whatever the
\* order in which they are called: no poller leaves before stopCh or the context
\* is closed, and a Stop returns only at a moment when none runs.  (One that is
\* launched later is another matter: see StopWaitsAlways.)
WorkersSpec == W!Spec
=============================================================================
