------------------------------ MODULE Adapters ------------------------------
(***************************************************************************)
(* What each provider adapter makes of a response: the quota of every tier *)
(* as a percentage with the moment it resets, or a failure.                *)
(*                                                                         *)
(* Times are minutes since the epoch.  The total of every quota is 100 and *)
(* is left out.  A string that strconv or time cannot parse is Bad and a   *)
(* nil pointer is Nil, both numbers that no int64 is; a missing reset time *)
(* is NoTime.                                                              *)
(***************************************************************************)
EXTENDS Integers, Sequences

CONSTANT MaxInt   \* the largest int64

Hour == 60
Day == 24 * Hour
Month == 30 * Day

\* The windows that the providers use do not overflow.
ASSUME MaxIntAssumption == MaxInt \in Nat /\ MaxInt >= Month

Tiers == {"5H", "1W", "1M"}

Bad == MaxInt + 1
Nil == MaxInt + 1
NoTime == -1

\* The last and the first of a set of indexes
Greatest(S) == CHOOSE i \in S : \A j \in S : j <= i
Least(S) == CHOOSE i \in S : \A j \in S : i <= j

-----------------------------------------------------------------------------
(* int64 arithmetic: + - and * wrap, / truncates towards zero *)

Wrap(x) == ((x + MaxInt + 1) % (2 * (MaxInt + 1))) - (MaxInt + 1)

Quotient(x, y) == IF x >= 0 THEN x \div y ELSE -((-x) \div y)

\* Bug: the percentage is not capped.
NormalizeUncapped(used, total) ==
    IF total <= 0 \/ used < 0 THEN 0 ELSE Quotient(Wrap(used * 100), total)

NormalizeToPercent(used, total) ==
    IF total <= 0 \/ used < 0 THEN 0
    ELSE LET percent == Quotient(Wrap(used * 100), total)
         IN  IF percent > 100 THEN 100 ELSE percent

ClampPercent(v) == IF v < 0 THEN 0 ELSE IF v > 100 THEN 100 ELSE v

Quota(used, resetAt) == [used |-> used, resetAt |-> resetAt]

\* The tier BackfillCanonicalTiers adds where the provider reported none
Default == Quota(0, NoTime)

-----------------------------------------------------------------------------
(* Kimi: a summary, filed by the time to its reset, and a list of windows,   *)
(* filed by their length.  A window replaces what was filed under its tier.  *)

UnitLength == [TIME_UNIT_MINUTE |-> 1, TIME_UNIT_HOUR |-> Hour,
               TIME_UNIT_DAY |-> Day, TIME_UNIT_MONTH |-> Month]

WindowLength(w) == IF w.timeUnit \in DOMAIN UnitLength
                   THEN Wrap(w.duration * UnitLength[w.timeUnit]) ELSE 0

\* Bug: a window of 5 hours sharp has no tier.
MapDurationStrictly(length) == CASE length < 5 * Hour -> "5H"
                                 [] length \in 6 * Day .. 8 * Day -> "1W"
                                 [] length >= 28 * Day -> "1M"
                                 [] OTHER -> ""

MapDurationToTier(length) == CASE length <= 5 * Hour -> "5H"
                               [] length \in 6 * Day .. 8 * Day -> "1W"
                               [] length >= 28 * Day -> "1M"
                               [] OTHER -> ""

InferTierFromReset(left) == CASE left <= 5 * Hour -> "5H"
                              [] left > 5 * Hour /\ left <= 8 * Day -> "1W"
                              [] OTHER -> "1M"

WindowTier(w) == IF WindowLength(w) = 0 THEN "" ELSE MapDurationToTier(WindowLength(w))

Parses(d) == d.limit # Bad /\ d.remaining # Bad /\ d.resetTime # Bad

HasSummary(resp) == resp.usage.resetTime # NoTime

KimiFails(resp) ==
    \/ HasSummary(resp) /\ ~Parses(resp.usage)
    \/ \E i \in DOMAIN resp.limits : /\ WindowTier(resp.limits[i]) # ""
                                     /\ ~Parses(resp.limits[i])

KimiQuota(d) == Quota(NormalizeToPercent(Wrap(d.limit - d.remaining), d.limit), d.resetTime)

FiledUnder(resp, t) == {i \in DOMAIN resp.limits : WindowTier(resp.limits[i]) = t}

KimiSnapshot(resp, now) ==
    [t \in Tiers |->
        IF FiledUnder(resp, t) # {} THEN KimiQuota(resp.limits[Greatest(FiledUnder(resp, t))])
        ELSE IF HasSummary(resp) /\ InferTierFromReset(resp.usage.resetTime - now) = t
             THEN KimiQuota(resp.usage)
        ELSE Default]

-----------------------------------------------------------------------------
(* MiniMax: of the first model named "general", the current interval and the *)
(* week, each by its remaining percentage or else by counts.  usageCount is  *)
(* the remaining count.                                                      *)

MiniMaxFails(resp) == resp.statusCode # 0

MiniMaxUsed(w) ==
    CASE w.remainingPercent \in 0 .. 100 -> 100 - w.remainingPercent
      [] w.remainingPercent \notin 0 .. 100 /\ w.totalCount > 0 ->
            LET used == Wrap(w.totalCount - w.usageCount)
            IN  NormalizeToPercent(IF used < 0 THEN 0 ELSE used, w.totalCount)
      [] OTHER -> 0

General(resp) == {i \in DOMAIN resp.models : resp.models[i].name = "general"}

MiniMaxSnapshot(resp) ==
    IF General(resp) = {} THEN [t \in Tiers |-> Default]
    ELSE LET model == resp.models[Least(General(resp))]
             window == [t \in {"5H", "1W"} |-> IF t = "5H" THEN model.interval ELSE model.weekly]
         IN  [t \in Tiers |-> IF t = "1M" THEN Default
                              ELSE Quota(MiniMaxUsed(window[t]), window[t].endTime)]

-----------------------------------------------------------------------------
(* Z.ai and Zhipu: a list of limits; one that says neither a percentage nor  *)
(* enough counts is skipped.                                                 *)

MonitorFails(resp) == ~resp.success \/ resp.code # 200

MapUnitToTier(unit) == CASE unit = 3 -> "5H" [] unit = 5 -> "1M" [] OTHER -> ""

Measured(l) == \/ l.percentage # Nil
               \/ /\ l.usage # Nil \/ l.remaining # Nil
                  /\ l.currentValue # Nil /\ l.currentValue > 0

MonitorUsed(l) ==
    IF l.percentage # Nil THEN ClampPercent(l.percentage)
    ELSE NormalizeToPercent(IF l.usage # Nil THEN l.usage
                            ELSE Wrap(l.currentValue - l.remaining), l.currentValue)

MonitorQuota(l) == Quota(MonitorUsed(l),
                         IF l.nextResetTime = Nil THEN NoTime ELSE l.nextResetTime)

MonitorSnapshot(resp) ==
    LET limits(t) == {i \in DOMAIN resp.limits : /\ MapUnitToTier(resp.limits[i].unit) = t
                                                 /\ Measured(resp.limits[i])}
    IN  [t \in Tiers |-> IF limits(t) = {} THEN Default
                         ELSE MonitorQuota(resp.limits[Greatest(limits(t))])]

-----------------------------------------------------------------------------
(* CPA: the pool's remaining percentage is the average over the accounts     *)
(* that answered, for every tier.                                            *)

AuthFile == [type : STRING, disabled : BOOLEAN, unavailable : BOOLEAN,
             status : STRING, authIndex : STRING, accountId : STRING]

Queryable(file) == /\ file.type = "codex"
                   /\ ~file.disabled /\ ~file.unavailable
                   /\ file.status = "active"
                   /\ file.authIndex # "" /\ file.accountId # ""

AccountUsage == [rateLimit : BOOLEAN, allowed : BOOLEAN, limitReached : BOOLEAN,
                 credits : BOOLEAN, spendReached : BOOLEAN, windows : SUBSET Int]

Blocked(u) == \/ (~u.allowed \/ u.limitReached) /\ ~u.credits
              \/ u.spendReached

\* used_percent of all windows of an account, additional limits included, is
\* the set u.windows.
EffectiveRemaining(u) ==
    IF ~u.rateLimit THEN 100
    ELSE IF Blocked(u) THEN 0
    ELSE IF u.windows = {} THEN 100
    ELSE 100 - Greatest({ClampPercent(w) : w \in u.windows})

SumOf(answers) == LET sum[i \in 0 .. Len(answers)] ==
                        IF i = 0 THEN 0 ELSE sum[i - 1] + answers[i]
                  IN  sum[Len(answers)]

Pooled(answers, now) ==
    [t \in Tiers |-> Quota(100 - SumOf(answers) \div Len(answers), now)]
=============================================================================
