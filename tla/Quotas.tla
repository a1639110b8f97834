------------------------------- MODULE Quotas -------------------------------
(***************************************************************************)
(* The quotas of one provider, from its answer to the tile that a reader   *)
(* of the dashboard sees: Fetch of the adapter, Store.Update with the      *)
(* omission of expired tiers, the gauges, the derived status and the       *)
(* dashboard's normalisation.                                              *)
(*                                                                         *)
(* A provider states quotas of its own (the truth); Says gives the forms   *)
(* in which its API may express them, some of them spoiled.  Time jumps    *)
(* between the moments of TimePoints, before any step.                     *)
(***************************************************************************)
EXTENDS Adapters, FiniteSets

CONSTANTS Kinds,          \* which of the adapters are instantiated
          TimePoints,     \* the moments the clock shows, in minutes
          MaxStale,       \* global.max_stale_duration
          MaxVersion,     \* bound: snapshots stored
          Reports,        \* the quotas a provider may state
          AuthFiles,      \* the lists of accounts the CPA management API may give
          AccountUsages   \* the usage the upstream may state of an account

ASSUME TimeAssumption == /\ TimePoints \subseteq Nat /\ TimePoints # {}
                         /\ MaxStale \in Int /\ MaxVersion \in Nat
ASSUME ReportsAssumption ==
    \A q \in Reports : /\ q.total \in 1 .. MaxInt
                       /\ q.used \in 0 .. MaxInt
                       /\ q.resetAt = NoTime \/ q.resetAt \in 0 .. MaxInt
ASSUME AuthFilesAssumption == AuthFiles \subseteq Seq(AuthFile)
ASSUME UsagesAssumption == AccountUsages \subseteq AccountUsage
ASSUME KindsAssumption == Kinds \subseteq {"kimi", "minimax", "monitor", "cpa"}

VARIABLES kind,       \* the adapter of this provider
          clock,
          cancelled,  \* main's context is done
          pc,         \* where the poller is in Fetch, or that it is "idle"
          queue,      \* CPA: how many accounts are still to be queried
          answers,    \* CPA: the remaining percentages so far
          heard,      \* history: what was answered, before it was interpreted
          hand,       \* the snapshot Fetch has returned
          stored,     \* the store's snapshot, with what it was made from
          gauge       \* per tier, what coding_plan_usage_value and _reset_timestamp hold

vars == <<kind, clock, cancelled, pc, queue, answers, heard, hand, stored, gauge>>

-----------------------------------------------------------------------------
(* The providers' APIs *)

\* The whole percentage of a stated quota, by its defining inequality
Percent == [q \in Reports |-> CHOOSE p \in 0 .. 100 :
                                 /\ p * q.total <= 100 * q.used
                                 /\ p = 100 \/ 100 * q.used < (p + 1) * q.total]

Stated(q) == Quota(Percent[q], q.resetAt)

\* used * 100 does not wrap.
Fits(q) == q.used * 100 <= MaxInt

\* The tiers in which a plan of the provider may have quotas
Plans(k) == CASE k = "kimi" -> {{}, {"5H", "1W"}}
              [] k = "minimax" -> {{}, {"5H"}, {"5H", "1W"}}
              [] k = "monitor" -> {{}, {"5H", "1M"}}
              [] OTHER -> {}

\* MiniMax gives every quota an end.
Truth(k) == LET reports == {q \in Reports : k = "minimax" => q.resetAt # NoTime}
            IN  UNION {[plan -> reports] : plan \in Plans(k)}

Detail(q) == [limit |-> q.total, remaining |-> q.total - q.used, resetTime |-> q.resetAt]
Window(duration, unit, q) == [limit |-> q.total, remaining |-> q.total - q.used,
                              resetTime |-> q.resetAt,
                              duration |-> duration, timeUnit |-> unit]
NoUsage == [limit |-> 0, remaining |-> 0, resetTime |-> NoTime]

\* Kimi: the week as the summary or as a window, next to windows of no tier
KimiSays(truth) ==
    LET hours == Window(300, "TIME_UNIT_MINUTE", truth["5H"])
        week == Window(7, "TIME_UNIT_DAY", truth["1W"])
        other == Window(1, "TIME_UNIT_YEAR", truth["1W"])
        fifth == Window(10, "TIME_UNIT_DAY", truth["5H"])
        forms == { [usage |-> Detail(truth["1W"]), limits |-> <<hours, other>>],
                   [usage |-> NoUsage, limits |-> <<fifth, week, hours>>],
                   [usage |-> NoUsage, limits |-> <<[week EXCEPT !.limit = Bad], hours>>] }
    IN  IF DOMAIN truth = {} THEN {[usage |-> NoUsage, limits |-> <<>>]}
        ELSE {form \in forms : truth["1W"].resetAt = NoTime => form.usage = NoUsage}

\* MiniMax: percentages, or counts where a percentage is out of range
ByPercent(q) == [remainingPercent |-> 100 - Percent[q], totalCount |-> 0,
                 usageCount |-> 0, endTime |-> q.resetAt]
ByCount(q) == [remainingPercent |-> Nil, totalCount |-> q.total,
               usageCount |-> q.total - q.used, endTime |-> q.resetAt]
\* The fields of a window in which the model has no quota are 0.
NoQuota(percent) == [remainingPercent |-> percent, totalCount |-> 0,
                     usageCount |-> 0, endTime |-> 0]
Model(name, interval, weekly) == [name |-> name, interval |-> interval, weekly |-> weekly]

Models(truth) ==
    LET h == truth["5H"]
        w == truth["1W"]
        video == [ByPercent(h) EXCEPT !.remainingPercent = 1]
    IN  CASE DOMAIN truth = {} -> { <<>>, <<Model("video", NoQuota(Nil), NoQuota(Nil))>> }
          [] DOMAIN truth = {"5H"} ->
                { <<Model("general", ByPercent(h), NoQuota(0))>>,
                  <<Model("general", ByCount(h), NoQuota(Nil))>> }
          [] OTHER ->
                { <<Model("general", ByPercent(h), ByPercent(w))>>,
                  <<Model("video", video, ByPercent(w)), Model("general", ByCount(h), ByCount(w))>> }

MiniMaxSays(truth) == {[statusCode |-> 0, models |-> models] : models \in Models(truth)}
                          \cup {[statusCode |-> 1004, models |-> <<>>]}

\* Z.ai and Zhipu: a percentage, the usage or what remains; units of no tier
Limit(unit, q) == [unit |-> unit, percentage |-> Nil, usage |-> Nil, remaining |-> Nil,
                   currentValue |-> q.total,
                   nextResetTime |-> IF q.resetAt = NoTime THEN Nil ELSE q.resetAt]
AsPercentage(unit, q) == [Limit(unit, q) EXCEPT !.percentage = Percent[q]]
AsUsage(unit, q) == [Limit(unit, q) EXCEPT !.usage = q.used]
AsRemaining(unit, q) == [Limit(unit, q) EXCEPT !.remaining = q.total - q.used]
Limits(hours, month, truth) == <<hours, month, [hours EXCEPT !.unit = 6], Limit(3, truth["1M"])>>

MonitorSays(truth) ==
    LET h == truth["5H"]
        m == truth["1M"]
        lists == IF DOMAIN truth = {} THEN {<<>>}
                 ELSE { Limits(AsPercentage(3, h), AsPercentage(5, m), truth),
                        Limits(AsUsage(3, h), AsUsage(5, m), truth),
                        Limits(AsRemaining(3, h), AsRemaining(5, m), truth) }
    IN  {[success |-> TRUE, code |-> 200, limits |-> list] : list \in lists}
            \cup {[success |-> FALSE, code |-> 200, limits |-> <<>>]}

Says(k, truth) == CASE k = "kimi" -> KimiSays(truth)
                    [] k = "minimax" -> MiniMaxSays(truth)
                    [] k = "monitor" -> MonitorSays(truth)

Answers == [k \in Kinds |-> UNION {{truth} \X Says(k, truth) : truth \in Truth(k)}]

-----------------------------------------------------------------------------
(* Fetch *)

Fails(resp) == CASE kind = "kimi" -> KimiFails(resp)
                 [] kind = "minimax" -> MiniMaxFails(resp)
                 [] kind = "monitor" -> MonitorFails(resp)

Snapshot(resp) == CASE kind = "kimi" -> KimiSnapshot(resp, clock)
                    [] kind = "minimax" -> MiniMaxSnapshot(resp)
                    [] kind = "monitor" -> MonitorSnapshot(resp)

Nothing == [truth |-> <<>>, at |-> NoTime, summary |-> FALSE, pool |-> <<>>]
NoHand == [quotas |-> <<>>, said |-> Nothing]

\* Fetch returns the snapshot quotas, made of what was said.
Return(quotas, said) == /\ pc' = "fetched"
                        /\ hand' = [quotas |-> quotas, said |-> said]
                        /\ queue' = 0 /\ answers' = <<>> /\ heard' = <<>>
                        /\ UNCHANGED <<kind, clock, cancelled, stored, gauge>>

\* Fetch returns an error; nothing of the answer is kept.
GiveUp == /\ pc' = "idle"
          /\ queue' = 0 /\ answers' = <<>> /\ heard' = <<>>
          /\ UNCHANGED <<kind, clock, cancelled, hand, stored, gauge>>

Begin == /\ pc = "idle" /\ stored.version < MaxVersion
         /\ pc' = IF kind = "cpa" THEN "listing" ELSE "fetching"
         /\ UNCHANGED <<kind, clock, cancelled, queue, answers, heard, hand, stored, gauge>>

\* A transport error, a status other than 200, a body that is no JSON, or a
\* request under a cancelled context
RequestFails == pc \in {"fetching", "listing"} /\ GiveUp

Receive(truth, resp) ==
    /\ pc = "fetching" /\ ~cancelled
    /\ IF Fails(resp) THEN GiveUp
       ELSE Return(Snapshot(resp),
                   [truth |-> truth, at |-> clock, pool |-> <<>>,
                    summary |-> kind = "kimi" /\ HasSummary(resp)])

-----------------------------------------------------------------------------
(* Fetch of the CPA adapter *)

List(files) ==
    LET queryable == {i \in DOMAIN files : Queryable(files[i])}
    IN  /\ pc = "listing" /\ ~cancelled
        /\ IF queryable = {} THEN GiveUp
           ELSE /\ pc' = "querying" /\ queue' = Cardinality(queryable)
                /\ UNCHANGED <<kind, clock, cancelled, answers, heard, hand, stored, gauge>>

\* The loop goes on to the next account, or ends with what was gathered.
NextAccount(gathered, said) ==
    IF queue > 1
    THEN /\ pc' = "staggering" /\ queue' = queue - 1
         /\ answers' = gathered /\ heard' = said
         /\ UNCHANGED <<kind, clock, cancelled, hand, stored, gauge>>
    ELSE IF gathered = <<>> THEN GiveUp
    ELSE Return(Pooled(gathered, clock), [Nothing EXCEPT !.at = clock, !.pool = said])

Query(usage) == /\ pc = "querying" /\ ~cancelled
                /\ NextAccount(Append(answers, EffectiveRemaining(usage)), Append(heard, usage))

\* Bug: an account that cannot be queried counts as one with nothing left.
QueryFailsAsZero == pc = "querying" /\ NextAccount(Append(answers, 0), heard)

\* Bug: an account that cannot be queried is asked again.
QueryFailsRetries == /\ pc = "querying" /\ pc' = "staggering"
                     /\ UNCHANGED <<kind, clock, cancelled, queue, answers, heard, hand,
                                    stored, gauge>>

QueryFails == pc = "querying" /\ NextAccount(answers, heard)

Stagger == \/ /\ pc = "staggering"
              /\ pc' = "querying"
              /\ UNCHANGED <<kind, clock, cancelled, queue, answers, heard, hand, stored, gauge>>
           \/ pc = "staggering" /\ cancelled /\ GiveUp

-----------------------------------------------------------------------------
(* Store.Update, with its OnUpdate callback *)

Expired(quota, now) == quota.resetAt # NoTime /\ now - quota.resetAt > MaxStale

\* Bug: an expired tier is kept.
OmitNothing(quotas, now) == quotas

OmitStaleQuotas(quotas, now) ==
    IF MaxStale <= 0 THEN quotas
    ELSE [t \in {u \in DOMAIN quotas : ~Expired(quotas[u], now)} |-> quotas[t]]

Update == /\ pc = "fetched"
          /\ stored' = [version |-> stored.version + 1, lastSync |-> clock,
                        quotas |-> OmitStaleQuotas(hand.quotas, clock), said |-> hand.said]
          /\ LET served == stored'.quotas
            IN  gauge' = [t \in DOMAIN served \cup DOMAIN gauge |->
                             IF t \in DOMAIN served THEN served[t] ELSE gauge[t]]
          /\ pc' = "idle" /\ hand' = NoHand
          /\ UNCHANGED <<kind, clock, cancelled, queue, answers, heard>>

-----------------------------------------------------------------------------
(* What a reader is shown *)

IsStale(t) == /\ t \in DOMAIN stored.quotas
              /\ stored.quotas[t].resetAt # NoTime
              /\ stored.lastSync - stored.quotas[t].resetAt > MaxStale

DeriveStatus ==
    IF stored.version = 0 THEN "initializing"
    ELSE IF \E t \in Tiers : /\ IsStale(t)
                             /\ clock - stored.quotas[t].resetAt > MaxStale
         THEN "degraded" ELSE "healthy"

Unavailable == [available |-> FALSE, percentage |-> 0, unlimited |-> TRUE]

Tile(t) == IF t \notin DOMAIN stored.quotas THEN Unavailable
           ELSE [available |-> TRUE, percentage |-> ClampPercent(stored.quotas[t].used),
                 unlimited |-> stored.quotas[t].resetAt = NoTime]

-----------------------------------------------------------------------------
Init == /\ kind \in Kinds /\ clock \in TimePoints /\ ~(\E t \in TimePoints : t < clock)
        /\ cancelled = FALSE /\ pc = "idle"
        /\ queue = 0 /\ answers = <<>> /\ heard = <<>>
        /\ hand = NoHand
        /\ stored = [version |-> 0, lastSync |-> NoTime, quotas |-> <<>>, said |-> Nothing]
        /\ gauge = <<>>

Tick == /\ \E t \in TimePoints : t > clock /\ clock' = t
        /\ UNCHANGED <<kind, cancelled, pc, queue, answers, heard, hand, stored, gauge>>

Cancel == /\ ~cancelled /\ cancelled' = TRUE
          /\ UNCHANGED <<kind, clock, pc, queue, answers, heard, hand, stored, gauge>>

Fetch == \/ RequestFails
         \/ \E answer \in Answers[kind] : Receive(answer[1], answer[2])
         \/ \E files \in AuthFiles : List(files)
         \/ \E usage \in AccountUsages : Query(usage)
         \/ QueryFails
         \/ Stagger

Next == Begin \/ Fetch \/ Update \/ Tick \/ Cancel

Spec == Init /\ [][Next]_vars

\* A request ends by its client's timeout, the stagger by its timer, and the
\* poller's goroutine runs on.
FairSpec == Spec /\ WF_vars(Fetch) /\ WF_vars(Update)

-----------------------------------------------------------------------------
(* Properties *)

AllFit == \A q \in Reports : Fits(q)

IsQuotaMap(quotas) ==
    /\ DOMAIN quotas \subseteq Tiers
    /\ \A t \in DOMAIN quotas : /\ quotas[t] \in [used : Int, resetAt : Nat \cup {NoTime}]
                                /\ quotas[t].used <= 100
                                /\ AllFit => quotas[t].used >= 0

\* Types: in hand, in the store and in the gauges a quota is a percentage of
\* one of the three tiers, none below zero as long as the counts fit; queue
\* and answers are those of one Fetch.
TypeOK == /\ kind \in Kinds /\ clock \in TimePoints /\ cancelled \in BOOLEAN
          /\ pc \in {"idle", "fetching", "listing", "querying", "staggering", "fetched"}
          /\ queue \in Nat /\ (queue # 0) = (pc \in {"querying", "staggering"})
          /\ \A i \in DOMAIN answers : answers[i] \in 0 .. 100
          /\ IsQuotaMap(hand.quotas)
          /\ (hand # NoHand) = (pc = "fetched")
          /\ stored.version \in 0 .. MaxVersion
          /\ stored.lastSync \in TimePoints \cup {NoTime}
          /\ IsQuotaMap(stored.quotas) /\ IsQuotaMap(gauge)

\* A Kimi summary names no tier: the week it reports is filed by the time that
\* is left of it.
FiledAs(said, u) == IF said.summary /\ u = "1W"
                    THEN InferTierFromReset(said.truth["1W"].resetAt - said.at)
                    ELSE u

\* What is filed under a tier: the quota stated for it, else a week guessed to
\* be that tier.  A week that a MiniMax model does not have ends at the epoch,
\* and is used up if its remaining percentage is 0.  Else nothing is used.
Filed(k, said, t) ==
    IF t \in DOMAIN said.truth /\ FiledAs(said, t) = t THEN {Stated(said.truth[t])}
    ELSE IF "1W" \in DOMAIN said.truth /\ FiledAs(said, "1W") = t
         THEN {Stated(said.truth["1W"])}
    ELSE IF k = "minimax" /\ t = "1W" /\ DOMAIN said.truth # {}
         THEN {Quota(0, 0), Quota(100, 0)}
    ELSE {Default}

\* From the provider's answer to the reader's eye: a tile shows the whole
\* percentage that the provider stated and is filed under its tier, as
\* unlimited exactly if it has no reset, and is unavailable exactly if the
\* reset lay back by more than max_stale_duration at the sync.  The gauges of
\* a tier that is served agree.
ShownIsReported ==
    LET said == stored.said
    IN  (stored.version > 0 /\ kind # "cpa" /\ \A u \in DOMAIN said.truth : Fits(said.truth[u])) =>
            \A t \in Tiers : \E q \in Filed(kind, said, t) :
               /\ Tile(t) = IF MaxStale > 0 /\ Expired(q, stored.lastSync) THEN Unavailable
                            ELSE [available |-> TRUE, percentage |-> q.used,
                                  unlimited |-> q.resetAt = NoTime]
               /\ Tile(t).available => t \in DOMAIN gauge /\ gauge[t] = q

\* No reader is served a tier that the rule of the status calls stale: one
\* whose window had ended longer than max_stale_duration before the sync.
StaleNeverServed == MaxStale > 0 => \A t \in DOMAIN stored.quotas : ~IsStale(t)

\* The status as the documentation states it: degraded as soon as the reset of
\* a tier is older than max_stale_duration.
DegradedWhenStale ==
    (/\ stored.version > 0
     /\ \E t \in DOMAIN stored.quotas : Expired(stored.quotas[t], clock)) =>
        DeriveStatus = "degraded"

\* What an account may still use, by its defining conditions
Allows(u, r) ==
    \/ r = 0
    \/ ~u.rateLimit
    \/ /\ u.credits \/ (u.allowed /\ ~u.limitReached)
       /\ ~u.spendReached
       /\ \A w \in u.windows : w + r <= 100
Room(u) == Greatest({r \in 0 .. 100 : Allows(u, r)})

\* The pool's quota is the mean of what the accounts that answered may still
\* use, rounded down.  One that could not be queried, or a cancellation in the
\* middle, adds nothing to it, and without an answer nothing is stored.
PoolSound ==
    (stored.version > 0 /\ kind = "cpa") =>
        LET n == Len(stored.said.pool)
            room == SumOf([i \in 1 .. n |-> Room(stored.said.pool[i])])
        IN  /\ n > 0
            /\ \A t \in DOMAIN stored.quotas :
                  LET left == 100 - Tile(t).percentage
                  IN  n * left <= room /\ room < n * (left + 1)

\* A Fetch ends, with a snapshot stored or without, whatever its requests do
\* and whenever the context is cancelled.
FetchEnds == (pc # "idle") ~> (pc = "idle")
=============================================================================
