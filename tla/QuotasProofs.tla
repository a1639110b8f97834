---------------------------- MODULE QuotasProofs ----------------------------
(***************************************************************************)
(* Theorems of Quotas and of the percentage it rests on, for any answers,  *)
(* any moments, any max_stale_duration and integers of any width.          *)
(***************************************************************************)
EXTENDS Quotas, NatRecursion, FiniteSetTheorems, SequenceTheorems, TLAPS

\* Within the width of an int64 the arithmetic is that of the integers.
LEMMA WrapFits ==
    ASSUME NEW x \in 0 .. MaxInt
    PROVE  Wrap(x) = x
<1> DEFINE m == MaxInt + 1
<1>1. m \in Nat \ {0} /\ x \in Nat /\ x < m
  BY MaxIntAssumption
<1>2. Wrap(x) = ((x + m) % (2 * m)) - m
  BY MaxIntAssumption DEF Wrap
<1> HIDE DEF m
<1>3. (x + m) % (2 * m) = x + m
  <2>1. x + m \in Nat /\ 2 * m \in Nat \ {0} /\ x + m < 2 * m
    BY <1>1
  <2>2. \A t \in Nat, w \in Nat \ {0} : t < w => t % w = t
    OBVIOUS
  <2> QED
    BY <2>1, <2>2
<1> QED
  BY <1>1, <1>2, <1>3

\* The percentage is the whole part of 100 * used / total, capped at 100, and
\* nothing else: as long as used * 100 fits in an int64.
THEOREM PercentIsFloor ==
    ASSUME NEW used \in Nat, NEW total \in Nat \ {0}, used * 100 <= MaxInt
    PROVE  LET percent == NormalizeToPercent(used, total)
           IN  /\ percent \in 0 .. 100
               /\ percent * total <= used * 100
               /\ percent = 100 \/ used * 100 < (percent + 1) * total
<1> DEFINE hundredfold == used * 100
           whole == hundredfold \div total
<1>1. hundredfold \in 0 .. MaxInt
  BY MaxIntAssumption
<1>2. Wrap(hundredfold) = hundredfold
  BY <1>1, WrapFits
<1>3. NormalizeToPercent(used, total) = IF whole > 100 THEN 100 ELSE whole
  <2>1. ~(total <= 0 \/ used < 0)
    OBVIOUS
  <2>2. Quotient(hundredfold, total) = whole
    BY <1>1 DEF Quotient
  <2> QED
    BY <1>2, <2>1, <2>2 DEF NormalizeToPercent
<1>4. whole \in Nat /\ whole * total <= hundredfold /\ hundredfold < (whole + 1) * total
  <2>1. \A n \in Nat, d \in Nat \ {0} :
           n \div d \in Nat /\ (n \div d) * d <= n /\ n < ((n \div d) + 1) * d
    OBVIOUS
  <2>2. hundredfold \in Nat
    BY <1>1
  <2> HIDE DEF hundredfold
  <2> QED
    BY <2>1, <2>2
<1>5. hundredfold \in Nat
  BY <1>1
<1> HIDE DEF whole
<1>6. CASE whole > 100
  <2>1. NormalizeToPercent(used, total) = 100
    BY <1>3, <1>6
  <2>2. 100 * total <= whole * total
    BY <1>4, <1>6
  <2>3. 100 * total <= hundredfold
    BY <1>4, <1>5, <2>2
  <2> QED
    BY <2>1, <2>3
<1>7. CASE ~(whole > 100)
  BY <1>3, <1>4, <1>7
<1> QED
  BY <1>6, <1>7

\* What the provider states as a percentage is what NormalizeToPercent makes of
\* its counts, if they fit: the defining inequality has one solution.
LEMMA PercentIsNormalized ==
    ASSUME NEW q \in Reports, Fits(q)
    PROVE  Percent[q] = NormalizeToPercent(q.used, q.total)
<1> DEFINE x == 100 * q.used
           T == q.total
           Is(p) == p * T <= x /\ (p = 100 \/ x < (p + 1) * T)
           percent == NormalizeToPercent(q.used, q.total)
<1>1. T \in Nat \ {0} /\ x \in Nat /\ x = q.used * 100
  BY ReportsAssumption, MaxIntAssumption
<1>2. percent \in 0 .. 100 /\ Is(percent)
  <2>1. q.used \in Nat /\ q.total \in Nat \ {0} /\ q.used * 100 <= MaxInt
    BY <1>1, ReportsAssumption, MaxIntAssumption DEF Fits
  <2> QED
    BY <1>1, <2>1, PercentIsFloor
<1>3. ASSUME NEW p \in 0 .. 100, Is(p), NEW r \in 0 .. 100, Is(r)
      PROVE  ~(p < r)
  <2> HIDE DEF T, x
  <2> SUFFICES ASSUME p < r PROVE FALSE
    OBVIOUS
  <2>1. (p + 1) * T <= r * T
    <3>1. \A a \in Nat, b \in Nat, c \in Nat : a <= b => a * c <= b * c
      OBVIOUS
    <3>2. p + 1 \in Nat /\ r \in Nat /\ p + 1 <= r /\ T \in Nat
      BY <1>1
    <3> HIDE DEF Is
    <3> QED
      BY <3>1, <3>2
  <2>2. x < (p + 1) * T /\ r * T <= x
    BY <1>3
  <2>3. (p + 1) * T \in Int /\ r * T \in Int
    BY <1>1
  <2> HIDE DEF Is
  <2> QED
    BY <1>1, <2>1, <2>2, <2>3
<1>4. Percent[q] = CHOOSE p \in 0 .. 100 : Is(p)
  BY DEF Percent
<1> HIDE DEF Is, percent
<1>5. \A p \in 0 .. 100 : Is(p) => p = percent
  <2> SUFFICES ASSUME NEW p \in 0 .. 100, Is(p) PROVE p = percent
    OBVIOUS
  <2>1. ~(p < percent) /\ ~(percent < p)
    BY <1>2, <1>3
  <2> QED
    BY <1>2, <2>1
<1>6. Percent[q] = percent
  BY <1>2, <1>4, <1>5
<1> QED
  BY <1>6 DEF percent

\* The inequality has a solution, whatever the counts.
LEMMA PercentIsPercent ==
    ASSUME NEW q \in Reports
    PROVE  Percent[q] \in 0 .. 100
<1> DEFINE x == 100 * q.used
           T == q.total
           whole == x \div T
           Is(p) == p * T <= x /\ (p = 100 \/ x < (p + 1) * T)
<1>1. T \in Nat \ {0} /\ x \in Nat
  BY ReportsAssumption, MaxIntAssumption
<1>2. whole \in Nat /\ whole * T <= x /\ x < (whole + 1) * T
  <2>1. \A n \in Nat, d \in Nat \ {0} :
           n \div d \in Nat /\ (n \div d) * d <= n /\ n < ((n \div d) + 1) * d
    OBVIOUS
  <2> HIDE DEF x, T
  <2> QED
    BY <1>1, <2>1
<1>3. Percent[q] = CHOOSE p \in 0 .. 100 : Is(p)
  BY DEF Percent
<1> HIDE DEF x, T, whole
<1>4. CASE whole <= 100
  <2>1. whole \in 0 .. 100 /\ Is(whole)
    BY <1>2, <1>4
  <2> HIDE DEF Is
  <2> QED
    BY <1>3, <2>1
<1>5. CASE whole > 100
  <2>1. 100 * T <= whole * T
    BY <1>1, <1>2, <1>5
  <2>2. 100 \in 0 .. 100 /\ Is(100)
    BY <1>1, <1>2, <2>1
  <2> HIDE DEF Is
  <2> QED
    BY <1>3, <2>2
<1> QED
  BY <1>2, <1>4, <1>5

\* NormalizeToPercent caps at 100 whatever wraps; it does not keep above 0.
LEMMA NormalizedIsCapped ==
    ASSUME NEW used \in Int, NEW total \in Int
    PROVE  /\ NormalizeToPercent(used, total) \in Int
           /\ NormalizeToPercent(used, total) <= 100
<1> DEFINE product == Wrap(used * 100)
           percent == Quotient(product, total)
<1>1. \A x \in Int : Wrap(x) \in Int
  BY MaxIntAssumption DEF Wrap
<1>2. product \in Int
  <2>1. used * 100 \in Int
    OBVIOUS
  <2> QED
    BY <1>1, <2>1
<1>3. CASE total <= 0 \/ used < 0
  BY <1>3 DEF NormalizeToPercent
<1>4. CASE ~(total <= 0 \/ used < 0)
  <2>1. NormalizeToPercent(used, total) = IF percent > 100 THEN 100 ELSE percent
    BY <1>4 DEF NormalizeToPercent
  <2>2. \A x \in Int, y \in Nat \ {0} : Quotient(x, y) \in Int
    BY DEF Quotient
  <2>3. total \in Nat \ {0}
    BY <1>4
  <2> HIDE DEF product
  <2>4. percent \in Int
    BY <1>2, <2>2, <2>3
  <2> HIDE DEF percent
  <2> QED
    BY <2>1, <2>4
<1> QED
  BY <1>3, <1>4

\* The greatest and the least of a few indexes are among them.
LEMMA GreatestIs ==
    ASSUME NEW b \in Nat, NEW S \in SUBSET (0 .. b), S # {}
    PROVE  Greatest(S) \in S /\ \A j \in S : j <= Greatest(S)
BY HasGreatest DEF Greatest

-----------------------------------------------------------------------------
(***************************************************************************)
(* The adapters.  A stated quota q is filed as stated or by its counts,    *)
(* which is the same if they fit.                                          *)
(***************************************************************************)
Counted(q) == Quota(NormalizeToPercent(q.used, q.total), q.resetAt)

Filings(q) == {Stated(q), Counted(q)}

Values == {Default, Quota(0, 0), Quota(100, 0)} \cup UNION {Filings(q) : q \in Reports}

LEMMA FittingFilings ==
    ASSUME NEW q \in Reports, Fits(q)
    PROVE  Filings(q) = {Stated(q)}
BY PercentIsNormalized DEF Filings, Stated, Counted

\* What is filed is at most 100, not negative if all counts fit, and has a
\* moment or none.
LEMMA ValuesType ==
    ASSUME NEW v \in Values
    PROVE  /\ v \in [used : Int, resetAt : Nat \cup {NoTime}]
           /\ v.used <= 100
           /\ AllFit => v.used >= 0
<1>1. CASE v \in {Default, Quota(0, 0), Quota(100, 0)}
  BY <1>1 DEF Default, Quota
<1>2. ASSUME NEW q \in Reports, v \in Filings(q)
      PROVE  /\ v \in [used : Int, resetAt : Nat \cup {NoTime}]
             /\ v.used <= 100
             /\ AllFit => v.used >= 0
  <2>1. q.resetAt \in Nat \cup {NoTime} /\ q.used \in Int /\ q.total \in Int
    BY ReportsAssumption, MaxIntAssumption DEF Month, Day, Hour
  <2>2. Percent[q] \in 0 .. 100
    BY PercentIsPercent
  <2>3. CASE v = Stated(q)
    BY <2>1, <2>2, <2>3 DEF Stated, Quota
  <2>4. CASE v = Counted(q)
    <3>1. v \in [used : Int, resetAt : Nat \cup {NoTime}] /\ v.used <= 100
      BY <2>1, <2>4, NormalizedIsCapped DEF Counted, Quota
    <3>2. AllFit => v = Stated(q)
      BY <2>4, FittingFilings DEF AllFit, Filings
    <3> QED
      BY <2>2, <3>1, <3>2 DEF Stated, Quota
  <2> QED
    BY <1>2, <2>3, <2>4 DEF Filings
<1> QED
  BY <1>1, <1>2 DEF Values

\* The counts of a stated quota: what they are subtracted to, and that a
\* number of an API is neither Bad nor Nil.
LEMMA ReportFits ==
    ASSUME NEW q \in Reports
    PROVE  /\ q.total \in Nat \ {0} /\ q.used \in Nat /\ q.used <= MaxInt
           /\ q.total # Bad /\ q.total - q.used # Bad /\ q.resetAt # Bad
           /\ q.used # Nil /\ q.total # Nil /\ q.total - q.used # Nil /\ q.resetAt # Nil
           /\ Percent[q] # Nil
           /\ Wrap(q.total - (q.total - q.used)) = q.used
<1>1. MaxInt \in Nat /\ MaxInt >= 100
  BY MaxIntAssumption DEF Month, Day, Hour
<1>2. /\ q.total \in 1 .. MaxInt /\ q.used \in 0 .. MaxInt
      /\ q.resetAt = -1 \/ q.resetAt \in 0 .. MaxInt
  BY <1>1, ReportsAssumption DEF NoTime
<1>3. q.total - (q.total - q.used) = q.used
  BY <1>2
<1>4. Percent[q] \in 0 .. 100
  BY PercentIsPercent
<1> QED
  BY <1>1, <1>2, <1>3, <1>4, WrapFits DEF Bad, Nil

\* The windows that Kimi's API is known to use, by their tiers.
LEMMA KimiWindows ==
    ASSUME NEW q
    PROVE  /\ WindowTier(Window(300, "TIME_UNIT_MINUTE", q)) = "5H"
           /\ WindowTier(Window(7, "TIME_UNIT_DAY", q)) = "1W"
           /\ WindowTier(Window(1, "TIME_UNIT_YEAR", q)) = ""
           /\ WindowTier(Window(10, "TIME_UNIT_DAY", q)) = ""
<1>1. WindowLength(Window(300, "TIME_UNIT_MINUTE", q)) = 300
  BY MaxIntAssumption, WrapFits DEF WindowLength, Window, UnitLength, Hour, Day, Month
<1>2. WindowLength(Window(7, "TIME_UNIT_DAY", q)) = 7 * 24 * 60
  BY MaxIntAssumption, WrapFits DEF WindowLength, Window, UnitLength, Hour, Day, Month
<1>3. WindowLength(Window(1, "TIME_UNIT_YEAR", q)) = 0
  BY DEF WindowLength, Window, UnitLength, Hour, Day, Month
<1>4. WindowLength(Window(10, "TIME_UNIT_DAY", q)) = 10 * 24 * 60
  BY MaxIntAssumption, WrapFits DEF WindowLength, Window, UnitLength, Hour, Day, Month
<1>5. ASSUME NEW w, WindowLength(w) = 300 PROVE WindowTier(w) = "5H"
  BY <1>5 DEF WindowTier, MapDurationToTier, Hour, Day
<1>6. ASSUME NEW w, WindowLength(w) = 7 * 24 * 60 PROVE WindowTier(w) = "1W"
  BY <1>6 DEF WindowTier, MapDurationToTier, Hour, Day
<1>7. ASSUME NEW w, WindowLength(w) = 0 \/ WindowLength(w) = 10 * 24 * 60
      PROVE  WindowTier(w) = ""
  BY <1>7 DEF WindowTier, MapDurationToTier, Hour, Day
<1> QED
  BY <1>1, <1>2, <1>3, <1>4, <1>5, <1>6, <1>7

\* Kimi's summary and windows are filed by their counts.
LEMMA KimiQuotas ==
    ASSUME NEW q \in Reports
    PROVE  /\ KimiQuota(Detail(q)) = Counted(q)
           /\ \A n, unit : KimiQuota(Window(n, unit, q)) = Counted(q)
BY ReportFits DEF KimiQuota, Detail, Window, Counted

\* Of one index the greatest is that one.
LEMMA GreatestOfOne ==
    ASSUME NEW i \in Nat
    PROVE  Greatest({i}) = i
<1>1. Greatest({i}) \in {i}
  BY GreatestIs
<1> QED
  BY <1>1

AnswerFits(truth) == \A u \in DOMAIN truth : Fits(truth[u])

\* A snapshot is faithful to what was said: every tier has a quota made of one
\* that was stated, or of none, and the right one if the counts fit.
Faithful(k, quotas, said) ==
    /\ quotas \in [Tiers -> Values]
    /\ AnswerFits(said.truth) => \A t \in Tiers : quotas[t] \in Filed(k, said, t)

\* Without a guess every tier has what is stated for it.
LEMMA FiledInPlace ==
    ASSUME NEW k, NEW said, ~said.summary, NEW t
    PROVE  Filed(k, said, t) =
              IF t \in DOMAIN said.truth THEN {Stated(said.truth[t])}
              ELSE IF k = "minimax" /\ t = "1W" /\ DOMAIN said.truth # {}
                   THEN {Quota(0, 0), Quota(100, 0)}
              ELSE {Default}
BY DEF Filed, FiledAs

\* Kimi's answers become faithful snapshots.
LEMMA KimiReports ==
    ASSUME NEW truth \in Truth("kimi"), NEW resp \in KimiSays(truth), ~KimiFails(resp),
           NEW now, NEW said,
           said.truth = truth, said.at = now, said.summary = HasSummary(resp)
    PROVE  Faithful("kimi", KimiSnapshot(resp, now), said)
<1> DEFINE h == truth["5H"]
           w == truth["1W"]
           hours == Window(300, "TIME_UNIT_MINUTE", h)
           week == Window(7, "TIME_UNIT_DAY", w)
           other == Window(1, "TIME_UNIT_YEAR", w)
           fifth == Window(10, "TIME_UNIT_DAY", h)
           snap == KimiSnapshot(resp, now)
<1>1. DOMAIN truth = {} \/ (DOMAIN truth = {"5H", "1W"} /\ h \in Reports /\ w \in Reports)
  BY DEF Truth, Plans
<1>2. Default \in Values /\ snap = [t \in Tiers |-> snap[t]]
  BY DEF Values, KimiSnapshot
<1>3. CASE DOMAIN truth = {}
  <2>1. resp = [usage |-> NoUsage, limits |-> << >>]
    BY <1>3 DEF KimiSays
  <2>2. ~HasSummary(resp) /\ DOMAIN resp.limits = {}
    BY <2>1 DEF HasSummary, NoUsage
  <2>3. \A t \in Tiers : FiledUnder(resp, t) = {}
    BY <2>2 DEF FiledUnder
  <2>4. \A t \in Tiers : snap[t] = Default
    BY <2>2, <2>3 DEF KimiSnapshot
  <2>5. \A t : Filed("kimi", said, t) = {Default}
    BY <1>3, <2>2, FiledInPlace
  <2> HIDE DEF snap
  <2> QED
    BY <1>2, <2>4, <2>5 DEF Faithful, snap
<1> SUFFICES ASSUME DOMAIN truth # {} PROVE Faithful("kimi", snap, said)
  BY <1>3
<1>4. /\ KimiQuota(hours) = Counted(h) /\ KimiQuota(week) = Counted(w)
      /\ KimiQuota(Detail(w)) = Counted(w)
  BY <1>1, KimiQuotas
<1>5. /\ WindowTier(hours) = "5H" /\ WindowTier(week) = "1W"
      /\ WindowTier(other) = "" /\ WindowTier(fifth) = ""
  BY KimiWindows
<1>6. /\ Counted(h) \in Values /\ Counted(w) \in Values
      /\ AnswerFits(truth) => Counted(h) = Stated(h) /\ Counted(w) = Stated(w)
  <2> HIDE DEF h, w
  <2>1. \A q \in Reports : Counted(q) \in Values
    BY DEF Values, Filings
  <2>2. \A q \in Reports : Fits(q) => Counted(q) = Stated(q)
    BY FittingFilings DEF Filings
  <2>3. AnswerFits(truth) => Fits(h) /\ Fits(w)
    BY <1>1 DEF AnswerFits, h, w
  <2> QED
    BY <1>1, <2>1, <2>2, <2>3
<1>7. \/ /\ resp = [usage |-> Detail(w), limits |-> <<hours, other>>]
         /\ w.resetAt = NoTime => resp.usage = NoUsage
      \/ resp = [usage |-> NoUsage, limits |-> <<fifth, week, hours>>]
      \/ resp = [usage |-> NoUsage, limits |-> <<[week EXCEPT !.limit = Bad], hours>>]
  BY DEF KimiSays
<1>8. CASE /\ resp = [usage |-> Detail(w), limits |-> <<hours, other>>]
           /\ w.resetAt = NoTime => resp.usage = NoUsage
  <2> DEFINE tier == InferTierFromReset(w.resetAt - now)
  <2>1. HasSummary(resp) /\ resp.usage = Detail(w) /\ resp.usage.resetTime = w.resetAt
    <3>1. resp.usage = Detail(w) /\ Detail(w).resetTime = w.resetAt /\ Detail(w).limit = w.total
      BY <1>8 DEF Detail
    <3>2. w.total # 0
      BY <1>1, ReportFits
    <3>3. Detail(w) # NoUsage
      BY <3>1, <3>2 DEF NoUsage
    <3> QED
      BY <1>8, <3>1, <3>3 DEF HasSummary
  <2>2. /\ DOMAIN resp.limits = {1, 2}
        /\ resp.limits[1] = hours /\ resp.limits[2] = other
    BY <1>8
  <2> HIDE DEF h, w, hours, week, other, fifth
  <2>3. /\ FiledUnder(resp, "5H") = {1}
        /\ FiledUnder(resp, "1W") = {} /\ FiledUnder(resp, "1M") = {}
    BY <1>5, <2>2 DEF FiledUnder
  <2>4. snap["5H"] = Counted(h)
    BY <1>4, <2>2, <2>3, GreatestOfOne DEF KimiSnapshot, Tiers
  <2>5. \A t \in {"1W", "1M"} : snap[t] = IF tier = t THEN Counted(w) ELSE Default
    BY <1>4, <2>1, <2>3 DEF KimiSnapshot, Tiers
  <2>6. /\ Filed("kimi", said, "5H") = {Stated(h)}
        /\ \A t \in {"1W", "1M"} :
              Filed("kimi", said, t) = {IF tier = t THEN Stated(w) ELSE Default}
    <3>1. FiledAs(said, "5H") = "5H" /\ FiledAs(said, "1W") = tier
      BY <2>1 DEF FiledAs, w
    <3> HIDE DEF tier
    <3> QED
      BY <1>1, <3>1 DEF Filed, h, w
  <2> HIDE DEF snap, tier
  <2>7. \A t \in Tiers : snap[t] \in Values
    BY <1>2, <1>6, <2>4, <2>5 DEF Tiers
  <2>8. AnswerFits(truth) => \A t \in Tiers : snap[t] \in Filed("kimi", said, t)
    BY <1>6, <2>4, <2>5, <2>6 DEF Tiers
  <2> QED
    BY <1>2, <2>7, <2>8 DEF Faithful
<1>9. CASE resp = [usage |-> NoUsage, limits |-> <<fifth, week, hours>>]
  <2>1. ~HasSummary(resp)
    BY <1>9 DEF HasSummary, NoUsage
  <2>2. /\ DOMAIN resp.limits = {1, 2, 3}
        /\ resp.limits[1] = fifth /\ resp.limits[2] = week /\ resp.limits[3] = hours
    BY <1>9
  <2> HIDE DEF h, w, hours, week, other, fifth
  <2>3. /\ FiledUnder(resp, "5H") = {3}
        /\ FiledUnder(resp, "1W") = {2} /\ FiledUnder(resp, "1M") = {}
    BY <1>5, <2>2 DEF FiledUnder
  <2>4. snap["5H"] = Counted(h) /\ snap["1W"] = Counted(w)
    BY <1>4, <2>2, <2>3, GreatestOfOne DEF KimiSnapshot, Tiers
  <2>5. snap["1M"] = Default
    BY <2>1, <2>3 DEF KimiSnapshot, Tiers
  <2>6. /\ Filed("kimi", said, "5H") = {Stated(h)} /\ Filed("kimi", said, "1W") = {Stated(w)}
        /\ Filed("kimi", said, "1M") = {Default}
    BY <1>1, <2>1, FiledInPlace DEF h, w
  <2> HIDE DEF snap
  <2>7. \A t \in Tiers : snap[t] \in Values
    BY <1>2, <1>6, <2>4, <2>5 DEF Tiers
  <2>8. AnswerFits(truth) => \A t \in Tiers : snap[t] \in Filed("kimi", said, t)
    BY <1>6, <2>4, <2>5, <2>6 DEF Tiers
  <2> QED
    BY <1>2, <2>7, <2>8 DEF Faithful
<1>10. CASE resp = [usage |-> NoUsage, limits |-> <<[week EXCEPT !.limit = Bad], hours>>]
  <2>1. /\ 1 \in DOMAIN resp.limits
        /\ resp.limits[1] = [week EXCEPT !.limit = Bad]
    BY <1>10
  <2>2. WindowTier(resp.limits[1]) = "1W"
    <3>1. WindowLength(resp.limits[1]) = WindowLength(week)
      BY <2>1 DEF WindowLength, Window
    <3> QED
      BY <1>5, <3>1 DEF WindowTier
  <2>3. ~Parses(resp.limits[1])
    BY <2>1 DEF Parses, Window
  <2> QED
    BY <2>1, <2>2, <2>3 DEF KimiFails
<1> QED
  BY <1>7, <1>8, <1>9, <1>10

\* MiniMax's percentages are filed as stated, its counts by themselves, and the
\* zeros of a window without a quota as none or all used, at the epoch.
MiniMaxQuota(w) == Quota(MiniMaxUsed(w), w.endTime)

LEMMA MiniMaxQuotas ==
    /\ \A q \in Reports : /\ MiniMaxQuota(ByPercent(q)) = Stated(q)
                          /\ MiniMaxQuota(ByCount(q)) = Counted(q)
    /\ MiniMaxQuota(NoQuota(0)) = Quota(100, 0)
    /\ MiniMaxQuota(NoQuota(Nil)) = Quota(0, 0)
<1>1. Nil \notin 0 .. 100
  BY MaxIntAssumption DEF Nil, Month, Day, Hour
<1>2. ASSUME NEW q \in Reports
      PROVE  MiniMaxQuota(ByPercent(q)) = Stated(q) /\ MiniMaxQuota(ByCount(q)) = Counted(q)
  <2>1. MiniMaxUsed(ByPercent(q)) = Percent[q]
    BY PercentIsPercent DEF MiniMaxUsed, ByPercent
  <2>2. MiniMaxUsed(ByCount(q)) = NormalizeToPercent(q.used, q.total)
    <3>1. /\ ByCount(q).remainingPercent = Nil /\ ByCount(q).totalCount = q.total
          /\ ByCount(q).usageCount = q.total - q.used
      BY DEF ByCount
    <3> QED
      BY <1>1, <3>1, ReportFits DEF MiniMaxUsed
  <2>3. ByPercent(q).endTime = q.resetAt /\ ByCount(q).endTime = q.resetAt
    BY DEF ByPercent, ByCount
  <2> QED
    BY <2>1, <2>2, <2>3 DEF MiniMaxQuota, Stated, Counted
<1>3. MiniMaxUsed(NoQuota(0)) = 100 /\ MiniMaxUsed(NoQuota(Nil)) = 0
  BY <1>1 DEF MiniMaxUsed, NoQuota
<1> QED
  BY <1>2, <1>3 DEF MiniMaxQuota, NoQuota

\* The general model alone is filed, wherever it stands.
LEMMA MiniMaxFiles ==
    ASSUME NEW resp, General(resp) # {}, NEW model,
           resp.models[Least(General(resp))] = model
    PROVE  LET snap == MiniMaxSnapshot(resp)
           IN  /\ snap = [t \in Tiers |-> snap[t]]
               /\ snap["5H"] = MiniMaxQuota(model.interval)
               /\ snap["1W"] = MiniMaxQuota(model.weekly)
               /\ snap["1M"] = Default
<1> DEFINE snap == MiniMaxSnapshot(resp)
           window == [t \in {"5H", "1W"} |-> IF t = "5H" THEN model.interval ELSE model.weekly]
<1>1. snap = [t \in Tiers |-> IF t = "1M" THEN Default
                              ELSE Quota(MiniMaxUsed(window[t]), window[t].endTime)]
  BY DEF MiniMaxSnapshot
<1>2. window["5H"] = model.interval /\ window["1W"] = model.weekly
  OBVIOUS
<1> HIDE DEF window, snap
<1>3. snap = [t \in Tiers |-> snap[t]]
  BY <1>1
<1>4. /\ snap["5H"] = MiniMaxQuota(model.interval)
      /\ snap["1W"] = MiniMaxQuota(model.weekly)
      /\ snap["1M"] = Default
  BY <1>1, <1>2 DEF Tiers, MiniMaxQuota
<1> QED
  BY <1>3, <1>4 DEF snap

\* MiniMax's answers become faithful snapshots.
LEMMA MiniMaxReports ==
    ASSUME NEW truth \in Truth("minimax"), NEW resp \in MiniMaxSays(truth),
           ~MiniMaxFails(resp),
           NEW said, said.truth = truth, said.summary = FALSE
    PROVE  Faithful("minimax", MiniMaxSnapshot(resp), said)
<1> DEFINE h == truth["5H"]
           w == truth["1W"]
           snap == MiniMaxSnapshot(resp)
           video == [ByPercent(h) EXCEPT !.remainingPercent = 1]
<1>1. \/ DOMAIN truth = {}
      \/ DOMAIN truth = {"5H"} /\ h \in Reports
      \/ DOMAIN truth = {"5H", "1W"} /\ h \in Reports /\ w \in Reports
  BY DEF Truth, Plans
<1>2. {"5H"} # {} /\ {"5H", "1W"} # {} /\ {"5H", "1W"} # {"5H"}
  OBVIOUS
<1>3. resp.models \in Models(truth)
  BY DEF MiniMaxSays, MiniMaxFails
<1>4. /\ \A q \in Reports : Stated(q) \in Values /\ Counted(q) \in Values
      /\ Default \in Values /\ Quota(0, 0) \in Values /\ Quota(100, 0) \in Values
  BY DEF Values, Filings
<1>5. \A q \in Reports : Fits(q) => Counted(q) = Stated(q)
  BY FittingFilings DEF Filings
<1>6. snap = [t \in Tiers |-> snap[t]]
  <2>1. CASE General(resp) = {}
    BY <2>1 DEF MiniMaxSnapshot
  <2>2. CASE General(resp) # {}
    BY <2>2, MiniMaxFiles
  <2> QED
    BY <2>1, <2>2
<1>7. \A t : Filed("minimax", said, t) =
                IF t \in DOMAIN truth THEN {Stated(truth[t])}
                ELSE IF t = "1W" /\ DOMAIN truth # {} THEN {Quota(0, 0), Quota(100, 0)}
                ELSE {Default}
  BY FiledInPlace
<1> HIDE DEF h, w, snap
<1>8. CASE DOMAIN truth = {}
  <2>1. resp.models \in { << >>, <<Model("video", NoQuota(Nil), NoQuota(Nil))>> }
    BY <1>3, <1>8 DEF Models
  <2>2. Model("video", NoQuota(Nil), NoQuota(Nil)).name = "video"
    BY DEF Model
  <2> DEFINE only == Model("video", NoQuota(Nil), NoQuota(Nil))
  <2> HIDE DEF only
  <2>3. General(resp) = {}
    BY <2>1, <2>2 DEF General, only
  <2>4. \A t \in Tiers : snap[t] = Default
    BY <2>3 DEF MiniMaxSnapshot, snap
  <2> QED
    BY <1>4, <1>6, <1>7, <1>8, <2>4 DEF Faithful, snap
<1>9. CASE DOMAIN truth = {"5H"} /\ h \in Reports
  <2> DEFINE byPercent == Model("general", ByPercent(h), NoQuota(0))
             byCount == Model("general", ByCount(h), NoQuota(Nil))
  <2>1. resp.models \in { <<byPercent>>, <<byCount>> }
    BY <1>2, <1>3, <1>9 DEF Models, h
  <2>2. /\ byPercent.name = "general" /\ byCount.name = "general"
        /\ byPercent.interval = ByPercent(h) /\ byPercent.weekly = NoQuota(0)
        /\ byCount.interval = ByCount(h) /\ byCount.weekly = NoQuota(Nil)
    BY DEF Model
  <2> HIDE DEF byPercent, byCount
  <2>3. General(resp) = {1} /\ resp.models[Least(General(resp))] \in {byPercent, byCount}
    <3>1. General(resp) = {1} /\ resp.models[1] \in {byPercent, byCount}
      BY <2>1, <2>2 DEF General
    <3>2. Least({1}) = 1
      BY DEF Least
    <3> QED
      BY <3>1, <3>2
  <2>4. /\ snap["5H"] \in Filings(h) /\ snap["1W"] \in {Quota(0, 0), Quota(100, 0)}
        /\ snap["1M"] = Default
    <3>1. PICK model \in {byPercent, byCount} : resp.models[Least(General(resp))] = model
      BY <2>3
    <3>2. /\ snap["5H"] = MiniMaxQuota(model.interval)
          /\ snap["1W"] = MiniMaxQuota(model.weekly)
          /\ snap["1M"] = Default
      BY <2>3, <3>1, MiniMaxFiles DEF snap
    <3>3. /\ MiniMaxQuota(model.interval) \in Filings(h)
          /\ MiniMaxQuota(model.weekly) \in {Quota(0, 0), Quota(100, 0)}
      BY <1>9, <2>2, <3>1, MiniMaxQuotas DEF Filings
    <3> QED
      BY <3>2, <3>3
  <2>5. \A t \in Tiers : snap[t] \in Values
    BY <1>4, <1>9, <2>4 DEF Tiers, Filings
  <2>6. AnswerFits(truth) => snap["5H"] = Stated(h)
    BY <1>5, <1>9, <2>4 DEF AnswerFits, Filings, h
  <2>7. AnswerFits(truth) => \A t \in Tiers : snap[t] \in Filed("minimax", said, t)
    BY <1>2, <1>7, <1>9, <2>4, <2>6 DEF Tiers, h
  <2> QED
    BY <1>6, <2>5, <2>7 DEF Faithful, snap
<1>10. CASE DOMAIN truth = {"5H", "1W"} /\ h \in Reports /\ w \in Reports
  <2> DEFINE first == Model("general", ByPercent(h), ByPercent(w))
             second == Model("general", ByCount(h), ByCount(w))
             wrong == Model("video", video, ByPercent(w))
  <2>1. resp.models \in { <<first>>, <<wrong, second>> }
    BY <1>2, <1>3, <1>10 DEF Models, h, w
  <2>2. /\ first.name = "general" /\ second.name = "general" /\ wrong.name = "video"
        /\ first.interval = ByPercent(h) /\ first.weekly = ByPercent(w)
        /\ second.interval = ByCount(h) /\ second.weekly = ByCount(w)
    BY DEF Model
  <2> HIDE DEF first, second, wrong
  <2>3. General(resp) # {} /\ resp.models[Least(General(resp))] \in {first, second}
    <3>1. Least({1}) = 1 /\ Least({2}) = 2
      BY DEF Least
    <3>2. CASE resp.models = <<first>>
      <4>1. General(resp) = {1} /\ resp.models[1] = first
        BY <2>2, <3>2 DEF General
      <4> QED
        BY <3>1, <4>1
    <3>3. CASE resp.models = <<wrong, second>>
      <4>1. General(resp) = {2} /\ resp.models[2] = second
        BY <2>2, <3>3 DEF General
      <4> QED
        BY <3>1, <4>1
    <3> QED
      BY <2>1, <3>2, <3>3
  <2>4. /\ snap["5H"] \in Filings(h) /\ snap["1W"] \in Filings(w)
        /\ snap["1M"] = Default
    BY <1>10, <2>2, <2>3, MiniMaxFiles, MiniMaxQuotas DEF snap, Filings
  <2>5. \A t \in Tiers : snap[t] \in Values
    BY <1>4, <1>10, <2>4 DEF Tiers, Filings
  <2>6. AnswerFits(truth) => snap["5H"] = Stated(h) /\ snap["1W"] = Stated(w)
    <3>1. AnswerFits(truth) => Fits(h) /\ Fits(w)
      BY <1>10 DEF AnswerFits, h, w
    <3> QED
      BY <1>5, <1>10, <2>4, <3>1 DEF Filings
  <2>7. AnswerFits(truth) => \A t \in Tiers : snap[t] \in Filed("minimax", said, t)
    BY <1>7, <1>10, <2>4, <2>6 DEF Tiers, h, w
  <2> QED
    BY <1>6, <2>5, <2>7 DEF Faithful, snap
<1> QED
  BY <1>1, <1>8, <1>9, <1>10 DEF snap

\* A limit of Z.ai or Zhipu is filed as stated or by its counts.
LEMMA MonitorQuotas ==
    ASSUME NEW q \in Reports, NEW unit,
           NEW l \in {AsPercentage(unit, q), AsUsage(unit, q), AsRemaining(unit, q)}
    PROVE  Measured(l) /\ l.unit = unit /\ MonitorQuota(l) \in Filings(q)
<1>1. Percent[q] \in 0 .. 100
  BY PercentIsPercent
<1>2. /\ l.unit = unit /\ l.currentValue = q.total
      /\ l.nextResetTime = IF q.resetAt = NoTime THEN Nil ELSE q.resetAt
      /\ \/ l.percentage = Percent[q]
         \/ l.percentage = Nil /\ l.usage = q.used
         \/ l.percentage = Nil /\ l.usage = Nil /\ l.remaining = q.total - q.used
  BY DEF AsPercentage, AsUsage, AsRemaining, Limit
<1>3. Measured(l)
  BY <1>2, ReportFits DEF Measured
<1>4. MonitorUsed(l) = Percent[q] \/ MonitorUsed(l) = NormalizeToPercent(q.used, q.total)
  BY <1>1, <1>2, ReportFits DEF MonitorUsed, ClampPercent
<1> QED
  BY <1>2, <1>3, <1>4, ReportFits DEF MonitorQuota, Filings, Stated, Counted

\* Z.ai's and Zhipu's answers become faithful snapshots.
LEMMA MonitorReports ==
    ASSUME NEW truth \in Truth("monitor"), NEW resp \in MonitorSays(truth),
           ~MonitorFails(resp),
           NEW said, said.truth = truth, said.summary = FALSE
    PROVE  Faithful("monitor", MonitorSnapshot(resp), said)
<1> DEFINE h == truth["5H"]
           m == truth["1M"]
           snap == MonitorSnapshot(resp)
           forms(unit, q) == {AsPercentage(unit, q), AsUsage(unit, q), AsRemaining(unit, q)}
           limits(t) == {i \in DOMAIN resp.limits :
                            MapUnitToTier(resp.limits[i].unit) = t /\ Measured(resp.limits[i])}
<1>1. DOMAIN truth = {} \/ (DOMAIN truth = {"5H", "1M"} /\ h \in Reports /\ m \in Reports)
  BY DEF Truth, Plans
<1>2. snap = [t \in Tiers |-> IF limits(t) = {} THEN Default
                              ELSE MonitorQuota(resp.limits[Greatest(limits(t))])]
  BY DEF MonitorSnapshot
<1>3. snap = [t \in Tiers |-> snap[t]]
  BY <1>2
<1>4. \A t : Filed("monitor", said, t) =
                IF t \in DOMAIN truth THEN {Stated(truth[t])} ELSE {Default}
  BY FiledInPlace
<1>5. Default \in Values /\ \A q \in Reports : Filings(q) \subseteq Values
  BY DEF Values
<1>6. CASE DOMAIN truth = {}
  <2>1. resp.limits = << >>
    BY <1>6 DEF MonitorSays, MonitorFails
  <2>2. \A t \in Tiers : limits(t) = {}
    BY <2>1
  <2> HIDE DEF snap, limits
  <2> QED
    BY <1>2, <1>3, <1>4, <1>5, <1>6, <2>2 DEF Faithful, snap
<1>7. CASE DOMAIN truth = {"5H", "1M"} /\ h \in Reports /\ m \in Reports
  <2>1. /\ DOMAIN resp.limits = {1, 2, 3, 4}
        /\ resp.limits[1] \in forms(3, h) /\ resp.limits[2] \in forms(5, m)
        /\ resp.limits[3].unit = 6 /\ resp.limits[4] = Limit(3, m)
    <3>1. \A f \in forms(3, h) : [f EXCEPT !.unit = 6].unit = 6
      BY DEF AsPercentage, AsUsage, AsRemaining, Limit
    <3>2. PICK f \in forms(3, h), g \in forms(5, m) : resp.limits = Limits(f, g, truth)
      BY <1>7 DEF MonitorSays, MonitorFails
    <3> DEFINE again == [f EXCEPT !.unit = 6]
    <3>3. resp.limits = <<f, g, again, Limit(3, m)>> /\ again.unit = 6
      BY <3>1, <3>2 DEF Limits
    <3> HIDE DEF forms, again, h, m
    <3> QED
      BY <3>2, <3>3
  <2>2. /\ Measured(resp.limits[1]) /\ resp.limits[1].unit = 3
        /\ Measured(resp.limits[2]) /\ resp.limits[2].unit = 5
        /\ resp.limits[3].unit = 6 /\ ~Measured(resp.limits[4])
        /\ MonitorQuota(resp.limits[1]) \in Filings(h)
        /\ MonitorQuota(resp.limits[2]) \in Filings(m)
    <3>1. ~Measured(Limit(3, m))
      BY DEF Measured, Limit
    <3> HIDE DEF h, m
    <3> QED
      BY <1>7, <2>1, <3>1, MonitorQuotas
  <2>3. limits("5H") = {1} /\ limits("1M") = {2} /\ limits("1W") = {}
    BY <2>1, <2>2 DEF MapUnitToTier
  <2> HIDE DEF limits, snap, h, m
  <2>4. snap["5H"] \in Filings(h) /\ snap["1M"] \in Filings(m) /\ snap["1W"] = Default
    BY <1>2, <2>2, <2>3, GreatestOfOne DEF Tiers
  <2>5. \A t \in Tiers : snap[t] \in Values
    BY <1>5, <1>7, <2>4 DEF Tiers
  <2>6. AnswerFits(truth) => snap["5H"] = Stated(h) /\ snap["1M"] = Stated(m)
    <3>1. AnswerFits(truth) => Fits(h) /\ Fits(m)
      BY <1>7 DEF AnswerFits, h, m
    <3>2. AnswerFits(truth) => Filings(h) = {Stated(h)} /\ Filings(m) = {Stated(m)}
      BY <1>7, <3>1, FittingFilings
    <3> QED
      BY <2>4, <3>2
  <2>7. AnswerFits(truth) => \A t \in Tiers : snap[t] \in Filed("monitor", said, t)
    BY <1>4, <1>7, <2>4, <2>6 DEF Tiers, h, m
  <2> QED
    BY <1>3, <2>5, <2>7 DEF Faithful, snap
<1> QED
  BY <1>1, <1>6, <1>7

-----------------------------------------------------------------------------
(***************************************************************************)
(* The pool of accounts.                                                   *)
(***************************************************************************)

\* What the adapter takes for an account's remaining percentage is the most
\* that the account may still use.
LEMMA RemainingIsRoom ==
    ASSUME NEW u \in AccountUsage
    PROVE  Room(u) = EffectiveRemaining(u) /\ EffectiveRemaining(u) \in 0 .. 100
<1> DEFINE rooms == {r \in 0 .. 100 : Allows(u, r)}
           e == EffectiveRemaining(u)
           used == {ClampPercent(w) : w \in u.windows}
<1>1. /\ u.rateLimit \in BOOLEAN /\ u.allowed \in BOOLEAN /\ u.limitReached \in BOOLEAN
      /\ u.credits \in BOOLEAN /\ u.spendReached \in BOOLEAN
      /\ u.windows \in SUBSET Int
  BY DEF AccountUsage
<1>2. CASE ~u.rateLimit \/ Blocked(u) \/ u.windows = {}
  <2>1. e = IF ~u.rateLimit THEN 100 ELSE IF Blocked(u) THEN 0 ELSE 100
    BY <1>2 DEF EffectiveRemaining
  <2>2. e \in rooms /\ \A r \in rooms : r <= e
    BY <1>1, <1>2, <2>1 DEF Allows, Blocked
  <2> HIDE DEF e
  <2>3. Greatest(rooms) = e
    BY <2>2, GreatestIs
  <2> QED
    BY <2>2, <2>3 DEF Room, e
<1>3. CASE u.rateLimit /\ ~Blocked(u) /\ u.windows # {}
  <2>1. \A w \in u.windows : /\ w \in Int /\ ClampPercent(w) \in 0 .. 100
                             /\ ClampPercent(w) = IF w < 0 THEN 0
                                                  ELSE IF w > 100 THEN 100 ELSE w
    BY <1>1 DEF ClampPercent
  <2>2. used \in SUBSET (0 .. 100) /\ used # {}
    BY <1>3, <2>1
  <2> DEFINE g == Greatest(used)
  <2>3. g \in used /\ \A c \in used : c <= g
    BY <2>2, GreatestIs
  <2>4. e = 100 - g
    BY <1>3 DEF EffectiveRemaining
  <2> HIDE DEF g, e
  <2>5. g \in 0 .. 100 /\ e \in 0 .. 100
    BY <2>2, <2>3, <2>4
  <2>6. \A r \in 0 .. 100 : Allows(u, r) = (r = 0 \/ \A w \in u.windows : w + r <= 100)
    BY <1>1, <1>3 DEF Allows, Blocked
  <2>7. Allows(u, e)
    <3> SUFFICES ASSUME e # 0, NEW w \in u.windows PROVE w + e <= 100
      BY <2>5, <2>6
    <3>1. ClampPercent(w) <= g
      BY <2>3
    <3> QED
      BY <2>1, <2>4, <2>5, <3>1
  <2>8. ASSUME NEW r \in 0 .. 100, Allows(u, r) PROVE r <= e
    <3>1. PICK w \in u.windows : g = ClampPercent(w)
      BY <2>3
    <3>2. r = 0 \/ w + r <= 100
      BY <2>6, <2>8
    <3> QED
      BY <2>1, <2>4, <2>5, <3>1, <3>2
  <2>9. Greatest(rooms) = e
    <3>1. e \in rooms /\ \A r \in rooms : r <= e
      BY <2>5, <2>7, <2>8
    <3> QED
      BY <3>1, GreatestIs
  <2> QED
    BY <2>5, <2>9 DEF Room, e
<1> QED
  BY <1>1, <1>2, <1>3

\* The sum of percentages, defined by recursion over the sequence, is what it
\* should be for its length.
LEMMA SumOfRange ==
    ASSUME NEW s \in Seq(0 .. 100)
    PROVE  SumOf(s) \in 0 .. 100 * Len(s)
<1> DEFINE n == Len(s)
           V == Int
           step == [i \in Nat |-> [x \in V |-> IF i \in 1 .. n THEN x + s[i] ELSE x]]
           IsSum(f) == f = [i \in 0 .. n |-> IF i = 0 THEN 0 ELSE f[i - 1] + s[i]]
           sum == CHOOSE f : IsSum(f)
<1>1. n \in Nat /\ \A i \in 1 .. n : s[i] \in 0 .. 100 /\ s[i] \in Int
  <2>1. n \in Nat /\ \A i \in 1 .. n : s[i] \in 0 .. 100
    BY ElementOfSeq, LenProperties
  <2>2. 0 .. 100 \subseteq Int
    OBVIOUS
  <2> QED
    BY <2>1, <2>2, Zenon
<1>2. \E f : IsSum(f)
  <2>1. 0 \in V /\ step \in [Nat -> [V -> V]]
    <3> HIDE DEF n
    <3>1. \A i \in Nat, x \in Int : (IF i \in 1 .. n THEN x + s[i] ELSE x) \in Int
      BY <1>1
    <3> QED
      BY <3>1
  <2>2. PICK f : IsRecursive(f, V, 0, step)
    <3> HIDE DEF V, step
    <3> QED
      BY <2>1, Recursion
  <2> DEFINE h == [i \in 0 .. n |-> f[i]]
  <2>3. ASSUME NEW i \in 0 .. n
        PROVE  h[i] = IF i = 0 THEN 0 ELSE h[i - 1] + s[i]
    <3>1. CASE i = 0
      BY <2>2, <3>1 DEF IsRecursive
    <3>2. CASE i # 0
      <4>1. i \in 1 .. n /\ i - 1 \in 0 .. n /\ i \in Nat \ {0} /\ i - 1 \in Nat
        BY <1>1, <3>2
      <4>2. f[i - 1] \in Int /\ f[i] = step[i][f[i - 1]]
        BY <2>2, <4>1 DEF IsRecursive
      <4>3. f[i] = f[i - 1] + s[i]
        BY <4>1, <4>2
      <4> QED
        BY <3>2, <4>1, <4>3
    <3> QED
      BY <3>1, <3>2
  <2>4. h = [i \in 0 .. n |-> h[i]]
    OBVIOUS
  <2> HIDE DEF h
  <2>5. IsSum(h)
    BY <2>3, <2>4
  <2> QED
    BY <2>5
<1>3. IsSum(sum)
  <2> HIDE DEF IsSum
  <2> QED
    BY <1>2
<1>4. SumOf(s) = sum[n]
  BY DEF SumOf
<1> HIDE DEF sum
<1>5. sum[0] = 0 /\ \A i \in 1 .. n : sum[i] = sum[i - 1] + s[i]
  BY <1>1, <1>3
<1> HIDE DEF IsSum, n
<1> DEFINE S == {i \in Nat : i <= n => sum[i] \in 0 .. 100 * i}
<1>6. 0 \in S
  BY <1>5
<1>7. ASSUME NEW i \in S PROVE i + 1 \in S
  <2>1. i \in Nat
    OBVIOUS
  <2> SUFFICES ASSUME i + 1 <= n PROVE sum[i + 1] \in 0 .. 100 * (i + 1)
    BY <2>1
  <2>2. sum[i] \in 0 .. 100 * i /\ i + 1 \in 1 .. n /\ (i + 1) - 1 = i
    BY <1>1, <2>1
  <2>3. sum[i + 1] = sum[i] + s[i + 1] /\ s[i + 1] \in 0 .. 100
    BY <1>1, <1>5, <2>2
  <2>4. \A a \in 0 .. 100 * i, b \in 0 .. 100 : a + b \in 0 .. 100 * (i + 1)
    BY <2>1
  <2> QED
    BY <2>2, <2>3, <2>4
<1>8. S = Nat
  <2> HIDE DEF S
  <2>1. S \in SUBSET Nat
    BY DEF S
  <2> QED
    BY <1>6, <1>7, <2>1, SetInduction
<1> QED
  BY <1>1, <1>4, <1>8 DEF n

\* The remaining percentages of the accounts that answered
Rooms(pool) == [i \in 1 .. Len(pool) |-> EffectiveRemaining(pool[i])]

LEMMA RoomsType ==
    ASSUME NEW pool \in Seq(AccountUsages)
    PROVE  Rooms(pool) \in Seq(0 .. 100) /\ Len(Rooms(pool)) = Len(pool)
<1>1. Len(pool) \in Nat /\ \A i \in 1 .. Len(pool) : pool[i] \in AccountUsage
  BY ElementOfSeq, LenProperties, UsagesAssumption
<1>2. \A i \in 1 .. Len(pool) : EffectiveRemaining(pool[i]) \in 0 .. 100
  BY <1>1, RemainingIsRoom
<1> QED
  BY <1>1, <1>2 DEF Rooms

LEMMA RoomsOfNone == Rooms(<< >>) = << >>
<1>1. << >> \in Seq(AccountUsages) /\ Len(<< >>) = 0
  BY EmptySeq
<1> QED
  BY <1>1, RoomsType, EmptySeq

LEMMA RoomsOfAnother ==
    ASSUME NEW pool \in Seq(AccountUsages), NEW usage \in AccountUsages
    PROVE  Rooms(Append(pool, usage)) = Append(Rooms(pool), EffectiveRemaining(usage))
<1> DEFINE e == EffectiveRemaining(usage)
           more == Append(pool, usage)
           n == Len(pool)
<1>1. n \in Nat /\ more \in Seq(AccountUsages) /\ Len(more) = n + 1
  BY LenProperties, AppendProperties
<1>2. \A i \in 1 .. n + 1 : more[i] = IF i = n + 1 THEN usage ELSE pool[i]
  BY AppendProperties, <1>1
<1>3. Rooms(pool) \in Seq(0 .. 100) /\ Len(Rooms(pool)) = n
  BY RoomsType
<1>4. e \in 0 .. 100
  BY RemainingIsRoom, UsagesAssumption
<1>5. /\ Append(Rooms(pool), e) \in Seq(0 .. 100) /\ Len(Append(Rooms(pool), e)) = n + 1
      /\ \A i \in 1 .. n + 1 : Append(Rooms(pool), e)[i] = IF i = n + 1 THEN e ELSE Rooms(pool)[i]
  BY <1>1, <1>3, <1>4, AppendProperties
<1>6. Rooms(more) \in Seq(0 .. 100) /\ Len(Rooms(more)) = n + 1
  BY <1>1, RoomsType
<1>7. \A i \in 1 .. n + 1 : Rooms(more)[i] = IF i = n + 1 THEN e ELSE Rooms(pool)[i]
  BY <1>1, <1>2 DEF Rooms
<1> QED
  BY <1>5, <1>6, <1>7, SeqEqual

\* The quota of a pool is a percentage for each of the tiers.
LEMMA PooledIs ==
    ASSUME NEW pool \in Seq(AccountUsages), pool # << >>, NEW now \in Nat
    PROVE  LET n == Len(pool)
               room == SumOf(Rooms(pool))
               left == room \div n
           IN  /\ n \in Nat \ {0} /\ room \in Int /\ left \in 0 .. 100
               /\ n * left <= room /\ room < n * (left + 1)
               /\ Pooled(Rooms(pool), now) = [t \in Tiers |-> Quota(100 - left, now)]
<1> DEFINE n == Len(pool)
           room == SumOf(Rooms(pool))
           left == room \div n
<1>1. n \in Nat \ {0}
  BY LenProperties, EmptySeq
<1>2. Rooms(pool) \in Seq(0 .. 100) /\ Len(Rooms(pool)) = n
  BY RoomsType
<1>3. room \in 0 .. 100 * n
  BY <1>2, SumOfRange
<1>4. Pooled(Rooms(pool), now) = [t \in Tiers |-> Quota(100 - left, now)]
  BY <1>2 DEF Pooled
<1> HIDE DEF n, room
<1>5. left \in Nat /\ n * left <= room /\ room < n * (left + 1) /\ room \in Nat
  <2>1. \A r \in Nat, m \in Nat \ {0} :
           r \div m \in Nat /\ m * (r \div m) <= r /\ r < m * ((r \div m) + 1)
    OBVIOUS
  <2> QED
    BY <1>1, <1>3, <2>1
<1> HIDE DEF left
<1>6. left <= 100
  <2> SUFFICES ASSUME left >= 101 PROVE FALSE
    BY <1>5
  <2>1. n * 101 <= n * left
    BY <1>1, <1>5
  <2>2. n * left \in Nat
    BY <1>1, <1>5
  <2> QED
    BY <1>1, <1>3, <1>5, <2>1, <2>2
<1>7. left \in 0 .. 100 /\ room \in Int
  BY <1>5, <1>6
<1> QED
  BY <1>1, <1>4, <1>5, <1>7, Zenon DEF n, room, left

-----------------------------------------------------------------------------
(***************************************************************************)
(* The inductive invariant.  Made says what a snapshot was made from: the  *)
(* faithful translation of what the provider stated or the pool of the     *)
(* accounts that answered.  It holds of the snapshot in hand; the store    *)
(* has one of which Update left some tiers out, and every stored tier has  *)
(* been given to its gauge.                                                *)
(***************************************************************************)
Made(quotas, said) ==
    IF kind = "cpa"
    THEN /\ said.pool \in Seq(AccountUsages) /\ said.pool # << >>
         /\ said.at \in Nat
         /\ quotas = Pooled(Rooms(said.pool), said.at)
    ELSE said.truth \in Truth(kind) /\ Faithful(kind, quotas, said)

World == kind \in Kinds /\ clock \in TimePoints /\ cancelled \in BOOLEAN

InFetch ==
    /\ pc \in {"idle", "fetching", "listing", "querying", "staggering", "fetched"}
    /\ queue \in Nat /\ (queue # 0) = (pc \in {"querying", "staggering"})
    /\ heard \in Seq(AccountUsages) /\ answers = Rooms(heard)
    /\ pc \in {"listing", "querying", "staggering"} => kind = "cpa"
    /\ pc # "idle" => stored.version < MaxVersion
    /\ IF pc = "fetched" THEN hand # NoHand /\ Made(hand.quotas, hand.said)
       ELSE hand = NoHand

InStore ==
    /\ stored.version \in 0 .. MaxVersion
    /\ IF stored.version = 0 THEN stored.lastSync = NoTime /\ stored.quotas = << >>
       ELSE /\ stored.lastSync \in TimePoints
            /\ \E quotas : /\ Made(quotas, stored.said)
                           /\ stored.quotas = OmitStaleQuotas(quotas, stored.lastSync)

Filtered == MaxStale > 0 => \A t \in DOMAIN stored.quotas : ~IsStale(t)

Gauged == \A t \in DOMAIN stored.quotas : t \in DOMAIN gauge /\ gauge[t] = stored.quotas[t]

Inv == World /\ InFetch /\ InStore /\ IsQuotaMap(gauge) /\ Filtered /\ Gauged

\* A snapshot, whatever it was made from, has a percentage for every tier.
LEMMA MadeIsQuotaMap ==
    ASSUME NEW quotas, NEW said, Made(quotas, said)
    PROVE  DOMAIN quotas = Tiers /\ IsQuotaMap(quotas)
<1>1. CASE kind = "cpa"
  <2>1. /\ said.pool \in Seq(AccountUsages) /\ said.pool # << >> /\ said.at \in Nat
        /\ quotas = Pooled(Rooms(said.pool), said.at)
    BY <1>1 DEF Made
  <2> DEFINE left == SumOf(Rooms(said.pool)) \div Len(said.pool)
  <2>2. left \in 0 .. 100 /\ quotas = [t \in Tiers |-> Quota(100 - left, said.at)]
    BY <2>1, PooledIs
  <2>3. said.at \in Nat
    BY <2>1
  <2> HIDE DEF left
  <2> QED
    BY <2>2, <2>3 DEF IsQuotaMap, Quota
<1>2. CASE kind # "cpa"
  <2>1. DOMAIN quotas = Tiers /\ \A t \in Tiers : quotas[t] \in Values
    BY <1>2 DEF Made, Faithful
  <2> QED
    BY <2>1, ValuesType DEF IsQuotaMap
<1> QED
  BY <1>1, <1>2

\* What Update leaves of a snapshot: the tiers that have not expired.
LEMMA Omitted ==
    ASSUME NEW quotas, NEW now, NEW t
    PROVE  /\ t \in DOMAIN OmitStaleQuotas(quotas, now) <=>
                 t \in DOMAIN quotas /\ ~(MaxStale > 0 /\ Expired(quotas[t], now))
           /\ t \in DOMAIN OmitStaleQuotas(quotas, now) =>
                 OmitStaleQuotas(quotas, now)[t] = quotas[t]
<1>1. MaxStale \in Int
  BY TimeAssumption
<1>2. CASE MaxStale <= 0
  BY <1>1, <1>2 DEF OmitStaleQuotas
<1>3. CASE ~(MaxStale <= 0)
  BY <1>1, <1>3 DEF OmitStaleQuotas
<1> QED
  BY <1>2, <1>3

LEMMA StoreIsQuotaMap ==
    ASSUME InStore
    PROVE  IsQuotaMap(stored.quotas)
<1>1. CASE stored.version = 0
  <2>1. DOMAIN stored.quotas = {}
    BY <1>1 DEF InStore
  <2> QED
    BY <2>1 DEF IsQuotaMap
<1>2. CASE stored.version # 0
  <2>1. PICK quotas : /\ Made(quotas, stored.said)
                      /\ stored.quotas = OmitStaleQuotas(quotas, stored.lastSync)
    BY <1>2 DEF InStore
  <2>2. IsQuotaMap(quotas)
    BY <2>1, MadeIsQuotaMap
  <2>3. \A t \in DOMAIN stored.quotas : t \in DOMAIN quotas /\ stored.quotas[t] = quotas[t]
    BY <2>1, Omitted
  <2> QED
    BY <2>2, <2>3, Zenon DEF IsQuotaMap
<1> QED
  BY <1>1, <1>2

-----------------------------------------------------------------------------
(***************************************************************************)
(* The steps of Fetch.                                                     *)
(***************************************************************************)

\* Only Update writes the store and the gauges.
LEMMA FetchKeepsStore ==
    ASSUME Begin \/ Fetch \/ Tick \/ Cancel
    PROVE  UNCHANGED <<kind, stored, gauge>>
<1>1. CASE Begin \/ Tick \/ Cancel
  BY <1>1 DEF Begin, Tick, Cancel
<1>2. CASE RequestFails \/ QueryFails \/ Stagger
  BY <1>2 DEF RequestFails, QueryFails, Stagger, NextAccount, GiveUp, Return
<1>3. ASSUME NEW answer \in Answers[kind], Receive(answer[1], answer[2])
      PROVE  UNCHANGED <<kind, stored, gauge>>
  BY <1>3 DEF Receive, GiveUp, Return
<1>4. ASSUME NEW files \in AuthFiles, List(files)
      PROVE  UNCHANGED <<kind, stored, gauge>>
  BY <1>4 DEF List, GiveUp
<1>5. ASSUME NEW usage \in AccountUsages, Query(usage)
      PROVE  UNCHANGED <<kind, stored, gauge>>
  BY <1>5 DEF Query, NextAccount, GiveUp, Return
<1> QED
  BY <1>1, <1>2, <1>3, <1>4, <1>5 DEF Fetch

\* Nothing else than the clock and the cancellation changes elsewhere.
LEMMA FetchKeepsWorld ==
    ASSUME Begin \/ Fetch
    PROVE  UNCHANGED <<clock, cancelled>>
<1>1. CASE Begin
  BY <1>1 DEF Begin
<1>2. CASE RequestFails \/ QueryFails \/ Stagger
  BY <1>2 DEF RequestFails, QueryFails, Stagger, NextAccount, GiveUp, Return
<1>3. ASSUME NEW answer \in Answers[kind], Receive(answer[1], answer[2])
      PROVE  UNCHANGED <<clock, cancelled>>
  BY <1>3 DEF Receive, GiveUp, Return
<1>4. ASSUME NEW files \in AuthFiles, List(files)
      PROVE  UNCHANGED <<clock, cancelled>>
  BY <1>4 DEF List, GiveUp
<1>5. ASSUME NEW usage \in AccountUsages, Query(usage)
      PROVE  UNCHANGED <<clock, cancelled>>
  BY <1>5 DEF Query, NextAccount, GiveUp, Return
<1> QED
  BY <1>1, <1>2, <1>3, <1>4, <1>5 DEF Fetch

LEMMA GiveUpInv ==
    ASSUME InFetch, GiveUp, pc # "fetched"
    PROVE  InFetch'
<1>1. /\ pc' = "idle" /\ queue' = 0 /\ answers' = << >> /\ heard' = << >>
      /\ hand' = NoHand /\ stored' = stored /\ kind' = kind
  BY DEF GiveUp, InFetch
<1> QED
  BY <1>1, RoomsOfNone, EmptySeq DEF InFetch

LEMMA ReturnInv ==
    ASSUME World, InFetch, pc # "idle",
           NEW quotas, NEW said, Return(quotas, said), Made(quotas, said), said.at = clock
    PROVE  InFetch'
<1>1. /\ pc' = "fetched" /\ queue' = 0 /\ answers' = << >> /\ heard' = << >>
      /\ hand' = [quotas |-> quotas, said |-> said] /\ stored' = stored /\ kind' = kind
  BY DEF Return
<1>2. hand' # NoHand
  <2>1. clock # NoTime
    BY TimeAssumption DEF World, NoTime
  <2>2. hand'.said.at = clock /\ NoHand.said.at = NoTime
    BY <1>1 DEF NoHand, Nothing
  <2> QED
    BY <2>1, <2>2
<1>3. Made(hand.quotas, hand.said)'
  BY <1>1 DEF Made
<1>4. stored.version < MaxVersion
  BY DEF InFetch
<1> QED
  BY <1>1, <1>2, <1>3, <1>4, RoomsOfNone, EmptySeq DEF InFetch

\* What the adapter returns is faithful to the answer it has received.
LEMMA ReceiveInv ==
    ASSUME World, InFetch, NEW answer \in Answers[kind], Receive(answer[1], answer[2])
    PROVE  InFetch'
<1> DEFINE truth == answer[1]
           resp == answer[2]
           said == [truth |-> truth, at |-> clock, pool |-> << >>,
                    summary |-> kind = "kimi" /\ HasSummary(resp)]
<1>1. pc = "fetching" /\ IF Fails(resp) THEN GiveUp ELSE Return(Snapshot(resp), said)
  BY DEF Receive
<1>2. kind \in Kinds /\ truth \in Truth(kind) /\ resp \in Says(kind, truth)
  <2>1. kind \in Kinds
    BY DEF World
  <2>2. Answers[kind] = UNION {{t} \X Says(kind, t) : t \in Truth(kind)}
    BY <2>1 DEF Answers
  <2> QED
    BY <2>1, <2>2
<1>3. kind \in {"kimi", "minimax", "monitor"}
  BY <1>2, KindsAssumption DEF Truth, Plans
<1>4. said.truth = truth /\ said.at = clock /\ said.summary = (kind = "kimi" /\ HasSummary(resp))
  OBVIOUS
<1> HIDE DEF truth, resp, said
<1>5. CASE Fails(resp)
  BY <1>1, <1>5, GiveUpInv
<1>6. CASE ~Fails(resp)
  <2>1. Faithful(kind, Snapshot(resp), said)
    <3>1. CASE kind = "kimi"
      <4>1. truth \in Truth("kimi") /\ resp \in KimiSays(truth) /\ ~KimiFails(resp)
        BY <1>2, <1>6, <3>1 DEF Fails, Says
      <4>2. said.truth = truth /\ said.at = clock /\ said.summary = HasSummary(resp)
        BY <1>4, <3>1 DEF HasSummary
      <4>3. Faithful(kind, KimiSnapshot(resp, clock), said)
        BY <3>1, <4>1, <4>2, KimiReports
      <4> QED
        BY <3>1, <4>3 DEF Snapshot
    <3>2. CASE kind = "minimax"
      BY <1>2, <1>4, <1>6, <3>2, MiniMaxReports DEF Fails, Snapshot, Says
    <3>3. CASE kind = "monitor"
      BY <1>2, <1>4, <1>6, <3>3, MonitorReports DEF Fails, Snapshot, Says
    <3> QED
      BY <1>3, <3>1, <3>2, <3>3
  <2>2. Made(Snapshot(resp), said)
    BY <1>2, <1>3, <1>4, <2>1 DEF Made
  <2> QED
    BY <1>1, <1>4, <1>6, <2>2, ReturnInv
<1> QED
  BY <1>5, <1>6

LEMMA ListInv ==
    ASSUME InFetch, NEW files \in AuthFiles, List(files)
    PROVE  InFetch'
<1> DEFINE queryable == {i \in DOMAIN files : Queryable(files[i])}
<1>1. CASE queryable = {}
  BY <1>1, GiveUpInv DEF List
<1>2. CASE queryable # {}
  <2>1. Cardinality(queryable) \in Nat \ {0}
    <3>1. files \in Seq(AuthFile)
      BY AuthFilesAssumption
    <3>2. DOMAIN files = 1 .. Len(files) /\ Len(files) \in Nat
      BY <3>1, LenProperties
    <3>3. IsFiniteSet(DOMAIN files)
      BY <3>2, FS_Interval
    <3>4. IsFiniteSet(queryable)
      BY <3>3, FS_Subset
    <3> QED
      BY <1>2, <3>4, FS_CardinalityType, FS_EmptySet
  <2>2. /\ pc = "listing" /\ pc' = "querying" /\ queue' = Cardinality(queryable)
        /\ UNCHANGED <<kind, answers, heard, hand, stored>>
    BY <1>2 DEF List
  <2> QED
    BY <2>1, <2>2 DEF InFetch, Made
<1> QED
  BY <1>1, <1>2

LEMMA NextAccountInv ==
    ASSUME World, InFetch, pc = "querying", NEW said \in Seq(AccountUsages),
           NextAccount(Rooms(said), said)
    PROVE  InFetch'
<1>1. CASE queue > 1
  <2>1. /\ pc' = "staggering" /\ queue' = queue - 1 /\ answers' = Rooms(said) /\ heard' = said
        /\ UNCHANGED <<kind, hand, stored>>
    BY <1>1 DEF NextAccount
  <2>2. queue \in Nat /\ queue - 1 \in Nat \ {0}
    BY <1>1 DEF InFetch
  <2> QED
    BY <2>1, <2>2 DEF InFetch, Made
<1>2. CASE ~(queue > 1) /\ said = << >>
  BY <1>2, RoomsOfNone, GiveUpInv DEF NextAccount
<1>3. CASE ~(queue > 1) /\ said # << >>
  <2> DEFINE heardOf == [Nothing EXCEPT !.at = clock, !.pool = said]
  <2>1. Rooms(said) # << >>
    BY <1>3, RoomsType, EmptySeq
  <2>2. Return(Pooled(Rooms(said), clock), heardOf)
    BY <1>3, <2>1 DEF NextAccount
  <2>3. heardOf.at = clock /\ heardOf.pool = said
    BY DEF Nothing
  <2>4. kind = "cpa" /\ clock \in Nat
    BY TimeAssumption DEF World, InFetch
  <2> HIDE DEF heardOf
  <2>5. Made(Pooled(Rooms(said), clock), heardOf)
    BY <1>3, <2>3, <2>4 DEF Made
  <2> QED
    BY <2>2, <2>3, <2>5, ReturnInv
<1> QED
  BY <1>1, <1>2, <1>3

LEMMA FetchInv ==
    ASSUME World, InFetch, Begin \/ Fetch
    PROVE  InFetch'
<1>1. CASE Begin
  <2>1. /\ pc = "idle" /\ stored.version < MaxVersion
        /\ pc' = IF kind = "cpa" THEN "listing" ELSE "fetching"
        /\ UNCHANGED <<kind, queue, answers, heard, hand, stored>>
    BY <1>1 DEF Begin
  <2> QED
    BY <2>1 DEF InFetch, Made
<1>2. CASE RequestFails
  BY <1>2, GiveUpInv DEF RequestFails
<1>3. ASSUME NEW answer \in Answers[kind], Receive(answer[1], answer[2])
      PROVE  InFetch'
  BY <1>3, ReceiveInv
<1>4. ASSUME NEW files \in AuthFiles, List(files)
      PROVE  InFetch'
  BY <1>4, ListInv
<1>5. ASSUME NEW usage \in AccountUsages, Query(usage)
      PROVE  InFetch'
  <2>1. pc = "querying" /\ NextAccount(Append(answers, EffectiveRemaining(usage)),
                                       Append(heard, usage))
    BY <1>5 DEF Query
  <2>2. heard \in Seq(AccountUsages) /\ answers = Rooms(heard)
    BY DEF InFetch
  <2>3. /\ Append(heard, usage) \in Seq(AccountUsages)
        /\ Append(answers, EffectiveRemaining(usage)) = Rooms(Append(heard, usage))
    BY <2>2, RoomsOfAnother, AppendProperties
  <2> QED
    BY <2>1, <2>3, NextAccountInv
<1>6. CASE QueryFails
  <2>1. pc = "querying" /\ NextAccount(answers, heard)
    BY <1>6 DEF QueryFails
  <2>2. heard \in Seq(AccountUsages) /\ answers = Rooms(heard)
    BY DEF InFetch
  <2> QED
    BY <2>1, <2>2, NextAccountInv
<1>7. CASE Stagger
  <2>1. CASE pc = "staggering" /\ GiveUp
    BY <2>1, GiveUpInv
  <2>2. CASE /\ pc = "staggering" /\ pc' = "querying"
             /\ UNCHANGED <<kind, queue, answers, heard, hand, stored>>
    BY <2>2 DEF InFetch, Made
  <2> QED
    BY <1>7, <2>1, <2>2 DEF Stagger
<1> QED
  BY <1>1, <1>2, <1>3, <1>4, <1>5, <1>6, <1>7 DEF Fetch

-----------------------------------------------------------------------------
(***************************************************************************)
(* Update and the theorems.                                                *)
(***************************************************************************)
LEMMA UpdateInv ==
    ASSUME Inv, Update
    PROVE  Inv'
<1> DEFINE kept == OmitStaleQuotas(hand.quotas, clock)
<1>1. /\ pc = "fetched" /\ pc' = "idle" /\ hand' = NoHand
      /\ stored'.version = stored.version + 1 /\ stored'.lastSync = clock
      /\ stored'.quotas = kept /\ stored'.said = hand.said
      /\ UNCHANGED <<kind, clock, cancelled, queue, answers, heard>>
  BY DEF Update
<1>2. gauge' = [t \in DOMAIN kept \cup DOMAIN gauge |->
                   IF t \in DOMAIN kept THEN kept[t] ELSE gauge[t]]
  BY <1>1 DEF Update
<1>3. \A t : /\ t \in DOMAIN kept <=>
                     /\ t \in DOMAIN hand.quotas
                     /\ ~(MaxStale > 0 /\ Expired(hand.quotas[t], clock))
             /\ t \in DOMAIN kept => kept[t] = hand.quotas[t]
  BY Omitted
<1>4. Made(hand.quotas, hand.said) /\ IsQuotaMap(hand.quotas)
  BY <1>1, MadeIsQuotaMap DEF Inv, InFetch
<1> HIDE DEF kept
<1>5. World'
  BY <1>1 DEF Inv, World
<1>6. InFetch'
  BY <1>1 DEF Inv, InFetch
<1>7. InStore'
  <2>1. stored.version \in 0 .. MaxVersion /\ stored.version < MaxVersion
    BY <1>1 DEF Inv, InStore, InFetch
  <2>2. stored'.version \in 0 .. MaxVersion /\ stored'.version # 0
    BY <1>1, <2>1, TimeAssumption
  <2>3. stored'.lastSync \in TimePoints
    BY <1>1 DEF Inv, World
  <2>4. \E quotas : /\ Made(quotas, stored.said)'
                    /\ stored'.quotas = OmitStaleQuotas(quotas, stored'.lastSync)
    BY <1>1, <1>4 DEF Made, kept
  <2> QED
    BY <2>2, <2>3, <2>4 DEF InStore
<1>8. IsQuotaMap(gauge)'
  <2>1. IsQuotaMap(gauge)
    BY DEF Inv
  <2> QED
    BY <1>2, <1>3, <1>4, <2>1 DEF IsQuotaMap
<1>9. Filtered'
  <2> SUFFICES ASSUME MaxStale > 0, NEW t \in DOMAIN kept
               PROVE  ~(/\ kept[t].resetAt # NoTime
                        /\ clock - kept[t].resetAt > MaxStale)
    BY <1>1 DEF Filtered, IsStale
  <2> QED
    BY <1>3 DEF Expired
<1>10. Gauged'
  BY <1>1, <1>2 DEF Gauged
<1> QED
  BY <1>5, <1>6, <1>7, <1>8, <1>9, <1>10 DEF Inv

THEOREM Invariance == Spec => []Inv
<1>1. Init => Inv
  <2> SUFFICES ASSUME Init PROVE Inv
    OBVIOUS
  <2>1. World
    BY DEF Init, World
  <2>2. InFetch
    BY RoomsOfNone, EmptySeq DEF Init, InFetch
  <2>3. /\ stored.version = 0 /\ stored.lastSync = NoTime
        /\ stored.quotas = << >> /\ gauge = << >>
    BY DEF Init
  <2>4. InStore
    BY <2>3, TimeAssumption DEF InStore
  <2>5. DOMAIN stored.quotas = {} /\ DOMAIN gauge = {}
    BY <2>3
  <2> QED
    BY <2>1, <2>2, <2>4, <2>5 DEF Inv, Filtered, Gauged, IsQuotaMap
<1>2. Inv /\ [Next]_vars => Inv'
  <2> SUFFICES ASSUME Inv, [Next]_vars
               PROVE  Inv'
    OBVIOUS
  <2>1. CASE Update
    BY <2>1, UpdateInv
  <2>2. ASSUME UNCHANGED <<kind, stored, gauge>>
        PROVE  InStore' /\ IsQuotaMap(gauge)' /\ Filtered' /\ Gauged'
    <3>1. InStore'
      BY <2>2 DEF Inv, InStore, Made
    <3> QED
      BY <2>2, <3>1 DEF Inv, Filtered, Gauged, IsStale, IsQuotaMap
  <2>3. CASE Begin \/ Fetch
    <3>1. UNCHANGED <<kind, stored, gauge, clock, cancelled>>
      BY <2>3, FetchKeepsStore, FetchKeepsWorld
    <3>2. World'
      BY <3>1 DEF Inv, World
    <3>3. InFetch'
      BY <2>3, FetchInv DEF Inv
    <3> QED
      BY <2>2, <3>1, <3>2, <3>3 DEF Inv
  <2>4. CASE Tick \/ Cancel \/ UNCHANGED vars
    <3>1. /\ UNCHANGED <<kind, pc, queue, answers, heard, hand, stored, gauge>>
          /\ clock' \in TimePoints /\ cancelled' \in BOOLEAN
      BY <2>4 DEF Inv, World, Tick, Cancel, vars
    <3>2. World'
      BY <3>1 DEF Inv, World
    <3>3. InFetch'
      BY <3>1 DEF Inv, InFetch, Made
    <3> QED
      BY <2>2, <3>1, <3>2, <3>3 DEF Inv
  <2> QED
    BY <2>1, <2>3, <2>4 DEF Next
<1> QED
  BY <1>1, <1>2, PTL DEF Spec

\* What is in hand, in the store and in the gauges are percentages of the
\* three tiers, and the accounts still to be queried are counted exactly while
\* the adapter is at them.
THEOREM TypeCorrect == Spec => []TypeOK
<1>1. Inv => TypeOK
  <2> SUFFICES ASSUME Inv PROVE TypeOK
    OBVIOUS
  <2>1. \A i \in DOMAIN answers : answers[i] \in 0 .. 100
    <3>1. answers \in Seq(0 .. 100)
      BY RoomsType DEF Inv, InFetch
    <3> QED
      BY <3>1, ElementOfSeq, LenProperties
  <2>2. IsQuotaMap(hand.quotas) /\ (hand # NoHand) = (pc = "fetched")
    <3>1. CASE pc = "fetched"
      BY <3>1, MadeIsQuotaMap DEF Inv, InFetch
    <3>2. CASE pc # "fetched"
      <4>1. hand = NoHand
        BY <3>2 DEF Inv, InFetch
      <4>2. DOMAIN hand.quotas = {}
        BY <4>1 DEF NoHand
      <4> QED
        BY <3>2, <4>1, <4>2 DEF IsQuotaMap
    <3> QED
      BY <3>1, <3>2
  <2>3. stored.version \in 0 .. MaxVersion /\ stored.lastSync \in TimePoints \cup {NoTime}
    BY DEF Inv, InStore
  <2>4. IsQuotaMap(stored.quotas)
    BY StoreIsQuotaMap DEF Inv
  <2> QED
    BY <2>1, <2>2, <2>3, <2>4 DEF Inv, World, InFetch, TypeOK
<1> QED
  BY Invariance, <1>1, PTL

\* No tier is served that had expired at its sync.
THEOREM NeverServesStale == Spec => []StaleNeverServed
<1>1. Inv => StaleNeverServed
  BY DEF Inv, Filtered, StaleNeverServed
<1> QED
  BY Invariance, <1>1, PTL

\* The gauge of every tier that is served holds what is served: the two ways
\* to read a quota never disagree.
THEOREM GaugeAgrees ==
    Spec => [](\A t \in Tiers : Tile(t).available =>
                   t \in DOMAIN gauge /\ ClampPercent(gauge[t].used) = Tile(t).percentage)
<1>1. Inv => \A t \in Tiers : Tile(t).available =>
                 t \in DOMAIN gauge /\ ClampPercent(gauge[t].used) = Tile(t).percentage
  BY DEF Inv, Gauged, Tile, Unavailable
<1> QED
  BY Invariance, <1>1, PTL

\* A tile shows what the provider stated and is filed under its tier, in whole
\* percents and with its expiry, for any statement in the forms of Says whose
\* counts fit.
THEOREM ShowsWhatWasReported == Spec => []ShownIsReported
<1> DEFINE said == stored.said
           gone(q) == MaxStale > 0 /\ Expired(q, stored.lastSync)
           shown(q) == [available |-> TRUE, percentage |-> q.used, unlimited |-> q.resetAt = NoTime]
<1>1. ASSUME Inv, stored.version > 0, kind # "cpa", AnswerFits(said.truth), NEW t \in Tiers
      PROVE  \E q \in Filed(kind, said, t) :
                /\ Tile(t) = IF gone(q) THEN Unavailable ELSE shown(q)
                /\ Tile(t).available => t \in DOMAIN gauge /\ gauge[t] = q
  <2>1. PICK quotas : /\ Made(quotas, stored.said)
                      /\ stored.quotas = OmitStaleQuotas(quotas, stored.lastSync)
    BY <1>1 DEF Inv, InStore
  <2>2. said.truth \in Truth(kind) /\ Faithful(kind, quotas, said)
    BY <1>1, <2>1 DEF Made
  <2> DEFINE q == quotas[t]
  <2>3. DOMAIN quotas = Tiers /\ q \in Filed(kind, said, t)
    BY <1>1, <2>2 DEF Faithful
  <2>4. q.used \in 0 .. 100
    <3>1. \A u \in DOMAIN said.truth : said.truth[u] \in Reports
      BY <2>2, <1>1, KindsAssumption DEF Inv, World, Truth, Plans
    <3>2. \A r \in Reports : Stated(r).used \in 0 .. 100
      BY PercentIsPercent DEF Stated, Quota
    <3>3. Default.used = 0 /\ Quota(0, 0).used = 0 /\ Quota(100, 0).used = 100
      BY DEF Default, Quota
    <3> HIDE DEF said, q
    <3> QED
      BY <2>3, <3>1, <3>2, <3>3 DEF Filed
  <2>5. /\ t \in DOMAIN stored.quotas <=> ~gone(q)
        /\ t \in DOMAIN stored.quotas => stored.quotas[t] = q
    BY <1>1, <2>1, <2>3, Omitted
  <2> HIDE DEF q
  <2>6. CASE gone(q)
    <3>1. Tile(t) = Unavailable
      BY <2>5, <2>6 DEF Tile
    <3> QED
      BY <2>3, <2>6, <3>1 DEF Unavailable
  <2>7. CASE ~gone(q)
    <3>1. ClampPercent(q.used) = q.used
      BY <2>4 DEF ClampPercent
    <3>2. Tile(t) = shown(q)
      BY <2>5, <2>7, <3>1 DEF Tile
    <3>3. t \in DOMAIN gauge /\ gauge[t] = q
      BY <1>1, <2>5, <2>7 DEF Inv, Gauged
    <3> QED
      BY <2>3, <2>7, <3>2, <3>3
  <2> QED
    BY <2>6, <2>7
<1>2. Inv => ShownIsReported
  BY <1>1 DEF ShownIsReported, AnswerFits
<1> QED
  BY Invariance, <1>2, PTL

\* The quota of a pool is the mean of what the accounts that answered may
\* still use, rounded down, for any number of accounts and any usage of them.
THEOREM PoolIsSound == Spec => []PoolSound
<1>1. ASSUME Inv, stored.version > 0, kind = "cpa"
      PROVE  LET n == Len(stored.said.pool)
                 room == SumOf([i \in 1 .. n |-> Room(stored.said.pool[i])])
             IN  /\ n > 0
                 /\ \A t \in DOMAIN stored.quotas :
                       LET left == 100 - Tile(t).percentage
                       IN  n * left <= room /\ room < n * (left + 1)
  <2> DEFINE pool == stored.said.pool
             n == Len(pool)
             mean == SumOf(Rooms(pool)) \div n
  <2>1. PICK quotas : /\ Made(quotas, stored.said)
                      /\ stored.quotas = OmitStaleQuotas(quotas, stored.lastSync)
    BY <1>1 DEF Inv, InStore
  <2>2. /\ pool \in Seq(AccountUsages) /\ pool # << >> /\ stored.said.at \in Nat
        /\ quotas = Pooled(Rooms(pool), stored.said.at)
    BY <1>1, <2>1 DEF Made
  <2> HIDE DEF pool
  <2>3. /\ n \in Nat \ {0} /\ mean \in 0 .. 100
        /\ n * mean <= SumOf(Rooms(pool)) /\ SumOf(Rooms(pool)) < n * (mean + 1)
        /\ quotas = [t \in Tiers |-> Quota(100 - mean, stored.said.at)]
    BY <2>2, PooledIs
  <2>4. [i \in 1 .. n |-> Room(pool[i])] = Rooms(pool)
    <3>1. \A i \in 1 .. n : pool[i] \in AccountUsage
      BY <2>2, ElementOfSeq, UsagesAssumption
    <3> QED
      BY <3>1, RemainingIsRoom DEF Rooms
  <2> HIDE DEF mean, n
  <2>5. ASSUME NEW t \in DOMAIN stored.quotas PROVE 100 - Tile(t).percentage = mean
    <3>1. t \in DOMAIN quotas /\ stored.quotas[t] = quotas[t]
      BY <2>1, Omitted
    <3>2. stored.quotas[t].used = 100 - mean
      BY <2>3, <3>1 DEF Quota
    <3>3. ClampPercent(100 - mean) = 100 - mean
      BY <2>3 DEF ClampPercent
    <3>4. Tile(t).percentage = 100 - mean
      BY <3>2, <3>3 DEF Tile
    <3> QED
      BY <2>3, <3>4
  <2> DEFINE room == SumOf(Rooms(pool))
  <2>6. n > 0 /\ \A t \in DOMAIN stored.quotas :
                   /\ n * (100 - Tile(t).percentage) <= room
                   /\ room < n * ((100 - Tile(t).percentage) + 1)
    BY <2>3, <2>5
  <2> QED
    BY <2>4, <2>6, Zenon DEF n, pool
<1>2. Inv => PoolSound
  BY <1>1 DEF PoolSound
<1> QED
  BY Invariance, <1>2, PTL
=============================================================================
