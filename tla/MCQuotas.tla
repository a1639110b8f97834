------------------------------ MODULE MCQuotas ------------------------------
EXTENDS Quotas

Start == 100 * Day

MCTimePoints == {Start, Start + Hour, Start + 4 * Day}

\* Fractions that round, exceed the total and are large; resets that are just
\* past, within 5 hours, within a week, beyond it, and none.  The first one is
\* long past at the last moment.
MCReports ==
    { [used |-> 1,    total |-> 3,    resetAt |-> Start + 2 * Hour],
      [used |-> 9,    total |-> 7,    resetAt |-> Start + 5 * Day],
      [used |-> 9998, total |-> 9999, resetAt |-> Start - 30],
      [used |-> 5,    total |-> 8,    resetAt |-> Start + 13 * Day],
      [used |-> 0,    total |-> 5,    resetAt |-> NoTime] }

File(index) == [type |-> "codex", disabled |-> FALSE, unavailable |-> FALSE,
                status |-> "active", authIndex |-> index, accountId |-> "id"]

MCAuthFiles ==
    { <<>>,
      <<[File("1") EXCEPT !.disabled = TRUE], [File("2") EXCEPT !.accountId = ""]>>,
      <<File("1"), [File("2") EXCEPT !.status = "error"], File("3"),
        [File("4") EXCEPT !.type = "claude"]>> }

Usage(windows) == [rateLimit |-> TRUE, allowed |-> TRUE, limitReached |-> FALSE,
                   credits |-> FALSE, spendReached |-> FALSE, windows |-> windows]

MCAccountUsages ==
    { [Usage({}) EXCEPT !.rateLimit = FALSE],
      Usage({30, 45}),
      Usage({-5, 120}),
      [Usage({20}) EXCEPT !.limitReached = TRUE],
      [Usage({}) EXCEPT !.allowed = FALSE, !.credits = TRUE, !.spendReached = TRUE],
      [Usage({60}) EXCEPT !.allowed = FALSE, !.credits = TRUE] }
=============================================================================
