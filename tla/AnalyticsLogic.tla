---------------------------- MODULE AnalyticsLogic ----------------------------
(***************************************************************************)
(* The scoring arithmetic of analytics-logic.ts and the merge behind the   *)
(* activity feed: functions of their arguments, without state.             *)
(*                                                                         *)
(* round2 keeps two decimals, so scores and averages are integers counting *)
(* hundredths: an agreed score of 4 is 400.  Binary floating point is left *)
(* out; the sums are of small integers and the quotients of two decimals.  *)
(***************************************************************************)
EXTENDS Integers, FiniteSets, Sequences, Functions

CONSTANT NoScore     \* null: nobody has scored

ASSUME NoScoreAssumption == NoScore \notin Int

-----------------------------------------------------------------------------
(* Averages. *)

\* a / b to the nearest integer, halves up, as Math.round does.
Rounded(a, b) == (2 * a + b) \div (2 * b)

\* "no data" averages to zero here, and to null below.
Average(scores) ==
  IF DOMAIN scores = {} THEN 0
  ELSE Rounded(SumFunction(scores), Cardinality(DOMAIN scores))

AverageOrNull(scores) ==
  IF DOMAIN scores = {} THEN NoScore ELSE Average(scores)

Percentage(part, total) == IF total <= 0 THEN 0 ELSE Rounded(100 * part, total)

Delta(current, previous) ==
  IF previous = NoScore THEN NoScore ELSE current - previous

-----------------------------------------------------------------------------
(* Zones, risk and trend. *)

Zones == {"needs_support", "developing", "strong"}

\* Up to 40% of the scale, up to 70%, above.
ClassifyZone(score, scaleMax) ==
  CASE scaleMax <= 0 \/ score <= 40 * scaleMax -> "needs_support"
    [] scaleMax > 0 /\ score > 40 * scaleMax /\ score <= 70 * scaleMax -> "developing"
    [] OTHER -> "strong"

IsAtRisk(latestAverage, scaleMax, coachingFlagCount) ==
  \/ scaleMax > 0 /\ latestAverage <= 40 * scaleMax
  \/ coachingFlagCount >= 2

Trends == {"improving", "stagnant", "regressing"}

\* The direction of the last two graded cycles, oldest first.
ClassifyTrend(averages) ==
  LET graded == {i \in DOMAIN averages : averages[i] # NoScore}
      lastTwo == {p \in graded \X graded :
                    p[1] < p[2] /\ \A i \in graded : i <= p[1] \/ i = p[2]}
  IN  CASE \E p \in lastTwo : averages[p[2]] > averages[p[1]] -> "improving"
        [] \E p \in lastTwo : averages[p[2]] < averages[p[1]] -> "regressing"
        [] OTHER -> "stagnant"

-----------------------------------------------------------------------------
(* Activity over time.  `week` is the length of a week. *)

WindowEnd(i, now, weeks, week) == now - (weeks - i) * week

InWindow(t, i, now, weeks, week) ==
  /\ t >= WindowEnd(i, now, weeks, week) - week
  /\ t < WindowEnd(i, now, weeks, week)

\* Submissions per trailing week, oldest first; `at` maps a row to its time.
WeeklyCounts(at, now, weeks, week) ==
  [i \in 1 .. weeks |->
     Cardinality({x \in DOMAIN at : InWindow(at[x], i, now, weeks, week)})]

\* The rows submissionTimestampsSince asks for: the last `weeks` weeks.
SinceWindow(at, now, weeks, week) ==
  {x \in DOMAIN at : at[x] >= now - weeks * week}

\* ORDER BY time DESC LIMIT n, for rows of distinct times.
Newest(rows, at, n) ==
  {x \in rows : Cardinality({y \in rows : at[y] > at[x]}) < n}

\* The feed: the newest of each table, merged, and the newest of those.
ActivityFeed(tables, at, n) ==
  Newest(UNION {Newest(rows, at, n) : rows \in tables}, at, n)
=============================================================================
