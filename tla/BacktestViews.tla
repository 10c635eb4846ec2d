----------------------------- MODULE BacktestViews -----------------------------
(***************************************************************************)
(* What the admin page makes of a stored backtest: the last weeks with     *)
(* their summary (backtest-detail.ts), the explanation of the first price  *)
(* of a forecast (forecast-diagnostics.ts), what each part of a forecast   *)
(* did to its error (forecast-error-analysis.ts), and why a tuned setting  *)
(* is a candidate or none (candidate-decision.ts).  The page computes all  *)
(* of it anew from the numbers a run has stored.                           *)
(***************************************************************************)
EXTENDS CandidateRules

CONSTANTS
  StoredPoints,  \* one-step points a run stores (26)
  ShownPoints,   \* ... of which the page shows (13)
  Highlights     \* of the largest errors (3)

\* The page shows as many weeks as the recent window of a backtest has.
ASSUME ViewAssumption ==
  /\ ShownPoints = RecentWeeks /\ StoredPoints \in Nat /\ ShownPoints <= StoredPoints
  /\ Highlights \in Nat \ {0}

-----------------------------------------------------------------------------
(* The last weeks.                                                         *)

Stored(one) == NewestPoints(one, StoredPoints)

\* A defect: one week too many is shown.
ShownMore(stored) == NewestPoints(stored, ShownPoints + 1)

Shown(stored) == NewestPoints(stored, ShownPoints)

\* The largest errors, the earlier of equal ones first.
Highlighted(rows) ==
  LET above(p, q) == Error(q) > Error(p) \/ (Error(q) = Error(p) /\ q.target < p.target)
  IN  {p \in rows : Cardinality({q \in rows : above(p, q)}) < Highlights}

DetailSummary(rows) ==
  [count |-> Cardinality(rows), mae |-> MeanError(rows), mape |-> MeanPercent(rows),
   max   |-> Max({Error(p) : p \in rows}),
   hits  |-> Cardinality({p \in rows : Direction(p.anchor, p.actual) = Direction(p.anchor, p.forecast)})]

-----------------------------------------------------------------------------
(* The parts of a forecast.                                                *)

\* What a run stores of the forecast from the end of a series.
Parts(series, indicators, setting) ==
  LET length == Lesser(setting.trend, Len(series))
      anchor == Last(series)
      part(code) == [used  |-> Contributes(indicators[code], setting[code], anchor.week),
                     ratio |-> Contribution(indicators[code], setting[code], anchor.week)]
  IN  [anchor |-> anchor.price, trend |-> Trend(SubSeq(series, Len(series) - length + 1, Len(series))),
       dubai |-> part("dubai"), usdKrw |-> part("usdKrw"), cap |-> setting.cap]

\* ... and of each week of the backtest.
PartsAt(series, indicators, setting, point) ==
  Parts(SubSeq(series, 1, CHOOSE i \in DOMAIN series : series[i].week = point.origin), indicators, setting)

Raw(parts) == parts.dubai.ratio + parts.usdKrw.ratio

\* The first price, put together again from its parts.
Explained(parts) == Projected(parts.anchor, parts.trend, 1, Capped(Raw(parts), parts.cap))

ErrorFactors == {"trend", "dubai", "usdKrw", "cap"}

\* A factor is applied where it could change the price.
Applied(parts, factor) ==
  CASE factor = "trend" -> parts.trend # 0
    [] factor = "cap"   -> Capped(Raw(parts), parts.cap) # Raw(parts)
    [] OTHER            -> parts[factor].used

\* The price without one of the factors.
Without(parts, factor) ==
  LET price(trend, ratio) == Projected(parts.anchor, trend, 1, ratio)
  IN  CASE factor = "trend"  -> price(0, Capped(Raw(parts), parts.cap))
        [] factor = "dubai"  -> price(parts.trend, Capped(parts.usdKrw.ratio, parts.cap))
        [] factor = "usdKrw" -> price(parts.trend, Capped(parts.dubai.ratio, parts.cap))
        [] factor = "cap"    -> price(parts.trend, Raw(parts))

\* How much larger the error is with the factor than without it.
Impact(point, parts, factor) == Error(point) - Distance(point.actual, Without(parts, factor))

\* In how many weeks a factor was applied, made the error smaller or larger,
\* and by how much on average.
FactorSummary(rows, partsOf, factor) ==
  LET applied == {p \in rows : Applied(partsOf[p], factor)}
      impact(p) == Impact(p, partsOf[p], factor)
  IN  [applied   |-> Cardinality(applied),
       reduced   |-> Cardinality({p \in applied : impact(p) < 0}),
       increased |-> Cardinality({p \in applied : impact(p) > 0}),
       total     |-> SumFunction([p \in applied |-> impact(p)])]

-----------------------------------------------------------------------------
(* The tuned settings.                                                     *)

\* The place of a setting among the tuned candidates, 0 for none.
RankOf(tuned, s) == IF \E i \in DOMAIN tuned : tuned[i] = s THEN CHOOSE i \in DOMAIN tuned : tuned[i] = s ELSE 0

\* What the page says of a setting beside the operating one.
Decision(operating, backtest, rank) ==
  CASE backtest.recentOne.count < MinSamples -> "not evaluable"
    [] backtest.recentOne.count >= MinSamples /\ ~PassesAgainst(operating, backtest) -> "rejected"
    [] OTHER -> IF rank = 1 THEN "top" ELSE "eligible"
=============================================================================
