------------------------------- MODULE WalkForward -------------------------------
(***************************************************************************)
(* The arithmetic of the weekly forecast: the projection from the last     *)
(* complete week, the walk-forward backtest that replays it at every       *)
(* earlier week, its windows of errors, the ranges calibrated on them and  *)
(* the corrections a candidate setting puts on top of a backtest.          *)
(*                                                                         *)
(* A series is a sequence of weeks with their prices; an incomplete week   *)
(* is not in it.  Prices are whole numbers, and what the code keeps as a   *)
(* fraction is kept here in parts of Unit, rounded down.                   *)
(***************************************************************************)
EXTENDS Integers, FiniteSets, SequencesExt

CONSTANTS
  Unit,          \* the resolution of ratios and of projected prices
  MinActuals,    \* weeks a trend needs (3)
  RecentWeeks,   \* the recent window of a backtest (13)
  LongWeeks,     \* the long one (26)
  RangeWindow,   \* residuals a range is calibrated on, at most (26)
  RangeMinimum,  \* ... and at least (8)
  TailPart,      \* the part of residuals below a range, in Unit (10 %)
  NearHorizon,   \* the last week of the first band of horizons (4)
  FarHorizon     \* the last week of the second one (8)

ASSUME WalkForwardAssumption ==
  /\ {Unit, MinActuals, RecentWeeks, LongWeeks, RangeWindow, RangeMinimum} \subseteq Nat \ {0}
  /\ TailPart \in Nat /\ 2 * TailPart <= Unit
  /\ NearHorizon \in Nat /\ FarHorizon \in Nat

Lesser(a, b) == IF a < b THEN a ELSE b
Greater(a, b) == IF a > b THEN a ELSE b
Distance(a, b) == Greater(a - b, b - a)

\* A figure there is nothing to compute from.
None == -1

\* The indicators and corrections a setting leaves out have weight 0.
Unused == [lag |-> 0, weight |-> 0]

-----------------------------------------------------------------------------
(* The forecast from the end of a series.                                  *)

Trend(weeks) == (Last(weeks).price - weeks[1].price) \div (Len(weeks) - 1)

\* The point an indicator is taken from at an anchor: the last one known then
\* that is `lag' weeks old.
Basis(points, use, anchor) ==
  Cardinality({i \in DOMAIN points : points[i].week <= anchor}) - use.lag + 1

Contributes(points, use, anchor) ==
  LET basis == Basis(points, use, anchor)
  IN  use # Unused /\ basis >= 2 /\ basis <= Len(points) /\ points[basis].week <= anchor

\* What an indicator adds: its change to that point.
Contribution(points, use, anchor) ==
  LET basis == Basis(points, use, anchor)
  IN  IF ~Contributes(points, use, anchor) THEN 0
      ELSE ((points[basis].value - points[basis - 1].value) * use.weight) \div points[basis - 1].value

Capped(ratio, cap) == Lesser(cap, Greater(-cap, ratio))

Projected(anchor, trend, h, ratio) == Greater(0, (anchor + trend * h) * (Unit + ratio))

\* The prices of the weeks after the last one, none while the series is too
\* short for a trend.  The corrections of a setting do not enter here.
WeeklyForecast(series, indicators, setting, horizons) ==
  LET length == Lesser(setting.trend, Len(series))
      weeks  == SubSeq(series, Len(series) - length + 1, Len(series))
      anchor == Last(series)
      raw    == Contribution(indicators.dubai, setting.dubai, anchor.week)
                  + Contribution(indicators.usdKrw, setting.usdKrw, anchor.week)
  IN  IF Len(series) < MinActuals \/ length < 2 THEN <<>>
      ELSE [h \in 1..horizons |->
              Projected(anchor.price, Trend(weeks), h, Capped(raw, setting.cap))]

-----------------------------------------------------------------------------
(* The backtest.                                                           *)

\* The evaluation points of a forecast made at the origin-th week: each price
\* beside that of the week it was made for.
Evaluations(series, origin, forecast) ==
  {[origin |-> series[origin].week, horizon |-> h, target |-> series[origin + h].week,
    anchor |-> Unit * series[origin].price, actual |-> Unit * series[origin + h].price,
    forecast |-> forecast[h]] : h \in DOMAIN forecast}

\* A defect: the forecast of a week knows the next one.
BacktestAhead(series, indicators, setting, horizons) ==
  UNION {Evaluations(series, origin,
           WeeklyForecast(SubSeq(series, 1, origin + 1), indicators, setting,
                          Lesser(horizons, Len(series) - origin)))
         : origin \in MinActuals..(Len(series) - 1)}

Backtest(series, indicators, setting, horizons) ==
  UNION {Evaluations(series, origin,
           WeeklyForecast(SubSeq(series, 1, origin), indicators, setting,
                          Lesser(horizons, Len(series) - origin)))
         : origin \in MinActuals..(Len(series) - 1)}

OneStep(points) == {point \in points : point.horizon = 1}

Error(point) == Distance(point.actual, point.forecast)

MeanError(points) == SumFunction([point \in points |-> Error(point)]) \div Cardinality(points)

GreatestError(points) == Max({Error(point) : point \in points})

\* The error in tenths of a percent of the price.
PercentError(point) == (1000 * Error(point)) \div point.actual

\* A price of nothing has no percentage: its point is left out.
MeanPercent(points) ==
  LET priced == {point \in points : point.actual > 0}
  IN  IF priced = {} THEN None ELSE SumFunction([point \in priced |-> PercentError(point)]) \div Cardinality(priced)

Direction(anchor, price) == IF price > anchor THEN "up" ELSE IF price < anchor THEN "down" ELSE "flat"

\* How far the one-step forecasts move from one week to the next, over those
\* made from a week on.
Churn(points, from) ==
  LET before(point) == {p \in points : p.target < point.target}
      previous(point) == CHOOSE p \in before(point) : \A q \in before(point) : q.target <= p.target
      moving == {point \in points : point.origin >= from /\ before(point) # {}}
      move(point) == Distance(point.forecast, previous(point).forecast)
  IN  IF moving = {} THEN None ELSE SumFunction([point \in moving |-> move(point)]) \div Cardinality(moving)

\* What a window says of its points.
Metrics(points, churn) ==
  IF points = {} THEN [count |-> 0, mae |-> None, mape |-> None, max |-> None, hits |-> 0, churn |-> churn]
  ELSE [count |-> Cardinality(points), mae |-> MeanError(points), mape |-> MeanPercent(points),
        max |-> GreatestError(points), churn |-> churn,
        hits |-> Cardinality({p \in points : Direction(p.anchor, p.actual) = Direction(p.anchor, p.forecast)})]

WindowStart(series, weeks) == series[Greater(1, Len(series) - weeks + 1)].week

Since(points, week) == {p \in points : p.target >= week}

\* A backtest with its four windows: recent and long, over all horizons and
\* over the first alone.
Windowed(points, one, churn, recent, long) ==
  [points |-> points, one |-> one,
   recent |-> Metrics(Since(points, recent), churn), long |-> Metrics(Since(points, long), churn),
   recentOne |-> Metrics(Since(one, recent), churn), longOne |-> Metrics(Since(one, long), churn)]

Measured(series, points) ==
  Windowed(points, OneStep(points), Churn(OneStep(points), WindowStart(series, RecentWeeks)),
           WindowStart(series, RecentWeeks), WindowStart(series, LongWeeks))

\* The quality gate approves a forecast whose recent error is within the
\* threshold; without a forecast or an error it is degraded.
Approved(forecast, recent, threshold) ==
  forecast # <<>> /\ recent.mape # None /\ recent.mape <= threshold

-----------------------------------------------------------------------------
(* Ranges.                                                                 *)

\* The orders of a backtest as it is judged and as a forecast is issued.
ByOrigin(a, b) == a.origin < b.origin \/ (a.origin = b.origin /\ a.horizon < b.horizon)

ByTarget(a, b) == a.target < b.target \/ (a.target = b.target /\ a.horizon < b.horizon)

\* A set in a strict order.
Ordered(S, before(_, _)) ==
  [i \in 1..Cardinality(S) |-> CHOOSE s \in S : Cardinality({o \in S : before(o, s)}) = i - 1]

Ascending(S) == Ordered(S, <)

\* The last ones of a set in an order.
LatestOf(S, before(_, _), count) == {s \in S : Cardinality({o \in S : before(s, o)}) < count}

Band(h) == IF h <= NearHorizon THEN 1 ELSE IF h <= FarHorizon THEN 2 ELSE 3

\* The last points of the same horizon or, when they are too few, of its band
\* or of all horizons.
Calibration(known, before(_, _), h) ==
  LET own    == {point \in known : point.horizon = h}
      banded == {point \in known : Band(point.horizon) = Band(h)}
      enough(points) == Cardinality(points) >= RangeMinimum
  IN  CASE enough(own)                      -> LatestOf(own, before, RangeWindow)
        [] ~enough(own) /\ enough(banded)   -> LatestOf(banded, before, RangeWindow)
        [] ~enough(banded) /\ enough(known) -> LatestOf(known, before, RangeWindow)
        [] OTHER                            -> {}

\* The i-th of some values in ascending order.
Ranked(values, i) ==
  CHOOSE x \in {values[k] : k \in DOMAIN values} :
    /\ Cardinality({k \in DOMAIN values : values[k] < x}) < i
    /\ Cardinality({k \in DOMAIN values : values[k] <= x}) >= i

\* The quantile between the two neighbours of its position, in Unit.
Quantile(values, level) ==
  LET count    == Cardinality(DOMAIN values)
      position == (count - 1) * level
      lower    == position \div Unit + 1
      upper    == Lesser(lower + 1, count)
      weight   == position % Unit
  IN  Ranked(values, lower) * (Unit - weight) + Ranked(values, upper) * weight

\* The range around a price, <<>> if there is nothing to calibrate it on.
PriceRange(price, calibration) ==
  LET residuals == [point \in calibration |-> point.actual - point.forecast]
  IN  IF calibration = {} THEN <<>>
      ELSE <<Unit * price + Quantile(residuals, TailPart), Unit * price + Quantile(residuals, Unit - TailPart)>>

InRange(range, price) == range[1] <= Unit * price /\ Unit * price <= range[2]

\* A defect: the ranges of a week know the prices that came after it.
KnownAtLast(points, week) == points

\* The points whose price was known at the end of a week.
KnownAt(points, week) == {point \in points : point.target <= week}

\* The range a point would have had when it was forecast.
RangeAt(points, point) ==
  PriceRange(point.forecast, Calibration(KnownAt(points, point.origin), ByOrigin, point.horizon))

\* The coverage of a horizon.
Coverage(points, h) ==
  LET covered == {point \in points : point.horizon = h /\ RangeAt(points, point) # <<>>}
  IN  [count |-> Cardinality(covered),
       hits  |-> Cardinality({point \in covered : InRange(RangeAt(points, point), point.actual)})]

-----------------------------------------------------------------------------
(* Corrections of a candidate, on the one-step points of a backtest.       *)

SignedError(point) == point.forecast - point.actual

MeanBias(points) == SumFunction([point \in points |-> SignedError(point)]) \div Cardinality(points)

NewestPoints(points, count) ==
  {p \in points : Cardinality({q \in points : q.target > p.target}) < count}

\* The points before one, `count' of them, or none if there are not so many.
Preceding(points, point, count) ==
  LET before == {p \in points : p.target < point.target}
  IN  IF Cardinality(before) < count THEN {} ELSE NewestPoints(before, count)

\* A defect: the latest errors correct all weeks.
BiasCorrectedAll(points, bias) ==
  LET latest == NewestPoints(points, bias.lag)
  IN  {[point EXCEPT !.forecast = @ - (MeanBias(latest) * bias.weight) \div Unit] : point \in points}

\* Each forecast takes back part of the mean error of those before it.
BiasCorrected(points, bias) ==
  {LET prior == Preceding(points, point, bias.lag)
   IN  IF prior = {} THEN point
       ELSE [point EXCEPT !.forecast = @ - (MeanBias(prior) * bias.weight) \div Unit]
   : point \in points}

\* Days with a price up to a day, the last `count' of them, or none.
Observed(days, upTo, count) ==
  LET valid == {d \in 1..upTo : days[d] > 0}
  IN  IF Cardinality(valid) < count THEN {}
      ELSE {d \in valid : Cardinality({e \in valid : e > d}) < count}

\* Each forecast follows part of the change of the daily prices before it.
DailyCorrected(points, days, weekDays, daily) ==
  {LET observed == Observed(days, point.origin * weekDays, daily.lag)
       first    == days[Min(observed)]
       latest   == days[Max(observed)]
   IN  IF Cardinality(observed) < 2 THEN point
       ELSE [point EXCEPT !.forecast = @ + (@ * daily.weight * (latest - first)) \div (Unit * first)]
   : point \in points}

\* The windows of a corrected backtest: its last points, and their own churn.
Rebuilt(base, one) ==
  LET window(last) == Metrics(last, Churn(last, 0))
  IN  [base EXCEPT !.one = one, !.recentOne = window(NewestPoints(one, RecentWeeks)),
                   !.longOne = window(NewestPoints(one, LongWeeks))]

WithBias(base, bias) ==
  IF bias = Unused THEN base ELSE Rebuilt(base, BiasCorrected(base.one, bias))

WithDaily(base, days, weekDays, daily) ==
  IF daily = Unused THEN base ELSE Rebuilt(base, DailyCorrected(base.one, days, weekDays, daily))

\* The backtest of a setting: replayed without corrections, which are then
\* made on its one-step points.
Evaluated(series, indicators, days, weekDays, setting, horizons) ==
  WithDaily(WithBias(Measured(series, Backtest(series, indicators, setting, horizons)), setting.bias),
            days, weekDays, setting.daily)

\* The errors of the last weeks lean to one side.
BiasPersists(points, weeks) ==
  LET last  == NewestPoints(points, weeks)
      above == Cardinality({p \in last : SignedError(p) > 0})
      below == Cardinality({p \in last : SignedError(p) < 0})
      mean  == MeanBias(last)
  IN  /\ Cardinality(last) = weeks
      /\ mean # 0
      /\ 4 * Greater(above, below) >= 3 * weeks
      /\ IF mean > 0 THEN above >= below ELSE below >= above
=============================================================================
