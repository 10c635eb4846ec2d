------------------------------ MODULE MarketRegimes ------------------------------
(***************************************************************************)
(* The state of the market at each week - stable, rising, falling, highly  *)
(* volatile - and how a setting and its candidates did in each of them.    *)
(***************************************************************************)
EXTENDS WalkForward

CONSTANTS
  RegimeWeeks,       \* weeks a trend and a volatility are taken over (4)
  ReferenceWeeks,    \* earlier weeks they are compared with, at most (26)
  ReferenceMinimum,  \* ... and at least (13)
  ReportMinimum      \* weeks a regime is reported with (3)

ASSUME RegimesAssumption == {RegimeWeeks, ReportMinimum} \subseteq Nat \ {0}

Regimes == <<"stable", "rising", "falling", "volatile">>

Change(series, i) == (Unit * (series[i].price - series[i - 1].price)) \div series[i - 1].price

\* The trend of the weeks up to the i-th one and how far their changes lie
\* from their mean, as a sum of squares: the code's deviation has its order.
Feature(series, i) ==
  LET weeks == (i - RegimeWeeks + 1)..i
      total == SumFunction([j \in weeks |-> Change(series, j)])
      apart(j) == (RegimeWeeks * Change(series, j) - total) * (RegimeWeeks * Change(series, j) - total)
  IN  [trend  |-> (Unit * (series[i].price - series[i - RegimeWeeks].price)) \div series[i - RegimeWeeks].price,
       spread |-> SumFunction([j \in weeks |-> apart(j)]) \div Unit]

\* The weeks before the i-th one it is compared with.
Reference(series, i) == {j \in (RegimeWeeks + 1)..(i - 1) : j >= i - ReferenceWeeks}

\* A week is volatile before it is rising or falling.
Classified(own, trend, spread) ==
  LET volatile == own.spread > 0 /\ Unit * own.spread >= spread
  IN  CASE volatile -> "volatile"
        [] ~volatile /\ Unit * own.trend > trend -> "rising"
        [] ~volatile /\ Unit * own.trend < -trend -> "falling"
        [] OTHER -> "stable"

\* ... as against the value of half, or three quarters, of the reference, in Unit.
Regime(series, i) ==
  LET reference == Reference(series, i)
      size(x)   == Greater(x, -x)
  IN  IF i <= RegimeWeeks \/ Cardinality(reference) < ReferenceMinimum THEN "unclassified"
      ELSE Classified(Feature(series, i),
             Quantile([j \in reference |-> size(Feature(series, j).trend)], Unit \div 2),
             Quantile([j \in reference |-> Feature(series, j).spread], (3 * Unit) \div 4))

Timeline(series) == [i \in DOMAIN series |-> Regime(series, i)]

RegimeAt(series, week) ==
  LET at == {i \in DOMAIN series : series[i].week = week}
  IN  IF at = {} THEN "unclassified" ELSE Regime(series, CHOOSE i \in at : TRUE)

\* The points of a regime among the last ones.
PointsIn(series, points, regime) ==
  {p \in NewestPoints(points, LongWeeks) : RegimeAt(series, p.origin) = regime}

\* The regime with the largest error, among those with enough weeks; the first
\* of them in their order.
WeakestOf(inside) ==
  LET reported == {k \in DOMAIN inside : Cardinality(inside[k]) >= ReportMinimum}
      worst    == {k \in reported : \A o \in reported : MeanError(inside[o]) <= MeanError(inside[k])}
  IN  IF reported = {} THEN "none" ELSE Regimes[Min(worst)]

Weakest(series, points) == WeakestOf([k \in DOMAIN Regimes |-> PointsIn(series, points, Regimes[k])])

\* The errors of a candidate beside those of the operating setting.
Compared(mine, theirs) ==
  CASE Cardinality(mine) < ReportMinimum -> "insufficient"
    [] Cardinality(mine) >= ReportMinimum /\ MeanError(mine) = MeanError(theirs) -> "similar"
    [] Cardinality(mine) >= ReportMinimum /\ MeanError(mine) < MeanError(theirs) -> "improved"
    [] OTHER -> "worsened"

\* ... in a regime, over the weeks both have a point for.
Verdict(series, current, candidate, regime) ==
  LET shared == {p \in candidate : \E c \in current : c.target = p.target}
      mine   == PointsIn(series, shared, regime)
  IN  Compared(mine, {c \in current : \E p \in mine : p.target = c.target})
=============================================================================
