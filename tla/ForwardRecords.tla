----------------------------- MODULE ForwardRecords -----------------------------
(***************************************************************************)
(* How a forecast run judges the forecasts of the runs before it: the      *)
(* issued ranges and whether the price came to lie in them, the forecasts  *)
(* issued with and without each signal, and the early warning about the    *)
(* recent errors.  Each goes on from a record of the run before; what a    *)
(* run really finds of it is the subject of ForecastRuns.                  *)
(***************************************************************************)
EXTENDS CandidateRules

CONSTANTS
  RecordLimit,     \* ranges a run keeps (13 * 13)
  CoverageMinimum, \* resolved ranges a horizon is judged by (8)
  TargetCoverage,  \* the part of prices that should lie in them, in Unit (80 %)
  CoverageSlack,   \* ... and how far off it may be (7.5 %)
  ForwardMinimum,  \* weeks a signal is judged by (13)
  DriftWeeks,      \* the weeks of the early warning (4)
  AlertWeeks       \* degraded weeks an alert needs (2)

ASSUME RecordsAssumption ==
  {RecordLimit, CoverageMinimum, ForwardMinimum, DriftWeeks, AlertWeeks} \subseteq Nat \ {0}

\* The price of a week a series has.
HasWeek(series, week) == \E i \in DOMAIN series : series[i].week = week

ActualOf(series, week) == Unit * series[CHOOSE i \in DOMAIN series : series[i].week = week].price

NotYet == None

-----------------------------------------------------------------------------
(* Ranges.                                                                 *)

\* A range whose price has come; a resolved one is never judged again.
ResolvedRange(observation, series) ==
  IF observation.actual # NotYet \/ ~HasWeek(series, observation.target) THEN observation
  ELSE LET actual == ActualOf(series, observation.target)
       IN  [observation EXCEPT !.actual = actual, !.hit = InRange(observation.range, actual)]

\* The order of the record: by the weeks, and of one week the earlier issued first.
ByWeek(a, b) == a.target < b.target \/ (a.target = b.target /\ a.origin < b.origin)

\* Is there a range of the same week and horizon?
Listed(ranges, o) == \E r \in ranges : r.target = o.target /\ r.horizon = o.horizon

ResolvedRanges(previous, series) == {ResolvedRange(o, series) : o \in previous}

\* The next record of ranges: known targets keep theirs, the last ones by
\* target stay.
RecordRanges(previous, issued, series) ==
  LET resolved == ResolvedRanges(previous, series)
      fresh    == {o \in issued : ~Listed(resolved, o) /\ ~HasWeek(series, o.target)}
  IN  LatestOf(resolved \cup fresh, ByWeek, RecordLimit)

\* The judgement of a horizon by its resolved ranges.
RangeStatus(ranges, h) ==
  LET resolved == {o \in ranges : o.horizon = h /\ o.actual # NotYet}
      count    == Cardinality(resolved)
      hits     == Cardinality({o \in resolved : o.hit})
  IN  CASE count = 0 -> "insufficient"
        [] count > 0 /\ count < CoverageMinimum -> "validating"
        [] OTHER -> CASE Unit * hits < count * (TargetCoverage - CoverageSlack) -> "too narrow"
                      [] Unit * hits > count * (TargetCoverage + CoverageSlack) -> "too wide"
                      [] OTHER -> "calibrated"

\* The horizons whose ranges may be published.
Publishable(ranges, horizons, enabled) ==
  {h \in 1..horizons : enabled /\ RangeStatus(ranges, h) = "calibrated"}

-----------------------------------------------------------------------------
(* Forecasts without a signal.                                             *)

NoSession == [setting |-> NoSetting, samples |-> {}]

FilledSamples(samples, series) ==
  {IF sample.actual # NotYet \/ ~HasWeek(series, sample.target) THEN sample
   ELSE [sample EXCEPT !.actual = ActualOf(series, sample.target)] : sample \in samples}

\* The next session of a signal, with the prediction there is of it, if any:
\* samples are compared under one setting, so another setting begins a new one.
RecordSignal(stored, setting, prediction, series) ==
  LET session == IF stored.setting # setting /\ prediction # {}
                   THEN [setting |-> setting, samples |-> {}] ELSE stored
      samples == FilledSamples(session.samples, series)
      new     == {p \in prediction : /\ ~HasWeek(series, p.target)
                                     /\ \A sample \in samples : sample.target # p.target}
  IN  [session EXCEPT !.samples = samples \cup new]

\* The judgement of a signal: none before there are enough weeks.
SignalStatus(session) ==
  LET done     == {sample \in session.samples : sample.actual # NotYet}
      gain(s)  == Distance(s.without, s.actual) - Distance(s.forecast, s.actual)
      share(s) == (1000 * gain(s)) \div s.actual
  IN  CASE done = {} -> "insufficient"
        [] done # {} /\ Cardinality(done) < ForwardMinimum -> "validating"
        [] OTHER -> Leaning({SumFunction([s \in done |-> gain(s)]) \div Cardinality(done),
                             SumFunction([s \in done |-> share(s)]) \div Cardinality(done)}, "improved", "worsened", "mixed")

-----------------------------------------------------------------------------
(* The early warning and the horizons.                                     *)

NoDrift == [status |-> "none", count |-> 0, week |-> 0]

\* The recent errors beside those of the last weeks; degraded weeks are
\* counted once each, until one is not.
Drift(previous, one) ==
  LET short    == NewestPoints(one, DriftWeeks)
      medium   == NewestPoints(one, RecentWeeks)
      week     == IF one = {} THEN 0 ELSE Max({p.target : p \in one})
      degraded == MeanError(medium) > 0 /\ 10 * MeanError(short) >= 11 * MeanError(medium)
      count    == previous.count + (IF week # previous.week \/ previous = NoDrift THEN 1 ELSE 0)
  IN  CASE Cardinality(short) < DriftWeeks \/ Cardinality(medium) < RecentWeeks ->
             [status |-> "undecided", count |-> 0, week |-> week]
        [] OTHER -> IF degraded
             THEN [status |-> IF count >= AlertWeeks THEN "alert" ELSE "watch", count |-> count, week |-> week]
             ELSE [status |-> "stable", count |-> 0, week |-> week]

\* A defect: the first horizon with high errors, whatever those after it.
DegradationFirst(points, horizons, required) ==
  LET of(h)  == {p \in points : p.horizon = h}
      judged == {h \in 1..horizons : Cardinality(of(h)) >= required}
      near   == {h \in judged : h <= NearHorizon}
      total  == SumFunction([h \in near |-> MeanError(of(h))])
      high   == {h \in judged : 2 * MeanError(of(h)) >= 3 * total}
  IN  IF near = {} \/ high = {} THEN None ELSE Min(high)

\* The first horizon from which on the errors stay half as large again as
\* those of the near ones; none if there is no such horizon.
DegradationStart(points, horizons, required) ==
  LET of(h)  == {p \in points : p.horizon = h}
      judged == {h \in 1..horizons : Cardinality(of(h)) >= required}
      near   == {h \in judged : h <= NearHorizon}
      total  == SumFunction([h \in near |-> MeanError(of(h))])
      high(h) == 2 * Cardinality(near) * MeanError(of(h)) >= 3 * total
      from   == {h \in judged : \A later \in judged : later >= h => high(later)}
  IN  IF near = {} \/ total = 0 \/ from = {} THEN None ELSE Min(from)

HorizonStatus(points, h, required) ==
  LET of(k)  == {p \in points : p.horizon = k}
      near   == {k \in 1..NearHorizon : Cardinality(of(k)) >= required}
      total  == SumFunction([k \in near |-> MeanError(of(k))])
      error  == 4 * Cardinality(near) * MeanError(of(h))
  IN  CASE Cardinality(of(h)) < required -> "insufficient"
        [] Cardinality(of(h)) >= required /\ (total = 0 \/ error < 6 * total) -> "stable"
        [] OTHER -> IF error < 9 * total THEN "watch" ELSE "volatile"
=============================================================================
