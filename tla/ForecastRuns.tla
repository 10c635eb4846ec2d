------------------------------ MODULE ForecastRuns ------------------------------
(***************************************************************************)
(* The forecast pipeline from week to week: the prices and indicators it   *)
(* reads, the quality of these inputs, the setting it operates, the        *)
(* forecast it issues with ranges, the candidates it tunes, and what it    *)
(* finds out about its own forecasts.                                      *)
(*                                                                         *)
(* How an approval, a shadow and a monitoring come about is the subject of *)
(* ModelTransition; here a run may operate the tracked candidate as        *)
(* approved.  A run is one transaction in the lane and thus one step.      *)
(***************************************************************************)
EXTENDS ForwardRecords, MarketRegimes, BacktestViews

CONSTANTS
  WeekShapes,      \* what a week can bring: its daily prices and indicators, 0 for none
  Histories,       \* weeks that are known before the first run
  DaysPerWeek,     \* collection days of a week (6)
  Settings,        \* settings the first run can find
  CorrectedSettings, \* settings whose evaluation is looked at
  Horizons,        \* weeks that are forecast (13)
  CooldownWeeks,   \* weeks between two selections (2)
  RequiredLag,     \* the largest lag of an indicator that is tried (3)
  StaleWeeks,      \* weeks after which an indicator is too old (2)
  MapeThreshold,   \* the quality gate, in tenths of a percent (50)
  HalfWon,         \* half a won, in Unit
  MaxWeeks,        \* bound: weeks
  MaxGaps,         \* bound: weeks with a missing day
  MaxRuns          \* bound: runs

\* A week has the prices of its days and an observation of each indicator.
WeekType == [days : [1..DaysPerWeek -> Nat], dubai : Nat, usdKrw : Nat]

ASSUME RunsAssumption ==
  /\ {DaysPerWeek, Horizons} \subseteq Nat \ {0} /\ MaxWeeks \in Nat
  /\ WeekShapes \subseteq WeekType
  /\ \A history \in Histories : history \in Seq(WeekType) /\ Len(history) <= MaxWeeks
  /\ \A s \in Settings \cup CorrectedSettings : Operable(s) /\ s.trend >= 2

VARIABLES
  weeks,     \* the weeks so far
  setting,   \* the operating setting
  promoted,  \* the week it was selected or approved in, 0 for never
  tuned,     \* the tuned candidates of the last run
  tracked,   \* the candidate it follows
  records,   \* history: what the last run found out about its own forecasts
  runs,      \* the runs that were stored
  late       \* bound: a missing day has come late

vars == <<weeks, setting, promoted, tuned, tracked, records, runs, late>>

-----------------------------------------------------------------------------
(* Inputs.                                                                 *)

WeekNumbers == DOMAIN weeks

\* A week counts once it has all its days.
Complete(w) == \A d \in DOMAIN weeks[w].days : weeks[w].days[d] > 0

MeanOf(days) == SumFunction(days) \div DaysPerWeek

CompleteWeeks == Ascending({w \in WeekNumbers : Complete(w)})

Series == [i \in DOMAIN CompleteWeeks |-> [week |-> CompleteWeeks[i], price |-> MeanOf(weeks[CompleteWeeks[i]].days)]]

Days ==
  [d \in 1..(Len(weeks) * DaysPerWeek) |-> weeks[((d - 1) \div DaysPerWeek) + 1].days[((d - 1) % DaysPerWeek) + 1]]

Indicator(code) ==
  LET known == Ascending({w \in WeekNumbers : weeks[w][code] > 0})
  IN  [i \in DOMAIN known |-> [week |-> known[i], value |-> weeks[known[i]][code]]]

\* An indicator is left out altogether when it is too short or too old.
IndicatorUsable(code) ==
  LET points == Indicator(code)
  IN  Len(points) > RequiredLag /\ Len(weeks) - Last(points).week < StaleWeeks

Usable == [dubai |-> IndicatorUsable("dubai"), usdKrw |-> IndicatorUsable("usdKrw")]

Masked(usable) ==
  [dubai  |-> IF usable.dubai THEN Indicator("dubai") ELSE <<>>,
   usdKrw |-> IF usable.usdKrw THEN Indicator("usdKrw") ELSE <<>>]

\* The days the daily signal may use: enough of them, and one of the last week.
UsableDays ==
  LET valid == {d \in DOMAIN Days : Days[d] > 0}
  IN  IF /\ \A use \in DailyChoices : Cardinality(valid) >= use.lag
         /\ Max(valid) > Len(Days) - DaysPerWeek
        THEN Days ELSE [d \in DOMAIN Days |-> 0]

\* The pipeline gives up when the weeks are too few.
WeeksUsable == Len(Series) >= MinActuals

-----------------------------------------------------------------------------
(* A run.                                                                  *)

\* The ranges of a forecast, calibrated on what is known at its anchor.
IssuedWith(anchor, points, known) ==
  LET range(h) == PriceRange(points[h], Calibration(known, ByTarget, h))
  IN  {[horizon |-> h, origin |-> anchor, target |-> anchor + h, range |-> range(h),
        actual |-> NotYet, hit |-> FALSE] : h \in {h \in DOMAIN points : range(h) # <<>>}}

Issued(anchor, points, backtest) ==
  IssuedWith(anchor, points, KnownAt(backtest.points, anchor))

\* What a setting forecasts for next week without one of its signals, if that
\* is another price.
Prediction(signal, operating, points, series, indicators) ==
  LET without == WeeklyForecast(series, indicators, Ablated(operating, signal), 1)
      anchor  == Last(series).week
  IN  IF points = <<>> \/ ~SignalActive(operating, signal) \/ without[1] = points[1] THEN {}
      ELSE {[origin |-> anchor, target |-> anchor + 1, forecast |-> points[1],
              without |-> without[1], actual |-> NotYet]}

\* What a setting owes to one of its signals, by the backtest.
ContributionTo(signal, operating, backtest, series, days, indicators) ==
  LET ablated == Evaluated(series, indicators, days, DaysPerWeek, Ablated(operating, signal), Horizons)
  IN  ContributionStatus(operating, signal, backtest.one, ablated.one, MinSamples)

ForwardSignals == {Signals[i] : i \in 2..Len(Signals)}

NoRecords ==
  [ranges   |-> {},
   sessions |-> [signal \in ForwardSignals |-> NoSession],
   drift    |-> NoDrift,
   contributions |-> [signal \in ForwardSignals |-> "insufficient"]]

\* A reader of the metadata finds what a run has stored, or nothing.
ReadRecords(run) ==
  [field \in DOMAIN NoRecords |-> IF field \in DOMAIN run THEN run[field] ELSE NoRecords[field]]

\* What a run and the page find of the run before.
Found == IF runs = <<>> THEN NoRecords ELSE ReadRecords(Last(runs))

\* What a run finds out, going on from what it found.
Recorded(found, operating, points, issued, backtest, series, days, indicators) ==
  [ranges   |-> RecordRanges(found.ranges, issued, series),
   sessions |-> [signal \in ForwardSignals |->
                   RecordSignal(found.sessions[signal], operating,
                                Prediction(signal, operating, points, series, indicators), series)],
   drift    |-> Drift(found.drift, backtest.one),
   contributions |-> [signal \in ForwardSignals |->
                        ContributionTo(signal, operating, backtest, series, days, indicators)]]

\* The candidates tuned beside the operating setting.
TunedBeside(operating, backtest, series, days, indicators) ==
  Tuned(operating, backtest,
        [series |-> series, indicators |-> indicators, days |-> days, perWeek |-> DaysPerWeek,
         horizons |-> Horizons],
        BiasPersists(backtest.one, BiasWeeks), \E d \in DOMAIN days : days[d] > 0)

\* A run as it is stored: its ranges when the gate approves it, and in its
\* metadata nothing of what it found out.
RunOf(operating, points, issued, usable, approved, series) ==
  [at |-> Len(weeks), anchor |-> Last(series).week, setting |-> operating, points |-> points,
   issued |-> IF approved THEN issued ELSE {},
   usable |-> usable, approved |-> approved, complete |-> {series[i].week : i \in DOMAIN series}]

\* What a run stores once its forecast is made.
Store(operating, backtest, points, issued, candidates, recorded, usable, series) ==
  /\ setting' = operating
  /\ tuned' = [k \in DOMAIN candidates |-> candidates[k].setting]
  /\ tracked' = Tracked(tracked, candidates, HalfWon)
  /\ records' = recorded
  /\ runs' = Append(runs, RunOf(operating, points, issued, usable,
                               Approved(points, backtest.recentOne, MapeThreshold), series))

\* The forecast of the selected setting, and what is found out beside it.
Forecast(operating, backtest, series, indicators, usable) ==
  \E points \in {WeeklyForecast(series, indicators, operating, Horizons)} :
    \E issued \in {Issued(Last(series).week, points, backtest)} :
      Store(operating, backtest, points, issued,
            TunedBeside(operating, backtest, series, UsableDays, indicators),
            Recorded(Found, operating, points, issued, backtest, series, UsableDays, indicators),
            usable, series)

\* A run with the setting of the last one, or with an approved candidate.
RunPipeline(effective, since) ==
  /\ WeeksUsable
  /\ Len(runs) < MaxRuns
  /\ \E series \in {Series}, usable \in {Usable} : \E indicators \in {Masked(usable)} :
       LET cooled == since = 0 \/ Len(weeks) - since >= CooldownWeeks
       IN  \E selection \in {Selection(series, indicators, effective, Horizons, cooled)} :
             /\ Forecast(selection.setting, selection.backtest, series, indicators, usable)
             /\ promoted' = IF selection.setting # effective THEN Len(weeks) ELSE since
  /\ UNCHANGED <<weeks, late>>

Run == RunPipeline(setting, promoted)

RunApproved == tracked # NoSetting /\ RunPipeline(tracked, Len(weeks))

\* What the page says of the forecasts: the warning, the ranges that prove
\* right and may be published, and the advice on each signal.
Told(found) ==
  [drift     |-> found.drift.status,
   ranges    |-> [h \in 1..Horizons |-> RangeStatus(found.ranges, h)],
   published |-> Publishable(found.ranges, Horizons, TRUE),
   advice    |-> [signal \in ForwardSignals |->
                    Review(found.contributions[signal], SignalStatus(found.sessions[signal]))]]

-----------------------------------------------------------------------------

Init ==
  /\ weeks \in Histories
  /\ setting \in Settings
  /\ promoted = Len(weeks)
  /\ tuned = <<>>
  /\ tracked = NoSetting
  /\ records = NoRecords
  /\ runs = <<>>
  /\ late = FALSE

\* A week ends with the prices and indicators that came.
EndWeek ==
  /\ Len(weeks) < MaxWeeks
  /\ \E shape \in WeekShapes : weeks' = Append(weeks, shape)
  /\ Cardinality({w \in DOMAIN weeks' : \E d \in 1..DaysPerWeek : weeks'[w].days[d] = 0}) <= MaxGaps
  /\ UNCHANGED <<setting, promoted, tuned, tracked, records, runs, late>>

\* A missing price of an earlier week comes after all.
LateDay ==
  /\ ~late
  /\ \E w \in WeekNumbers : \E d \in DOMAIN weeks[w].days :
       /\ weeks[w].days[d] = 0
       /\ \E shape \in WeekShapes :
            /\ shape.days[d] > 0
            /\ weeks' = [weeks EXCEPT ![w].days[d] = shape.days[d]]
  /\ late' = TRUE
  /\ UNCHANGED <<setting, promoted, tuned, tracked, records, runs>>

Next == EndWeek \/ LateDay \/ Run \/ RunApproved

Spec == Init /\ [][Next]_vars
-----------------------------------------------------------------------------
(* Properties.                                                             *)

\* Every variable keeps its type: whatever is operated, tuned or compared is
\* operable (parameter-sensitivity.ts, signal-contribution.ts), ranges are of the
\* horizon they name and not empty, and a candidate is followed just when there
\* are tuned ones.
ForecastTypeOK ==
  /\ Len(weeks) <= MaxWeeks /\ promoted \in 0..MaxWeeks /\ late \in BOOLEAN
  /\ \A s \in {setting, tracked} \cup {tuned[k] : k \in DOMAIN tuned} :
       Operable(s) /\ Operable(Ablated(s, "dubai"))
  /\ Len(tuned) <= TuningLimit /\ (tuned # <<>> <=> tracked # NoSetting)
  /\ Cardinality(records.ranges) <= RecordLimit
  /\ \A o \in records.ranges :
       o.horizon \in 1..Horizons /\ o.target = o.origin + o.horizon /\ o.range[1] <= o.range[2]
  /\ records.drift \in [status : {"none", "undecided", "stable", "watch", "alert"}, count : Nat, week : 0..MaxWeeks]

\* A run whose weeks are still those it saw.
Unrevised(run) == run.complete = {week \in {Series[i].week : i \in DOMAIN Series} : week <= run.anchor}

\* The backtest replays what was issued: at the week a stored run was made, with
\* its setting and inputs, it forecasts the prices the run issued.  Nothing that
\* came after that week enters (run-walk-forward-backtest.ts).
ReplaysIssued ==
  \A i \in DOMAIN runs :
    LET run    == runs[i]
        replay == Backtest(Series, Masked(run.usable), run.setting, Horizons)
    IN  Unrevised(run) =>
          \A point \in replay : point.origin = run.anchor => point.forecast = run.points[point.horizon]

HasOwn(known, h) == Cardinality({point \in known : point.horizon = h}) >= RangeMinimum

\* The coverage of the ranges is measured on ranges that are built again: for
\* the week of a stored run they are those it issued, as far as a horizon has
\* errors enough of its own (prediction-interval.ts, run-forecast-pipeline.ts).
RangesReplayed ==
  \A i \in DOMAIN runs :
    LET run    == runs[i]
        replay == Backtest(Series, Masked(run.usable), run.setting, Horizons)
    IN  (Unrevised(run) /\ run.approved) =>
          \A point \in replay :
            (point.origin = run.anchor /\ HasOwn(KnownAt(replay, run.anchor), point.horizon)) =>
              \E o \in run.issued : o.horizon = point.horizon /\ o.range = RangeAt(replay, point)

\* The regime of a week is that of the weeks before it: a later week never
\* changes it.
RegimesStand ==
  \A n \in DOMAIN Series : IsPrefix(Timeline(SubSeq(Series, 1, n)), Timeline(Series))

\* What is known at the end of a week.
UpTo(points, week) == SubSeq(points, 1, Cardinality({i \in DOMAIN points : points[i].week <= week}))

InputsAt(week) == [dubai |-> UpTo(Indicator("dubai"), week), usdKrw |-> UpTo(Indicator("usdKrw"), week)]

\* The backtest of a setting at the end of a week, its points with their
\* corrections, and of each the range it would have been issued with.
ReplayedAt(s, week) == Backtest(UpTo(Series, week), InputsAt(week), s, Horizons)

JudgedAt(s, week) ==
  {<<point, RangeAt(ReplayedAt(s, week), point)>> :
     point \in Evaluated(UpTo(Series, week), InputsAt(week), SubSeq(Days, 1, week * DaysPerWeek),
                         DaysPerWeek, s, Horizons).one}

\* What the backtest says of a week: a later week adds points, and changes
\* neither the corrected forecasts nor the ranges of those before, so that what
\* was covered stays covered.
EvaluationsStand ==
  \A s \in CorrectedSettings : \A week \in WeekNumbers :
    /\ JudgedAt(s, week) \subseteq JudgedAt(s, Len(weeks))
    /\ Coverage(ReplayedAt(s, week), Horizons).hits <= Coverage(ReplayedAt(s, Len(weeks)), Horizons).hits

\* No later week enters what is said of an earlier one: its regime
\* (market-regime.ts), its forecasts with their corrections (bias-correction.ts,
\* daily-signal.ts) and their ranges (prediction-interval.ts).
PastStands == RegimesStand /\ EvaluationsStand

\* From the first degraded horizon on no horizon is stable
\* (horizon-performance.ts), a candidate is better in a regime just when the
\* operating setting is worse there (candidate-regime-comparison.ts), and the
\* weakest regime is one with points (market-regime.ts).
ComparisonsAgree(points, one(_)) ==
  LET start == DegradationStart(points, Horizons, 1)
  IN  /\ start # None =>
           \A h \in start..Horizons : HorizonStatus(points, h, 1) \in {"insufficient", "watch", "volatile"}
      /\ \A k \in DOMAIN tuned : \A r \in DOMAIN Regimes :
           Verdict(Series, one(setting), one(tuned[k]), Regimes[r]) = "improved"
             <=> Verdict(Series, one(tuned[k]), one(setting), Regimes[r]) = "worsened"
      /\ Weakest(Series, OneStep(points)) # "none" <=>
           \E r \in DOMAIN Regimes : Cardinality(PointsIn(Series, OneStep(points), Regimes[r])) >= ReportMinimum

\* The weeks the page lists sum up to the window that decides on a setting, each
\* price is that of its parts, and without the exchange rate, or without a Dubai
\* that was alone, it is the price of the setting that leaves the signal out: so
\* the error analysis and the contribution of a signal cannot contradict each
\* other.
ViewsAgree(indicators, measured, one(_)) ==
  LET parts == [point \in measured.one |-> PartsAt(Series, indicators, setting, point)]
      rows  == Shown(Stored(measured.one))
      alone(point, signal) == signal = "usdKrw" \/ ~parts[point].usdKrw.used
  IN  /\ rows # {} =>
           /\ \A figure \in {"count", "mae", "mape", "max", "hits"} :
                DetailSummary(rows)[figure] = measured.recentOne[figure]
           /\ \E p \in Highlighted(rows) : Error(p) = measured.recentOne.max
      /\ \A point \in measured.one : Explained(parts[point]) = point.forecast
      /\ \A signal \in {"dubai", "usdKrw"} :
           LET ablated == one(Ablated(setting, signal))
           IN  /\ \A point \in measured.one : \A other \in ablated :
                    (other.target = point.target /\ alone(point, signal))
                      => other.forecast = IF Applied(parts[point], signal) THEN Without(parts[point], signal)
                                          ELSE point.forecast
               /\ (rows # {} /\ \A point \in rows : alone(point, signal)) =>
                    LET summary   == FactorSummary(rows, parts, signal)
                        errors(S) == SumFunction([p \in S |-> Error(p)])
                        gain      == errors({p \in ablated : \E q \in rows : q.target = p.target}) - errors(rows)
                    IN  summary.total = -gain /\ (gain > 0 => summary.reduced > 0)

\* Right after a run the page calls no tuned candidate rejected, only the first
\* one the top, and eligible without a place only what the limit has cut off.
DecisionsAgree(indicators, measured) ==
  LET tried  == Tried(setting, BiasPersists(measured.one, BiasWeeks),
                      \E d \in DOMAIN UsableDays : UsableDays[d] > 0)
      tested == Tests((UNION {tried[f] : f \in DOMAIN tried}) \cup {tuned[k] : k \in DOMAIN tuned},
                      [series |-> Series, indicators |-> indicators, days |-> UsableDays,
                       perWeek |-> DaysPerWeek, horizons |-> Horizons])
      said(s) == Decision(measured, tested[s], RankOf(tuned, s))
  IN  (runs # <<>> /\ Last(runs).at = Len(weeks) /\ ~late) =>
        /\ \A k \in DOMAIN tuned : said(tuned[k]) = IF k = 1 THEN "top" ELSE "eligible"
        /\ \A s \in DOMAIN tested :
             (said(s) = "eligible" /\ RankOf(tuned, s) = 0) => Len(tuned) = TuningLimit

\* The views of a backtest agree with each other and with what decided on the
\* settings, though each is computed from it anew.
DiagnosticsAgree ==
  WeeksUsable =>
    LET inputs   == Masked(Usable)
        points   == Backtest(Series, inputs, setting, Horizons)
        one(s)   == OneStep(Backtest(Series, inputs, s, Horizons))
        measured == Measured(Series, points)
    IN  ComparisonsAgree(points, one) /\ ViewsAgree(inputs, measured, one) /\ DecisionsAgree(inputs, measured)

\* What a run finds out about its own forecasts is there for the next reader.
DiagnosticsAreShown == runs # <<>> => Told(Found) = Told(records)
=============================================================================
