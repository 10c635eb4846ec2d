----------------------------- MODULE CandidateRules -----------------------------
(***************************************************************************)
(* Which settings are tried beside the operating one, and what is said of  *)
(* them: the automatic selection among the models A, B and C, the          *)
(* sensitivity analysis that tunes one or two factors, the candidate that  *)
(* is tracked from run to run, and what each signal of the operating       *)
(* setting contributes.                                                    *)
(*                                                                         *)
(* A setting is a record of its six factors; the model it belongs to       *)
(* follows from the indicators it uses.                                    *)
(***************************************************************************)
EXTENDS WalkForward

CONSTANTS
  TrendWeeks,     \* weeks of the trend of the models A, B and C (8)
  TrendChoices,   \* ... and of the tuning
  DubaiChoices,   \* lags and weights of Dubai
  UsdKrwChoices,  \* lags and weights of the exchange rate
  CapChoices,     \* caps of the external adjustment
  BiasChoices,    \* lookbacks and weights of the bias correction
  DailyChoices,   \* lookbacks and weights of the daily signal
  MinSamples,     \* evaluated weeks a candidate needs (13)
  BiasWeeks,      \* weeks whose errors must lean to one side (4)
  TuningLimit     \* tuned candidates that are kept (3)

UseType == [lag : Nat, weight : Nat]

SettingType ==
  [trend : Nat, dubai : UseType, usdKrw : UseType, cap : Nat, bias : UseType, daily : UseType]

\* A setting that can be operated: it never uses the exchange rate without Dubai.
Operable(s) == s \in SettingType /\ (s.usdKrw # Unused => s.dubai # Unused)

\* A trend is taken over two weeks or more, an indicator that is tried is used,
\* and there are only so many choices.
ASSUME CandidatesAssumption ==
  /\ TrendWeeks \in Nat /\ TrendWeeks >= 2
  /\ TrendChoices \subseteq Nat /\ \A count \in TrendChoices : count >= 2
  /\ CapChoices \subseteq Nat
  /\ \A choices \in {DubaiChoices, UsdKrwChoices, BiasChoices, DailyChoices} :
       choices \subseteq UseType /\ Unused \notin choices /\ IsFiniteSet(choices)
  /\ IsFiniteSet(TrendChoices) /\ IsFiniteSet(CapChoices)
  /\ {MinSamples, BiasWeeks, TuningLimit} \subseteq Nat \ {0}

NoSetting == [trend |-> 0, dubai |-> Unused, usdKrw |-> Unused, cap |-> 0, bias |-> Unused, daily |-> Unused]

ModelId(setting) ==
  CASE setting.usdKrw # Unused -> "C"
    [] setting.usdKrw = Unused /\ setting.dubai # Unused -> "B"
    [] OTHER -> "A"

\* The first of those that have a rank, a sequence of numbers.
Precedes(a, b) == \E i \in DOMAIN a : a[i] < b[i] /\ \A j \in 1..(i - 1) : a[j] = b[j]

Foremost(rank) == CHOOSE s \in DOMAIN rank : \A o \in DOMAIN rank : ~Precedes(rank[o], rank[s])

\* One fixed order of the settings: the code compares their texts.
Place(s) == <<s.dubai.lag, s.dubai.weight, s.cap, s.usdKrw.lag, s.usdKrw.weight, s.trend,
              s.bias.lag, s.bias.weight, s.daily.lag, s.daily.weight>>

-----------------------------------------------------------------------------
(* The automatic selection.                                                *)

\* Model A with the current cap, B and C with every choice.
ModelCandidates(cap) ==
  LET plain == [trend |-> TrendWeeks, dubai |-> Unused, usdKrw |-> Unused, cap |-> cap,
                bias |-> Unused, daily |-> Unused]
  IN  {plain} \cup {[plain EXCEPT !.dubai = dubai, !.usdKrw = usdKrw, !.cap = choice] :
                     dubai \in DubaiChoices, usdKrw \in UsdKrwChoices \cup {Unused}, choice \in CapChoices}

Improves(current, candidate) ==
  \/ current.mae > 0 /\ candidate.mae # None /\ 100 * (current.mae - candidate.mae) >= 5 * current.mae
  \/ current.mape # None /\ candidate.mape # None /\ current.mape - candidate.mape >= 1

\* A figure that is missing on either side is no reason against.
Tolerated(current, candidate, percent) ==
  current = None \/ candidate = None \/ 100 * candidate <= percent * current

\* What a candidate must pass, from the recent and the long window.
Quality(current, currentLong, candidate, candidateLong) ==
  [improves   |-> Improves(current, candidate),
   longStable |-> Tolerated(currentLong.mae, candidateLong.mae, 102),
   maxStable  |-> Tolerated(current.max, candidate.max, 110),
   churnCalm  |-> Tolerated(current.churn, candidate.churn, 200)]

Passes(quality) == \A check \in DOMAIN quality : quality[check]

\* Two settings the selection takes for the same: their corrections do not count.
SameModel(a, b) == \A factor \in {"trend", "dubai", "usdKrw", "cap"} : a[factor] = b[factor]

\* The candidates with enough weeks that are no worse than model A in the long
\* run; the best of them has the least recent error.
Contenders(tested, cap) ==
  LET plain == CHOOSE s \in ModelCandidates(cap) : ModelId(s) = "A"
  IN  {s \in DOMAIN tested :
        /\ tested[s].recent.count >= MinSamples
        /\ \/ ModelId(s) = "A"
           \/ tested[plain].recent.count = 0
           \/ Tolerated(tested[plain].long.mae, tested[s].long.mae, 102)}

\* The setting that is taken, with its backtest, and why.
Chosen(current, now, tested, contenders, cooled) ==
  LET best       == Foremost([s \in contenders |-> <<tested[s].recent.mae, tested[s].recent.mape>> \o Place(s)])
      quality    == Quality(now.recent, now.long, tested[best].recent, tested[best].long)
      kept(why)  == [setting |-> current, backtest |-> now, reason |-> why]
      taken(why) == [setting |-> best, backtest |-> tested[best], reason |-> why]
  IN  CASE contenders = {} -> kept("no candidate")
        [] contenders # {} /\ SameModel(best, current) -> [kept("already best") EXCEPT !.backtest = tested[best]]
        [] contenders # {} /\ ~SameModel(best, current) /\ now.recent.count = 0 -> taken("bootstrap")
        [] OTHER ->
             CASE ~cooled -> kept("cooldown")
               [] cooled /\ Passes(quality) -> taken("improvement")
               [] OTHER -> kept("quality")

ChosenOf(current, now, tested, cooled) == Chosen(current, now, tested, Contenders(tested, current.cap), cooled)

\* The setting of the next forecast: every model candidate is tested.
Selection(series, indicators, current, horizons, cooled) ==
  LET test(s) == Measured(series, Backtest(series, indicators, s, horizons))
  IN  ChosenOf(current, test(current), [s \in ModelCandidates(current.cap) |-> test(s)], cooled)

-----------------------------------------------------------------------------
(* The tuning.                                                             *)

Factors == <<"trend", "dubai", "usdKrw", "cap", "bias", "daily">>

Differences(a, b) == {factor \in DOMAIN a : a[factor] # b[factor]}

\* The values a factor is tried with, everything else as it is.  Without
\* Dubai there is no exchange rate either.
Alternatives(current, factor) ==
  CASE factor = "trend"  -> {[current EXCEPT !.trend = weeks] : weeks \in TrendChoices}
    [] factor = "dubai"  -> {[current EXCEPT !.dubai = Unused, !.usdKrw = Unused]}
                              \cup {[current EXCEPT !.dubai = use] : use \in DubaiChoices}
    [] factor = "usdKrw" -> {[current EXCEPT !.usdKrw = use] : use \in UsdKrwChoices \cup {Unused}}
    [] factor = "cap"    -> {[current EXCEPT !.cap = cap] : cap \in CapChoices}
    [] factor = "bias"   -> {[current EXCEPT !.bias = use] : use \in BiasChoices \cup {Unused}}
    [] factor = "daily"  -> {[current EXCEPT !.daily = use] : use \in DailyChoices \cup {Unused}}

\* A factor is left alone when nothing can be said of it.
Applicable(current, factor, persistent, observed) ==
  /\ factor = "usdKrw" => current.dubai # Unused \/ current.usdKrw # Unused
  /\ factor = "bias"   => persistent
  /\ factor = "daily"  => observed

Tried(current, persistent, observed) ==
  [factor \in {Factors[i] : i \in DOMAIN Factors} |->
     IF Applicable(current, factor, persistent, observed)
       THEN Alternatives(current, factor) \ {current} ELSE {}]

\* Two seeds together, each with its own factor; the exchange rate never
\* without Dubai.
Pairs(current, seeds) ==
  {pair \in {[[current EXCEPT ![f] = seeds[f][f]] EXCEPT ![g] = seeds[g][g]] : f, g \in DOMAIN seeds} :
     /\ Cardinality(Differences(current, pair)) = 2
     /\ ~(pair.usdKrw # Unused /\ pair.dubai = Unused)}

\* How a setting ranks: its errors, and its place among equals.
Score(backtest, s) ==
  <<backtest.recentOne.mae, backtest.recentOne.mape, backtest.longOne.mae>> \o Place(s)

PassesAgainst(operating, backtest) ==
  Passes(Quality(operating.recentOne, operating.longOne, backtest.recentOne, backtest.longOne))

\* The best single change of each factor that passes.
Seeds(current, operating, tried, tested) ==
  LET good(f) == {s \in tried[f] : Differences(current, s) = {f} /\ PassesAgainst(operating, tested[s])}
  IN  [f \in {f \in DOMAIN tried : good(f) # {}} |->
         Foremost([s \in good(f) |-> Score(tested[s], s)])]

\* Candidates in the order of their scores.
Ranking(results, tuned) ==
  Ordered(tuned, LAMBDA a, b : Precedes(Score(results[a], a), Score(results[b], b)))

\* The first of those that pass, best first.
Podium(operating, results) ==
  LET tuned  == {s \in DOMAIN results : /\ results[s].recentOne.count >= MinSamples
                                        /\ PassesAgainst(operating, results[s])}
      ranked == Ranking(results, tuned)
  IN  [i \in 1..Lesser(TuningLimit, Cardinality(tuned)) |->
         [setting |-> ranked[i], mae |-> results[ranked[i]].recentOne.mae, one |-> results[ranked[i]].one]]

Tests(settings, inputs) ==
  [s \in settings |-> Evaluated(inputs.series, inputs.indicators, inputs.days, inputs.perWeek, s, inputs.horizons)]

\* What was tested first, and after it.
Together(first, second) ==
  [s \in DOMAIN first \cup DOMAIN second |-> IF s \in DOMAIN first THEN first[s] ELSE second[s]]

\* Pairs of the best single changes are tested as well.
WithPairs(current, operating, tried, tested, inputs) ==
  Podium(operating, Together(tested, Tests(Pairs(current, Seeds(current, operating, tried, tested)), inputs)))

\* The tuned candidates: single changes and pairs of the best ones that pass
\* against the operating setting.
Tuned(current, operating, inputs, persistent, observed) ==
  LET tried == Tried(current, persistent, observed)
  IN  IF operating.recentOne.count < MinSamples THEN <<>>
      ELSE WithPairs(current, operating, tried, Tests(UNION {tried[f] : f \in DOMAIN tried}, inputs), inputs)

\* A defect: without tuned candidates the last one is still followed.
TrackedKept(previous, tuned, halfWon) == IF tuned = <<>> THEN previous ELSE tuned[1].setting

\* The candidate that is followed: the one of the last run as long as it is
\* tuned and the first is not better by a twentieth and by half a won.
Tracked(previous, tuned, halfWon) ==
  LET first == tuned[1]
      same  == {i \in DOMAIN tuned : tuned[i].setting = previous}
      old   == tuned[CHOOSE i \in same : TRUE]
      gain  == old.mae - first.mae
  IN  CASE tuned = <<>> -> NoSetting
        [] tuned # <<>> /\ same = {} -> first.setting
        [] OTHER -> IF old.mae > 0 /\ 100 * gain >= 5 * old.mae /\ gain >= halfWon
                      THEN first.setting ELSE previous

-----------------------------------------------------------------------------
(* What a signal contributes.                                              *)

Signals == <<"trend", "dubai", "usdKrw", "bias", "daily">>

\* The trend cannot be taken out.
SignalActive(setting, signal) == signal # "trend" /\ setting[signal] # Unused

\* A setting without one of its signals; the exchange rate goes with Dubai.
Ablated(setting, signal) ==
  IF signal = "dubai" THEN [setting EXCEPT !.dubai = Unused, !.usdKrw = Unused]
  ELSE [setting EXCEPT ![signal] = Unused]

\* The weeks both have a forecast for; a correction counts where the forecasts
\* differ, an indicator even where it had nothing to add.
Paired(signal, points, ablated) ==
  {pair \in points \X ablated :
     /\ pair[1].target = pair[2].target
     /\ signal \in {"bias", "daily"} => pair[1].forecast # pair[2].forecast}

\* How much larger the errors are without the signal, in the last weeks.
ContributionOf(pairs, weeks) ==
  LET window == {pair \in pairs : Cardinality({q \in pairs : q[1].target > pair[1].target}) < weeks}
      base   == {pair[1] : pair \in window}
      bare   == {pair[2] : pair \in window}
      gain(a, b) == IF a = None \/ b = None THEN 0 ELSE b - a
  IN  IF window = {} THEN [count |-> 0, mae |-> 0, mape |-> 0]
      ELSE [count |-> Cardinality(window), mae |-> MeanError(bare) - MeanError(base),
            mape |-> gain(MeanPercent(base), MeanPercent(bare))]

\* All figures that are not nothing point the same way, or they are mixed.
Leaning(figures, up, down, none) ==
  LET telling == figures \ {0}
  IN  CASE telling = {} -> none
        [] telling # {} /\ \A f \in telling : f > 0 -> up
        [] telling # {} /\ \A f \in telling : f < 0 -> down
        [] OTHER -> "mixed"

\* The verdict of the backtest on a signal, from both windows.
ContributionStatus(setting, signal, points, ablated, required) ==
  LET pairs  == Paired(signal, points, ablated)
      recent == ContributionOf(pairs, RecentWeeks)
      long   == ContributionOf(pairs, LongWeeks)
  IN  CASE signal = "trend" -> "not separable"
        [] signal # "trend" /\ ~SignalActive(setting, signal) -> "not used"
        [] OTHER -> IF recent.count < required THEN "insufficient"
                    ELSE Leaning({recent.mae, long.mae, recent.mape, long.mape}, "helpful", "harmful", "neutral")

\* The advice on a signal needs the backtest and the issued forecasts to agree.
Review(backtest, forward) ==
  CASE backtest \in {"not used", "not separable", "insufficient"}
         \/ forward \in {"validating", "insufficient"} -> "undecided"
    [] backtest = "helpful" /\ forward = "improved" -> "keep"
    [] backtest = "harmful" /\ forward = "worsened" -> "review removal"
    [] OTHER -> "watch"
=============================================================================
