------------------------------ MODULE QuarterWeeks ------------------------------
(***************************************************************************)
(* The weeks of a quarter and their prices (buildFscQuarterWeeks), as the  *)
(* quarter goes by: daily prices are confirmed late or come later still,   *)
(* Opinet publishes weeks, months and the quarter, and every ingest brings *)
(* a forecast.                                                             *)
(*                                                                         *)
(* A day is a number; the days divisible by 7 are Sundays.  Opinet's week  *)
(* is from Sunday to Thursday and goes by its Sunday.  A price is an       *)
(* integer, in thousandths: roundPrice rounds to the integers.             *)
(***************************************************************************)
EXTENDS Integers, FiniteSets, Sequences, FiniteSetsExt

CONSTANTS
  StartDays,      \* the weekdays the quarter may begin on
  Length,         \* the days of the quarter
  DailyPrice,     \* the price of a day
  WeeklyPrice,    \* the official price of a week
  MonthsPrice,    \* the average of the official prices of its three months
  QuarterlyPrice, \* the official price of the quarter
  Paths,          \* the weekly prices a forecast may hold, one per week
  MaxMissing,     \* bound on the days without a price
  MaxLag,         \* bound on the days that are not confirmed yet
  MaxAfter        \* bound on the days after the quarter

FirstDays == 7..13
LastDay == 13 + Length + MaxAfter
Days == 0..LastDay
Sundays == {d \in Days : d % 7 = 0}

ASSUME WeeksAssumption ==
  /\ StartDays \subseteq 0..6
  /\ Length \in Nat \ {0} /\ MaxMissing \in Nat /\ MaxLag \in Nat /\ MaxAfter \in Nat
  /\ DailyPrice \in [Days -> Nat \ {0}] /\ WeeklyPrice \in [Sundays -> Nat \ {0}]
  /\ MonthsPrice \in Nat \ {0} /\ QuarterlyPrice \in Nat \ {0}
  /\ \A path \in Paths : path \in Seq(Int) /\ Len(path) > 1

VARIABLES
  start,      \* quarterStartDate
  today,      \* currentTruthCutoffAt, the day of the newest snapshot
  missing,    \* the days whose daily price has not come
  confirmed,  \* the public confirmed date, which has a price
  official,   \* the weeks Opinet has published
  months,     \* whether it has published all months of the quarter
  quarterly,  \* whether it has published the quarter
  forecast    \* the newest forecast: its last actual week and its prices

vars == <<start, today, missing, confirmed, official, months, quarterly, forecast>>

-----------------------------------------------------------------------------
(* Days and weeks.                                                         *)

end == start + Length - 1

WeekStart(day) == day - (day % 7)
WeekEnd(day)   == WeekStart(day) + 4

Later(left, right)   == IF left >= right THEN left ELSE right
Earlier(left, right) == IF left <= right THEN left ELSE right

\* A defect: the weeks are not cut at the ends of the quarter.
DaysOfWhole(s) == s..WeekEnd(s)

\* The weeks of the quarter, of which the part within it counts.
Slots == {s \in Sundays : WeekStart(start) <= s /\ s <= end}
From(s) == Later(s, start)
To(s)   == Earlier(WeekEnd(s), end)
DaysOf(s) == From(s)..To(s)

Mean(sum, count) == (2 * sum + count) \div (2 * count)

-----------------------------------------------------------------------------
(* Actual prices.                                                          *)

\* The days that have a price, up to the confirmed date.
Priced == {d \in Days : d <= confirmed /\ d \notin missing}

\* A defect: some of the days are enough.
CompletedDailySome(s) ==
  /\ \E d \in Priced : To(s) <= d
  /\ DaysOf(s) \intersect Priced # {}

\* Every day of the week has a price, of which it needs none if the quarter
\* begins on the day after its Thursday.
CompletedDaily(s) ==
  /\ \E d \in Priced : To(s) <= d
  /\ Cardinality(DaysOf(s) \intersect Priced) = To(s) - From(s) + 1

\* The official weeks with a day in common.  Opinet's weeks are from Sunday
\* to Thursday too, so there is no second one to choose from.
Published(s) == {w \in official : (w..WeekEnd(w)) \intersect DaysOf(s) # {}}

Actual(s) == CompletedDaily(s) \/ Published(s) # {}

ActualPrice(s) ==
  IF Published(s) # {} THEN WeeklyPrice[CHOOSE w \in Published(s) : TRUE]
  ELSE Mean(MapThenSumSet(LAMBDA d : DailyPrice[d], DaysOf(s) \intersect Priced),
            Cardinality(DaysOf(s) \intersect Priced))

\* An average of no prices is an error.
Fails(s) == CompletedDaily(s) /\ Published(s) = {} /\ DaysOf(s) \intersect Priced = {}

-----------------------------------------------------------------------------
(* Forecast prices.                                                        *)

Target(h) == forecast.anchor + 7 * h
Matching(s) == {h \in DOMAIN forecast.path : Target(h) = s}
Before(s) == {h \in DOMAIN forecast.path : Target(h) < s}

\* The changes from week to week before a week.
Changes(s) == {h \in Before(s) : h - 1 \in Before(s)}

\* Without a price of the week itself the change of the weeks before goes on.
Forecast(s) == Matching(s) # {} \/ Changes(s) # {}

\* A defect: the changes are averaged over the prices.
ForecastPriceOfAll(s) ==
  IF Matching(s) # {} THEN forecast.path[CHOOSE h \in Matching(s) : TRUE]
  ELSE LET last   == Max(Before(s))
           count  == Cardinality(Before(s))
           change == MapThenSumSet(LAMBDA h : forecast.path[h] - forecast.path[h - 1], Changes(s))
       IN  Mean(forecast.path[last] * count + change * ((s - Target(last)) \div 7), count)

ForecastPrice(s) ==
  IF Matching(s) # {} THEN forecast.path[CHOOSE h \in Matching(s) : TRUE]
  ELSE LET last   == Max(Before(s))
           count  == Cardinality(Changes(s))
           change == MapThenSumSet(LAMBDA h : forecast.path[h] - forecast.path[h - 1], Changes(s))
       IN  Mean(forecast.path[last] * count + change * ((s - Target(last)) \div 7), count)

-----------------------------------------------------------------------------
(* The weeks and the average of the quarter.                               *)

Completed == end < today

\* The official weeks of the quarter: those whose Wednesday is in it.
OfficialWeeks == {w \in official : w + 3 \in start..end}

\* The weeks of a completed quarter are the official ones, as they are.
Mirrored == Completed /\ OfficialWeeks # {}

Weeks == IF Mirrored THEN OfficialWeeks ELSE Slots

Valid == {s \in Weeks : Mirrored \/ Actual(s) \/ Forecast(s)}

WeekPrice(s) ==
  IF Mirrored THEN WeeklyPrice[s] ELSE IF Actual(s) THEN ActualPrice(s) ELSE ForecastPrice(s)

\* A defect: the months come before the quarter.
BasisMonthsFirst ==
  IF ~Mirrored /\ \E s \in Slots : Fails(s) THEN "none"
  ELSE IF ~Completed THEN IF Valid # {} THEN "weeks" ELSE "none"
  ELSE IF months THEN "months"
  ELSE IF quarterly THEN "quarter" ELSE "none"

\* What the average of the quarter rests on, or "none" when the computation
\* fails.  The weeks never stand in for the official prices of a completed
\* quarter.
Basis ==
  IF ~Mirrored /\ \E s \in Slots : Fails(s) THEN "none"
  ELSE IF ~Completed THEN IF Valid # {} THEN "weeks" ELSE "none"
  ELSE IF quarterly THEN "quarter"
  ELSE IF months THEN "months" ELSE "none"

Average ==
  CASE Basis = "quarter" -> QuarterlyPrice
    [] Basis = "months"  -> MonthsPrice
    [] Basis = "weeks"   -> Mean(MapThenSumSet(WeekPrice, Valid), Cardinality(Valid))
    [] Basis = "none"    -> 0

-----------------------------------------------------------------------------
(* An ingest, and Opinet, as the code uses it.                             *)

\* A defect: the forecast goes on from the last day.
AnchorDay(priced) == Max(priced)

\* The last week with all of its prices up to a date.
Anchor(priced) == Max({w \in Sundays : w..WeekEnd(w) \subseteq priced})

Init ==
  /\ start \in {d \in FirstDays : d % 7 \in StartDays}
  /\ today = start - 1 /\ confirmed = start - 1
  /\ missing = {} /\ official = {} /\ months = FALSE /\ quarterly = FALSE
  /\ \E path \in Paths : forecast = [anchor |-> Anchor(0..confirmed), path |-> path]

\* An ingest brings the price of the day, unless Opinet has none, prices that
\* were missing, a confirmed date and a forecast from the confirmed prices.
Ingest ==
  /\ today < end + MaxAfter
  /\ today' = today + 1
  /\ \E filled \in SUBSET missing, new \in SUBSET {today'} :
       /\ missing' = (missing \ filled) \union new
       /\ Cardinality(missing') <= MaxMissing
  /\ confirmed' \in (confirmed..today') \ missing' /\ confirmed' >= today' - MaxLag
  /\ \E path \in Paths :
       forecast' = [anchor |-> Anchor((0..confirmed') \ missing'), path |-> path]
  /\ UNCHANGED <<start, official, months, quarterly>>

PublishWeek(w) ==
  /\ w \notin official /\ WeekEnd(w) <= today /\ WeekEnd(w) >= start
  /\ official' = official \union {w}
  /\ UNCHANGED <<start, today, missing, confirmed, months, quarterly, forecast>>

\* The third month, after the quarter.
PublishMonths ==
  /\ Completed /\ ~months
  /\ months' = TRUE
  /\ UNCHANGED <<start, today, missing, confirmed, official, quarterly, forecast>>

PublishQuarter ==
  /\ Completed /\ ~quarterly
  /\ quarterly' = TRUE
  /\ UNCHANGED <<start, today, missing, confirmed, official, months, forecast>>

Next ==
  \/ Ingest
  \/ \E w \in Sundays : PublishWeek(w)
  \/ PublishMonths \/ PublishQuarter

Spec == Init /\ [][Next]_vars

-----------------------------------------------------------------------------
(* Properties.                                                             *)

\* Every variable has the values the code can give it.
WeeksTypeOK ==
  /\ start \in FirstDays /\ start % 7 \in StartDays
  /\ today \in Days /\ confirmed \in 0..today
  /\ missing \subseteq start..today
  /\ official \subseteq Sundays
  /\ months \in BOOLEAN /\ quarterly \in BOOLEAN
  /\ forecast.anchor \in Sundays /\ forecast.path \in Paths

\* In a quarter that goes on, every day Opinet collects prices on counts in
\* exactly one week, and no week reaches beyond the quarter.
EveryDayCountsOnce ==
  ~Completed =>
    /\ \A d \in start..end : d % 7 <= 4 => \E s \in Slots : d \in DaysOf(s)
    /\ \A s, t \in Slots : s # t => DaysOf(s) \intersect DaysOf(t) = {}
    /\ \A s \in Slots : DaysOf(s) # {} /\ DaysOf(s) \subseteq start..end

\* An actual week that is not official is the average of all of its days.
DailyWeeksAreWhole ==
  \A s \in Slots : (~Completed /\ Actual(s) /\ Published(s) = {}) =>
    /\ DaysOf(s) \intersect missing = {} /\ To(s) <= confirmed
    /\ ActualPrice(s) = Mean(MapThenSumSet(LAMBDA d : DailyPrice[d], DaysOf(s)),
                             Cardinality(DaysOf(s)))

\* A week that is actual is never a forecast again while the quarter goes on.
ActualIsKept ==
  [][~Completed' => \A s \in Slots : Actual(s) => Actual(s)']_vars

\* Only a week of the past can be without a price: one that lies before the
\* last week the forecast knows and misses a day.
OnlyGapsArePending ==
  \A s \in Slots : (~Completed /\ ~Actual(s) /\ ~Forecast(s)) =>
    s <= forecast.anchor /\ DaysOf(s) \intersect missing # {}

\* Beyond the forecast its prices go on along the line from its first to its
\* last one, whatever lies between.
TrendIsStraight ==
  \A s \in Slots : (Matching(s) = {} /\ Forecast(s)) =>
    LET path == forecast.path
        n    == Len(path)
    IN  ForecastPrice(s) =
          Mean(path[1] * (n - 1) + (path[n] - path[1]) * ((s - Target(1)) \div 7), n - 1)

\* The average of a completed quarter is final once it is the official one;
\* before it can only be that of the three months.
OfficialAverageIsFinal ==
  [][(Completed /\ Basis # "none") =>
       \/ Basis' = Basis /\ Average' = Average
       \/ Basis = "months" /\ Basis' = "quarter"]_vars
=============================================================================
