--------------------------- MODULE ForecastRuns_proofs ---------------------------
(***************************************************************************)
(* What holds of the forecast pipeline however long it runs: a backtest    *)
(* replays the forecasts and the ranges that were issued, every variable   *)
(* keeps its type, what is said of a week of the past stands, and the      *)
(* views of a backtest agree.                                              *)
(*                                                                         *)
(* The arguments rest on the series of the complete weeks: a step only     *)
(* adds weeks and fills in missing days (Grows), so what a run saw is      *)
(* still there.                                                            *)
(***************************************************************************)
EXTENDS ForecastRuns, ForecastRules_proofs

-----------------------------------------------------------------------------
(* The weeks and the series of the complete ones.                          *)

CompleteIn(ws) == {w \in DOMAIN ws : \A d \in DOMAIN ws[w].days : ws[w].days[d] > 0}

SeriesIn(ws) ==
  LET complete == Ascending(CompleteIn(ws))
  IN  [i \in DOMAIN complete |-> [week |-> complete[i], price |-> MeanOf(ws[complete[i]].days)]]

\* A series holds the complete weeks in their order.
IsSeries(s, ws) ==
  /\ s \in Seq(PricePoint)
  /\ \A i \in DOMAIN s : s[i].week \in CompleteIn(ws) /\ s[i].price = MeanOf(ws[s[i].week].days)
  /\ \A i, j \in DOMAIN s : i < j => s[i].week < s[j].week
  /\ \A w \in CompleteIn(ws) : \E i \in DOMAIN s : s[i].week = w

\* Weeks are added and missing days filled in; nothing else changes.
Grows(ws, more) ==
  /\ more \in Seq(WeekType)
  /\ DOMAIN ws \subseteq DOMAIN more
  /\ \A w \in DOMAIN ws : more[w].dubai = ws[w].dubai /\ more[w].usdKrw = ws[w].usdKrw
  /\ \A w \in CompleteIn(ws) : more[w].days = ws[w].days

LEMMA MeanIsNatural ==
  ASSUME NEW days \in [1..DaysPerWeek -> Nat]
  PROVE  MeanOf(days) \in Nat
<1>1. DaysPerWeek \in Nat \ {0}
  BY RunsAssumption
<1>2. IsFiniteSet(1..DaysPerWeek)
  BY <1>1, FS_Interval
<1>3. SumFunction(days) \in Nat
  BY <1>2, SumIsNatural
<1> QED  BY <1>1, <1>3 DEF MeanOf

LEMMA CompleteIsFinite ==
  ASSUME NEW ws \in Seq(WeekType)
  PROVE  CompleteIn(ws) \in SUBSET Nat /\ IsFiniteSet(CompleteIn(ws)) /\ CompleteIn(ws) \in SUBSET (DOMAIN ws)
<1>1. DOMAIN ws = 1..Len(ws) /\ Len(ws) \in Nat
  OBVIOUS
<1>2. IsFiniteSet(DOMAIN ws)
  BY <1>1, FS_Interval
<1>3. CompleteIn(ws) \in SUBSET (DOMAIN ws)
  BY DEF CompleteIn
<1> QED  BY <1>1, <1>2, <1>3, FS_Subset

LEMMA SeriesIsSeries ==
  ASSUME NEW ws \in Seq(WeekType)
  PROVE  IsSeries(SeriesIn(ws), ws)
<1>1. PICK S : S = CompleteIn(ws)
  OBVIOUS
<1>2. PICK f : f = Ascending(S)
  OBVIOUS
<1>3. PICK n : n = Cardinality(S)
  OBVIOUS
<1>4. S \in SUBSET Nat /\ IsFiniteSet(S) /\ S \in SUBSET (DOMAIN ws)
  BY <1>1, CompleteIsFinite
<1>5. /\ n \in Nat /\ DOMAIN f = 1..n
      /\ \A i \in 1..n : f[i] \in S
      /\ \A i, j \in 1..n : i < j => f[i] < f[j]
      /\ \A s \in S : \E i \in 1..n : f[i] = s
  <2>1. InOrder(f, S, n)
    BY <1>2, <1>3, <1>4, AscendingIsInOrder
  <2> QED  BY <2>1 DEF InOrder
<1>6. PICK s : s = SeriesIn(ws)
  OBVIOUS
<1>7. s = [i \in 1..n |-> [week |-> f[i], price |-> MeanOf(ws[f[i]].days)]]
  BY <1>1, <1>2, <1>5, <1>6 DEF SeriesIn
<1>8. \A i \in 1..n : /\ s[i].week = f[i] /\ s[i].price = MeanOf(ws[f[i]].days)
                      /\ s[i] \in PricePoint
  <2> SUFFICES ASSUME NEW i \in 1..n
               PROVE  /\ s[i].week = f[i] /\ s[i].price = MeanOf(ws[f[i]].days)
                      /\ s[i] \in PricePoint
    OBVIOUS
  <2>1. s[i] = [week |-> f[i], price |-> MeanOf(ws[f[i]].days)]
    BY <1>7
  <2>2. f[i] \in DOMAIN ws /\ f[i] \in Nat
    BY <1>4, <1>5
  <2>3. ws[f[i]] \in WeekType
    BY <2>2
  <2>4. MeanOf(ws[f[i]].days) \in Nat
    BY <2>3, MeanIsNatural DEF WeekType
  <2> QED  BY <2>1, <2>2, <2>4 DEF PricePoint
<1>9. s \in Seq(PricePoint) /\ DOMAIN s = 1..n
  <2>1. s \in [1..n -> PricePoint]
    BY <1>7, <1>8
  <2> QED  BY <1>5, <2>1
<1>10. \A i \in DOMAIN s : s[i].week \in CompleteIn(ws) /\ s[i].price = MeanOf(ws[s[i].week].days)
  BY <1>1, <1>5, <1>8, <1>9
<1>11. \A i, j \in DOMAIN s : i < j => s[i].week < s[j].week
  BY <1>5, <1>8, <1>9
<1>12. \A w \in CompleteIn(ws) : \E i \in DOMAIN s : s[i].week = w
  BY <1>1, <1>5, <1>8, <1>9
<1> QED  BY <1>6, <1>9, <1>10, <1>11, <1>12 DEF IsSeries

LEMMA SeriesNow == Series = SeriesIn(weeks)
BY DEF Series, CompleteWeeks, Complete, WeekNumbers, SeriesIn, CompleteIn

LEMMA SeriesIsTyped ==
  ASSUME NEW ws, NEW s, IsSeries(s, ws)
  PROVE  /\ Len(s) \in Nat /\ DOMAIN s = 1..Len(s)
         /\ \A i \in DOMAIN s : s[i].week \in Nat /\ s[i].price \in Nat
<1>1. s \in Seq(PricePoint)
  BY DEF IsSeries
<1>2. \A i \in DOMAIN s : s[i] \in PricePoint
  BY <1>1
<1> QED  BY <1>1, <1>2 DEF PricePoint

\* The last week of a series is its latest one.
LEMMA LastIsLatest ==
  ASSUME NEW ws, NEW s, IsSeries(s, ws), Len(s) > 0
  PROVE  /\ Last(s) = s[Len(s)] /\ Len(s) \in DOMAIN s /\ Last(s).week \in Nat
         /\ Last(s).week \in CompleteIn(ws)
         /\ \A i \in DOMAIN s : s[i].week <= Last(s).week
         /\ \A w \in CompleteIn(ws) : w <= Last(s).week
<1>1. Len(s) \in Nat /\ DOMAIN s = 1..Len(s) /\ Len(s) \in DOMAIN s /\ Last(s) = s[Len(s)]
  BY DEF IsSeries, Last
<1>2. \A i \in DOMAIN s : s[i].week \in Nat
  BY SeriesIsTyped
<1>3. ASSUME NEW i \in DOMAIN s  PROVE s[i].week <= s[Len(s)].week
  <2>1. s[i].week \in Nat /\ s[Len(s)].week \in Nat
    BY <1>1, <1>2
  <2>2. CASE i = Len(s)
    BY <2>1, <2>2
  <2>3. CASE i # Len(s)
    <3>1. i < Len(s)
      BY <1>1, <2>3
    <3>2. s[i].week < s[Len(s)].week
      BY <1>1, <3>1 DEF IsSeries
    <3> QED  BY <2>1, <3>2
  <2> QED  BY <2>2, <2>3
<1>4. \A w \in CompleteIn(ws) : w <= s[Len(s)].week
  BY <1>3 DEF IsSeries
<1>5. s[Len(s)].week \in CompleteIn(ws)
  BY <1>1 DEF IsSeries
<1> QED  BY <1>1, <1>2, <1>3, <1>4, <1>5

\* Complete weeks stay complete.
LEMMA GrowsIsMonotone ==
  ASSUME NEW ws, NEW more, Grows(ws, more)
  PROVE  CompleteIn(ws) \subseteq CompleteIn(more)
BY DEF Grows, CompleteIn

LEMMA GrowsWithEveryStep ==
  ASSUME weeks \in Seq(WeekType), [Next]_vars
  PROVE  Grows(weeks, weeks')
<1>1. CASE EndWeek
  <2>1. PICK shape \in WeekShapes : weeks' = Append(weeks, shape)
    BY <1>1 DEF EndWeek
  <2>2. shape \in WeekType
    BY RunsAssumption
  <2>3. weeks' \in Seq(WeekType) /\ DOMAIN weeks = 1..Len(weeks) /\ DOMAIN weeks' = 1..(Len(weeks) + 1)
        /\ Len(weeks) \in Nat
    BY <2>1, <2>2
  <2>4. \A w \in DOMAIN weeks : weeks'[w] = weeks[w] /\ w \in DOMAIN weeks'
    BY <2>1, <2>2, <2>3
  <2> QED  BY <2>3, <2>4 DEF Grows, CompleteIn
<1>2. CASE LateDay
  <2>1. PICK w \in WeekNumbers : \E d \in DOMAIN weeks[w].days :
          /\ weeks[w].days[d] = 0
          /\ \E shape \in WeekShapes : /\ shape.days[d] > 0
                                       /\ weeks' = [weeks EXCEPT ![w].days[d] = shape.days[d]]
    BY <1>2 DEF LateDay
  <2>2. PICK d \in DOMAIN weeks[w].days :
          /\ weeks[w].days[d] = 0
          /\ \E shape \in WeekShapes : /\ shape.days[d] > 0
                                       /\ weeks' = [weeks EXCEPT ![w].days[d] = shape.days[d]]
    BY <2>1
  <2>3. PICK shape \in WeekShapes : weeks' = [weeks EXCEPT ![w].days[d] = shape.days[d]]
    BY <2>2
  <2>4. w \in DOMAIN weeks /\ weeks[w] \in WeekType
    BY DEF WeekNumbers
  <2>5. d \in 1..DaysPerWeek /\ weeks[w].days \in [1..DaysPerWeek -> Nat]
    BY <2>4 DEF WeekType
  <2>6. shape.days[d] \in Nat
    BY <2>5, RunsAssumption DEF WeekType
  <2>7. PICK new : new = [weeks[w] EXCEPT !.days = [weeks[w].days EXCEPT ![d] = shape.days[d]]]
    OBVIOUS
  <2>8. new \in WeekType /\ new.dubai = weeks[w].dubai /\ new.usdKrw = weeks[w].usdKrw
    BY <2>4, <2>5, <2>6, <2>7 DEF WeekType
  <2>9. weeks' = [weeks EXCEPT ![w] = new]
    BY <2>3, <2>7
  <2>10. weeks' \in Seq(WeekType) /\ DOMAIN weeks' = DOMAIN weeks
    BY <2>4, <2>8, <2>9
  <2>11. \A v \in DOMAIN weeks : weeks'[v] = IF v = w THEN new ELSE weeks[v]
    BY <2>9
  <2>12. w \notin CompleteIn(weeks)
    BY <2>2, <2>5 DEF CompleteIn
  <2>13. \A v \in CompleteIn(weeks) : v \in DOMAIN weeks
    BY DEF CompleteIn
  <2> QED  BY <2>8, <2>10, <2>11, <2>12, <2>13 DEF Grows
<1>3. CASE weeks' = weeks
  BY <1>3 DEF Grows
<1>4. CASE Run
  BY <1>3, <1>4 DEF Run, RunPipeline
<1>5. CASE RunApproved
  BY <1>3, <1>5 DEF RunApproved, RunPipeline
<1>6. CASE UNCHANGED vars
  BY <1>3, <1>6 DEF vars
<1> QED  BY <1>1, <1>2, <1>4, <1>5, <1>6 DEF Next

-----------------------------------------------------------------------------
(* What a run does.                                                        *)

LEMMA SeriesIsSorted ==
  ASSUME weeks \in Seq(WeekType)
  PROVE  IsSeries(Series, weeks)
BY SeriesNow, SeriesIsSeries

LEMMA SeriesFacts ==
  ASSUME weeks \in Seq(WeekType), Len(Series) >= MinActuals
  PROVE  /\ IsSeries(Series, weeks) /\ Len(Series) > 0
         /\ Last(Series).week \in CompleteIn(weeks) /\ Last(Series).week \in Nat
<1>1. IsSeries(Series, weeks)
  BY SeriesIsSorted
<1>2. Len(Series) \in Nat /\ MinActuals \in Nat \ {0}
  BY <1>1, SeriesIsTyped, WalkForwardAssumption
<1> QED  BY <1>1, <1>2, LastIsLatest

LEMMA WeeksStayTyped ==
  ASSUME weeks \in Seq(WeekType), [Next]_vars
  PROVE  weeks' \in Seq(WeekType)
BY GrowsWithEveryStep DEF Grows

LEMMA WeeksAreTyped == Spec => [](weeks \in Seq(WeekType))
<1>1. Init => weeks \in Seq(WeekType)
  BY RunsAssumption DEF Init
<1>2. weeks \in Seq(WeekType) /\ [Next]_vars => (weeks \in Seq(WeekType))'
  BY WeeksStayTyped
<1> QED  BY <1>1, <1>2, PTL DEF Spec

\* A run with a selected setting and its backtest: the forecast it issues and
\* what it finds out.
Recording(selection, points, issued, recorded) ==
  /\ points = WeeklyForecast(Series, Masked(Usable), selection.setting, Horizons)
  /\ issued = Issued(Last(Series).week, points, selection.backtest)
  /\ recorded = Recorded(Found, selection.setting, points, issued, selection.backtest,
                         Series, UsableDays, Masked(Usable))

Keeping(selection, points, issued, recorded) ==
  /\ setting' = selection.setting
  /\ records' = recorded
  /\ \E approved : runs' = Append(runs, RunOf(selection.setting, points, issued, Usable, approved, Series))

LEMMA RunRecords ==
  ASSUME NEW effective, NEW since, RunPipeline(effective, since)
  PROVE  /\ weeks' = weeks /\ Len(Series) >= MinActuals
         /\ \E cooled, selection, points, issued, recorded :
              /\ selection = Selection(Series, Masked(Usable), effective, Horizons, cooled)
              /\ Recording(selection, points, issued, recorded)
              /\ Keeping(selection, points, issued, recorded)
<1>1. weeks' = weeks /\ Len(Series) >= MinActuals
  BY DEF RunPipeline, WeeksUsable
<1>2. PICK cooled, selection :
        /\ selection = Selection(Series, Masked(Usable), effective, Horizons, cooled)
        /\ Forecast(selection.setting, selection.backtest, Series, Masked(Usable), Usable)
  BY DEF RunPipeline
<1>3. PICK points, issued, recorded :
        /\ Recording(selection, points, issued, recorded)
        /\ Store(selection.setting, selection.backtest, points, issued,
                 TunedBeside(selection.setting, selection.backtest, Series, UsableDays, Masked(Usable)),
                 recorded, Usable, Series)
  BY <1>2 DEF Forecast, Recording
<1>4. Keeping(selection, points, issued, recorded)
  BY <1>3 DEF Store, Keeping
<1> QED  BY <1>1, <1>2, <1>3, <1>4

\* Every step but a run leaves the runs and what was found out as they are.
LEMMA StepsKeepRecords ==
  ASSUME [Next]_vars
  PROVE  \/ UNCHANGED <<records, runs>>
         \/ \E effective, since : RunPipeline(effective, since)
BY DEF Next, vars, EndWeek, LateDay, Run, RunApproved

\* A sequence with one more element.
LEMMA Appended ==
  ASSUME NEW S, NEW s \in Seq(S), NEW r, NEW t, t = Append(s, r)
  PROVE  /\ Len(s) \in Nat /\ DOMAIN s = 1..Len(s)
         /\ t \in Seq(S \cup {r}) /\ Len(t) = Len(s) + 1 /\ DOMAIN t = 1..(Len(s) + 1)
         /\ \A i \in DOMAIN s : t[i] = s[i]
         /\ t[Len(s) + 1] = r /\ Last(t) = r
<1>1. s \in Seq(S \cup {r})
  OBVIOUS
<1>2. PICK T : T = S \cup {r}
  OBVIOUS
<1>3. s \in Seq(T) /\ r \in T
  BY <1>1, <1>2
<1>4. /\ t \in Seq(T) /\ Len(t) = Len(s) + 1 /\ DOMAIN t = 1..(Len(s) + 1)
      /\ Len(s) \in Nat /\ DOMAIN s = 1..Len(s)
  BY <1>3
<1>5. (\A i \in DOMAIN s : t[i] = s[i]) /\ t[Len(s) + 1] = r
  BY <1>3
<1> QED  BY <1>2, <1>4, <1>5 DEF Last

\* A stored run has nothing of what was found out.
Unrecorded(run) == \A field \in DOMAIN NoRecords : field \notin DOMAIN run

StoredInv ==
  /\ \E S : runs \in Seq(S)
  /\ \A i \in DOMAIN runs : Unrecorded(runs[i])

\* The ranges of a run are stored when its forecast is approved.
IssuesItsRanges(run, issued) == run.approved => run.issued = issued

\* What a run adds to the stored ones.
LEMMA RunAppends ==
  ASSUME NEW selection, NEW points, NEW issued, NEW recorded, Keeping(selection, points, issued, recorded),
         \E S : runs \in Seq(S)
  PROVE  \E run :
           /\ run.anchor = Last(Series).week /\ run.setting = selection.setting /\ run.points = points
           /\ IssuesItsRanges(run, issued) /\ run.usable = Usable /\ Unrecorded(run)
           /\ run.complete = {Series[i].week : i \in DOMAIN Series} /\ run.at = Len(weeks)
           /\ \E S : runs' \in Seq(S)
           /\ Len(runs) \in Nat /\ DOMAIN runs = 1..Len(runs) /\ DOMAIN runs' = 1..(Len(runs) + 1)
           /\ Len(runs') = Len(runs) + 1
           /\ \A i \in DOMAIN runs : runs'[i] = runs[i]
           /\ runs'[Len(runs) + 1] = run /\ Last(runs') = run
<1>1. PICK S : runs \in Seq(S)
  OBVIOUS
<1>2. PICK approved : runs' = Append(runs, RunOf(selection.setting, points, issued, Usable, approved, Series))
  BY DEF Keeping
<1>3. PICK run : run = RunOf(selection.setting, points, issued, Usable, approved, Series)
  OBVIOUS
<1>4. /\ run.anchor = Last(Series).week /\ run.setting = selection.setting /\ run.points = points
      /\ run.usable = Usable
      /\ run.complete = {Series[i].week : i \in DOMAIN Series} /\ run.at = Len(weeks)
  BY <1>3 DEF RunOf
<1>41. IssuesItsRanges(run, issued)
  <2>1. run.approved = approved /\ run.issued = IF approved THEN issued ELSE {}
    BY <1>3 DEF RunOf
  <2> QED  BY <2>1 DEF IssuesItsRanges
<1>42. Unrecorded(run)
  <2>1. DOMAIN run = {"at", "anchor", "setting", "points", "issued", "usable", "approved", "complete"}
    BY <1>3 DEF RunOf
  <2>2. DOMAIN NoRecords = {"ranges", "sessions", "drift", "contributions"}
    BY DEF NoRecords
  <2> QED  BY <2>1, <2>2 DEF Unrecorded
<1>5. runs' = Append(runs, run)
  BY <1>2, <1>3
<1>6. PICK t : t = Append(runs, run) /\ runs' = t
  BY <1>5
<1>7. /\ Len(runs) \in Nat /\ DOMAIN runs = 1..Len(runs)
      /\ t \in Seq(S \cup {run}) /\ Len(t) = Len(runs) + 1 /\ DOMAIN t = 1..(Len(runs) + 1)
  BY <1>1, <1>6, Appended
<1>8. \A i \in DOMAIN runs : t[i] = runs[i]
  BY <1>1, <1>6, Appended
<1>9. t[Len(runs) + 1] = run
  BY <1>1, <1>6, Appended
<1>10. Last(t) = run
  BY <1>7, <1>9 DEF Last
<1> QED  BY <1>4, <1>41, <1>42, <1>6, <1>7, <1>8, <1>9, <1>10

LEMMA StoredStep ==
  ASSUME StoredInv, [Next]_vars
  PROVE  StoredInv'
<1>1. CASE UNCHANGED <<records, runs>>
  BY <1>1 DEF StoredInv, Unrecorded, NoRecords
<1>2. CASE \E effective, since : RunPipeline(effective, since)
  <2>1. PICK selection, points, issued, recorded : Keeping(selection, points, issued, recorded)
    BY <1>2, RunRecords
  <2>2. PICK run :
          /\ Unrecorded(run) /\ \E S : runs' \in Seq(S)
          /\ Len(runs) \in Nat /\ DOMAIN runs = 1..Len(runs) /\ DOMAIN runs' = 1..(Len(runs) + 1)
          /\ \A i \in DOMAIN runs : runs'[i] = runs[i]
          /\ runs'[Len(runs) + 1] = run
    BY <2>1, RunAppends DEF StoredInv
  <2>3. ASSUME NEW i \in DOMAIN runs'  PROVE Unrecorded(runs'[i])
    <3>1. i \in DOMAIN runs \/ i = Len(runs) + 1
      BY <2>2
    <3> QED  BY <2>2, <3>1 DEF StoredInv
  <2> QED  BY <2>2, <2>3 DEF StoredInv, Unrecorded, NoRecords
<1> QED  BY <1>1, <1>2, StepsKeepRecords

LEMMA StoredHolds == Spec => []StoredInv
<1>1. Init => StoredInv
  <2>1. <<>> \in Seq({})
    OBVIOUS
  <2> QED  BY <2>1 DEF Init, StoredInv
<1>2. StoredInv /\ [Next]_vars => StoredInv'
  BY StoredStep
<1> QED  BY <1>1, <1>2, PTL DEF Spec

\* So no run finds anything of what the runs before it found out.
LEMMA NothingIsFound ==
  ASSUME StoredInv
  PROVE  Found = NoRecords
<1>1. CASE runs = <<>>
  BY <1>1 DEF Found
<1>2. CASE runs # <<>>
  <2>1. Last(runs) = runs[Len(runs)] /\ Len(runs) \in DOMAIN runs
    BY <1>2 DEF StoredInv, Last
  <2>2. PICK run : run = Last(runs) /\ Unrecorded(run)
    BY <2>1 DEF StoredInv
  <2>3. Found = [field \in DOMAIN NoRecords |-> IF field \in DOMAIN run THEN run[field] ELSE NoRecords[field]]
    BY <1>2, <2>2 DEF Found, ReadRecords
  <2>4. Found = [field \in DOMAIN NoRecords |-> NoRecords[field]]
    BY <2>2, <2>3 DEF Unrecorded
  <2> QED  BY <2>4 DEF NoRecords
<1> QED  BY <1>1, <1>2

-----------------------------------------------------------------------------
(* What a run reads is fit for a backtest.                                 *)

KnownIn(ws, code) == {w \in DOMAIN ws : ws[w][code] > 0}

IndicatorIn(ws, code) ==
  LET known == Ascending(KnownIn(ws, code))
  IN  [i \in DOMAIN known |-> [week |-> known[i], value |-> ws[known[i]][code]]]

LEMMA IndicatorNow == \A code : Indicator(code) = IndicatorIn(weeks, code)
BY DEF Indicator, IndicatorIn, KnownIn, WeekNumbers

\* The known values of an indicator, in their order.
LEMMA IndicatorIsValues ==
  ASSUME NEW ws \in Seq(WeekType), NEW code \in {"dubai", "usdKrw"}, NEW p, p = IndicatorIn(ws, code)
  PROVE  /\ IsValues(p)
         /\ \A i \in DOMAIN p : p[i].week \in KnownIn(ws, code) /\ p[i].value = ws[p[i].week][code]
         /\ \A w \in KnownIn(ws, code) : \E i \in DOMAIN p : p[i].week = w
<1>1. PICK S : S = KnownIn(ws, code)
  OBVIOUS
<1>2. PICK f : f = Ascending(S)
  OBVIOUS
<1>3. PICK n : n = Cardinality(S)
  OBVIOUS
<1>4. S \in SUBSET Nat /\ IsFiniteSet(S) /\ S \in SUBSET (DOMAIN ws)
  <2>1. DOMAIN ws = 1..Len(ws) /\ Len(ws) \in Nat
    OBVIOUS
  <2>2. IsFiniteSet(DOMAIN ws)
    BY <2>1, FS_Interval
  <2>3. S \in SUBSET (DOMAIN ws)
    BY <1>1 DEF KnownIn
  <2> QED  BY <2>1, <2>2, <2>3, FS_Subset
<1>5. /\ n \in Nat /\ DOMAIN f = 1..n
      /\ \A i \in 1..n : f[i] \in S
      /\ \A i, j \in 1..n : i < j => f[i] < f[j]
      /\ \A s \in S : \E i \in 1..n : f[i] = s
  <2>1. S \in SUBSET Nat /\ IsFiniteSet(S) /\ f = Ascending(S) /\ n = Cardinality(S)
    BY <1>2, <1>3, <1>4
  <2>2. InOrder(f, S, n)
    BY <2>1, AscendingIsInOrder
  <2> QED  BY <2>2 DEF InOrder
<1>6. p = [i \in 1..n |-> [week |-> f[i], value |-> ws[f[i]][code]]]
  BY <1>1, <1>2, <1>5 DEF IndicatorIn
<1>7. \A i \in 1..n : /\ p[i].week = f[i] /\ p[i].value = ws[f[i]][code]
                      /\ p[i] \in ValuePoint
  <2> SUFFICES ASSUME NEW i \in 1..n
               PROVE  p[i].week = f[i] /\ p[i].value = ws[f[i]][code] /\ p[i] \in ValuePoint
    OBVIOUS
  <2>1. p[i] = [week |-> f[i], value |-> ws[f[i]][code]]
    BY <1>6
  <2>2. f[i] \in DOMAIN ws /\ f[i] \in Nat /\ ws[f[i]][code] > 0
    BY <1>1, <1>4, <1>5 DEF KnownIn
  <2>3. ws[f[i]] \in WeekType
    BY <2>2
  <2>4. ws[f[i]][code] \in Nat
    BY <2>3 DEF WeekType
  <2>5. ws[f[i]][code] \in Nat \ {0}
    BY <2>2, <2>4
  <2> QED  BY <2>1, <2>2, <2>5 DEF ValuePoint
<1>8. p \in Seq(ValuePoint) /\ DOMAIN p = 1..n
  <2>1. p \in [1..n -> ValuePoint]
    BY <1>6, <1>7
  <2> QED  BY <1>5, <2>1
<1>9. Rising(p)
  BY <1>5, <1>7, <1>8 DEF Rising
<1> QED  BY <1>1, <1>5, <1>7, <1>8, <1>9 DEF IsValues

LEMMA NoValues == IsValues(<<>>)
<1>1. <<>> \in Seq(ValuePoint) /\ DOMAIN (<<>>) = {}
  OBVIOUS
<1> QED  BY <1>1 DEF IsValues, Rising

LEMMA MaskedIsInputs ==
  ASSUME weeks \in Seq(WeekType), NEW usable
  PROVE  IsInputs(Masked(usable))
<1>1. IsValues(Indicator("dubai")) /\ IsValues(Indicator("usdKrw"))
  BY IndicatorNow, IndicatorIsValues
<1>2. PICK m : m = Masked(usable)
  OBVIOUS
<1>3. /\ m.dubai = Indicator("dubai") \/ m.dubai = <<>>
      /\ m.usdKrw = Indicator("usdKrw") \/ m.usdKrw = <<>>
  BY <1>2 DEF Masked
<1> QED  BY <1>1, <1>2, <1>3, NoValues DEF IsInputs

LEMMA SeriesIsPrices ==
  ASSUME NEW ws, NEW s, IsSeries(s, ws)
  PROVE  IsPrices(s)
BY DEF IsSeries, IsPrices, Rising

\* The days of a week, counted from the first day of all.
LEMMA DayOfWeek ==
  ASSUME NEW n \in Nat, NEW k \in Nat, k > 0, NEW d \in 1..(n * k)
  PROVE  ((d - 1) \div k) + 1 \in 1..n /\ ((d - 1) % k) + 1 \in 1..k
<1>1. PICK q : q = (d - 1) \div k
  OBVIOUS
<1>2. PICK r : r = (d - 1) % k
  OBVIOUS
<1>3. PICK m : m = n * k
  OBVIOUS
<1>4. m \in Nat /\ d \in Int /\ d >= 1 /\ d <= m
  BY <1>3
<1>5. PICK a \in Nat : a = d - 1 /\ a < m
  BY <1>4
<1>6. q = a \div k /\ r = a % k
  BY <1>1, <1>2, <1>5
<1>7. q \in Int /\ r \in 0..(k - 1) /\ a = k * q + r
  BY <1>6
<1>8. q >= 0
  BY <1>7
<1>9. q < n
  BY <1>3, <1>5, <1>7
<1> QED  BY <1>1, <1>2, <1>7, <1>8, <1>9

LEMMA DaysAreTyped ==
  ASSUME weeks \in Seq(WeekType)
  PROVE  Days \in [1..(Len(weeks) * DaysPerWeek) -> Nat] /\ Len(weeks) * DaysPerWeek \in Nat
<1>1. PICK n, k : n = Len(weeks) /\ k = DaysPerWeek
  OBVIOUS
<1>2. n \in Nat /\ k \in Nat /\ k > 0 /\ DOMAIN weeks = 1..n
  BY <1>1, RunsAssumption
<1>3. n * k \in Nat
  BY <1>2
<1>4. ASSUME NEW d \in 1..(n * k)
      PROVE  weeks[((d - 1) \div k) + 1].days[((d - 1) % k) + 1] \in Nat
  <2>1. PICK w, r : w = ((d - 1) \div k) + 1 /\ r = ((d - 1) % k) + 1
    OBVIOUS
  <2>2. w \in 1..n /\ r \in 1..k
    BY <1>2, <2>1, DayOfWeek
  <2>3. weeks[w] \in WeekType
    BY <1>2, <2>2
  <2>4. weeks[w].days \in [1..k -> Nat]
    BY <1>1, <2>3 DEF WeekType
  <2> QED  BY <2>1, <2>2, <2>4
<1>5. Days = [d \in 1..(n * k) |-> weeks[((d - 1) \div k) + 1].days[((d - 1) % k) + 1]]
  BY <1>1 DEF Days
<1> QED  BY <1>1, <1>3, <1>4, <1>5

LEMMA UsableDaysAreTyped ==
  ASSUME weeks \in Seq(WeekType)
  PROVE  UsableDays \in [1..(Len(weeks) * DaysPerWeek) -> Nat]
<1>1. PICK n : n = Len(weeks) * DaysPerWeek
  OBVIOUS
<1>2. Days \in [1..n -> Nat] /\ n \in Nat
  BY <1>1, DaysAreTyped
<1>3. UsableDays = Days \/ UsableDays = [d \in DOMAIN Days |-> 0]
  BY DEF UsableDays
<1> QED  BY <1>1, <1>2, <1>3

\* What the candidates of a run are tested on.
Material ==
  [series |-> Series, indicators |-> Masked(Usable), days |-> UsableDays, perWeek |-> DaysPerWeek,
   horizons |-> Horizons]

LEMMA MaterialIsFit ==
  ASSUME weeks \in Seq(WeekType)
  PROVE  IsMaterial(Material)
<1>1. IsSeries(Series, weeks)
  BY SeriesIsSorted
<1>2. IsPrices(Series) /\ IsInputs(Masked(Usable))
  BY <1>1, SeriesIsPrices, MaskedIsInputs
<1>3. Horizons \in Nat /\ DaysPerWeek \in Nat
  BY RunsAssumption
<1>4. PICK n : n = Len(weeks) * DaysPerWeek
  OBVIOUS
<1>5. n \in Nat /\ UsableDays \in [1..n -> Nat]
  BY <1>4, DaysAreTyped, UsableDaysAreTyped
<1>6. ASSUME NEW i \in DOMAIN Series  PROVE Series[i].week * DaysPerWeek <= n
  <2>1. PICK w : w = Series[i].week
    OBVIOUS
  <2>2. w \in 1..Len(weeks) /\ Len(weeks) \in Nat
    BY <1>1, <2>1 DEF IsSeries, CompleteIn
  <2>3. PICK a \in Nat, b \in Nat, k \in Nat : a = w /\ b = Len(weeks) /\ k = DaysPerWeek /\ a <= b
    BY <1>3, <2>2, SMTT(60)
  <2>4. a * k <= b * k
    BY <2>3
  <2> QED  BY <1>4, <2>1, <2>3, <2>4
<1> QED  BY <1>2, <1>3, <1>5, <1>6 DEF IsMaterial, Material

-----------------------------------------------------------------------------
(* Settings are sound.                                                     *)

\* What a run operates next, tunes and follows.
Operating(selection, candidates) ==
  /\ candidates = TunedBeside(selection.setting, selection.backtest, Series, UsableDays, Masked(Usable))
  /\ setting' = selection.setting
  /\ tuned' = [k \in DOMAIN candidates |-> candidates[k].setting]
  /\ tracked' = Tracked(tracked, candidates, HalfWon)

LEMMA RunOperates ==
  ASSUME NEW effective, NEW since, RunPipeline(effective, since)
  PROVE  /\ weeks' = weeks /\ Len(Series) >= MinActuals
         /\ \E cooled, selection, points, issued, recorded, candidates :
              /\ selection = Selection(Series, Masked(Usable), effective, Horizons, cooled)
              /\ Recording(selection, points, issued, recorded)
              /\ Keeping(selection, points, issued, recorded)
              /\ Operating(selection, candidates)
<1>1. weeks' = weeks /\ Len(Series) >= MinActuals
  BY DEF RunPipeline, WeeksUsable
<1>2. PICK cooled, selection :
        /\ selection = Selection(Series, Masked(Usable), effective, Horizons, cooled)
        /\ Forecast(selection.setting, selection.backtest, Series, Masked(Usable), Usable)
  BY DEF RunPipeline
<1>3. PICK points, issued, recorded, candidates :
        /\ Recording(selection, points, issued, recorded)
        /\ candidates = TunedBeside(selection.setting, selection.backtest, Series, UsableDays, Masked(Usable))
        /\ Store(selection.setting, selection.backtest, points, issued, candidates, recorded, Usable, Series)
  BY <1>2 DEF Forecast, Recording
<1>4. Keeping(selection, points, issued, recorded) /\ Operating(selection, candidates)
  BY <1>3 DEF Store, Keeping, Operating
<1> QED  BY <1>1, <1>2, <1>3, <1>4

\* The setting that is operated can be, and so can every tuned candidate; one of
\* them is followed, if there are any.
SettingsInv ==
  /\ Sound(setting)
  /\ \E m \in 0..TuningLimit :
       /\ tuned \in [1..m -> {s \in SettingType : Sound(s)}]
       /\ m = 0 => tracked = NoSetting
       /\ m > 0 => \E k \in 1..m : tracked = tuned[k]

LEMMA TrackedIsSound ==
  ASSUME SettingsInv, tracked # NoSetting
  PROVE  Sound(tracked)
BY DEF SettingsInv

\* What a run starts with.
LEMMA EffectiveIsSound ==
  ASSUME SettingsInv, Next
  PROVE  \/ UNCHANGED <<setting, tuned, tracked, records, runs>>
         \/ \E effective, since : Sound(effective) /\ RunPipeline(effective, since)
<1>1. CASE EndWeek
  BY <1>1 DEF EndWeek
<1>2. CASE LateDay
  BY <1>2 DEF LateDay
<1>3. CASE Run
  BY <1>3 DEF Run, SettingsInv
<1>4. CASE RunApproved
  BY <1>4, TrackedIsSound DEF RunApproved
<1> QED  BY <1>1, <1>2, <1>3, <1>4 DEF Next

\* The candidates of a run.
LEMMA CandidatesOfRun ==
  ASSUME weeks \in Seq(WeekType), NEW selection, Sound(selection.setting), NEW candidates,
         Operating(selection, candidates)
  PROVE  \E m \in 0..TuningLimit : candidates \in [1..m -> TunedType]
<1>1. IsMaterial(Material)
  BY MaterialIsFit
<1>2. PICK persistent, observed :
        candidates = Tuned(selection.setting, selection.backtest, Material, persistent, observed)
  BY DEF Operating, TunedBeside, Material
<1> QED  BY <1>1, <1>2, TunedAreSound

LEMMA SettingsFollow ==
  ASSUME weeks \in Seq(WeekType), NEW selection, Sound(selection.setting), NEW candidates,
         Operating(selection, candidates)
  PROVE  SettingsInv'
<1>1. PICK m \in 0..TuningLimit : candidates \in [1..m -> TunedType]
  BY CandidatesOfRun
<1>2. m \in Nat
  BY CandidatesAssumption
<1>3. DOMAIN candidates = 1..m
  BY <1>1
<1>4. tuned' = [k \in 1..m |-> candidates[k].setting]
  BY <1>3 DEF Operating
<1>5. \A k \in 1..m : candidates[k].setting \in {s \in SettingType : Sound(s)}
  BY <1>1 DEF TunedType
<1>6. tuned' \in [1..m -> {s \in SettingType : Sound(s)}]
  BY <1>4, <1>5
<1>7. tracked' = Tracked(tracked, candidates, HalfWon)
  BY DEF Operating
<1>8. (m = 0 => tracked' = NoSetting) /\ (m > 0 => \E k \in 1..m : tracked' = candidates[k].setting)
  BY <1>1, <1>2, <1>7, TrackedIsTuned
<1>9. m > 0 => \E k \in 1..m : tracked' = tuned'[k]
  BY <1>4, <1>8
<1>10. Sound(setting')
  BY DEF Operating
<1> QED  BY <1>6, <1>8, <1>9, <1>10 DEF SettingsInv

\* The selection of a run: its setting can be operated and its backtest is one of the series.
LEMMA SelectionOfRun ==
  ASSUME weeks \in Seq(WeekType), NEW effective, Sound(effective), NEW cooled, NEW selection,
         selection = Selection(Series, Masked(Usable), effective, Horizons, cooled)
  PROVE  /\ Sound(selection.setting)
         /\ \E p \in SettingType : selection.backtest = Measured(Series, Backtest(Series, Masked(Usable), p, Horizons))
<1>1. IsPrices(Series) /\ IsInputs(Masked(Usable)) /\ Horizons \in Nat
  BY SeriesIsSorted, SeriesIsPrices, MaskedIsInputs, RunsAssumption
<1> QED  BY <1>1, SelectionIsOwn DEF Sound, Operable

LEMMA SettingsStep ==
  ASSUME weeks \in Seq(WeekType), SettingsInv, [Next]_vars
  PROVE  SettingsInv'
<1>1. CASE UNCHANGED <<setting, tuned, tracked>>
  BY <1>1 DEF SettingsInv
<1>2. CASE \E effective, since : Sound(effective) /\ RunPipeline(effective, since)
  <2>1. PICK effective, since : Sound(effective) /\ RunPipeline(effective, since)
    BY <1>2
  <2>2. PICK cooled, selection, candidates :
          /\ selection = Selection(Series, Masked(Usable), effective, Horizons, cooled)
          /\ Operating(selection, candidates)
    BY <2>1, RunOperates
  <2>3. Sound(selection.setting)
    BY <2>1, <2>2, SelectionOfRun
  <2> QED  BY <2>2, <2>3, SettingsFollow
<1> QED  BY <1>1, <1>2, EffectiveIsSound DEF vars

LEMMA SettingsHold == Spec => []SettingsInv
<1>1. Init => SettingsInv
  <2> SUFFICES ASSUME Init  PROVE SettingsInv
    OBVIOUS
  <2>1. Sound(setting)
    BY RunsAssumption DEF Init, Sound
  <2>2. tuned \in [1..0 -> {s \in SettingType : Sound(s)}] /\ tracked = NoSetting
    BY DEF Init
  <2>3. 0 \in 0..TuningLimit
    BY CandidatesAssumption
  <2> QED  BY <2>1, <2>2, <2>3 DEF SettingsInv
<1>2. weeks \in Seq(WeekType) /\ SettingsInv /\ [Next]_vars => SettingsInv'
  BY SettingsStep
<1> QED  BY <1>1, <1>2, WeeksAreTyped, PTL DEF Spec

-----------------------------------------------------------------------------
(* A backtest replays what was issued.                                     *)

\* Two sets of numbers that are the same up to one of them are in the same
\* order up to it.
AgreeUpTo(C, D, a) ==
  (\A c \in C : c <= a => c \in D) /\ (\A d \in D : d <= a => d \in C)

LEMMA SameUpTo ==
  ASSUME NEW C \in SUBSET Nat, IsFiniteSet(C), NEW D \in SUBSET Nat, IsFiniteSet(D), NEW a \in Nat,
         AgreeUpTo(C, D, a), NEW f, f = Ascending(C), NEW g, g = Ascending(D), NEW i \in DOMAIN f, f[i] <= a
  PROVE  i \in DOMAIN g /\ g[i] = f[i]
<1>1. PICK m : InOrder(f, C, m)
  BY AscendingIsInOrder
<1>2. PICK n : InOrder(g, D, n)
  BY AscendingIsInOrder
<1>3. PICK c : c = f[i]
  OBVIOUS
<1>31. c \in C /\ c <= a /\ i \in 1..m /\ Cardinality(LessIn(C, c)) = i - 1
  BY <1>1, <1>3 DEF InOrder
<1>32. c \in D
  BY <1>31 DEF AgreeUpTo
<1>33. c \in Nat
  BY <1>31
<1>4. LessIn(C, c) = LessIn(D, c)
  <2>1. ASSUME NEW o \in C, o < c  PROVE o \in D
    <3>1. o \in Nat /\ o <= a
      BY <1>31, <1>33, <2>1
    <3> QED  BY <3>1 DEF AgreeUpTo
  <2>2. ASSUME NEW o \in D, o < c  PROVE o \in C
    <3>1. o \in Nat /\ o <= a
      BY <1>31, <1>33, <2>2
    <3> QED  BY <3>1 DEF AgreeUpTo
  <2> QED  BY <2>1, <2>2 DEF LessIn
<1>5. PICK k \in 1..n : g[k] = c /\ k \in DOMAIN g /\ Cardinality(LessIn(D, c)) = k - 1
  BY <1>2, <1>32 DEF InOrder
<1>6. k = i
  BY <1>31, <1>4, <1>5
<1> QED  BY <1>3, <1>5, <1>6

\* The values of an indicator that are known at a week.
SameValues(p, q, anchor) ==
  \A i \in DOMAIN p : p[i].week <= anchor => i \in DOMAIN q /\ q[i] = p[i]

LEMMA ContributesLikewise ==
  ASSUME NEW p, IsValues(p), NEW q, IsValues(q), NEW anchor \in Nat,
         SameValues(p, q, anchor), SameValues(q, p, anchor), NEW use \in UseType
  PROVE  Contribution(p, use, anchor) = Contribution(q, use, anchor)
<1>1. {i \in DOMAIN p : p[i].week <= anchor} = {i \in DOMAIN q : q[i].week <= anchor}
  BY DEF SameValues
<1>2. PICK b \in Int : b = Basis(p, use, anchor) /\ b = Basis(q, use, anchor)
  <2>1. Basis(p, use, anchor) \in Int
    BY BasisIsInteger
  <2>2. Basis(p, use, anchor) = Basis(q, use, anchor)
    BY <1>1 DEF Basis
  <2> QED  BY <2>1, <2>2
<1>3. /\ Len(p) \in Nat /\ DOMAIN p = 1..Len(p) /\ \A i \in DOMAIN p : p[i].week \in Nat
      /\ \A i, j \in DOMAIN p : i < j => p[i].week < p[j].week
  BY ValuesAreTyped
<1>4. /\ Len(q) \in Nat /\ DOMAIN q = 1..Len(q) /\ \A i \in DOMAIN q : q[i].week \in Nat
      /\ \A i, j \in DOMAIN q : i < j => q[i].week < q[j].week
  BY ValuesAreTyped
<1>5. Contributes(p, use, anchor) <=> Contributes(q, use, anchor)
  <2>1. ASSUME b >= 2, b <= Len(p), p[b].week <= anchor  PROVE b <= Len(q) /\ q[b].week <= anchor
    <3>1. b \in DOMAIN p
      BY <1>3, <2>1
    <3>2. b \in DOMAIN q /\ q[b] = p[b]
      BY <2>1, <3>1 DEF SameValues
    <3> QED  BY <1>4, <2>1, <3>2
  <2>2. ASSUME b >= 2, b <= Len(q), q[b].week <= anchor  PROVE b <= Len(p) /\ p[b].week <= anchor
    <3>1. b \in DOMAIN q
      BY <1>4, <2>2
    <3>2. b \in DOMAIN p /\ p[b] = q[b]
      BY <2>2, <3>1 DEF SameValues
    <3> QED  BY <1>3, <2>2, <3>2
  <2> QED  BY <1>2, <2>1, <2>2 DEF Contributes
<1>6. CASE ~Contributes(p, use, anchor)
  BY <1>5, <1>6 DEF Contribution
<1>7. CASE Contributes(p, use, anchor)
  <2>1. b >= 2 /\ b <= Len(p) /\ p[b].week <= anchor
    BY <1>2, <1>7 DEF Contributes
  <2>2. b \in DOMAIN p /\ b - 1 \in DOMAIN p /\ b - 1 < b
    BY <1>3, <2>1
  <2>3. p[b - 1].week <= anchor
    <3>1. p[b - 1].week < p[b].week /\ p[b - 1].week \in Nat /\ p[b].week \in Nat
      BY <1>3, <2>2
    <3> QED  BY <2>1, <3>1
  <2>4. q[b] = p[b] /\ q[b - 1] = p[b - 1]
    BY <2>1, <2>2, <2>3 DEF SameValues
  <2>5. Contribution(p, use, anchor) = ((p[b].value - p[b - 1].value) * use.weight) \div p[b - 1].value
    BY <1>2, <1>7 DEF Contribution
  <2>6. Contribution(q, use, anchor) = ((q[b].value - q[b - 1].value) * use.weight) \div q[b - 1].value
    BY <1>2, <1>5, <1>7 DEF Contribution
  <2> QED  BY <2>4, <2>5, <2>6
<1> QED  BY <1>6, <1>7

\* The weeks a run saw are among those that came after it.
LEMMA GrowsFurther ==
  ASSUME NEW a, NEW b, NEW c, Grows(a, b), Grows(b, c)
  PROVE  Grows(a, c)
<1>1. CompleteIn(a) \subseteq CompleteIn(b)
  BY GrowsIsMonotone
<1>2. \A w \in CompleteIn(a) : c[w].days = a[w].days
  BY <1>1 DEF Grows
<1> QED  BY <1>2 DEF Grows

LEMMA GrowsNot == \A a \in Seq(WeekType) : Grows(a, a)
BY DEF Grows

LEMMA SameIndicators ==
  ASSUME NEW old \in Seq(WeekType), NEW new \in Seq(WeekType), Grows(old, new),
         NEW code \in {"dubai", "usdKrw"}, NEW anchor \in DOMAIN old,
         NEW p, p = IndicatorIn(old, code), NEW q, q = IndicatorIn(new, code)
  PROVE  SameValues(p, q, anchor) /\ SameValues(q, p, anchor)
<1>1. PICK C, D : C = KnownIn(old, code) /\ D = KnownIn(new, code)
  OBVIOUS
<1>2. anchor \in Nat /\ DOMAIN old = 1..Len(old) /\ DOMAIN new = 1..Len(new) /\ Len(old) \in Nat /\ Len(new) \in Nat
  OBVIOUS
<1>3. C \in SUBSET Nat /\ IsFiniteSet(C) /\ C \subseteq DOMAIN old
  <2>1. C \in SUBSET DOMAIN old
    BY <1>1 DEF KnownIn
  <2>2. IsFiniteSet(DOMAIN old)
    BY <1>2, FS_Interval
  <2> QED  BY <1>2, <2>1, <2>2, FS_Subset
<1>4. D \in SUBSET Nat /\ IsFiniteSet(D) /\ D \subseteq DOMAIN new
  <2>1. D \in SUBSET DOMAIN new
    BY <1>1 DEF KnownIn
  <2>2. IsFiniteSet(DOMAIN new)
    BY <1>2, FS_Interval
  <2> QED  BY <1>2, <2>1, <2>2, FS_Subset
<1>5. \A w \in DOMAIN old : w \in DOMAIN new /\ new[w][code] = old[w][code]
  BY DEF Grows
<1>6. \A w \in C : w <= anchor => w \in D
  BY <1>1, <1>5 DEF KnownIn
<1>7. \A w \in D : w <= anchor => w \in C
  <2> SUFFICES ASSUME NEW w \in D, w <= anchor  PROVE w \in C
    OBVIOUS
  <2>1. w \in DOMAIN old
    BY <1>2, <1>4
  <2> QED  BY <1>1, <1>5, <2>1 DEF KnownIn
<1>71. AgreeUpTo(C, D, anchor) /\ AgreeUpTo(D, C, anchor)
  BY <1>6, <1>7 DEF AgreeUpTo
<1>8. PICK f, g : f = Ascending(C) /\ g = Ascending(D)
  OBVIOUS
<1>9. DOMAIN p = DOMAIN f /\ \A i \in DOMAIN f : p[i] = [week |-> f[i], value |-> old[f[i]][code]]
  BY <1>1, <1>8 DEF IndicatorIn
<1>10. DOMAIN q = DOMAIN g /\ \A i \in DOMAIN g : q[i] = [week |-> g[i], value |-> new[g[i]][code]]
  BY <1>1, <1>8 DEF IndicatorIn
<1>11. /\ \A i \in DOMAIN f : f[i] \in C
       /\ \A i \in DOMAIN g : g[i] \in D
  <2>1. \A i \in DOMAIN f : f[i] \in C
    <3>1. InOrder(f, C, Cardinality(C))
      BY <1>3, <1>8, AscendingIsInOrder
    <3> QED  BY <3>1 DEF InOrder
  <2>2. \A i \in DOMAIN g : g[i] \in D
    <3>1. InOrder(g, D, Cardinality(D))
      BY <1>4, <1>8, AscendingIsInOrder
    <3> QED  BY <3>1 DEF InOrder
  <2> QED  BY <2>1, <2>2
<1>12. ASSUME NEW i \in DOMAIN p, p[i].week <= anchor  PROVE i \in DOMAIN q /\ q[i] = p[i]
  <2>1. f[i] <= anchor
    BY <1>9, <1>12
  <2>2. i \in DOMAIN g /\ g[i] = f[i]
    BY <1>2, <1>3, <1>4, <1>71, <1>8, <1>9, <2>1, SameUpTo
  <2> QED  BY <1>3, <1>5, <1>9, <1>10, <1>11, <2>2, ZenonT(60)
<1>13. ASSUME NEW i \in DOMAIN q, q[i].week <= anchor  PROVE i \in DOMAIN p /\ p[i] = q[i]
  <2>1. g[i] <= anchor
    BY <1>10, <1>13
  <2>2. i \in DOMAIN f /\ f[i] = g[i]
    BY <1>2, <1>3, <1>4, <1>71, <1>8, <1>10, <2>1, SameUpTo
  <2> QED  BY <1>3, <1>5, <1>9, <1>10, <1>11, <2>2, ZenonT(60)
<1> QED  BY <1>12, <1>13 DEF SameValues

MaskedIn(ws, usable) ==
  [dubai  |-> IF usable.dubai THEN IndicatorIn(ws, "dubai") ELSE <<>>,
   usdKrw |-> IF usable.usdKrw THEN IndicatorIn(ws, "usdKrw") ELSE <<>>]

LEMMA MaskedNow == \A usable : Masked(usable) = MaskedIn(weeks, usable)
BY IndicatorNow DEF Masked, MaskedIn

LEMMA MaskedInIsInputs ==
  ASSUME NEW ws \in Seq(WeekType), NEW usable
  PROVE  IsInputs(MaskedIn(ws, usable))
<1>1. IsValues(IndicatorIn(ws, "dubai")) /\ IsValues(IndicatorIn(ws, "usdKrw"))
  BY IndicatorIsValues
<1>2. PICK m : m = MaskedIn(ws, usable)
  OBVIOUS
<1>3. /\ m.dubai = IndicatorIn(ws, "dubai") \/ m.dubai = <<>>
      /\ m.usdKrw = IndicatorIn(ws, "usdKrw") \/ m.usdKrw = <<>>
  BY <1>2 DEF MaskedIn
<1> QED  BY <1>1, <1>2, <1>3, NoValues DEF IsInputs

SameInputs(x, y, anchor) ==
  /\ SameValues(x.dubai, y.dubai, anchor) /\ SameValues(y.dubai, x.dubai, anchor)
  /\ SameValues(x.usdKrw, y.usdKrw, anchor) /\ SameValues(y.usdKrw, x.usdKrw, anchor)

LEMMA SameMasked ==
  ASSUME NEW old \in Seq(WeekType), NEW new \in Seq(WeekType), Grows(old, new), NEW usable,
         NEW anchor \in DOMAIN old
  PROVE  SameInputs(MaskedIn(old, usable), MaskedIn(new, usable), anchor)
<1>1. \A code \in {"dubai", "usdKrw"} :
        /\ SameValues(IndicatorIn(old, code), IndicatorIn(new, code), anchor)
        /\ SameValues(IndicatorIn(new, code), IndicatorIn(old, code), anchor)
  BY SameIndicators
<1>2. SameValues(<<>>, <<>>, anchor)
  BY DEF SameValues
<1>3. PICK x, y : x = MaskedIn(old, usable) /\ y = MaskedIn(new, usable)
  OBVIOUS
<1>4. (x.dubai = IndicatorIn(old, "dubai") /\ y.dubai = IndicatorIn(new, "dubai")) \/ (x.dubai = <<>> /\ y.dubai = <<>>)
  BY <1>3 DEF MaskedIn
<1>5. (x.usdKrw = IndicatorIn(old, "usdKrw") /\ y.usdKrw = IndicatorIn(new, "usdKrw")) \/ (x.usdKrw = <<>> /\ y.usdKrw = <<>>)
  BY <1>3 DEF MaskedIn
<1> QED  BY <1>1, <1>2, <1>3, <1>4, <1>5 DEF SameInputs

\* A forecast depends on what is known at its anchor.
LEMMA SamePrice ==
  ASSUME NEW s, IsPrices(s), Len(s) > 0, NEW x, IsInputs(x), NEW y, IsInputs(y), NEW p \in SettingType,
         SameInputs(x, y, Last(s).week), NEW h
  PROVE  PriceAfter(s, x, p, h) = PriceAfter(s, y, p, h)
<1>1. PICK a : a = Last(s).week
  OBVIOUS
<1>2. a \in Nat
  <2>1. Len(s) \in DOMAIN s /\ s[Len(s)].week \in Nat
    BY PricesAreTyped
  <2> QED  BY <1>1, <2>1 DEF Last
<1>3. p.dubai \in UseType /\ p.usdKrw \in UseType
  BY DEF SettingType
<1>4. IsValues(x.dubai) /\ IsValues(y.dubai) /\ IsValues(x.usdKrw) /\ IsValues(y.usdKrw)
  BY DEF IsInputs
<1>5. Contribution(x.dubai, p.dubai, a) = Contribution(y.dubai, p.dubai, a)
  <2>1. SameValues(x.dubai, y.dubai, a) /\ SameValues(y.dubai, x.dubai, a)
    BY <1>1 DEF SameInputs
  <2> QED  BY <1>2, <1>3, <1>4, <2>1, ContributesLikewise
<1>6. Contribution(x.usdKrw, p.usdKrw, a) = Contribution(y.usdKrw, p.usdKrw, a)
  <2>1. SameValues(x.usdKrw, y.usdKrw, a) /\ SameValues(y.usdKrw, x.usdKrw, a)
    BY <1>1 DEF SameInputs
  <2> QED  BY <1>2, <1>3, <1>4, <2>1, ContributesLikewise
<1> QED  BY <1>1, <1>5, <1>6 DEF PriceAfter

LEMMA SameLength ==
  ASSUME NEW x \in Nat, NEW y \in Nat, 1..x = 1..y
  PROVE  x = y
  OBVIOUS

\* A series up to a week is the series there was then, if no week has come in
\* between since.
LEMMA SeriesUpTo ==
  ASSUME NEW old \in Seq(WeekType), NEW new \in Seq(WeekType), Grows(old, new),
         NEW s, s = SeriesIn(old), Len(s) > 0, NEW t, t = SeriesIn(new),
         AgreeUpTo(CompleteIn(new), CompleteIn(old), Last(s).week),
         NEW n \in DOMAIN t, t[n].week = Last(s).week
  PROVE  SubSeq(t, 1, n) = s
<1>1. PICK C, D : C = CompleteIn(old) /\ D = CompleteIn(new)
  OBVIOUS
<1>2. C \in SUBSET Nat /\ IsFiniteSet(C) /\ D \in SUBSET Nat /\ IsFiniteSet(D)
  BY <1>1, CompleteIsFinite
<1>3. PICK f, g : f = Ascending(C) /\ g = Ascending(D)
  OBVIOUS
<1>4. s = [i \in DOMAIN f |-> [week |-> f[i], price |-> MeanOf(old[f[i]].days)]]
  BY <1>1, <1>3 DEF SeriesIn
<1>5. t = [i \in DOMAIN g |-> [week |-> g[i], price |-> MeanOf(new[g[i]].days)]]
  BY <1>1, <1>3 DEF SeriesIn
<1>6. PICK m : InOrder(f, C, m)
  BY <1>2, <1>3, AscendingIsInOrder
<1>7. PICK k : InOrder(g, D, k)
  BY <1>2, <1>3, AscendingIsInOrder
<1>8. m \in Nat /\ DOMAIN f = 1..m /\ \A i \in 1..m : f[i] \in C
  BY <1>6 DEF InOrder
<1>9. k \in Nat /\ DOMAIN g = 1..k /\ \A i \in 1..k : g[i] \in D
  BY <1>7 DEF InOrder
<1>10. IsPrices(s) /\ IsPrices(t)
  BY SeriesIsSeries, SeriesIsPrices, SMTT(60)
<1>11. Len(s) = m /\ Len(t) = k
  <2>1. DOMAIN s = 1..Len(s) /\ Len(s) \in Nat /\ DOMAIN t = 1..Len(t) /\ Len(t) \in Nat
    BY <1>10, PricesAreTyped
  <2>2. DOMAIN s = 1..m /\ DOMAIN t = 1..k
    BY <1>4, <1>5, <1>8, <1>9
  <2> QED  BY <1>8, <1>9, <2>1, <2>2, SameLength, ZenonT(60)
<1>12. PICK a : a = Last(s).week
  OBVIOUS
<1>13. a = f[m] /\ m \in 1..m /\ a \in Nat
  <2>1. m \in 1..m
    BY <1>8, <1>11
  <2>2. m \in DOMAIN f /\ f[m] \in Nat
    BY <1>2, <1>8, <2>1
  <2>3. s[m].week = f[m]
    BY <1>4, <2>2
  <2> QED  BY <1>11, <1>12, <2>1, <2>2, <2>3 DEF Last
<1>14. AgreeUpTo(D, C, a) /\ AgreeUpTo(C, D, a)
  BY <1>1, <1>12 DEF AgreeUpTo
<1>15. n \in DOMAIN g /\ g[n] = a
  BY <1>5, <1>12
<1>16. n \in DOMAIN f /\ f[n] = a
  BY <1>2, <1>3, <1>13, <1>14, <1>15, SameUpTo
<1>17. n = m
  <2>1. n \in 1..m /\ f[n] = f[m]
    BY <1>8, <1>13, <1>16
  <2>2. n < m => f[n] < f[m]
    BY <1>6, <1>13, <2>1 DEF InOrder
  <2> QED  BY <1>8, <1>13, <2>1, <2>2
<1>18. ASSUME NEW i \in 1..m  PROVE t[i] = s[i]
  <2>1. f[i] <= a
    <3>1. i = m \/ i < m
      BY <1>8
    <3>2. i < m => f[i] < f[m]
      BY <1>6, <1>13 DEF InOrder
    <3>3. f[i] \in Nat /\ f[m] \in Nat
      BY <1>2, <1>8, <1>13
    <3> QED  BY <1>13, <3>1, <3>2, <3>3
  <2>2. i \in DOMAIN g /\ g[i] = f[i]
    <3>1. i \in DOMAIN f
      BY <1>8
    <3>2. i \in DOMAIN Ascending(C) /\ Ascending(C)[i] <= a
      BY <1>3, <2>1, <3>1
    <3>3. i \in DOMAIN Ascending(D) /\ Ascending(D)[i] = Ascending(C)[i]
      BY <1>2, <1>13, <1>14, <3>2, SameUpTo, SMTT(60)
    <3> QED  BY <1>3, <3>3
  <2>3. new[f[i]].days = old[f[i]].days
    BY <1>1, <1>8 DEF Grows
  <2> QED  BY <1>4, <1>5, <1>8, <2>2, <2>3
<1>19. n \in 0..Len(t)
  BY <1>9, <1>11, <1>15
<1>20. /\ IsPrices(SubSeq(t, 1, n)) /\ Len(SubSeq(t, 1, n)) = n
       /\ \A i \in 1..n : SubSeq(t, 1, n)[i] = t[i]
  BY <1>10, <1>19, FirstPrices
<1>21. \A i \in 1..n : SubSeq(t, 1, n)[i] = s[i]
  BY <1>17, <1>18, <1>20
<1> QED  BY <1>10, <1>11, <1>17, <1>20, <1>21, SeqEqual DEF IsPrices

\* The ranges of a run, calibrated on the backtest of its setting.
RangesFrom(run, ws) ==
  IssuedWith(run.anchor, run.points,
             KnownAt(Backtest(SeriesIn(ws), MaskedIn(ws, run.usable), run.setting, Horizons), run.anchor))

\* What a run has issued, from the weeks it saw.
IssuedFrom(run, ws) ==
  /\ ws \in Seq(WeekType) /\ run.setting \in SettingType
  /\ run.points = WeeklyForecast(SeriesIn(ws), MaskedIn(ws, run.usable), run.setting, Horizons)
  /\ IssuesItsRanges(run, RangesFrom(run, ws)) /\ run.complete = CompleteIn(ws)
  /\ Len(SeriesIn(ws)) > 0 /\ run.anchor = Last(SeriesIn(ws)).week

\* The weeks grew from those a run saw.
Saw(run, ws) == \E old : IssuedFrom(run, old) /\ Grows(old, ws)

ReplayInv == \A i \in DOMAIN runs : Saw(runs[i], weeks)

LEMMA SeesFurther ==
  ASSUME NEW run, NEW ws, NEW more, Saw(run, ws), Grows(ws, more)
  PROVE  Saw(run, more)
BY GrowsFurther DEF Saw

LEMMA CompleteOfSeries ==
  ASSUME NEW ws, NEW s, IsSeries(s, ws)
  PROVE  {s[i].week : i \in DOMAIN s} = CompleteIn(ws)
BY DEF IsSeries

\* The run that is added saw the weeks as they are.
LEMMA RunSawWeeks ==
  ASSUME weeks \in Seq(WeekType), NEW effective, Sound(effective), NEW since, RunPipeline(effective, since),
         \E S : runs \in Seq(S)
  PROVE  /\ weeks' = weeks
         /\ Len(runs) \in Nat /\ DOMAIN runs = 1..Len(runs) /\ DOMAIN runs' = 1..(Len(runs) + 1)
         /\ \A i \in DOMAIN runs : runs'[i] = runs[i]
         /\ Saw(runs'[Len(runs) + 1], weeks)
<1>1. PICK cooled, selection, points, issued, recorded :
        /\ weeks' = weeks /\ Len(Series) >= MinActuals
        /\ selection = Selection(Series, Masked(Usable), effective, Horizons, cooled)
        /\ Recording(selection, points, issued, recorded)
        /\ Keeping(selection, points, issued, recorded)
  BY RunRecords
<1>2. Sound(selection.setting)
  BY <1>1, SelectionOfRun
<1>3. PICK run :
        /\ run.anchor = Last(Series).week /\ run.setting = selection.setting /\ run.points = points
        /\ run.usable = Usable /\ run.complete = {Series[i].week : i \in DOMAIN Series}
        /\ IssuesItsRanges(run, issued)
        /\ Len(runs) \in Nat /\ DOMAIN runs = 1..Len(runs) /\ DOMAIN runs' = 1..(Len(runs) + 1)
        /\ \A i \in DOMAIN runs : runs'[i] = runs[i]
        /\ runs'[Len(runs) + 1] = run
  BY <1>1, RunAppends
<1>4. Series = SeriesIn(weeks) /\ Masked(run.usable) = MaskedIn(weeks, run.usable)
  BY SeriesNow, MaskedNow
<1>5. IsSeries(Series, weeks) /\ Len(Series) > 0
  BY <1>1, SeriesFacts
<1>6. run.complete = CompleteIn(weeks)
  BY <1>3, <1>5, CompleteOfSeries
<1>7. run.points = WeeklyForecast(SeriesIn(weeks), MaskedIn(weeks, run.usable), run.setting, Horizons)
  BY <1>1, <1>3, <1>4 DEF Recording
<1>8. run.setting \in SettingType
  BY <1>2, <1>3 DEF Sound, Operable
<1>81. IssuesItsRanges(run, RangesFrom(run, weeks))
  <2>1. IsPrices(Series) /\ IsInputs(Masked(Usable)) /\ Horizons \in Nat
    BY SeriesIsSorted, SeriesIsPrices, MaskedIsInputs, RunsAssumption
  <2>2. selection.backtest = Measured(Series, Backtest(Series, Masked(Usable), selection.setting, Horizons))
    BY <1>1, <2>1, SelectionIsOwn
  <2>3. selection.backtest.points = Backtest(Series, Masked(Usable), selection.setting, Horizons)
    BY <2>2 DEF Measured, Windowed
  <2>4. selection.backtest.points = Backtest(SeriesIn(weeks), MaskedIn(weeks, run.usable), run.setting, Horizons)
    BY <1>3, <1>4, <2>3
  <2>5. issued = RangesFrom(run, weeks)
    BY <1>1, <1>3, <2>4 DEF Recording, Issued, RangesFrom
  <2> QED  BY <1>3, <2>5
<1>9. IssuedFrom(run, weeks)
  BY <1>3, <1>4, <1>5, <1>6, <1>7, <1>8, <1>81 DEF IssuedFrom
<1>10. Grows(weeks, weeks)
  BY GrowsNot
<1> QED  BY <1>1, <1>3, <1>9, <1>10 DEF Saw

LEMMA ReplayStep ==
  ASSUME weeks \in Seq(WeekType), StoredInv, SettingsInv, ReplayInv, [Next]_vars
  PROVE  ReplayInv'
<1>1. Grows(weeks, weeks')
  BY GrowsWithEveryStep
<1>2. \A i \in DOMAIN runs : Saw(runs[i], weeks')
  BY <1>1, SeesFurther DEF ReplayInv
<1>3. CASE UNCHANGED runs
  BY <1>2, <1>3 DEF ReplayInv
<1>4. CASE \E effective, since : Sound(effective) /\ RunPipeline(effective, since)
  <2>1. /\ weeks' = weeks
        /\ Len(runs) \in Nat /\ DOMAIN runs = 1..Len(runs) /\ DOMAIN runs' = 1..(Len(runs) + 1)
        /\ \A i \in DOMAIN runs : runs'[i] = runs[i]
        /\ Saw(runs'[Len(runs) + 1], weeks)
    BY <1>4, RunSawWeeks DEF StoredInv
  <2>2. ASSUME NEW i \in DOMAIN runs'  PROVE Saw(runs'[i], weeks')
    <3>1. i \in DOMAIN runs \/ i = Len(runs) + 1
      BY <2>1
    <3> QED  BY <1>2, <2>1, <3>1
  <2> QED  BY <2>2 DEF ReplayInv
<1> QED  BY <1>3, <1>4, EffectiveIsSound DEF vars

LEMMA ReplayHolds == Spec => []ReplayInv
<1>1. Init => ReplayInv
  BY DEF Init, ReplayInv
<1>2. weeks \in Seq(WeekType) /\ StoredInv /\ SettingsInv /\ ReplayInv /\ [Next]_vars => ReplayInv'
  BY ReplayStep
<1> QED  BY <1>1, <1>2, WeeksAreTyped, StoredHolds, SettingsHold, PTL DEF Spec

\* Up to the week of an unrevised run the weeks are those it saw.
LEMMA UnrevisedAgrees ==
  ASSUME weeks \in Seq(WeekType), NEW run, Unrevised(run), NEW old, IssuedFrom(run, old), Grows(old, weeks)
  PROVE  AgreeUpTo(CompleteIn(weeks), CompleteIn(old), run.anchor)
<1>1. CompleteIn(old) \subseteq CompleteIn(weeks)
  BY GrowsIsMonotone
<1>2. {Series[i].week : i \in DOMAIN Series} = CompleteIn(weeks)
  BY SeriesIsSorted, CompleteOfSeries
<1>3. CompleteIn(old) = {week \in CompleteIn(weeks) : week <= run.anchor}
  BY <1>2 DEF Unrevised, IssuedFrom
<1> QED  BY <1>1, <1>3 DEF AgreeUpTo

\* What a run issued, a backtest at its week forecasts again.
LEMMA ReplayAgrees ==
  ASSUME weeks \in Seq(WeekType), NEW run, Saw(run, weeks), Unrevised(run),
         NEW point \in Backtest(Series, Masked(run.usable), run.setting, Horizons), point.origin = run.anchor
  PROVE  point.horizon \in DOMAIN run.points /\ point.forecast = run.points[point.horizon]
<1>1. PICK old : IssuedFrom(run, old) /\ Grows(old, weeks)
  BY DEF Saw
<1>2. PICK s, t, x, y, p : /\ s = SeriesIn(old) /\ t = SeriesIn(weeks) /\ p = run.setting
                           /\ x = MaskedIn(old, run.usable) /\ y = MaskedIn(weeks, run.usable)
  OBVIOUS
<1>3. /\ old \in Seq(WeekType) /\ p \in SettingType /\ run.points = WeeklyForecast(s, x, p, Horizons)
      /\ run.complete = CompleteIn(old) /\ Len(s) > 0 /\ run.anchor = Last(s).week
  BY <1>1, <1>2 DEF IssuedFrom
<1>4. IsSeries(s, old) /\ IsSeries(t, weeks) /\ IsPrices(s) /\ IsPrices(t)
  BY <1>2, <1>3, SeriesIsSeries, SeriesIsPrices
<1>5. IsInputs(x) /\ IsInputs(y)
  BY <1>2, <1>3, MaskedInIsInputs
<1>6. Series = t /\ Masked(run.usable) = y
  BY <1>2, SeriesNow, MaskedNow
<1>7. Horizons \in Nat
  BY RunsAssumption
<1>8. point \in Backtest(t, y, p, Horizons)
  BY <1>2, <1>6
<1>9. PICK n \in 1..Len(t), h \in 1..Horizons : IsOrigin(t, p, n, h) /\ point = PointAt(t, y, p, n, h)
  BY <1>3, <1>4, <1>7, <1>8, PointOfBacktest
<1>10. point.origin = t[n].week /\ point.horizon = h /\ point.forecast = PriceAfter(SubSeq(t, 1, n), y, p, h)
  BY <1>9 DEF PointAt
<1>11. AgreeUpTo(CompleteIn(weeks), CompleteIn(old), Last(s).week)
  BY <1>1, <1>3, UnrevisedAgrees
<1>12. n \in DOMAIN t
  BY <1>4, SeriesIsTyped
<1>13. SubSeq(t, 1, n) = s
  BY <1>1, <1>2, <1>3, <1>10, <1>11, <1>12, SeriesUpTo
<1>14. Last(s).week \in DOMAIN old
  <2>1. Last(s).week \in CompleteIn(old)
    BY <1>3, <1>4, LastIsLatest
  <2> QED  BY <1>3, <2>1, CompleteIsFinite
<1>15. SameInputs(x, y, Last(s).week)
  BY <1>1, <1>2, <1>3, <1>14, SameMasked
<1>16. PriceAfter(s, x, p, h) = PriceAfter(s, y, p, h)
  BY <1>3, <1>4, <1>5, <1>15, SamePrice
<1>17. HasTrend(s, p)
  <2>1. n \in MinActuals..(Len(t) - 1) /\ n >= 2 /\ p.trend >= 2 /\ n \in 0..Len(t)
    BY <1>9 DEF IsOrigin
  <2>2. Len(SubSeq(t, 1, n)) = n
    BY <1>4, <2>1, FirstPrices
  <2> QED  BY <1>13, <2>1, <2>2 DEF HasTrend
<1>18. run.points = [k \in 1..Horizons |-> PriceAfter(s, x, p, k)]
  BY <1>3, <1>4, <1>7, <1>17, ForecastIs
<1> QED  BY <1>9, <1>10, <1>13, <1>16, <1>18, ZenonT(60)

\* A backtest replays what was issued: at the week of a stored run, with its
\* setting and its inputs, it forecasts the prices the run issued, unless a week
\* up to then has been revised.  Nothing that came later enters.
THEOREM BacktestReplaysRuns == Spec => []ReplaysIssued
<1>1. weeks \in Seq(WeekType) /\ ReplayInv => ReplaysIssued
  <2> SUFFICES ASSUME weeks \in Seq(WeekType), ReplayInv, NEW i \in DOMAIN runs,
                      Unrevised(runs[i]),
                      NEW point \in Backtest(Series, Masked(runs[i].usable), runs[i].setting, Horizons),
                      point.origin = runs[i].anchor
               PROVE  point.forecast = runs[i].points[point.horizon]
    BY DEF ReplaysIssued
  <2>1. Saw(runs[i], weeks)
    BY DEF ReplayInv
  <2> QED  BY <2>1, ReplayAgrees
<1> QED  BY <1>1, WeeksAreTyped, ReplayHolds, PTL

-----------------------------------------------------------------------------
(* Every variable keeps its type.                                          *)

\* The bounds hold.
BoundsInv == Len(weeks) <= MaxWeeks /\ promoted \in 0..MaxWeeks /\ late \in BOOLEAN

LEMMA RunBounds ==
  ASSUME NEW effective, NEW since, RunPipeline(effective, since)
  PROVE  weeks' = weeks /\ late' = late /\ promoted' \in {Len(weeks), since}
BY DEF RunPipeline

LEMMA BoundsStep ==
  ASSUME weeks \in Seq(WeekType), BoundsInv, [Next]_vars
  PROVE  BoundsInv'
<1>1. Len(weeks) \in 0..MaxWeeks /\ MaxWeeks \in Nat
  BY RunsAssumption DEF BoundsInv
<1>2. CASE EndWeek
  <2>1. Len(weeks) < MaxWeeks /\ promoted' = promoted /\ late' = late
    BY <1>2 DEF EndWeek
  <2>2. PICK shape \in WeekShapes : weeks' = Append(weeks, shape)
    BY <1>2 DEF EndWeek
  <2>3. Len(weeks') = Len(weeks) + 1
    BY <2>2, RunsAssumption
  <2> QED  BY <1>1, <2>1, <2>3 DEF BoundsInv
<1>3. CASE LateDay
  <2>1. late' = TRUE /\ promoted' = promoted
    BY <1>3 DEF LateDay
  <2>2. PICK w, new : weeks' = [weeks EXCEPT ![w] = new]
    BY <1>3 DEF LateDay
  <2>3. Len(weeks') = Len(weeks)
    <3>1. weeks' \in Seq(WeekType)
      BY WeeksStayTyped
    <3>2. DOMAIN weeks' = DOMAIN weeks
      BY <2>2
    <3> QED  BY <3>1, <3>2
  <2> QED  BY <1>1, <2>1, <2>3 DEF BoundsInv
<1>4. CASE Run
  BY <1>1, <1>4, RunBounds DEF Run, BoundsInv
<1>5. CASE RunApproved
  BY <1>1, <1>5, RunBounds DEF RunApproved, BoundsInv
<1>6. CASE UNCHANGED vars
  BY <1>6 DEF vars, BoundsInv
<1> QED  BY <1>2, <1>3, <1>4, <1>5, <1>6 DEF Next

LEMMA BoundsHold == Spec => []BoundsInv
<1>1. Init => BoundsInv
  <2> SUFFICES ASSUME Init  PROVE BoundsInv
    OBVIOUS
  <2>1. weeks \in Seq(WeekType) /\ Len(weeks) <= MaxWeeks /\ MaxWeeks \in Nat
    BY RunsAssumption DEF Init
  <2>2. Len(weeks) \in 0..MaxWeeks
    BY <2>1
  <2>3. promoted = Len(weeks) /\ late = FALSE
    BY DEF Init
  <2> QED  BY <2>1, <2>2, <2>3 DEF BoundsInv
<1>2. weeks \in Seq(WeekType) /\ BoundsInv /\ [Next]_vars => BoundsInv'
  BY BoundsStep
<1> QED  BY <1>1, <1>2, WeeksAreTyped, PTL DEF Spec

\* The settings, as the type says it.
LEMMA SettingsAreTyped ==
  ASSUME SettingsInv
  PROVE  /\ \A s \in {setting, tracked} \cup {tuned[k] : k \in DOMAIN tuned} :
              Operable(s) /\ Operable(Ablated(s, "dubai"))
         /\ Len(tuned) <= TuningLimit
         /\ tuned # <<>> <=> tracked # NoSetting
<1>1. PICK m \in 0..TuningLimit :
        /\ tuned \in [1..m -> {s \in SettingType : Sound(s)}]
        /\ m = 0 => tracked = NoSetting
        /\ m > 0 => \E k \in 1..m : tracked = tuned[k]
  BY DEF SettingsInv
<1>2. TuningLimit \in Nat /\ m \in Nat
  BY CandidatesAssumption
<1>3. \A s : Sound(s) => s # NoSetting
  BY DEF Sound, NoSetting
<1>4. Operable(NoSetting)
  BY DEF Operable, NoSetting, SettingType, UseType, Unused
<1>5. \A s \in {setting, tracked} \cup {tuned[k] : k \in DOMAIN tuned} : Operable(s)
  BY <1>1, <1>2, <1>4 DEF SettingsInv, Sound
<1>6. ASSUME NEW s, Operable(s)  PROVE Operable(Ablated(s, "dubai"))
  <2>1. Unused \in UseType
    BY DEF Unused, UseType
  <2>2. PICK a : a = [s EXCEPT !.dubai = Unused, !.usdKrw = Unused]
    OBVIOUS
  <2>3. s \in SettingType
    BY <1>6 DEF Operable
  <2>4. a \in SettingType /\ a.usdKrw = Unused
    BY <2>1, <2>2, <2>3 DEF SettingType
  <2> QED  BY <2>2, <2>4 DEF Operable, Ablated
<1>7. Len(tuned) = m /\ DOMAIN tuned = 1..m
  BY <1>1, <1>2
<1>8. tuned = <<>> <=> m = 0
  BY <1>1, <1>2, <1>7
<1>9. m > 0 => tracked # NoSetting
  BY <1>1, <1>3
<1>10. tuned # <<>> <=> tracked # NoSetting
  BY <1>1, <1>2, <1>8, <1>9
<1> QED  BY <1>2, <1>5, <1>6, <1>7, <1>10

\* What the record keeps of the issued ranges.
Kept(R) == {o \in R : Cardinality({q \in R : ByWeek(o, q)}) < RecordLimit}

\* A range of a forecast that was made at a week.
IsIssuedAt(o, A) ==
  o.origin = A /\ o.horizon \in 1..Horizons /\ o.target = A + o.horizon

IssuedOnce(issued) == \A a, b \in issued : a.horizon = b.horizon => a = b

\* A run that finds no record begins one with ranges it issues.
LEMMA RecordIs ==
  ASSUME NEW issued, NEW series
  PROVE  \E R \in SUBSET issued : RecordRanges({}, issued, series) = Kept(R)
<1>1. PICK resolved : resolved = ResolvedRanges({}, series)
  OBVIOUS
<1>2. resolved = {}
  BY <1>1 DEF ResolvedRanges
<1>3. PICK R \in SUBSET issued : R = {o \in issued : ~Listed(resolved, o) /\ ~HasWeek(series, o.target)}
  OBVIOUS
<1>4. resolved \cup R = R
  BY <1>2
<1>5. RecordRanges({}, issued, series) = Kept(resolved \cup R)
  BY <1>1, <1>3 DEF RecordRanges, LatestOf, Kept
<1> QED  BY <1>4, <1>5

\* It keeps no more than it has room for.
LEMMA RecordIsBounded ==
  ASSUME NEW R, IsFiniteSet(R), IssuedOnce(R), NEW A \in Nat, \A q \in R : IsIssuedAt(q, A)
  PROVE  Cardinality(Kept(R)) <= RecordLimit
<1> DEFINE earlier == {pair \in R \X R : ByWeek(pair[2], pair[1])}
           kept == Kept(R)
           place == [o \in kept |-> Cardinality(Below(earlier, R, o))]
<1>1. \A a, b \in R : <<a, b>> \in earlier <=> ByWeek(b, a)
  OBVIOUS
<1>2. \A o \in R : o.target \in Int /\ o.origin \in Int /\ o.horizon \in Int /\ o.origin = A /\ o.target = A + o.horizon
  BY DEF IsIssuedAt
<1> HIDE DEF earlier
<1>3. Orders(earlier, R)
  <2>1. \A a \in R : ~ByWeek(a, a)
    BY <1>2 DEF ByWeek
  <2>2. ASSUME NEW a \in R, NEW b \in R, ~ByWeek(a, b), ~ByWeek(b, a)  PROVE a = b
    <3>1. a.target = b.target
      BY <1>2, <2>2 DEF ByWeek
    <3>2. PICK h \in Int, i \in Int, t \in Int, o \in Int :
            h = a.horizon /\ i = b.horizon /\ t = o + h /\ t = o + i
      BY <1>2, <3>1
    <3>3. h = i
      BY <3>2
    <3>4. a.horizon = b.horizon
      BY <3>2, <3>3
    <3> QED  BY <3>4 DEF IssuedOnce
  <2>3. \A a, b, c \in R : ByWeek(b, a) /\ ByWeek(c, b) => ByWeek(c, a)
    BY <1>2 DEF ByWeek
  <2> QED  BY <1>1, <2>1, <2>2, <2>3 DEF Orders
<1>4. \A o \in R : Below(earlier, R, o) = {q \in R : ByWeek(o, q)}
  BY <1>1 DEF Below
<1>5. PICK n \in Nat \ {0} : n = RecordLimit
  BY RecordsAssumption
<1>6. \A o \in R : Cardinality(Below(earlier, R, o)) \in Nat
  <2> SUFFICES ASSUME NEW o \in R  PROVE Cardinality(Below(earlier, R, o)) \in Nat
    OBVIOUS
  <2>1. Cardinality(Below(earlier, R, o)) \in 0..(Cardinality(R) - 1)
    BY <1>3, BelowIsLess
  <2> QED  BY <2>1
<1>7. \A o \in kept : o \in R /\ Cardinality(Below(earlier, R, o)) \in 0..(n - 1)
  <2> SUFFICES ASSUME NEW o \in Kept(R)
               PROVE  o \in R /\ Cardinality(Below(earlier, R, o)) \in 0..(n - 1)
    OBVIOUS
  <2>1. o \in R /\ Cardinality({q \in R : ByWeek(o, q)}) < n
    BY <1>5 DEF Kept
  <2>2. Cardinality(Below(earlier, R, o)) < n
    BY <1>4, <2>1
  <2>3. Cardinality(Below(earlier, R, o)) \in Nat
    BY <1>6, <2>1
  <2> QED  BY <2>1, <2>2, <2>3
<1> HIDE DEF kept
<1>8. place \in [kept -> 0..(n - 1)]
  BY <1>7
<1>9. ASSUME NEW a \in kept, NEW b \in kept, place[a] = place[b]  PROVE a = b
  <2>1. Cardinality(Below(earlier, R, a)) = Cardinality(Below(earlier, R, b))
    BY <1>9
  <2>2. a \in R /\ b \in R /\ Cardinality(Below(earlier, R, a)) \in Nat
    BY <1>6, <1>7
  <2>3. CASE <<a, b>> \in earlier
    <3>1. Cardinality(Below(earlier, R, a)) < Cardinality(Below(earlier, R, b))
      BY <1>3, <2>2, <2>3, BelowGrows
    <3> QED  BY <2>1, <2>2, <3>1
  <2>4. CASE <<b, a>> \in earlier
    <3>1. Cardinality(Below(earlier, R, b)) < Cardinality(Below(earlier, R, a))
      BY <1>3, <2>2, <2>4, BelowGrows
    <3> QED  BY <2>1, <2>2, <3>1
  <2> QED  BY <1>3, <2>2, <2>3, <2>4 DEF Orders
<1> HIDE DEF place
<1>10. place \in Injection(kept, 0..(n - 1))
  BY <1>8, <1>9 DEF Injection, IsInjective
<1>11. IsFiniteSet(0..(n - 1)) /\ Cardinality(0..(n - 1)) = n
  BY <1>5, FS_Interval
<1>12. Cardinality(kept) <= n
  BY <1>10, <1>11, FS_Injection
<1> QED  BY <1>5, <1>12 DEF kept

\* The ranges of a forecast are of its week, of a horizon each, and none ends
\* before it begins.
LEMMA IssuedIsRange ==
  ASSUME NEW anchor, NEW points, NEW backtest, NEW a \in Issued(anchor, points, backtest)
  PROVE  a.origin = anchor /\ a.horizon \in DOMAIN points /\ a.target = anchor + a.horizon
BY DEF Issued, IssuedWith

LEMMA IssuedAreDistinct ==
  ASSUME NEW anchor, NEW points, NEW backtest
  PROVE  IssuedOnce(Issued(anchor, points, backtest))
<1> DEFINE range(h) == PriceRange(points[h], Calibration(KnownAt(backtest.points, anchor), ByTarget, h))
<1>1. \A a \in Issued(anchor, points, backtest) :
        a = [horizon |-> a.horizon, origin |-> anchor, target |-> anchor + a.horizon,
             range |-> range(a.horizon), actual |-> NotYet, hit |-> FALSE]
  BY DEF Issued, IssuedWith
<1> HIDE DEF range
<1> QED  BY <1>1 DEF IssuedOnce

LEMMA IssuedAreTyped ==
  ASSUME NEW anchor, NEW points, \A h \in DOMAIN points : h \in 1..Horizons /\ points[h] \in Int,
         NEW backtest, backtest.points \in SUBSET PointType, IsFiniteSet(backtest.points),
         NEW issued, issued = Issued(anchor, points, backtest)
  PROVE  IsFiniteSet(issued) /\ \A o \in issued : o.range[1] <= o.range[2]
<1>1. PICK known : known = KnownAt(backtest.points, anchor)
  OBVIOUS
<1>2. known \in SUBSET PointType /\ IsFiniteSet(known)
  BY <1>1, FS_Subset DEF KnownAt
<1>3. ASSUME NEW o \in issued  PROVE o.range[1] <= o.range[2]
  <2>1. PICK h \in DOMAIN points :
          /\ o.range = PriceRange(points[h], Calibration(known, ByTarget, h)) /\ o.range # <<>>
    BY <1>1 DEF Issued, IssuedWith
  <2>2. PICK calibration \in SUBSET known : calibration = Calibration(known, ByTarget, h)
    BY CalibrationIsKnown
  <2>3. points[h] \in Int /\ o.range = PriceRange(points[h], calibration)
    BY <2>1, <2>2
  <2> QED  BY <1>2, <2>1, <2>3, RangeIsRange
<1>4. PICK place : place = [o \in issued |-> o.horizon]
  OBVIOUS
<1>5. place \in [issued -> 1..Horizons]
  <2>1. \A o \in issued : o.horizon \in 1..Horizons
    BY IssuedIsRange
  <2> QED  BY <1>4, <2>1
<1>6. \A a, b \in issued : place[a] = place[b] => a = b
  BY <1>4, IssuedAreDistinct DEF IssuedOnce
<1>7. place \in Injection(issued, 1..Horizons)
  BY <1>5, <1>6 DEF Injection, IsInjective
<1>8. IsFiniteSet(1..Horizons)
  BY RunsAssumption, FS_Interval
<1>9. IsFiniteSet(issued)
  BY <1>7, <1>8, FS_Injection
<1> QED  BY <1>3, <1>9

\* The latest week of a one-step backtest is that of its series.
LEMMA LatestTarget ==
  ASSUME NEW s, IsPrices(s), NEW x, IsInputs(x), NEW p \in SettingType, NEW k \in Nat, k > 0,
         NEW one, one = OneStep(Backtest(s, x, p, k)), one # {}
  PROVE  Len(s) > 0 /\ Max({q.target : q \in one}) = Last(s).week
<1>1. PICK B : B = Backtest(s, x, p, k)
  OBVIOUS
<1>2. B \in SUBSET PointType /\ IsFiniteSet(B)
  BY <1>1, BacktestIsTyped
<1>3. one \in SUBSET B /\ \A q \in one : q.horizon = 1
  BY <1>1 DEF OneStep
<1>4. IsFiniteSet(one) /\ one \in SUBSET PointType
  BY <1>2, <1>3, FS_Subset
<1>5. /\ Len(s) \in Nat /\ DOMAIN s = 1..Len(s)
      /\ \A i \in DOMAIN s : s[i].week \in Nat
      /\ \A i, j \in DOMAIN s : i < j => s[i].week < s[j].week
  BY PricesAreTyped
<1>6. ASSUME NEW q \in one
      PROVE  \E n \in 1..Len(s) : IsOrigin(s, p, n, 1) /\ q.target = s[n + 1].week /\ n + 1 \in DOMAIN s
  <2>1. q \in Backtest(s, x, p, k)
    BY <1>1, <1>3
  <2>2. PICK n \in 1..Len(s), h \in 1..k : IsOrigin(s, p, n, h) /\ q = PointAt(s, x, p, n, h)
    BY <2>1, PointOfBacktest
  <2>3. q.horizon = h /\ q.target = s[n + h].week
    BY <2>2 DEF PointAt
  <2>4. h = 1
    BY <1>3, <2>3
  <2>5. n + 1 \in DOMAIN s
    BY <1>5, <2>2, <2>4 DEF IsOrigin
  <2> QED  BY <2>2, <2>3, <2>4, <2>5
<1>7. PICK q \in one : TRUE
  OBVIOUS
<1>8. PICK n \in 1..Len(s) : IsOrigin(s, p, n, 1) /\ n + 1 \in DOMAIN s
  BY <1>6, <1>7
<1>9. Len(s) > 0 /\ IsOrigin(s, p, Len(s) - 1, 1) /\ Len(s) - 1 \in 1..Len(s) /\ Len(s) \in DOMAIN s
  <2>1. MinActuals \in Nat \ {0}
    BY WalkForwardAssumption
  <2> QED  BY <1>5, <1>8, <2>1 DEF IsOrigin
<1>10. PICK last : last = PointAt(s, x, p, Len(s) - 1, 1)
  OBVIOUS
<1>11. last.horizon = 1 /\ last.target = s[Len(s)].week
  BY <1>5, <1>10 DEF PointAt
<1>12. last \in one
  <2>1. last \in Backtest(s, x, p, k)
    <3>1. 1 \in 1..k
      OBVIOUS
    <3> QED  BY <1>9, <1>10, <3>1, BacktestIs
  <2> QED  BY <1>11, <2>1 DEF OneStep
<1>13. \A i \in DOMAIN s : s[i].week <= s[Len(s)].week
  BY <1>5, <1>9
<1>14. PICK T : T = {r.target : r \in one}
  OBVIOUS
<1>15. s[Len(s)].week \in T /\ \A t \in T : t \in Nat /\ t <= s[Len(s)].week
  BY <1>4, <1>6, <1>11, <1>12, <1>13, <1>14, ZenonT(60) DEF PointType
<1>16. Max(T) = s[Len(s)].week
  <2>1. PICK w \in Nat : w = s[Len(s)].week
    BY <1>5, <1>9
  <2>2. Max(T) \in T /\ \A t \in T : t <= Max(T)
    BY <1>15, <2>1 DEF Max
  <2> QED  BY <1>15, <2>1, <2>2
<1> QED  BY <1>9, <1>14, <1>16 DEF Last

\* What the early warning says, by its week.
DriftType(lastWeek) ==
  [status : {"none", "undecided", "stable", "watch", "alert"}, count : Nat, week : 0..lastWeek]

LEMMA DriftIsTyped ==
  ASSUME NEW previous, previous.count \in Nat, NEW one, NEW n \in Nat,
         one # {} => Max({q.target : q \in one}) \in 0..n
  PROVE  Drift(previous, one) \in DriftType(n)
<1>1. PICK week \in 0..n : week = IF one = {} THEN 0 ELSE Max({p.target : p \in one})
  <2>1. CASE one = {}
    <3>1. 0 \in 0..n
      OBVIOUS
    <3> QED  BY <2>1, <3>1
  <2>2. CASE one # {}
    BY <2>2
  <2> QED  BY <2>1, <2>2
<1>2. PICK count \in Nat : count = previous.count + (IF week # previous.week \/ previous = NoDrift THEN 1 ELSE 0)
  OBVIOUS
<1>3. PICK drift : drift = Drift(previous, one)
  OBVIOUS
<1>4. \/ drift = [status |-> "undecided", count |-> 0, week |-> week]
      \/ drift = [status |-> "stable", count |-> 0, week |-> week]
      \/ drift = [status |-> "alert", count |-> count, week |-> week]
      \/ drift = [status |-> "watch", count |-> count, week |-> week]
  BY <1>1, <1>2, <1>3 DEF Drift
<1> QED  BY <1>3, <1>4 DEF DriftType

\* The record is small, its ranges are ranges, and the early warning is of a week.
AreTyped(found) ==
  /\ Cardinality(found.ranges) <= RecordLimit
  /\ \A o \in found.ranges :
       o.horizon \in 1..Horizons /\ o.target = o.origin + o.horizon /\ o.range[1] <= o.range[2]
  /\ found.drift \in DriftType(MaxWeeks)

RecordsInv == AreTyped(records)

LEMMA NoRecordsAreTyped == AreTyped(NoRecords)
<1>1. Cardinality({}) = 0
  BY FS_EmptySet
<1>2. RecordLimit \in Nat /\ MaxWeeks \in Nat
  BY RecordsAssumption, RunsAssumption
<1>3. NoDrift \in DriftType(MaxWeeks)
  BY <1>2 DEF NoDrift, DriftType
<1>4. NoRecords.ranges = {} /\ NoRecords.drift = NoDrift
  BY DEF NoRecords
<1> QED  BY <1>1, <1>2, <1>3, <1>4 DEF AreTyped

\* What a run finds out.
LEMMA RecordsFollow ==
  ASSUME weeks \in Seq(WeekType), BoundsInv, StoredInv, Len(Series) >= MinActuals,
         NEW selection, Sound(selection.setting), NEW p \in SettingType,
         selection.backtest = Measured(Series, Backtest(Series, Masked(Usable), p, Horizons)),
         NEW points, NEW issued, NEW recorded, Recording(selection, points, issued, recorded)
  PROVE  AreTyped(recorded)
<1>1. /\ IsPrices(Series) /\ IsInputs(Masked(Usable)) /\ Horizons \in Nat /\ Horizons > 0
  BY SeriesIsSorted, SeriesIsPrices, MaskedIsInputs, RunsAssumption
<1>2. \A h \in DOMAIN points : h \in 1..Horizons /\ points[h] \in Int
  <2>1. points = WeeklyForecast(Series, Masked(Usable), selection.setting, Horizons)
    BY DEF Recording
  <2>2. selection.setting \in SettingType
    BY DEF Sound, Operable
  <2>3. points = <<>> \/ points \in [1..Horizons -> Nat]
    BY <1>1, <2>1, <2>2, ForecastIsPrices
  <2>4. CASE points = <<>>
    BY <2>4
  <2>5. CASE points \in [1..Horizons -> Nat]
    BY <2>5
  <2> QED  BY <2>3, <2>4, <2>5
<1>3. PICK backtest : backtest = selection.backtest
  OBVIOUS
<1>4. IsBacktest(backtest)
  BY <1>1, <1>3, MeasuredIsBacktest
<1>5. backtest.points \in SUBSET PointType /\ IsFiniteSet(backtest.points)
  BY <1>4 DEF IsBacktest, BacktestType
<1>6. issued = Issued(Last(Series).week, points, backtest)
  BY <1>3 DEF Recording
<1>7. IsFiniteSet(issued) /\ \A o \in issued : o.range[1] <= o.range[2]
  BY <1>2, <1>5, <1>6, IssuedAreTyped
<1>8. PICK A \in Nat : A = Last(Series).week /\ A \in CompleteIn(weeks)
  BY SeriesFacts
<1>9. \A q \in issued : IsIssuedAt(q, A)
  BY <1>2, <1>6, <1>8, IssuedIsRange DEF IsIssuedAt
<1>10. IssuedOnce(issued)
  BY <1>6, IssuedAreDistinct
<1>11. PICK R \in SUBSET issued : recorded.ranges = Kept(R)
  <2>1. recorded.ranges = RecordRanges(Found.ranges, issued, Series)
    BY DEF Recording, Recorded
  <2>2. Found.ranges = {}
    BY NothingIsFound DEF NoRecords
  <2> QED  BY <2>1, <2>2, RecordIs
<1>12. Cardinality(recorded.ranges) <= RecordLimit
  <2>1. IsFiniteSet(R) /\ IssuedOnce(R) /\ \A q \in R : IsIssuedAt(q, A)
    BY <1>7, <1>9, <1>10, FS_Subset DEF IssuedOnce
  <2> QED  BY <1>11, <2>1, RecordIsBounded
<1>13. \A o \in recorded.ranges :
         o.horizon \in 1..Horizons /\ o.target = o.origin + o.horizon /\ o.range[1] <= o.range[2]
  <2>1. \A o \in recorded.ranges : o \in issued
    BY <1>11 DEF Kept
  <2> QED  BY <1>7, <1>9, <2>1 DEF IsIssuedAt
<1>14. recorded.drift \in DriftType(MaxWeeks)
  <2>1. PICK previous, one :
          previous = Found.drift /\ one = backtest.one /\ recorded.drift = Drift(previous, one)
    BY <1>3 DEF Recording, Recorded
  <2>2. backtest.one = OneStep(Backtest(Series, Masked(Usable), p, Horizons))
    BY <1>3 DEF Measured, Windowed
  <2>3. backtest.one # {} => Max({q.target : q \in backtest.one}) = A
    BY <1>1, <1>8, <2>2, LatestTarget
  <2>4. A \in 0..MaxWeeks
    BY <1>8, RunsAssumption DEF BoundsInv, CompleteIn
  <2>5. previous.count \in Nat /\ MaxWeeks \in Nat
    BY <2>1, NothingIsFound, RunsAssumption DEF NoRecords, NoDrift
  <2>6. one # {} => Max({q.target : q \in one}) \in 0..MaxWeeks
    BY <2>1, <2>3, <2>4, Zenon
  <2>7. Drift(previous, one) \in DriftType(MaxWeeks)
    BY <2>5, <2>6, DriftIsTyped, Zenon
  <2> QED  BY <2>1, <2>7
<1> QED  BY <1>12, <1>13, <1>14 DEF AreTyped

LEMMA RecordsStep ==
  ASSUME weeks \in Seq(WeekType), BoundsInv, SettingsInv, StoredInv, RecordsInv, [Next]_vars
  PROVE  RecordsInv'
<1>1. CASE UNCHANGED records
  BY <1>1 DEF RecordsInv
<1>2. CASE \E effective, since : Sound(effective) /\ RunPipeline(effective, since)
  <2>1. PICK effective, since : Sound(effective) /\ RunPipeline(effective, since)
    BY <1>2
  <2>2. PICK cooled, selection, points, issued, recorded :
          /\ Len(Series) >= MinActuals
          /\ selection = Selection(Series, Masked(Usable), effective, Horizons, cooled)
          /\ Recording(selection, points, issued, recorded) /\ Keeping(selection, points, issued, recorded)
    BY <2>1, RunRecords
  <2>3. Sound(selection.setting)
    BY <2>1, <2>2, SelectionOfRun
  <2>4. PICK p \in SettingType : selection.backtest = Measured(Series, Backtest(Series, Masked(Usable), p, Horizons))
    BY <2>1, <2>2, SelectionOfRun
  <2>5. AreTyped(recorded)
    BY <2>2, <2>3, <2>4, RecordsFollow
  <2>6. records' = recorded
    BY <2>2 DEF Keeping
  <2> QED  BY <2>5, <2>6 DEF RecordsInv
<1> QED  BY <1>1, <1>2, EffectiveIsSound DEF vars

LEMMA RecordsHold == Spec => []RecordsInv
<1>1. Init => RecordsInv
  BY NoRecordsAreTyped DEF Init, RecordsInv
<1>2. weeks \in Seq(WeekType) /\ BoundsInv /\ SettingsInv /\ StoredInv /\ RecordsInv /\ [Next]_vars => RecordsInv'
  BY RecordsStep
<1> QED  BY <1>1, <1>2, WeeksAreTyped, BoundsHold, SettingsHold, StoredHolds, PTL DEF Spec

LEMMA TypesFollow ==
  ASSUME weeks \in Seq(WeekType), BoundsInv, SettingsInv, RecordsInv
  PROVE  ForecastTypeOK
<1>1. /\ Len(weeks) <= MaxWeeks /\ promoted \in 0..MaxWeeks /\ late \in BOOLEAN
  BY DEF BoundsInv
<1>2. /\ Cardinality(records.ranges) <= RecordLimit
      /\ \A o \in records.ranges :
           o.horizon \in 1..Horizons /\ o.target = o.origin + o.horizon /\ o.range[1] <= o.range[2]
      /\ records.drift \in [status : {"none", "undecided", "stable", "watch", "alert"}, count : Nat, week : 0..MaxWeeks]
  BY DEF RecordsInv, AreTyped, DriftType
<1> QED  BY <1>1, <1>2, SettingsAreTyped DEF ForecastTypeOK

\* Every variable keeps its type: whatever is operated, tuned or compared is
\* operable, the record has no more ranges than it has room for, and no range
\* ends before it begins.
THEOREM ForecastTypesHold == Spec => []ForecastTypeOK
<1>1. weeks \in Seq(WeekType) /\ BoundsInv /\ SettingsInv /\ RecordsInv => ForecastTypeOK
  BY TypesFollow
<1> QED  BY <1>1, WeeksAreTyped, BoundsHold, SettingsHold, RecordsHold, PTL

-----------------------------------------------------------------------------
(* What is said of an earlier week stands.                                 *)

\* Points of weeks that follow each other.
Dated(s) ==
  /\ Len(s) \in Nat /\ DOMAIN s = 1..Len(s)
  /\ \A i \in DOMAIN s : s[i].week \in Nat
  /\ \A i, j \in DOMAIN s : i < j => s[i].week < s[j].week

\* A week comes after the first n points and before the others.
ComesAfter(week, s, n) == \A i \in DOMAIN s : i <= n <=> s[i].week <= week

\* The points up to a week are the first ones.
LEMMA UpToIsFirst ==
  ASSUME NEW s, Dated(s), NEW week \in Nat
  PROVE  \E n \in 0..Len(s) : UpTo(s, week) = SubSeq(s, 1, n) /\ ComesAfter(week, s, n)
<1>1. PICK D : D = {i \in DOMAIN s : s[i].week <= week}
  BY Zenon
<1>2. UpTo(s, week) = SubSeq(s, 1, Cardinality(D))
  BY <1>1 DEF UpTo
<1>3. PICK m \in Nat : m = Len(s) /\ DOMAIN s = 1..m
  BY Zenon DEF Dated
<1>4. D \in SUBSET (1..m) /\ D \in SUBSET Nat /\ IsFiniteSet(D)
  <2>1. D \in SUBSET (1..m)
    BY <1>1, <1>3
  <2>2. IsFiniteSet(1..m)
    BY <1>3, FS_Interval
  <2>3. IsFiniteSet(D)
    BY <2>1, <2>2, FS_Subset
  <2>4. D \in SUBSET Nat
    BY <1>3, <2>1
  <2> QED  BY <2>1, <2>3, <2>4
<1>5. CASE D = {}
  <2>1. Cardinality(D) = 0
    BY <1>5, FS_EmptySet
  <2>2. \A i \in DOMAIN s : ~(i <= 0) /\ ~(s[i].week <= week)
    BY <1>1, <1>3, <1>5
  <2>3. 0 \in 0..Len(s)
    BY <1>3
  <2> QED  BY <1>2, <2>1, <2>2, <2>3 DEF ComesAfter
<1>6. CASE D # {}
  <2>1. PICK n \in D : \A i \in D : i <= n
    BY <1>4, <1>6, FiniteGreatest
  <2>2. n \in 1..m /\ s[n].week <= week
    BY <1>1, <1>4
  <2>3. ASSUME NEW i \in DOMAIN s  PROVE i <= n <=> s[i].week <= week
    <3>1. i \in 1..m /\ s[i].week \in Nat /\ s[n].week \in Nat
      BY <1>3, <2>2 DEF Dated
    <3>2. s[i].week <= week => i <= n
      BY <1>1, <2>1
    <3>3. i < n => s[i].week < s[n].week
      BY <1>3, <2>2 DEF Dated
    <3>4. i <= n => i = n \/ i < n
      BY <2>2, <3>1
    <3> QED  BY <2>2, <3>1, <3>2, <3>3, <3>4
  <2>4. D = 1..n
    <3>1. \A i \in 1..n : i \in DOMAIN s /\ i <= n
      BY <1>3, <2>2
    <3>2. \A i \in D : i \in DOMAIN s /\ i \in 1..n
      BY <1>1, <1>3, <2>1, <2>2
    <3> QED  BY <1>1, <2>3, <3>1, <3>2
  <2>5. Cardinality(D) = n
    BY <2>2, <2>4, FS_Interval
  <2>6. n \in 0..Len(s)
    BY <1>3, <2>2
  <2> QED  BY <1>2, <2>3, <2>5, <2>6 DEF ComesAfter
<1> QED  BY <1>5, <1>6

\* The first values of an indicator are one, and up to their week they are the
\* same.
LEMMA FirstValues ==
  ASSUME NEW p, IsValues(p), NEW week \in Nat, NEW q, q = UpTo(p, week), NEW anchor \in Nat, anchor <= week
  PROVE  IsValues(q) /\ SameValues(q, p, anchor) /\ SameValues(p, q, anchor)
<1>1. Dated(p)
  BY ValuesAreTyped DEF Dated
<1>2. PICK n \in 0..Len(p) : q = SubSeq(p, 1, n) /\ ComesAfter(week, p, n)
  BY <1>1, UpToIsFirst
<1>3. p \in Seq(ValuePoint) /\ Len(p) \in Nat /\ DOMAIN p = 1..Len(p)
  BY DEF IsValues
<1>4. \A i \in 1..n : i \in DOMAIN p /\ p[i] \in ValuePoint
  BY <1>3
<1>5. q = [i \in 1..n |-> p[i]]
  BY <1>2, <1>3
<1>6. q \in Seq(ValuePoint) /\ Len(q) = n /\ DOMAIN q = 1..n /\ \A i \in 1..n : q[i] = p[i]
  BY <1>4, <1>5
<1>7. IsValues(q)
  BY <1>4, <1>6 DEF IsValues, Rising
<1>8. SameValues(q, p, anchor)
  BY <1>4, <1>6 DEF SameValues
<1>9. ASSUME NEW i \in DOMAIN p, p[i].week <= anchor  PROVE i \in DOMAIN q /\ q[i] = p[i]
  <2>1. p[i].week \in Nat
    BY <1>1 DEF Dated
  <2>2. p[i].week <= week
    BY <1>9, <2>1
  <2>3. i \in 1..n
    BY <1>2, <1>3, <2>2 DEF ComesAfter
  <2> QED  BY <1>6, <2>3
<1> QED  BY <1>7, <1>8, <1>9 DEF SameValues

\* The inputs that are known at the end of a week.
InputsUpTo(x, week) == [dubai |-> UpTo(x.dubai, week), usdKrw |-> UpTo(x.usdKrw, week)]

LEMMA FirstInputs ==
  ASSUME NEW x, IsInputs(x), NEW week \in Nat, NEW y, y = InputsUpTo(x, week), NEW anchor \in Nat, anchor <= week
  PROVE  IsInputs(y) /\ SameInputs(y, x, anchor)
<1>1. y.dubai = UpTo(x.dubai, week) /\ y.usdKrw = UpTo(x.usdKrw, week)
  BY DEF InputsUpTo
<1>2. IsValues(x.dubai) /\ IsValues(x.usdKrw)
  BY DEF IsInputs
<1> QED  BY <1>1, <1>2, FirstValues DEF IsInputs, SameInputs

\* The first weeks of a series and their first ones.
LEMMA FirstOfFirst ==
  ASSUME NEW s, IsPrices(s), NEW m \in 0..Len(s), NEW n \in 0..m
  PROVE  SubSeq(SubSeq(s, 1, m), 1, n) = SubSeq(s, 1, n)
<1>1. PICK t : t = SubSeq(s, 1, m)
  OBVIOUS
<1>2. IsPrices(t) /\ Len(t) = m /\ \A i \in 1..m : t[i] = s[i]
  BY <1>1, FirstPrices
<1>3. n \in 0..Len(t) /\ n \in 0..Len(s)
  BY <1>2, PricesAreTyped
<1>4. PICK a, b : a = SubSeq(t, 1, n) /\ b = SubSeq(s, 1, n)
  OBVIOUS
<1>5. IsPrices(a) /\ Len(a) = n /\ \A i \in 1..n : a[i] = t[i]
  BY <1>2, <1>3, <1>4, FirstPrices
<1>6. IsPrices(b) /\ Len(b) = n /\ \A i \in 1..n : b[i] = s[i]
  BY <1>3, <1>4, FirstPrices
<1>7. \A i \in 1..n : a[i] = b[i]
  BY <1>2, <1>5, <1>6
<1>8. a = b
  BY <1>5, <1>6, <1>7, SeqEqual DEF IsPrices
<1> QED  BY <1>1, <1>4, <1>8

\* What is known of prices and inputs at the end of a week: the first m points,
\* and inputs that are the same up to it.
FirstPart(t, y, s, x, week, m) ==
  m \in 0..Len(s) /\ t = SubSeq(s, 1, m) /\ ComesAfter(week, s, m) /\ IsInputs(y) /\ SameInputs(y, x, week)

LEMMA SameEarlier ==
  ASSUME NEW x, IsInputs(x), NEW y, IsInputs(y), NEW week \in Nat, SameInputs(y, x, week),
         NEW anchor \in Nat, anchor <= week
  PROVE  SameInputs(y, x, anchor)
<1>1. ASSUME NEW p, IsValues(p), NEW q, SameValues(p, q, week)  PROVE SameValues(p, q, anchor)
  <2> SUFFICES ASSUME NEW i \in DOMAIN p, p[i].week <= anchor  PROVE i \in DOMAIN q /\ q[i] = p[i]
    BY DEF SameValues
  <2>1. p[i].week \in Nat
    BY <1>1, ValuesAreTyped
  <2>2. p[i].week <= week
    BY <2>1
  <2> QED  BY <1>1, <2>2 DEF SameValues
<1>2. IsValues(x.dubai) /\ IsValues(x.usdKrw) /\ IsValues(y.dubai) /\ IsValues(y.usdKrw)
  BY DEF IsInputs
<1> QED  BY <1>1, <1>2 DEF SameInputs

\* A point of the backtest at an earlier week is one of the backtest of all weeks.
LEMMA PointStands ==
  ASSUME NEW s, IsPrices(s), NEW x, IsInputs(x), NEW p \in SettingType, NEW week \in Nat,
         NEW m, NEW t, NEW y, FirstPart(t, y, s, x, week, m), NEW n, NEW h, IsOrigin(t, p, n, h)
  PROVE  /\ IsOrigin(s, p, n, h) /\ PointAt(t, y, p, n, h) = PointAt(s, x, p, n, h)
         /\ PointAt(s, x, p, n, h).target <= week
<1>1. /\ m \in 0..Len(s) /\ t = SubSeq(s, 1, m) /\ ComesAfter(week, s, m)
      /\ IsInputs(y) /\ SameInputs(y, x, week)
  BY DEF FirstPart
<1>2. IsPrices(t) /\ Len(t) = m /\ \A i \in 1..m : t[i] = s[i] /\ i \in DOMAIN s
  BY <1>1, FirstPrices
<1>3. m \in Nat /\ Len(s) \in Nat /\ m <= Len(s)
  BY <1>1, PricesAreTyped
<1>4. MinActuals \in Nat \ {0}
  BY WalkForwardAssumption
<1>5. n \in Nat /\ h \in Nat /\ n >= 2 /\ h >= 1 /\ n + h <= m /\ n \in MinActuals..(m - 1)
  BY <1>2, <1>3, <1>4 DEF IsOrigin
<1>6. IsOrigin(s, p, n, h)
  BY <1>3, <1>4, <1>5 DEF IsOrigin
<1>7. n \in 1..m /\ n + h \in 1..m /\ n \in 0..m /\ n \in 0..Len(s)
  BY <1>3, <1>5
<1>8. PICK u : u = SubSeq(s, 1, n) /\ u = SubSeq(t, 1, n)
  BY <1>1, <1>7, FirstOfFirst
<1>9. IsPrices(u) /\ Len(u) = n /\ \A i \in 1..n : u[i] = s[i]
  BY <1>7, <1>8, FirstPrices
<1>10. Last(u).week = s[n].week /\ s[n].week \in Nat /\ s[n].week <= week
  <2>1. n \in 1..n /\ n \in DOMAIN s
    BY <1>2, <1>7
  <2>2. s[n].week \in Nat
    BY <2>1, PricesAreTyped
  <2>3. u[n] = s[n]
    BY <1>9, <2>1
  <2>4. s[n].week <= week
    BY <1>1, <1>7, <2>1 DEF ComesAfter
  <2> QED  BY <1>9, <2>2, <2>3, <2>4 DEF Last
<1>11. IsInputs(y) /\ SameInputs(y, x, Last(u).week)
  BY <1>1, <1>10, SameEarlier
<1>12. PriceAfter(u, y, p, h) = PriceAfter(u, x, p, h)
  <2>1. Len(u) > 0
    BY <1>5, <1>9
  <2> QED  BY <1>9, <1>11, <2>1, SamePrice
<1>13. t[n] = s[n] /\ t[n + h] = s[n + h] /\ n + h \in DOMAIN s
  BY <1>2, <1>7
<1>14. PointAt(t, y, p, n, h) = PointAt(s, x, p, n, h)
  BY <1>8, <1>12, <1>13 DEF PointAt
<1>15. PointAt(s, x, p, n, h).target <= week
  <2>1. s[n + h].week <= week
    BY <1>1, <1>7, <1>13 DEF ComesAfter
  <2> QED  BY <2>1 DEF PointAt
<1> QED  BY <1>6, <1>14, <1>15

\* A backtest of the first part has the points that are known then.
LEMMA BacktestOfFirst ==
  ASSUME NEW s, IsPrices(s), NEW x, IsInputs(x), NEW p \in SettingType, NEW k \in Nat, NEW week \in Nat,
         NEW m, NEW t, NEW y, FirstPart(t, y, s, x, week, m)
  PROVE  Backtest(t, y, p, k) = KnownAt(Backtest(s, x, p, k), week)
<1>1. m \in 0..Len(s) /\ t = SubSeq(s, 1, m) /\ ComesAfter(week, s, m)
  BY DEF FirstPart
<1>2. IsPrices(t) /\ Len(t) = m /\ m \in Nat /\ Len(s) \in Nat /\ DOMAIN s = 1..Len(s)
  BY <1>1, FirstPrices, PricesAreTyped
<1>3. ASSUME NEW n, NEW h, IsOrigin(t, p, n, h)
      PROVE  /\ IsOrigin(s, p, n, h) /\ PointAt(t, y, p, n, h) = PointAt(s, x, p, n, h)
             /\ PointAt(s, x, p, n, h).target <= week
  BY <1>3, PointStands
<1>4. ASSUME NEW point \in Backtest(t, y, p, k)
      PROVE  point \in Backtest(s, x, p, k) /\ point.target <= week
  <2>1. PICK n \in 1..Len(t), h \in 1..k : IsOrigin(t, p, n, h) /\ point = PointAt(t, y, p, n, h)
    <3>1. IsPrices(t)
      BY <1>2
    <3> QED  BY <3>1, PointOfBacktest
  <2>2. IsOrigin(s, p, n, h) /\ point = PointAt(s, x, p, n, h) /\ point.target <= week
    BY <1>3, <2>1
  <2>3. n \in 1..Len(s)
    BY <1>1, <1>2, <2>1
  <2> QED  BY <2>2, <2>3, BacktestIs
<1>5. ASSUME NEW point \in Backtest(s, x, p, k), point.target <= week
      PROVE  point \in Backtest(t, y, p, k)
  <2>1. PICK n \in 1..Len(s), h \in 1..k : IsOrigin(s, p, n, h) /\ point = PointAt(s, x, p, n, h)
    BY PointOfBacktest
  <2>2. point.target = s[n + h].week
    BY <2>1 DEF PointAt
  <2>3. MinActuals \in Nat \ {0}
    BY WalkForwardAssumption
  <2>4. n + h \in DOMAIN s
    BY <1>2, <2>1 DEF IsOrigin
  <2>5. n + h <= m
    BY <1>1, <1>5, <2>2, <2>4 DEF ComesAfter
  <2>6. IsOrigin(t, p, n, h) /\ n \in 1..Len(t)
    BY <1>2, <2>1, <2>3, <2>5 DEF IsOrigin
  <2>7. point = PointAt(t, y, p, n, h)
    BY <1>3, <2>1, <2>6
  <2> QED  BY <1>2, <2>6, <2>7, BacktestIs
<1> QED  BY <1>4, <1>5 DEF KnownAt

\* The backtest at the end of a week is one.
LEMMA BacktestStands ==
  ASSUME NEW s, IsPrices(s), NEW x, IsInputs(x), NEW p \in SettingType, NEW k \in Nat, NEW week \in Nat
  PROVE  Backtest(UpTo(s, week), InputsUpTo(x, week), p, k) = KnownAt(Backtest(s, x, p, k), week)
<1>1. Dated(s)
  BY PricesAreTyped DEF Dated
<1>2. PICK m \in 0..Len(s) : UpTo(s, week) = SubSeq(s, 1, m) /\ ComesAfter(week, s, m)
  BY <1>1, UpToIsFirst
<1>3. PICK t, y : t = UpTo(s, week) /\ y = InputsUpTo(x, week)
  OBVIOUS
<1>4. IsInputs(y) /\ SameInputs(y, x, week)
  BY <1>3, FirstInputs
<1>5. FirstPart(t, y, s, x, week, m)
  BY <1>2, <1>3, <1>4 DEF FirstPart
<1> QED  BY <1>3, <1>5, BacktestOfFirst

\* A point with the correction of its bias, and of the daily prices.
BiasOf(points, point, bias) ==
  LET prior == Preceding(points, point, bias.lag)
  IN  IF prior = {} THEN point
      ELSE [point EXCEPT !.forecast = @ - (MeanBias(prior) * bias.weight) \div Unit]

DailyOf(days, point, perWeek, daily) ==
  LET observed == Observed(days, point.origin * perWeek, daily.lag)
      first    == days[Min(observed)]
      latest   == days[Max(observed)]
  IN  IF Cardinality(observed) < 2 THEN point
      ELSE [point EXCEPT !.forecast = @ + (@ * daily.weight * (latest - first)) \div (Unit * first)]

\* A correction changes a forecast, not what it was made for.
LEMMA CorrectionsKeepWeeks ==
  ASSUME NEW point \in PointType
  PROVE  /\ \A points, bias : /\ BiasOf(points, point, bias).target = point.target
                              /\ BiasOf(points, point, bias).origin = point.origin
         /\ \A days, perWeek, daily : /\ DailyOf(days, point, perWeek, daily).target = point.target
                                      /\ DailyOf(days, point, perWeek, daily).origin = point.origin
<1>1. \A f : [point EXCEPT !.forecast = f].target = point.target /\ [point EXCEPT !.forecast = f].origin = point.origin
  BY DEF PointType
<1>2. ASSUME NEW points, NEW bias
      PROVE  BiasOf(points, point, bias).target = point.target /\ BiasOf(points, point, bias).origin = point.origin
  <2>1. PICK f : BiasOf(points, point, bias) \in {point, [point EXCEPT !.forecast = f]}
    BY DEF BiasOf
  <2> QED  BY <1>1, <2>1
<1>3. ASSUME NEW days, NEW perWeek, NEW daily
      PROVE  /\ DailyOf(days, point, perWeek, daily).target = point.target
             /\ DailyOf(days, point, perWeek, daily).origin = point.origin
  <2>1. PICK f : DailyOf(days, point, perWeek, daily) \in {point, [point EXCEPT !.forecast = f]}
    BY DEF DailyOf
  <2> QED  BY <1>1, <2>1
<1> QED  BY <1>2, <1>3

\* What comes before a point that is known is known.
LEMMA BiasStands ==
  ASSUME NEW points \in SUBSET PointType, NEW bias, NEW week \in Nat
  PROVE  BiasCorrected(KnownAt(points, week), bias) = KnownAt(BiasCorrected(points, bias), week)
<1>1. PICK known : known = KnownAt(points, week)
  OBVIOUS
<1>2. BiasCorrected(points, bias) = {BiasOf(points, p, bias) : p \in points}
  BY DEF BiasCorrected, BiasOf
<1>3. BiasCorrected(known, bias) = {BiasOf(known, p, bias) : p \in known}
  BY DEF BiasCorrected, BiasOf
<1>4. \A p \in points : p.target \in Nat
  BY DEF PointType
<1>5. ASSUME NEW p \in known  PROVE BiasOf(known, p, bias) = BiasOf(points, p, bias)
  <2>1. p \in points /\ p.target <= week
    BY <1>1 DEF KnownAt
  <2>2. {q \in known : q.target < p.target} = {q \in points : q.target < p.target}
    BY <1>1, <1>4, <2>1 DEF KnownAt
  <2>3. Preceding(known, p, bias.lag) = Preceding(points, p, bias.lag)
    BY <2>2 DEF Preceding
  <2> QED  BY <2>3 DEF BiasOf
<1>6. \A p \in points : BiasOf(points, p, bias).target = p.target
  BY CorrectionsKeepWeeks
<1>7. \A q : q \in BiasCorrected(known, bias) <=> q \in BiasCorrected(points, bias) /\ q.target <= week
  BY <1>1, <1>2, <1>3, <1>5, <1>6 DEF KnownAt
<1>8. BiasCorrected(known, bias) = KnownAt(BiasCorrected(points, bias), week)
  BY <1>7 DEF KnownAt
<1> QED  BY <1>1, <1>8

SameDays(sub, days, m) == \A d \in 1..m : sub[d] = days[d]

\* ... at least in the first and the last day of a set that has two.
SameEnds(sub, days, S) ==
  Cardinality(S) >= 2 => sub[Min(S)] = days[Min(S)] /\ sub[Max(S)] = days[Max(S)]

\* The days up to one, whether those after it are known or not.
LEMMA ObservedStands ==
  ASSUME NEW n \in Nat, NEW days \in [1..n -> Nat], NEW m \in 0..n, NEW upTo \in 0..m, NEW count,
         NEW sub, SameDays(sub, days, m),
         NEW S, S = Observed(days, upTo, count)
  PROVE  Observed(sub, upTo, count) = S /\ SameEnds(sub, days, S)
<1>1. \A d \in 1..m : sub[d] = days[d]
  BY DEF SameDays
<1>2. \A d \in 1..upTo : d \in 1..m
  OBVIOUS
<1>3. {d \in 1..upTo : sub[d] > 0} = {d \in 1..upTo : days[d] > 0}
  BY <1>1, <1>2
<1>4. Observed(sub, upTo, count) = Observed(days, upTo, count)
  BY <1>3 DEF Observed
<1>6. ASSUME Cardinality(S) >= 2  PROVE sub[Min(S)] = days[Min(S)] /\ sub[Max(S)] = days[Max(S)]
  <2>1. S \in SUBSET (1..upTo)
    BY DEF Observed
  <2>2. IsFiniteSet(S)
    <3>1. IsFiniteSet(1..upTo)
      BY FS_Interval
    <3> QED  BY <2>1, <3>1, FS_Subset
  <2>3. S # {}
    <3>1. SUFFICES ASSUME S = {}  PROVE FALSE
      OBVIOUS
    <3>2. PICK c : c = Cardinality(S)
      OBVIOUS
    <3>3. c = 0
      BY <3>1, <3>2, FS_EmptySet
    <3>4. c >= 2
      BY <1>6, <3>2
    <3> QED  BY <3>3, <3>4
  <2>4. S \in SUBSET Nat
    BY <2>1
  <2>5. PICK least \in S : \A k \in S : least <= k
    BY <2>3, <2>4, LeastOf
  <2>6. Min(S) \in S
    BY <2>5 DEF Min
  <2>7. Max(S) \in S
    BY <2>2, <2>3, <2>4, MaxOfFinite
  <2> QED  BY <1>1, <1>2, <2>1, <2>6, <2>7
<1> QED  BY <1>4, <1>6 DEF SameEnds

\* Points that were forecast no later than their week.
Ahead(points) == \A p \in points : p.origin <= p.target

\* The days up to the end of a week, of all n of them.
DaysOfWeeks(sub, days, n, perWeek, week) == week * perWeek <= n /\ sub = SubSeq(days, 1, week * perWeek)

LEMMA DailyStands ==
  ASSUME NEW points \in SUBSET PointType, Ahead(points), NEW n \in Nat, NEW days \in [1..n -> Nat],
         NEW perWeek \in Nat, NEW week \in Nat, NEW daily, NEW sub, DaysOfWeeks(sub, days, n, perWeek, week)
  PROVE  DailyCorrected(KnownAt(points, week), sub, perWeek, daily)
           = KnownAt(DailyCorrected(points, days, perWeek, daily), week)
<1>1. PICK known : known = KnownAt(points, week)
  OBVIOUS
<1>2. DailyCorrected(points, days, perWeek, daily) = {DailyOf(days, p, perWeek, daily) : p \in points}
  BY DEF DailyCorrected, DailyOf
<1>3. DailyCorrected(known, sub, perWeek, daily) = {DailyOf(sub, p, perWeek, daily) : p \in known}
  BY DEF DailyCorrected, DailyOf
<1>4. PICK m \in 0..n : m = week * perWeek
  <2>1. week * perWeek \in Nat
    OBVIOUS
  <2> QED  BY <2>1 DEF DaysOfWeeks
<1>5. SameDays(sub, days, m)
  <2>1. sub = SubSeq(days, 1, m)
    BY <1>4 DEF DaysOfWeeks
  <2> QED  BY <2>1 DEF SameDays
<1>6. ASSUME NEW p \in known  PROVE DailyOf(sub, p, perWeek, daily) = DailyOf(days, p, perWeek, daily)
  <2>1. p \in points /\ p.target <= week
    BY <1>1 DEF KnownAt
  <2>2. PICK o \in Nat : o = p.origin /\ o <= week
    <3>1. p.origin \in Nat /\ p.target \in Nat /\ p.origin <= p.target
      BY <2>1 DEF PointType, Ahead
    <3> QED  BY <2>1, <3>1
  <2>3. PICK upTo \in 0..m : upTo = p.origin * perWeek
    <3>1. o * perWeek \in Nat /\ o * perWeek <= week * perWeek
      BY <2>2, Z3
    <3> QED  BY <1>4, <2>2, <3>1
  <2>4. PICK count, S : count = daily.lag /\ S = Observed(days, upTo, count)
    OBVIOUS
  <2>5. Observed(sub, upTo, count) = S /\ SameEnds(sub, days, S)
    BY <1>5, <2>4, ObservedStands
  <2>6. CASE Cardinality(S) < 2
    BY <2>3, <2>4, <2>5, <2>6 DEF DailyOf
  <2>7. CASE ~(Cardinality(S) < 2)
    <3>1. IsFiniteSet(S)
      <4>1. IsFiniteSet(1..upTo) /\ S \in SUBSET (1..upTo)
        BY <2>4, FS_Interval DEF Observed
      <4> QED  BY <4>1, FS_Subset
    <3>2. Cardinality(S) >= 2
      BY <2>7, <3>1, FS_CardinalityType
    <3> QED  BY <2>3, <2>4, <2>5, <3>2 DEF DailyOf, SameEnds
  <2> QED  BY <2>6, <2>7
<1>7. \A p \in points : DailyOf(days, p, perWeek, daily).target = p.target
  BY CorrectionsKeepWeeks
<1>8. \A q : q \in DailyCorrected(known, sub, perWeek, daily)
               <=> q \in DailyCorrected(points, days, perWeek, daily) /\ q.target <= week
  BY <1>1, <1>2, <1>3, <1>6, <1>7 DEF KnownAt
<1>9. DailyCorrected(known, sub, perWeek, daily) = KnownAt(DailyCorrected(points, days, perWeek, daily), week)
  BY <1>8 DEF KnownAt
<1> QED  BY <1>1, <1>9

\* The one-step points with the corrections of a setting.
BiasOnes(points, bias) == IF bias = Unused THEN points ELSE BiasCorrected(points, bias)

DailyOnes(points, days, perWeek, daily) ==
  IF daily = Unused THEN points ELSE DailyCorrected(points, days, perWeek, daily)

Ones(backtest, days, perWeek, p) == DailyOnes(BiasOnes(OneStep(backtest), p.bias), days, perWeek, p.daily)

LEMMA RebuiltHasOnes ==
  ASSUME NEW base, "one" \in DOMAIN base, NEW one
  PROVE  Rebuilt(base, one).one = one /\ DOMAIN Rebuilt(base, one) = DOMAIN base
<1>1. PICK a, b : Rebuilt(base, one) = [base EXCEPT !.one = one, !.recentOne = a, !.longOne = b]
  BY DEF Rebuilt
<1> QED  BY <1>1

LEMMA EvaluatedOnes ==
  ASSUME NEW s, NEW x, NEW days, NEW perWeek, NEW p, NEW k
  PROVE  Evaluated(s, x, days, perWeek, p, k).one = Ones(Backtest(s, x, p, k), days, perWeek, p)
<1>1. PICK points : points = Backtest(s, x, p, k)
  OBVIOUS
<1>2. PICK base : base = Measured(s, points)
  OBVIOUS
<1>3. base.one = OneStep(points) /\ "one" \in DOMAIN base
  BY <1>2 DEF Measured, Windowed
<1>4. PICK biased : biased = WithBias(base, p.bias)
  OBVIOUS
<1>5. biased.one = BiasOnes(OneStep(points), p.bias) /\ "one" \in DOMAIN biased
  <2>1. CASE p.bias = Unused
    BY <1>3, <1>4, <2>1 DEF WithBias, BiasOnes
  <2>2. CASE p.bias # Unused
    <3>1. biased = Rebuilt(base, BiasCorrected(base.one, p.bias))
      BY <1>4, <2>2 DEF WithBias
    <3>2. biased.one = BiasCorrected(base.one, p.bias) /\ "one" \in DOMAIN biased
      BY <1>3, <3>1, RebuiltHasOnes
    <3> QED  BY <1>3, <2>2, <3>2 DEF BiasOnes
  <2> QED  BY <2>1, <2>2
<1>6. PICK whole : whole = WithDaily(biased, days, perWeek, p.daily)
  OBVIOUS
<1>7. whole.one = DailyOnes(biased.one, days, perWeek, p.daily)
  <2>1. CASE p.daily = Unused
    BY <1>6, <2>1 DEF WithDaily, DailyOnes
  <2>2. CASE p.daily # Unused
    <3>1. whole = Rebuilt(biased, DailyCorrected(biased.one, days, perWeek, p.daily))
      BY <1>6, <2>2 DEF WithDaily
    <3>2. whole.one = DailyCorrected(biased.one, days, perWeek, p.daily)
      BY <1>5, <3>1, RebuiltHasOnes
    <3> QED  BY <2>2, <3>2 DEF DailyOnes
  <2> QED  BY <2>1, <2>2
<1>8. Evaluated(s, x, days, perWeek, p, k) = whole
  BY <1>1, <1>2, <1>4, <1>6 DEF Evaluated
<1> QED  BY <1>1, <1>5, <1>7, <1>8 DEF Ones

\* The points of a backtest and their corrections are of weeks after their origin.
LEMMA BacktestLooksAhead ==
  ASSUME NEW s, IsPrices(s), NEW x, IsInputs(x), NEW p \in SettingType, NEW k \in Nat
  PROVE  Ahead(Backtest(s, x, p, k))
<1>1. SUFFICES ASSUME NEW point \in Backtest(s, x, p, k)  PROVE point.origin <= point.target
  BY DEF Ahead
<1>2. PICK n \in 1..Len(s), h \in 1..k : IsOrigin(s, p, n, h) /\ point = PointAt(s, x, p, n, h)
  BY PointOfBacktest
<1>3. n \in DOMAIN s /\ n + h \in DOMAIN s /\ n < n + h
  BY <1>2, PointIsTyped
<1>4. s[n].week < s[n + h].week /\ s[n].week \in Nat /\ s[n + h].week \in Nat
  BY <1>3, PricesAreTyped
<1>5. point.origin = s[n].week /\ point.target = s[n + h].week
  BY <1>2 DEF PointAt
<1> QED  BY <1>4, <1>5

LEMMA BiasLooksAhead ==
  ASSUME NEW points \in SUBSET PointType, Ahead(points), NEW bias
  PROVE  Ahead(BiasCorrected(points, bias))
<1>1. BiasCorrected(points, bias) = {BiasOf(points, p, bias) : p \in points}
  BY DEF BiasCorrected, BiasOf
<1>2. \A p \in points : /\ BiasOf(points, p, bias).target = p.target
                        /\ BiasOf(points, p, bias).origin = p.origin
  BY CorrectionsKeepWeeks
<1> QED  BY <1>1, <1>2 DEF Ahead

LEMMA DailyLooksAhead ==
  ASSUME NEW points \in SUBSET PointType, Ahead(points), NEW days, NEW perWeek, NEW daily,
         NEW q \in DailyCorrected(points, days, perWeek, daily)
  PROVE  q.origin \in Nat /\ q.target \in Nat /\ q.origin <= q.target
<1>1. DailyCorrected(points, days, perWeek, daily) = {DailyOf(days, p, perWeek, daily) : p \in points}
  BY DEF DailyCorrected, DailyOf
<1>2. PICK p \in points : q = DailyOf(days, p, perWeek, daily)
  BY <1>1
<1>3. q.origin = p.origin /\ q.target = p.target
  BY <1>2, CorrectionsKeepWeeks
<1>4. p.origin \in Nat /\ p.target \in Nat /\ p.origin <= p.target
  BY DEF Ahead, PointType
<1> QED  BY <1>3, <1>4

\* The corrected points at the end of a week are those that are known then.
LEMMA OnesStand ==
  ASSUME NEW points \in SUBSET PointType, IsFiniteSet(points), Ahead(points), NEW p \in SettingType,
         NEW n \in Nat, NEW days \in [1..n -> Nat],
         NEW perWeek \in Nat, NEW week \in Nat, NEW sub, DaysOfWeeks(sub, days, n, perWeek, week)
  PROVE  /\ Ones(KnownAt(points, week), sub, perWeek, p) = KnownAt(Ones(points, days, perWeek, p), week)
         /\ \A q \in Ones(points, days, perWeek, p) : q.origin \in Nat /\ q.target \in Nat /\ q.origin <= q.target
<1>1. PICK one : one = OneStep(points)
  OBVIOUS
<1>2. one \in SUBSET PointType /\ IsFiniteSet(one) /\ Ahead(one)
  <2>1. one \in SUBSET points
    BY <1>1 DEF OneStep
  <2>2. IsFiniteSet(one)
    BY <2>1, FS_Subset
  <2> QED  BY <2>1, <2>2 DEF Ahead
<1>3. OneStep(KnownAt(points, week)) = KnownAt(one, week)
  BY <1>1 DEF OneStep, KnownAt
<1>4. PICK biased : biased = BiasOnes(one, p.bias)
  OBVIOUS
<1>5. p.bias \in UseType
  BY DEF SettingType
<1>6. biased \in SUBSET PointType /\ Ahead(biased)
  <2>1. CASE p.bias = Unused
    BY <1>2, <1>4, <2>1 DEF BiasOnes
  <2>2. CASE p.bias # Unused
    <3>1. biased = BiasCorrected(one, p.bias)
      BY <1>4, <2>2 DEF BiasOnes
    <3> QED  BY <1>2, <1>5, <3>1, BiasCorrectedAreTyped, BiasLooksAhead
  <2> QED  BY <2>1, <2>2
<1>7. BiasOnes(KnownAt(one, week), p.bias) = KnownAt(biased, week)
  <2>1. CASE p.bias = Unused
    BY <1>4, <2>1 DEF BiasOnes
  <2>2. CASE p.bias # Unused
    <3>1. biased = BiasCorrected(one, p.bias)
      BY <1>4, <2>2 DEF BiasOnes
    <3>2. BiasCorrected(KnownAt(one, week), p.bias) = KnownAt(BiasCorrected(one, p.bias), week)
      BY <1>2, BiasStands
    <3> QED  BY <2>2, <3>1, <3>2 DEF BiasOnes
  <2> QED  BY <2>1, <2>2
<1>8. PICK daily : daily = p.daily
  OBVIOUS
<1>9. DailyOnes(KnownAt(biased, week), sub, perWeek, daily) = KnownAt(DailyOnes(biased, days, perWeek, daily), week)
  <2>1. CASE daily = Unused
    BY <2>1 DEF DailyOnes
  <2>2. CASE daily # Unused
    <3>1. DailyCorrected(KnownAt(biased, week), sub, perWeek, daily)
            = KnownAt(DailyCorrected(biased, days, perWeek, daily), week)
      BY <1>6, DailyStands
    <3> QED  BY <2>2, <3>1 DEF DailyOnes
  <2> QED  BY <2>1, <2>2
<1>10. Ones(points, days, perWeek, p) = DailyOnes(biased, days, perWeek, daily)
  BY <1>1, <1>4, <1>8 DEF Ones
<1>11. Ones(KnownAt(points, week), sub, perWeek, p) = DailyOnes(KnownAt(biased, week), sub, perWeek, daily)
  BY <1>3, <1>7, <1>8 DEF Ones
<1>12. ASSUME NEW q \in DailyOnes(biased, days, perWeek, daily)
       PROVE  q.origin \in Nat /\ q.target \in Nat /\ q.origin <= q.target
  <2>1. CASE daily = Unused
    BY <1>6, <1>12, <2>1 DEF DailyOnes, Ahead, PointType
  <2>2. CASE daily # Unused
    BY <1>6, <1>12, <2>2, DailyLooksAhead DEF DailyOnes
  <2> QED  BY <2>1, <2>2
<1> QED  BY <1>8, <1>9, <1>10, <1>11, <1>12

\* The range of a point rests on what was known at its origin.
LEMMA RangeStands ==
  ASSUME NEW points \in SUBSET PointType, NEW week \in Nat, NEW point, point.origin \in Nat, point.origin <= week
  PROVE  RangeAt(KnownAt(points, week), point) = RangeAt(points, point)
<1>1. \A q \in points : q.target \in Nat
  BY DEF PointType
<1>2. KnownAt(KnownAt(points, week), point.origin) = KnownAt(points, point.origin)
  BY <1>1 DEF KnownAt
<1> QED  BY <1>2, Zenon DEF RangeAt

\* All there is to know: the backtest of a setting and its corrected points.
AllInputs == [dubai |-> Indicator("dubai"), usdKrw |-> Indicator("usdKrw")]

WholeBacktest(p) == Backtest(Series, AllInputs, p, Horizons)

WholeOnes(p) == Ones(WholeBacktest(p), Days, DaysPerWeek, p)

LEMMA WholeIsTyped ==
  ASSUME weeks \in Seq(WeekType), NEW p \in SettingType
  PROVE  /\ IsPrices(Series) /\ IsInputs(AllInputs)
         /\ WholeBacktest(p) \in SUBSET PointType /\ IsFiniteSet(WholeBacktest(p)) /\ Ahead(WholeBacktest(p))
<1>1. IsPrices(Series)
  <2>1. IsSeries(Series, weeks)
    BY SeriesIsSorted
  <2> QED  BY <2>1 DEF IsSeries, IsPrices, Rising
<1>2. IsInputs(AllInputs)
  <2>1. IsValues(Indicator("dubai")) /\ IsValues(Indicator("usdKrw"))
    BY IndicatorNow, IndicatorIsValues
  <2> QED  BY <2>1 DEF IsInputs, AllInputs
<1>3. Horizons \in Nat
  BY RunsAssumption
<1> QED  BY <1>1, <1>2, <1>3, BacktestIsTyped, BacktestLooksAhead DEF WholeBacktest

\* The backtest at the end of a week has the points that were known then.
LEMMA ReplaysAre ==
  ASSUME weeks \in Seq(WeekType), NEW p \in SettingType, NEW week \in Nat
  PROVE  ReplayedAt(p, week) = KnownAt(WholeBacktest(p), week)
<1>1. InputsAt(week) = InputsUpTo(AllInputs, week)
  BY DEF InputsAt, InputsUpTo, AllInputs
<1>2. Horizons \in Nat
  BY RunsAssumption
<1>3. Backtest(UpTo(Series, week), InputsUpTo(AllInputs, week), p, Horizons) = KnownAt(WholeBacktest(p), week)
  BY <1>2, WholeIsTyped, BacktestStands DEF WholeBacktest
<1> QED  BY <1>1, <1>3 DEF ReplayedAt

\* ... and what is said of each of them depends on what was known at its origin.
LEMMA JudgedAre ==
  ASSUME weeks \in Seq(WeekType), NEW p \in SettingType, NEW week \in DOMAIN weeks
  PROVE  /\ JudgedAt(p, week) = {<<q, RangeAt(WholeBacktest(p), q)>> : q \in KnownAt(WholeOnes(p), week)}
         /\ \A q \in WholeOnes(p) : q.target \in Nat
<1>1. PICK B : B = WholeBacktest(p)
  OBVIOUS
<1>2. PICK known : known = KnownAt(B, week)
  OBVIOUS
<1>3. B \in SUBSET PointType /\ IsFiniteSet(B) /\ Ahead(B)
  BY <1>1, WholeIsTyped
<1>4. week \in Nat /\ Len(weeks) \in Nat /\ week <= Len(weeks)
  OBVIOUS
<1>5. ReplayedAt(p, week) = known
  BY <1>1, <1>2, <1>4, ReplaysAre
<1>6. PICK n \in Nat : n = Len(weeks) * DaysPerWeek /\ Days \in [1..n -> Nat]
  BY DaysAreTyped
<1>7. DaysPerWeek \in Nat /\ week * DaysPerWeek <= n
  <2>1. PICK d \in Nat : d = DaysPerWeek
    BY RunsAssumption
  <2>2. PICK l \in Nat : l = Len(weeks)
    BY <1>4
  <2>3. week * d <= l * d
    BY <1>4, <2>2, Z3
  <2> QED  BY <1>6, <2>1, <2>2, <2>3
<1>8. PICK sub, d : sub = SubSeq(Days, 1, week * DaysPerWeek) /\ d = DaysPerWeek
  OBVIOUS
<1>9. /\ Ones(known, sub, d, p) = KnownAt(WholeOnes(p), week)
      /\ \A q \in WholeOnes(p) : q.origin \in Nat /\ q.target \in Nat /\ q.origin <= q.target
  <2>1. PICK days : days = Days
    OBVIOUS
  <2>2. days \in [1..n -> Nat] /\ d \in Nat /\ DaysOfWeeks(sub, days, n, d, week)
    BY <1>6, <1>7, <1>8, <2>1 DEF DaysOfWeeks
  <2>3. WholeOnes(p) = Ones(B, days, d, p)
    BY <1>1, <1>8, <2>1 DEF WholeOnes
  <2> QED  BY <1>2, <1>3, <1>4, <2>2, <2>3, OnesStand
<1>10. Evaluated(UpTo(Series, week), InputsAt(week), sub, d, p, Horizons).one = KnownAt(WholeOnes(p), week)
  <2>1. Evaluated(UpTo(Series, week), InputsAt(week), sub, d, p, Horizons).one = Ones(ReplayedAt(p, week), sub, d, p)
    BY EvaluatedOnes DEF ReplayedAt
  <2> QED  BY <1>5, <1>9, <2>1
<1>11. ASSUME NEW q \in KnownAt(WholeOnes(p), week)
       PROVE  RangeAt(ReplayedAt(p, week), q) = RangeAt(B, q)
  <2>1. q \in WholeOnes(p) /\ q.target <= week
    BY <1>11 DEF KnownAt
  <2>2. q.origin \in Nat /\ q.origin <= week
    BY <1>4, <1>9, <2>1
  <2> QED  BY <1>2, <1>3, <1>4, <1>5, <2>2, RangeStands
<1>12. JudgedAt(p, week) = {<<q, RangeAt(ReplayedAt(p, week), q)>> : q \in KnownAt(WholeOnes(p), week)}
  BY <1>8, <1>10 DEF JudgedAt
<1> QED  BY <1>1, <1>9, <1>11, <1>12

\* The points a range covers stay covered.
LEMMA CoverageGrows ==
  ASSUME NEW points \in SUBSET PointType, IsFiniteSet(points), Ahead(points), NEW h,
         NEW week \in Nat, NEW later \in Nat, week <= later
  PROVE  Coverage(KnownAt(points, week), h).hits <= Coverage(KnownAt(points, later), h).hits
<1> DEFINE Hits(known) ==
             {point \in {point \in known : point.horizon = h /\ RangeAt(known, point) # <<>>} :
                InRange(RangeAt(known, point), point.actual)}
<1>1. PICK a, b : a = KnownAt(points, week) /\ b = KnownAt(points, later)
  OBVIOUS
<1>2. Coverage(a, h).hits = Cardinality(Hits(a)) /\ Coverage(b, h).hits = Cardinality(Hits(b))
  BY DEF Coverage
<1>3. \A q \in points : q.origin \in Nat /\ q.target \in Nat /\ q.origin <= q.target
  BY DEF PointType, Ahead
<1>4. \A q \in a : q \in b /\ q \in points /\ q.target <= week
  BY <1>1, <1>3 DEF KnownAt
<1>5. ASSUME NEW q \in a  PROVE RangeAt(a, q) = RangeAt(b, q)
  <2>1. q.origin \in Nat /\ q.origin <= week /\ q.origin <= later
    BY <1>3, <1>4
  <2>2. RangeAt(a, q) = RangeAt(points, q)
    BY <1>1, <2>1, RangeStands
  <2>3. RangeAt(b, q) = RangeAt(points, q)
    BY <1>1, <2>1, RangeStands
  <2> QED  BY <2>2, <2>3
<1>6. Hits(a) \subseteq Hits(b)
  BY <1>4, <1>5
<1>7. IsFiniteSet(Hits(b))
  <2>1. Hits(b) \subseteq points
    BY <1>1 DEF KnownAt
  <2> QED  BY <2>1, FS_Subset
<1>8. Cardinality(Hits(a)) <= Cardinality(Hits(b))
  <2> HIDE DEF Hits
  <2> QED  BY <1>6, <1>7, FS_Subset
<1> QED  BY <1>1, <1>2, <1>8

LEMMA EvaluationsDoStand ==
  ASSUME weeks \in Seq(WeekType)
  PROVE  EvaluationsStand
<1>1. SUFFICES ASSUME NEW s \in CorrectedSettings, NEW week \in DOMAIN weeks
               PROVE  /\ JudgedAt(s, week) \subseteq JudgedAt(s, Len(weeks))
                      /\ Coverage(ReplayedAt(s, week), Horizons).hits
                           <= Coverage(ReplayedAt(s, Len(weeks)), Horizons).hits
  BY DEF EvaluationsStand, WeekNumbers
<1>2. s \in SettingType
  BY RunsAssumption DEF Operable
<1>3. PICK l \in Nat : l = Len(weeks) /\ l \in DOMAIN weeks /\ week \in Nat /\ week <= l
  OBVIOUS
<1>4. JudgedAt(s, week) \subseteq JudgedAt(s, l)
  <2>1. \A q \in KnownAt(WholeOnes(s), week) : q \in KnownAt(WholeOnes(s), l)
    BY <1>2, <1>3, JudgedAre DEF KnownAt
  <2>2. JudgedAt(s, week) = {<<q, RangeAt(WholeBacktest(s), q)>> : q \in KnownAt(WholeOnes(s), week)}
    BY <1>2, JudgedAre
  <2>3. JudgedAt(s, l) = {<<q, RangeAt(WholeBacktest(s), q)>> : q \in KnownAt(WholeOnes(s), l)}
    BY <1>2, <1>3, JudgedAre
  <2> QED  BY <2>1, <2>2, <2>3
<1>5. Coverage(ReplayedAt(s, week), Horizons).hits <= Coverage(ReplayedAt(s, l), Horizons).hits
  <2>1. ReplayedAt(s, week) = KnownAt(WholeBacktest(s), week) /\ ReplayedAt(s, l) = KnownAt(WholeBacktest(s), l)
    BY <1>2, <1>3, ReplaysAre
  <2> QED  BY <1>2, <1>3, <2>1, WholeIsTyped, CoverageGrows
<1> QED  BY <1>3, <1>4, <1>5

-----------------------------------------------------------------------------
(* The ranges that were issued are replayed.                               *)

\* What was known at the week of a run, a backtest still knows.
LEMMA ReplayKnows ==
  ASSUME weeks \in Seq(WeekType), NEW run, Saw(run, weeks), Unrevised(run),
         NEW known, known = KnownAt(Backtest(Series, Masked(run.usable), run.setting, Horizons), run.anchor)
  PROVE  IssuesItsRanges(run, IssuedWith(run.anchor, run.points, known))
<1>1. PICK old : IssuedFrom(run, old) /\ Grows(old, weeks)
  BY DEF Saw
<1>2. PICK s, t, x, y, p, a : /\ s = SeriesIn(old) /\ t = SeriesIn(weeks) /\ p = run.setting /\ a = run.anchor
                              /\ x = MaskedIn(old, run.usable) /\ y = MaskedIn(weeks, run.usable)
  OBVIOUS
<1>3. old \in Seq(WeekType) /\ p \in SettingType /\ Len(s) > 0 /\ a = Last(s).week
  BY <1>1, <1>2 DEF IssuedFrom
<1>4. IsSeries(s, old) /\ IsSeries(t, weeks) /\ IsPrices(s) /\ IsPrices(t)
  BY <1>2, <1>3, SeriesIsSeries, SeriesIsPrices
<1>5. IsInputs(x) /\ IsInputs(y)
  BY <1>2, <1>3, MaskedInIsInputs
<1>6. Series = t /\ Masked(run.usable) = y
  BY <1>2, SeriesNow, MaskedNow
<1>7. a \in CompleteIn(old) /\ a \in Nat /\ a \in DOMAIN old
  <2>1. a \in CompleteIn(old) /\ a \in Nat
    BY <1>3, <1>4, LastIsLatest
  <2> QED  BY <1>3, <2>1, CompleteIsFinite
<1>8. PICK n \in DOMAIN t : t[n].week = a
  <2>1. a \in CompleteIn(weeks)
    BY <1>1, <1>7, GrowsIsMonotone
  <2> QED  BY <1>4, <2>1 DEF IsSeries
<1>9. AgreeUpTo(CompleteIn(weeks), CompleteIn(old), a)
  BY <1>1, <1>2, UnrevisedAgrees
<1>10. SubSeq(t, 1, n) = s
  BY <1>1, <1>2, <1>3, <1>8, <1>9, SeriesUpTo
<1>11. n \in 0..Len(t) /\ ComesAfter(a, t, n)
  <2>1. /\ Len(t) \in Nat /\ DOMAIN t = 1..Len(t)
        /\ \A i \in DOMAIN t : t[i].week \in Nat
        /\ \A i, j \in DOMAIN t : i < j => t[i].week < t[j].week
    BY <1>4, PricesAreTyped
  <2>2. ASSUME NEW i \in DOMAIN t  PROVE i <= n <=> t[i].week <= t[n].week
    <3>1. i < n \/ i = n \/ n < i
      BY <2>1
    <3>2. t[i].week \in Nat /\ t[n].week \in Nat
      BY <2>1
    <3>3. (i < n => t[i].week < t[n].week) /\ (n < i => t[n].week < t[i].week)
      BY <2>1
    <3>4. i \in Nat /\ n \in Nat
      BY <2>1
    <3> QED  BY <3>1, <3>2, <3>3, <3>4
  <2> QED  BY <1>8, <2>1, <2>2 DEF ComesAfter
<1>12. SameInputs(x, y, a)
  BY <1>1, <1>2, <1>3, <1>7, SameMasked
<1>13. FirstPart(s, x, t, y, a, n)
  BY <1>5, <1>10, <1>11, <1>12 DEF FirstPart
<1>14. PICK k \in Nat : k = Horizons
  BY RunsAssumption
<1>15. Backtest(s, x, p, k) = KnownAt(Backtest(t, y, p, k), a)
  BY <1>3, <1>4, <1>5, <1>7, <1>13, BacktestOfFirst
<1>16. KnownAt(Backtest(s, x, p, k), a) = known
  <2>1. known = KnownAt(Backtest(t, y, p, k), a)
    BY <1>2, <1>6, <1>14
  <2> QED  BY <1>15, <2>1 DEF KnownAt
<1>17. RangesFrom(run, old) = IssuedWith(run.anchor, run.points, known)
  BY <1>2, <1>14, <1>16 DEF RangesFrom
<1> QED  BY <1>1, <1>17 DEF IssuedFrom

\* The points of a horizon, and the last of them by target and by origin.
Own(known, h) == {point \in known : point.horizon = h}

LastTargets(S) == {s \in S : Cardinality({o \in S : ByTarget(s, o)}) < RangeWindow}

LastOrigins(S) == {s \in S : Cardinality({o \in S : ByOrigin(s, o)}) < RangeWindow}

LEMMA CalibrationOfOwn ==
  ASSUME NEW known, IsFiniteSet(known), NEW h, HasOwn(known, h)
  PROVE  /\ Calibration(known, ByTarget, h) = LastTargets(Own(known, h))
         /\ Calibration(known, ByOrigin, h) = LastOrigins(Own(known, h))
<1>1. PICK banded : banded = {point \in known : Band(point.horizon) = Band(h)}
  OBVIOUS
<1>2. PICK own : own = {point \in known : point.horizon = h}
  OBVIOUS
<1>3. Cardinality(own) >= RangeMinimum
  BY <1>2 DEF HasOwn
<1>4. Cardinality(banded) >= RangeMinimum
  <2>1. own \in SUBSET banded /\ banded \in SUBSET known
    BY <1>1, <1>2
  <2>2. IsFiniteSet(banded)
    BY <2>1, FS_Subset
  <2>3. Cardinality(own) <= Cardinality(banded) /\ Cardinality(own) \in Nat /\ Cardinality(banded) \in Nat
    BY <2>1, <2>2, FS_Subset, FS_CardinalityType
  <2>4. RangeMinimum \in Nat
    BY WalkForwardAssumption
  <2> QED  BY <1>3, <2>3, <2>4
<1>5. Calibration(known, ByTarget, h) = LatestOf(own, ByTarget, RangeWindow)
  BY <1>1, <1>2, <1>3, <1>4 DEF Calibration
<1>6. Calibration(known, ByOrigin, h) = LatestOf(own, ByOrigin, RangeWindow)
  BY <1>1, <1>2, <1>3, <1>4 DEF Calibration
<1>7. LatestOf(own, ByTarget, RangeWindow) = LastTargets(Own(known, h))
  BY <1>2 DEF LatestOf, LastTargets, Own
<1>8. LatestOf(own, ByOrigin, RangeWindow) = LastOrigins(Own(known, h))
  BY <1>2 DEF LatestOf, LastOrigins, Own
<1> QED  BY <1>5, <1>6, <1>7, <1>8

\* Of one horizon the points come in the same order by target and by origin.
LEMMA OrdersAgree ==
  ASSUME NEW s, IsPrices(s), NEW x, NEW p \in SettingType, NEW k \in Nat,
         NEW a \in Backtest(s, x, p, k), NEW b \in Backtest(s, x, p, k), a.horizon = b.horizon
  PROVE  ByTarget(a, b) <=> ByOrigin(a, b)
<1>1. PICK m \in 1..Len(s), i \in 1..k : IsOrigin(s, p, m, i) /\ a = PointAt(s, x, p, m, i)
  BY PointOfBacktest
<1>2. PICK n \in 1..Len(s), j \in 1..k : IsOrigin(s, p, n, j) /\ b = PointAt(s, x, p, n, j)
  BY PointOfBacktest
<1>3. a.horizon = i /\ a.origin = s[m].week /\ a.target = s[m + i].week
  BY <1>1 DEF PointAt
<1>4. b.horizon = i /\ b.origin = s[n].week /\ b.target = s[n + i].week /\ j = i
  BY <1>2, <1>3 DEF PointAt
<1>5. /\ Len(s) \in Nat /\ DOMAIN s = 1..Len(s)
      /\ \A c \in DOMAIN s : s[c].week \in Nat
      /\ \A c, d \in DOMAIN s : c < d => s[c].week < s[d].week
  BY PricesAreTyped
<1>6. m \in DOMAIN s /\ n \in DOMAIN s /\ m + i \in DOMAIN s /\ n + i \in DOMAIN s /\ i \in Nat /\ m \in Nat /\ n \in Nat
  BY <1>1, <1>2, <1>4, <1>5 DEF IsOrigin
<1>7. PICK v \in Nat, w \in Nat, r \in Nat, q \in Nat :
        v = s[m].week /\ w = s[n].week /\ r = s[m + i].week /\ q = s[n + i].week
  BY <1>5, <1>6
<1>8. (v < w <=> m < n) /\ (r < q <=> m < n)
  <2>1. CASE m < n
    <3>1. m + i < n + i
      BY <1>6, <2>1
    <3> QED  BY <1>5, <1>6, <1>7, <2>1, <3>1
  <2>2. CASE n < m
    <3>1. n + i < m + i
      BY <1>6, <2>2
    <3>2. w < v /\ q < r
      BY <1>5, <1>6, <1>7, <2>2, <3>1
    <3>3. v \in Nat /\ w \in Nat /\ r \in Nat /\ q \in Nat
      BY <1>7
    <3>4. ~(v < w) /\ ~(r < q)
      BY <3>2, <3>3
    <3>5. ~(m < n)
      BY <1>6, <2>2
    <3> QED  BY <3>4, <3>5
  <2>3. CASE m = n
    <3>1. v = w /\ r = q
      BY <1>7, <2>3
    <3>2. ~(v < w) /\ ~(r < q) /\ ~(m < n)
      BY <1>6, <1>7, <2>3, <3>1
    <3> QED  BY <3>2
  <2>4. m < n \/ n < m \/ m = n
    BY <1>6
  <2> QED  BY <2>1, <2>2, <2>3, <2>4
<1>9. ByTarget(a, b) <=> r < q
  BY <1>3, <1>4, <1>6, <1>7 DEF ByTarget
<1>10. ByOrigin(a, b) <=> v < w
  BY <1>3, <1>4, <1>6, <1>7 DEF ByOrigin
<1> QED  BY <1>8, <1>9, <1>10

LEMMA LastAgree ==
  ASSUME NEW S, \A a, b \in S : ByTarget(a, b) <=> ByOrigin(a, b)
  PROVE  LastTargets(S) = LastOrigins(S)
<1>1. ASSUME NEW s \in S  PROVE {o \in S : ByTarget(s, o)} = {o \in S : ByOrigin(s, o)}
  OBVIOUS
<1> QED  BY <1>1 DEF LastTargets, LastOrigins

\* There is a last one.
LEMMA LastIsThere ==
  ASSUME NEW S, IsFiniteSet(S), S # {}, NEW h \in Nat, \A o \in S : o.target \in Nat /\ o.horizon = h
  PROVE  LastTargets(S) # {}
<1>1. PICK f : f = [o \in S |-> o.target]
  OBVIOUS
<1>2. PICK T : T = {f[o] : o \in S}
  OBVIOUS
<1>3. T \in SUBSET Nat /\ T # {} /\ IsFiniteSet(T)
  <2>1. DOMAIN f = S /\ \A o \in S : f[o] \in Nat
    BY <1>1
  <2> QED  BY <1>2, <2>1, ValuesAreFinite
<1>4. PICK n \in T : \A i \in T : i <= n
  BY <1>3, FiniteGreatest
<1>5. PICK last \in S : last.target = n
  BY <1>1, <1>2
<1>6. {o \in S : ByTarget(last, o)} = {}
  <2> SUFFICES ASSUME NEW o \in S  PROVE ~ByTarget(last, o)
    OBVIOUS
  <2>1. o.target \in T
    BY <1>1, <1>2
  <2>2. o.target \in Nat /\ n \in Nat /\ o.target <= n /\ last.horizon = h /\ o.horizon = h
    BY <1>3, <1>4, <2>1
  <2> QED  BY <1>5, <2>2 DEF ByTarget
<1>7. Cardinality({o \in S : ByTarget(last, o)}) = 0
  BY <1>6, FS_EmptySet
<1>8. 0 < RangeWindow
  BY WalkForwardAssumption
<1> QED  BY <1>7, <1>8 DEF LastTargets

\* Enough errors of its own horizon: both orders calibrate a range on the same ones.
LEMMA CalibrationsAgree ==
  ASSUME NEW s, IsPrices(s), NEW x, IsInputs(x), NEW p \in SettingType, NEW k \in Nat, NEW week,
         NEW known, known = KnownAt(Backtest(s, x, p, k), week), NEW h \in Nat, HasOwn(known, h)
  PROVE  /\ Calibration(known, ByTarget, h) = Calibration(known, ByOrigin, h)
         /\ Calibration(known, ByTarget, h) # {}
<1>1. PICK S : S = Own(known, h)
  OBVIOUS
<1>2. PICK B : B = Backtest(s, x, p, k)
  OBVIOUS
<1>3. B \in SUBSET PointType /\ IsFiniteSet(B)
  BY <1>2, BacktestIsTyped
<1>4. S \in SUBSET B /\ \A o \in S : o.horizon = h
  BY <1>1, <1>2 DEF Own, KnownAt
<1>5. IsFiniteSet(S) /\ \A o \in S : o.target \in Nat
  BY <1>3, <1>4, FS_Subset DEF PointType
<1>6. S # {}
  <2>1. Cardinality(S) >= RangeMinimum
    BY <1>1 DEF HasOwn, Own
  <2>2. RangeMinimum \in Nat \ {0}
    BY WalkForwardAssumption
  <2>3. Cardinality({}) = 0
    BY FS_EmptySet
  <2> QED  BY <2>1, <2>2, <2>3
<1>7. ASSUME NEW a \in S, NEW b \in S  PROVE ByTarget(a, b) <=> ByOrigin(a, b)
  <2>1. a \in Backtest(s, x, p, k) /\ b \in Backtest(s, x, p, k) /\ a.horizon = b.horizon
    BY <1>2, <1>4
  <2> QED  BY <2>1, OrdersAgree
<1>8. LastTargets(S) = LastOrigins(S)
  BY <1>7, LastAgree
<1>9. LastTargets(S) # {}
  BY <1>4, <1>5, <1>6, LastIsThere
<1>10. IsFiniteSet(known)
  BY <1>2, <1>3, FS_Subset DEF KnownAt
<1> QED  BY <1>1, <1>8, <1>9, <1>10, CalibrationOfOwn

\* A range that was issued for a horizon.
LEMMA IssuedRange ==
  ASSUME NEW anchor, NEW points, NEW known, NEW h \in DOMAIN points,
         NEW calibration, calibration = Calibration(known, ByTarget, h), calibration # {}
  PROVE  \E o \in IssuedWith(anchor, points, known) :
           o.horizon = h /\ o.range = PriceRange(points[h], calibration)
<1>1. PICK range : range = PriceRange(points[h], calibration)
  OBVIOUS
<1>2. range # <<>>
  BY <1>1 DEF PriceRange
<1>3. PICK o : o = [horizon |-> h, origin |-> anchor, target |-> anchor + h, range |-> range,
                    actual |-> NotYet, hit |-> FALSE]
  OBVIOUS
<1>4. o \in IssuedWith(anchor, points, known)
  BY <1>1, <1>2, <1>3 DEF IssuedWith
<1> QED  BY <1>1, <1>3, <1>4

\* A range that was issued, a backtest builds again.
LEMMA RangeAgrees ==
  ASSUME weeks \in Seq(WeekType), NEW run, Saw(run, weeks), Unrevised(run), run.approved,
         NEW replay, replay = Backtest(Series, Masked(run.usable), run.setting, Horizons),
         NEW point \in replay, point.origin = run.anchor,
         HasOwn(KnownAt(replay, run.anchor), point.horizon)
  PROVE  \E o \in run.issued : o.horizon = point.horizon /\ o.range = RangeAt(replay, point)
<1>1. point.horizon \in DOMAIN run.points /\ point.forecast = run.points[point.horizon]
  BY ReplayAgrees
<1>2. PICK known, h : known = KnownAt(replay, run.anchor) /\ h = point.horizon
  OBVIOUS
<1>3. run.issued = IssuedWith(run.anchor, run.points, known)
  BY <1>2, ReplayKnows DEF IssuesItsRanges
<1>4. /\ IsPrices(Series) /\ IsInputs(Masked(run.usable)) /\ Horizons \in Nat /\ run.setting \in SettingType
  <2>1. run.setting \in SettingType
    BY DEF Saw, IssuedFrom
  <2>2. IsInputs(Masked(run.usable))
    BY MaskedNow, MaskedInIsInputs
  <2> QED  BY <2>1, <2>2, SeriesIsSorted, SeriesIsPrices, RunsAssumption
<1>5. h \in Nat
  <2>1. replay \in SUBSET PointType
    BY <1>4, BacktestIsTyped
  <2> QED  BY <1>2, <2>1 DEF PointType
<1>6. PICK calibration :
        /\ calibration = Calibration(known, ByTarget, h) /\ calibration = Calibration(known, ByOrigin, h)
        /\ calibration # {}
  BY <1>2, <1>4, <1>5, CalibrationsAgree
<1>7. RangeAt(replay, point) = PriceRange(run.points[h], calibration)
  BY <1>1, <1>2, <1>6 DEF RangeAt
<1>8. PICK o \in run.issued : o.horizon = h /\ o.range = PriceRange(run.points[h], calibration)
  <2>1. PICK anchor, points, issued :
          anchor = run.anchor /\ points = run.points /\ issued = run.issued
    OBVIOUS
  <2>2. h \in DOMAIN points /\ issued = IssuedWith(anchor, points, known)
    BY <1>1, <1>2, <1>3, <2>1
  <2>3. \E o \in issued : o.horizon = h /\ o.range = PriceRange(points[h], calibration)
    <3>1. PICK c : c = calibration /\ c = Calibration(known, ByTarget, h) /\ c # {}
      BY <1>6
    <3>2. \E o \in IssuedWith(anchor, points, known) : o.horizon = h /\ o.range = PriceRange(points[h], c)
      BY <2>2, <3>1, IssuedRange
    <3> QED  BY <2>2, <3>1, <3>2
  <2>4. \E o \in run.issued : o.horizon = h /\ o.range = PriceRange(run.points[h], calibration)
    BY <2>1, <2>3
  <2> QED  BY <2>4
<1> QED  BY <1>2, <1>7, <1>8

\* The ranges that the coverage is measured on are those that were issued, as
\* far as a horizon has errors enough of its own.
THEOREM RangesAreReplayed == Spec => []RangesReplayed
<1>1. weeks \in Seq(WeekType) /\ ReplayInv => RangesReplayed
  <2> SUFFICES ASSUME weeks \in Seq(WeekType), ReplayInv, NEW i \in DOMAIN runs,
                      Unrevised(runs[i]), runs[i].approved,
                      NEW replay, replay = Backtest(Series, Masked(runs[i].usable), runs[i].setting, Horizons),
                      NEW point \in replay, point.origin = runs[i].anchor,
                      HasOwn(KnownAt(replay, runs[i].anchor), point.horizon)
               PROVE  \E o \in runs[i].issued : o.horizon = point.horizon /\ o.range = RangeAt(replay, point)
    BY DEF RangesReplayed
  <2>1. Saw(runs[i], weeks)
    BY DEF ReplayInv
  <2> QED  BY <2>1, RangeAgrees
<1> QED  BY <1>1, WeeksAreTyped, ReplayHolds, PTL

-----------------------------------------------------------------------------
(* Regimes.                                                                *)

\* The changes over the weeks of a feature, and how far they lie from their sum.
Changes(s, i) == [j \in (i - RegimeWeeks + 1)..i |-> Change(s, j)]

Squares(s, i, total) ==
  [j \in (i - RegimeWeeks + 1)..i |->
     (RegimeWeeks * Change(s, j) - total) * (RegimeWeeks * Change(s, j) - total)]

TrendOver(s, i) == (Unit * (s[i].price - s[i - RegimeWeeks].price)) \div s[i - RegimeWeeks].price

LEMMA FeatureIs ==
  ASSUME NEW s, NEW i
  PROVE  Feature(s, i) = [trend  |-> TrendOver(s, i),
                          spread |-> SumFunction(Squares(s, i, SumFunction(Changes(s, i)))) \div Unit]
BY DEF Feature, TrendOver, Squares, Changes

\* The first n weeks of a series.
BeginsWith(s, t, n) == \A i \in 1..n : t[i] = s[i]

LEMMA FeatureStands ==
  ASSUME NEW s, NEW t, NEW n \in Nat, BeginsWith(s, t, n), NEW i \in 1..n, i > RegimeWeeks
  PROVE  Feature(t, i) = Feature(s, i)
<1>1. PICK r \in Nat \ {0} : r = RegimeWeeks
  BY RegimesAssumption
<1>2. ASSUME NEW j \in (i - RegimeWeeks + 1)..i  PROVE Change(t, j) = Change(s, j)
  <2>1. j \in 1..n /\ j - 1 \in 1..n
    BY <1>1
  <2>2. t[j] = s[j] /\ t[j - 1] = s[j - 1]
    BY <2>1 DEF BeginsWith
  <2> QED  BY <2>2 DEF Change
<1>3. Changes(t, i) = Changes(s, i)
  BY <1>2 DEF Changes
<1>4. \A total : Squares(t, i, total) = Squares(s, i, total)
  BY <1>2 DEF Squares
<1>5. TrendOver(t, i) = TrendOver(s, i)
  <2>1. i - RegimeWeeks \in 1..n
    BY <1>1
  <2>2. t[i] = s[i] /\ t[i - RegimeWeeks] = s[i - RegimeWeeks]
    BY <2>1 DEF BeginsWith
  <2> QED  BY <2>2 DEF TrendOver
<1> QED  BY <1>3, <1>4, <1>5, FeatureIs

\* What a week is compared with.
SizeOf(x) == Greater(x, -x)

Sizes(s, i) == [j \in Reference(s, i) |-> SizeOf(Feature(s, j).trend)]

Spreads(s, i) == [j \in Reference(s, i) |-> Feature(s, j).spread]

LEMMA RegimeIs ==
  ASSUME NEW s, NEW i
  PROVE  Regime(s, i) = IF i <= RegimeWeeks \/ Cardinality(Reference(s, i)) < ReferenceMinimum THEN "unclassified"
                        ELSE Classified(Feature(s, i), Quantile(Sizes(s, i), Unit \div 2),
                                        Quantile(Spreads(s, i), (3 * Unit) \div 4))
BY DEF Regime, Sizes, Spreads, SizeOf

LEMMA RegimeStands ==
  ASSUME NEW s, NEW t, NEW n \in Nat, BeginsWith(s, t, n), NEW i \in 1..n
  PROVE  Regime(t, i) = Regime(s, i)
<1>1. PICK r \in Nat \ {0} : r = RegimeWeeks
  BY RegimesAssumption
<1>2. PICK R : R = Reference(s, i) /\ R = Reference(t, i)
  BY DEF Reference
<1>3. CASE i <= RegimeWeeks
  BY <1>3, RegimeIs
<1>4. CASE ~(i <= RegimeWeeks)
  <2>1. i > RegimeWeeks
    BY <1>1, <1>4
  <2>2. Feature(t, i) = Feature(s, i)
    BY <2>1, FeatureStands
  <2>3. ASSUME NEW j \in R  PROVE Feature(t, j) = Feature(s, j)
    <3>1. j \in 1..n /\ j > RegimeWeeks
      BY <1>1, <1>2 DEF Reference
    <3> QED  BY <3>1, FeatureStands
  <2>4. Sizes(t, i) = Sizes(s, i)
    BY <1>2, <2>3 DEF Sizes
  <2>5. Spreads(t, i) = Spreads(s, i)
    BY <1>2, <2>3 DEF Spreads
  <2> QED  BY <1>2, <2>2, <2>4, <2>5, RegimeIs
<1> QED  BY <1>3, <1>4

LEMMA RegimesDoStand ==
  ASSUME weeks \in Seq(WeekType)
  PROVE  RegimesStand
<1>1. PICK s : s = Series
  OBVIOUS
<1>2. IsPrices(s)
  <2>1. IsSeries(Series, weeks)
    BY SeriesIsSorted
  <2> QED  BY <1>1, <2>1 DEF IsSeries, IsPrices, Rising
<1>3. SUFFICES ASSUME NEW n \in DOMAIN s
               PROVE  IsPrefix(Timeline(SubSeq(s, 1, n)), Timeline(s))
  BY <1>1 DEF RegimesStand
<1>4. PICK m \in Nat : m = Len(s) /\ DOMAIN s = 1..m
  BY <1>2, PricesAreTyped
<1>5. PICK t : t = SubSeq(s, 1, n)
  OBVIOUS
<1>6. DOMAIN t = 1..n /\ n \in 1..m /\ BeginsWith(s, t, n)
  <2>1. n \in 0..Len(s) /\ n \in 1..m
    BY <1>4
  <2> QED  BY <1>2, <1>5, <2>1, FirstPrices DEF BeginsWith
<1>7. \A i \in 1..n : Regime(t, i) = Regime(s, i)
  BY <1>6, RegimeStands
<1>8. PICK a, b : a = Timeline(t) /\ b = Timeline(s)
  OBVIOUS
<1>9. /\ DOMAIN a = 1..n /\ DOMAIN b = 1..m
      /\ \A i \in 1..n : a[i] = b[i]
  BY <1>4, <1>6, <1>7, <1>8 DEF Timeline
<1>10. PICK V : \A i \in 1..m : b[i] \in V
  <2>1. \A i \in 1..m : b[i] \in {b[k] : k \in 1..m}
    OBVIOUS
  <2> QED  BY <2>1
<1>11. a \in Seq(V) /\ b \in Seq(V) /\ Len(a) = n /\ Len(b) = m
  <2>1. a = [i \in 1..n |-> a[i]] /\ b = [i \in 1..m |-> b[i]]
    BY <1>4, <1>6, <1>8 DEF Timeline
  <2>2. \A i \in 1..n : a[i] \in V
    BY <1>6, <1>9, <1>10
  <2>3. a \in [1..n -> V] /\ n \in Nat
    BY <1>6, <2>1, <2>2
  <2>4. b \in [1..m -> V]
    BY <1>10, <2>1
  <2>5. a \in Seq(V) /\ Len(a) = n
    BY <2>3
  <2>6. b \in Seq(V) /\ Len(b) = m
    BY <2>4
  <2> QED  BY <2>5, <2>6
<1>12. SubSeq(a, 1, Len(a)) = SubSeq(b, 1, Len(a))
  BY <1>6, <1>9, <1>11
<1>13. IsPrefix(a, b)
  BY <1>6, <1>11, <1>12 DEF IsPrefix
<1> QED  BY <1>5, <1>8, <1>13

\* What is said of a week of the past stands: a later week changes neither its
\* regime, nor the corrected forecasts and the ranges of the backtest, and what a
\* range covered stays covered.
THEOREM PastIsSettled == Spec => []PastStands
<1>1. weeks \in Seq(WeekType) => PastStands
  BY EvaluationsDoStand, RegimesDoStand DEF PastStands
<1> QED  BY <1>1, WeeksAreTyped, PTL

-----------------------------------------------------------------------------
(* The views agree.                                                        *)

\* What a run would compute now for a setting.
Inputs == Masked(Usable)
BacktestNow(s) == Backtest(Series, Inputs, s, Horizons)
OneNow(s) == OneStep(BacktestNow(s))

LEMMA BacktestNowIsTyped ==
  ASSUME weeks \in Seq(WeekType), NEW s, Sound(s)
  PROVE  /\ IsPrices(Series) /\ IsInputs(Inputs) /\ Horizons \in Nat \ {0} /\ Horizons \in Nat
         /\ s \in SettingType /\ s.trend >= 2
         /\ BacktestNow(s) \in SUBSET PointType /\ IsFiniteSet(BacktestNow(s))
         /\ \A q \in BacktestNow(s) : q.horizon \in 1..Horizons
         /\ OneNow(s) \in SUBSET PointType /\ IsFiniteSet(OneNow(s))
         /\ OneNow(s) = OnesOf(Series, Inputs, s, Horizons)
<1>1. IsPrices(Series)
  BY SeriesIsSeries, SeriesNow, SeriesIsPrices
<1>2. IsInputs(Inputs)
  BY MaskedIsInputs DEF Inputs
<1>3. Horizons \in Nat \ {0} /\ Horizons \in Nat
  BY RunsAssumption
<1>4. s \in SettingType /\ s.trend >= 2
  BY DEF Sound, Operable
<1>5. BacktestNow(s) \in SUBSET PointType /\ IsFiniteSet(BacktestNow(s))
  BY <1>1, <1>2, <1>3, <1>4, BacktestIsTyped DEF BacktestNow
<1>6. \A q \in BacktestNow(s) : q.horizon \in 1..Horizons
  <2>1. SUFFICES ASSUME NEW q \in BacktestNow(s)  PROVE q.horizon \in 1..Horizons
    OBVIOUS
  <2>2. PICK n \in 1..Len(Series), h \in 1..Horizons : q = PointAt(Series, Inputs, s, n, h)
    BY <1>1, <1>3, <1>4, <2>1, PointOfBacktest DEF BacktestNow
  <2> QED  BY <2>2 DEF PointAt
<1>7. OneNow(s) = OnesOf(Series, Inputs, s, Horizons)
  BY DEF OneNow, OnesOf, BacktestNow
<1>8. OneNow(s) \in SUBSET PointType /\ IsFiniteSet(OneNow(s))
  BY <1>1, <1>2, <1>3, <1>4, <1>7, OnesAreTyped
<1> QED  BY <1>1, <1>2, <1>3, <1>4, <1>5, <1>6, <1>7, <1>8

LEMMA OnesNowHaveSameWeeks ==
  ASSUME weeks \in Seq(WeekType), NEW s, Sound(s), NEW t, Sound(t)
  PROVE  SameWeeks(OneNow(s), OneNow(t))
<1>1. /\ IsPrices(Series) /\ Horizons \in Nat \ {0}
      /\ s \in SettingType /\ s.trend >= 2 /\ t \in SettingType /\ t.trend >= 2
      /\ OneNow(s) = OnesOf(Series, Inputs, s, Horizons) /\ OneNow(t) = OnesOf(Series, Inputs, t, Horizons)
  BY BacktestNowIsTyped
<1> QED  BY <1>1, OnesHaveSameWeeks

LEMMA SettingsNowAreSound ==
  ASSUME SettingsInv
  PROVE  Sound(setting) /\ \A k \in DOMAIN tuned : Sound(tuned[k])
BY DEF SettingsInv

LEMMA ComparisonsDoAgree ==
  ASSUME weeks \in Seq(WeekType), SettingsInv
  PROVE  ComparisonsAgree(BacktestNow(setting), OneNow)
<1>1. PICK points : points = BacktestNow(setting)
  OBVIOUS
<1>2. Sound(setting) /\ \A k \in DOMAIN tuned : Sound(tuned[k])
  BY SettingsNowAreSound
<1>3. /\ points \in SUBSET PointType /\ IsFiniteSet(points) /\ \A q \in points : q.horizon \in 1..Horizons
      /\ OneNow(setting) \in SUBSET PointType /\ IsFiniteSet(OneNow(setting)) /\ Horizons \in Nat
  BY <1>1, <1>2, BacktestNowIsTyped
<1>4. \A start : (start = DegradationStart(points, Horizons, 1) /\ start # None) =>
           \A h \in start..Horizons : HorizonStatus(points, h, 1) \in {"insufficient", "watch", "volatile"}
  BY <1>3, HorizonsAgree
<1>5. \A k \in DOMAIN tuned : \A r \in DOMAIN Regimes :
           Verdict(Series, OneNow(setting), OneNow(tuned[k]), Regimes[r]) = "improved"
             <=> Verdict(Series, OneNow(tuned[k]), OneNow(setting), Regimes[r]) = "worsened"
  <2>1. SUFFICES ASSUME NEW k \in DOMAIN tuned, NEW regime
                 PROVE  Verdict(Series, OneNow(setting), OneNow(tuned[k]), regime) = "improved"
                          <=> Verdict(Series, OneNow(tuned[k]), OneNow(setting), regime) = "worsened"
    OBVIOUS
  <2>2. PICK P, Q : P = OneNow(setting) /\ Q = OneNow(tuned[k])
    OBVIOUS
  <2>3. P \in SUBSET PointType /\ Q \in SUBSET PointType /\ IsFiniteSet(P) /\ SameWeeks(P, Q)
    BY <1>2, <2>2, BacktestNowIsTyped, OnesNowHaveSameWeeks
  <2> QED  BY <2>2, <2>3, VerdictsAgree
<1>6. OneStep(points) = OneNow(setting)
  BY <1>1 DEF OneNow
<1>7. Weakest(Series, OneStep(points)) # "none" <=>
           \E r \in DOMAIN Regimes : Cardinality(PointsIn(Series, OneStep(points), Regimes[r])) >= ReportMinimum
  BY <1>3, <1>6, WeakestAgrees
<1> QED  BY <1>1, <1>4, <1>5, <1>7 DEF ComparisonsAgree

\* What the page and the run make of the points of the operating setting.
PartsNow == [point \in OneNow(setting) |-> PartsAt(Series, Inputs, setting, point)]
RowsNow == Shown(Stored(OneNow(setting)))
MeasuredNow == Measured(Series, BacktestNow(setting))

LEMMA WindowNow ==
  ASSUME weeks \in Seq(WeekType), SettingsInv
  PROVE  /\ MeasuredNow.one = OneNow(setting)
         /\ RowsNow \in SUBSET OneNow(setting) /\ RowsNow \in SUBSET PointType /\ IsFiniteSet(RowsNow)
         /\ \E churn : MeasuredNow.recentOne = Metrics(RowsNow, churn)
<1>1. Sound(setting)
  BY SettingsNowAreSound
<1>2. PICK one : one = OneNow(setting)
  OBVIOUS
<1>3. one \in SUBSET PointType /\ IsFiniteSet(one)
  BY <1>1, <1>2, BacktestNowIsTyped
<1>4. PICK week : week = WindowStart(Series, RecentWeeks)
  OBVIOUS
<1>5. RowsNow = Since(one, week)
  <2>1. /\ IsPrices(Series) /\ IsInputs(Inputs) /\ Horizons \in Nat \ {0}
        /\ setting \in SettingType /\ setting.trend >= 2 /\ one = OnesOf(Series, Inputs, setting, Horizons)
    BY <1>1, <1>2, BacktestNowIsTyped
  <2> QED  BY <1>2, <1>4, <2>1, ShownIsWindow DEF RowsNow
<1>6. MeasuredNow.one = one
  BY <1>2 DEF MeasuredNow, Measured, Windowed, OneNow
<1>7. PICK churn : churn = Churn(one, week)
  OBVIOUS
<1>8. MeasuredNow.recentOne = Metrics(Since(one, week), churn)
  BY <1>2, <1>4, <1>7 DEF MeasuredNow, Measured, Windowed, OneNow
<1>9. Since(one, week) \in SUBSET one
  BY DEF Since
<1> QED  BY <1>2, <1>3, <1>5, <1>6, <1>8, <1>9, FS_Subset

LEMMA SummaryNow ==
  ASSUME weeks \in Seq(WeekType), SettingsInv, RowsNow # {}
  PROVE  /\ \A figure \in {"count", "mae", "mape", "max", "hits"} :
                DetailSummary(RowsNow)[figure] = MeasuredNow.recentOne[figure]
         /\ \E p \in Highlighted(RowsNow) : Error(p) = MeasuredNow.recentOne.max
<1>1. PICK rows : rows = RowsNow
  OBVIOUS
<1>2. rows \in SUBSET PointType /\ IsFiniteSet(rows) /\ rows # {}
  BY <1>1, WindowNow
<1>3. PICK churn : MeasuredNow.recentOne = Metrics(rows, churn)
  BY <1>1, WindowNow
<1>4. \A figure \in {"count", "mae", "mape", "max", "hits"} :
         DetailSummary(rows)[figure] = MeasuredNow.recentOne[figure]
  BY <1>2, <1>3, SummaryIsMetrics
<1>5. MeasuredNow.recentOne.max = GreatestError(rows)
  BY <1>2, <1>3 DEF Metrics
<1>6. \E p \in Highlighted(rows) : Error(p) = GreatestError(rows)
  BY <1>2, LargestIsHighlighted
<1> QED  BY <1>1, <1>4, <1>5, <1>6

\* A signal is left out alone.
Alone(parts, signal) == signal = "usdKrw" \/ ~parts.usdKrw.used

LEMMA PartsNowAre ==
  ASSUME weeks \in Seq(WeekType), SettingsInv, NEW point \in OneNow(setting)
  PROVE  /\ Explained(PartsNow[point]) = point.forecast
         /\ \A signal \in {"dubai", "usdKrw"} : \A other \in OneNow(Ablated(setting, signal)) :
              (other.target = point.target /\ Alone(PartsNow[point], signal))
                => other.forecast = IF Applied(PartsNow[point], signal) THEN Without(PartsNow[point], signal)
                                    ELSE point.forecast
<1>1. Sound(setting)
  BY SettingsNowAreSound
<1>2. /\ IsPrices(Series) /\ IsInputs(Inputs) /\ Horizons \in Nat \ {0}
      /\ setting \in SettingType /\ setting.trend >= 2 /\ point \in OnesOf(Series, Inputs, setting, Horizons)
  BY <1>1, BacktestNowIsTyped
<1>3. PICK parts : parts = PartsAt(Series, Inputs, setting, point)
  OBVIOUS
<1>4. PartsNow[point] = parts
  BY <1>3 DEF PartsNow
<1>5. Explained(parts) = point.forecast
  BY <1>2, <1>3, PointIsExplained
<1>6. ASSUME NEW signal \in {"dubai", "usdKrw"}, NEW other \in OneNow(Ablated(setting, signal)),
             other.target = point.target, Alone(parts, signal)
      PROVE  other.forecast = IF Applied(parts, signal) THEN Without(parts, signal) ELSE point.forecast
  <2>1. PICK q : q = Ablated(setting, signal)
    OBVIOUS
  <2>2. Sound(q)
    BY <1>1, <2>1, AblatedIsSound
  <2>3. q \in SettingType /\ q.trend >= 2 /\ other \in OnesOf(Series, Inputs, q, Horizons)
    BY <1>6, <2>1, <2>2, BacktestNowIsTyped
  <2>4. signal = "usdKrw" \/ ~parts.usdKrw.used
    BY <1>6 DEF Alone
  <2> QED  BY <1>2, <1>3, <1>6, <2>1, <2>3, <2>4, AblatedPointIs
<1> QED  BY <1>4, <1>5, <1>6

LEMMA ContributionNow ==
  ASSUME weeks \in Seq(WeekType), SettingsInv, NEW signal \in {"dubai", "usdKrw"},
         \A point \in RowsNow : Alone(PartsNow[point], signal),
         NEW summary, summary = FactorSummary(RowsNow, PartsNow, signal),
         NEW gain, gain = SumFunction(ErrorsIn(OfWeeks(OneNow(Ablated(setting, signal)), RowsNow)))
                            - SumFunction(ErrorsIn(RowsNow))
  PROVE  summary.total = -gain /\ (gain > 0 => summary.reduced > 0)
<1>1. Sound(setting) /\ Sound(Ablated(setting, signal))
  BY SettingsNowAreSound, AblatedIsSound
<1>2. PICK one, other, rows, parts :
        one = OneNow(setting) /\ other = OneNow(Ablated(setting, signal)) /\ rows = RowsNow /\ parts = PartsNow
  OBVIOUS
<1>3. one \in SUBSET PointType /\ IsFiniteSet(one) /\ other \in SUBSET PointType
  BY <1>1, <1>2, BacktestNowIsTyped
<1>4. SameWeeks(one, other)
  BY <1>1, <1>2, OnesNowHaveSameWeeks
<1>5. rows \in SUBSET one
  BY <1>2, WindowNow
<1>6. WithoutFactor(other, rows, parts, signal)
  <2>1. SUFFICES ASSUME NEW p \in rows, NEW q \in other, q.target = p.target
                 PROVE  q.forecast = IF Applied(parts[p], signal) THEN Without(parts[p], signal) ELSE p.forecast
    BY DEF WithoutFactor
  <2>2. p \in one /\ Alone(parts[p], signal)
    BY <1>2, <1>5
  <2> QED  BY <1>2, <2>1, <2>2, PartsNowAre
<1> QED  BY <1>2, <1>3, <1>4, <1>5, <1>6, ContributionAgrees

LEMMA ViewsDoAgree ==
  ASSUME weeks \in Seq(WeekType), SettingsInv
  PROVE  ViewsAgree(Inputs, MeasuredNow, OneNow)
<1>1. MeasuredNow.one = OneNow(setting)
  BY WindowNow
<1>2. RowsNow \in SUBSET OneNow(setting)
  BY WindowNow
<1>3. PartsNow = [point \in MeasuredNow.one |-> PartsAt(Series, Inputs, setting, point)]
  BY <1>1 DEF PartsNow
<1>4. RowsNow = Shown(Stored(MeasuredNow.one))
  BY <1>1 DEF RowsNow
<1>5. RowsNow # {} =>
           /\ \A figure \in {"count", "mae", "mape", "max", "hits"} :
                DetailSummary(RowsNow)[figure] = MeasuredNow.recentOne[figure]
           /\ \E p \in Highlighted(RowsNow) : Error(p) = MeasuredNow.recentOne.max
  BY SummaryNow
<1>6. \A point \in MeasuredNow.one : Explained(PartsNow[point]) = point.forecast
  BY <1>1, PartsNowAre
<1>7. \A signal \in {"dubai", "usdKrw"} : \A point \in MeasuredNow.one : \A other \in OneNow(Ablated(setting, signal)) :
        (other.target = point.target /\ (signal = "usdKrw" \/ ~PartsNow[point].usdKrw.used))
           => other.forecast = IF Applied(PartsNow[point], signal) THEN Without(PartsNow[point], signal)
                               ELSE point.forecast
  BY <1>1, PartsNowAre DEF Alone
<1>8. \A signal \in {"dubai", "usdKrw"} :
        (RowsNow # {} /\ \A point \in RowsNow : signal = "usdKrw" \/ ~PartsNow[point].usdKrw.used) =>
           LET summary   == FactorSummary(RowsNow, PartsNow, signal)
               errors(S) == SumFunction([p \in S |-> Error(p)])
               gain      == errors({p \in OneNow(Ablated(setting, signal)) : \E q \in RowsNow : q.target = p.target})
                              - errors(RowsNow)
           IN  summary.total = -gain /\ (gain > 0 => summary.reduced > 0)
  <2>1. SUFFICES ASSUME NEW signal \in {"dubai", "usdKrw"}, \A point \in RowsNow : Alone(PartsNow[point], signal)
                 PROVE  LET summary   == FactorSummary(RowsNow, PartsNow, signal)
                            gain      == SumFunction(ErrorsIn(OfWeeks(OneNow(Ablated(setting, signal)), RowsNow)))
                                           - SumFunction(ErrorsIn(RowsNow))
                        IN  summary.total = -gain /\ (gain > 0 => summary.reduced > 0)
    BY DEF Alone, ErrorsIn, OfWeeks
  <2> QED  BY <2>1, ContributionNow
<1> HIDE DEF RowsNow, PartsNow, MeasuredNow, OneNow
<1> QED  BY <1>3, <1>4, <1>5, <1>6, <1>7, <1>8, ZenonT(60) DEF ViewsAgree

-----------------------------------------------------------------------------
(* Corrected points are of the same weeks.                                 *)

\* Another forecast for the same week.
SameWeekAs(q, p) == q.target = p.target /\ q.origin = p.origin /\ q.actual = p.actual

LEMMA CorrectionsKeepPoints ==
  ASSUME NEW point \in PointType
  PROVE  /\ \A points, bias : SameWeekAs(BiasOf(points, point, bias), point)
         /\ \A days, perWeek, daily : SameWeekAs(DailyOf(days, point, perWeek, daily), point)
<1>1. \A f : SameWeekAs([point EXCEPT !.forecast = f], point) /\ SameWeekAs(point, point)
  BY DEF PointType, SameWeekAs
<1>2. \A points, bias : \E f : BiasOf(points, point, bias) \in {point, [point EXCEPT !.forecast = f]}
  BY DEF BiasOf
<1>3. \A days, perWeek, daily : \E f : DailyOf(days, point, perWeek, daily) \in {point, [point EXCEPT !.forecast = f]}
  BY DEF DailyOf
<1>4. ASSUME NEW points, NEW bias  PROVE SameWeekAs(BiasOf(points, point, bias), point)
  <2>1. PICK f : BiasOf(points, point, bias) \in {point, [point EXCEPT !.forecast = f]}
    BY <1>2
  <2> QED  BY <1>1, <2>1
<1>5. ASSUME NEW days, NEW perWeek, NEW daily  PROVE SameWeekAs(DailyOf(days, point, perWeek, daily), point)
  <2>1. PICK f : DailyOf(days, point, perWeek, daily) \in {point, [point EXCEPT !.forecast = f]}
    BY <1>3
  <2> QED  BY <1>1, <2>1
<1> QED  BY <1>4, <1>5

\* Points with another forecast each are of the same weeks.
LEMMA ReplacedHaveSameWeeks ==
  ASSUME NEW P, OnePerWeek(P),
         NEW f, \A p \in P : SameWeekAs(f[p], p), NEW R, \A q : q \in R <=> \E p \in P : q = f[p]
  PROVE  SameWeeks(P, R)
<1>1. OnePerWeek(R)
  BY DEF OnePerWeek, SameWeekAs
<1>2. HasWeeksOf(R, P) /\ HasWeeksOf(P, R)
  BY DEF HasWeeksOf, SameWeekAs
<1> QED  BY <1>1, <1>2 DEF SameWeeks

LEMMA SameWeeksWithItself ==
  ASSUME NEW P, OnePerWeek(P)
  PROVE  SameWeeks(P, P)
BY DEF SameWeeks, HasWeeksOf

LEMMA SameWeeksAreTransitive ==
  ASSUME NEW P, NEW Q, NEW R, SameWeeks(P, Q), SameWeeks(Q, R)
  PROVE  SameWeeks(P, R)
<1>1. OnePerWeek(P) /\ OnePerWeek(R)
  BY DEF SameWeeks
<1>2. HasWeeksOf(R, P)
  BY DEF SameWeeks, HasWeeksOf
<1>3. HasWeeksOf(P, R)
  BY DEF SameWeeks, HasWeeksOf
<1> QED  BY <1>1, <1>2, <1>3 DEF SameWeeks

LEMMA BiasHasSameWeeks ==
  ASSUME NEW P \in SUBSET PointType, OnePerWeek(P), NEW bias
  PROVE  SameWeeks(P, BiasOnes(P, bias))
<1>1. CASE bias = Unused
  BY <1>1, SameWeeksWithItself DEF BiasOnes
<1>2. CASE bias # Unused
  <2>1. PICK f : f = [p \in P |-> BiasOf(P, p, bias)]
    OBVIOUS
  <2>2. BiasOnes(P, bias) = {BiasOf(P, p, bias) : p \in P}
    BY <1>2 DEF BiasOnes, BiasCorrected, BiasOf
  <2>3. PICK R : R = BiasOnes(P, bias)
    OBVIOUS
  <2>4. \A q : q \in R <=> \E p \in P : q = f[p]
    BY <2>1, <2>2, <2>3
  <2>5. \A p \in P : SameWeekAs(f[p], p)
    BY <2>1, CorrectionsKeepPoints
  <2>6. SameWeeks(P, R)
    BY <2>4, <2>5, ReplacedHaveSameWeeks
  <2> QED  BY <2>3, <2>6
<1> QED  BY <1>1, <1>2

LEMMA DailyHasSameWeeks ==
  ASSUME NEW P \in SUBSET PointType, OnePerWeek(P), NEW days, NEW perWeek, NEW daily
  PROVE  SameWeeks(P, DailyOnes(P, days, perWeek, daily))
<1>1. CASE daily = Unused
  BY <1>1, SameWeeksWithItself DEF DailyOnes
<1>2. CASE daily # Unused
  <2>1. PICK f : f = [p \in P |-> DailyOf(days, p, perWeek, daily)]
    OBVIOUS
  <2>2. DailyOnes(P, days, perWeek, daily) = {DailyOf(days, p, perWeek, daily) : p \in P}
    BY <1>2 DEF DailyOnes, DailyCorrected, DailyOf
  <2>3. PICK R : R = DailyOnes(P, days, perWeek, daily)
    OBVIOUS
  <2>4. \A q : q \in R <=> \E p \in P : q = f[p]
    BY <2>1, <2>2, <2>3
  <2>5. \A p \in P : SameWeekAs(f[p], p)
    BY <2>1, CorrectionsKeepPoints
  <2>6. SameWeeks(P, R)
    BY <2>4, <2>5, ReplacedHaveSameWeeks
  <2> QED  BY <2>3, <2>6
<1> QED  BY <1>1, <1>2

-----------------------------------------------------------------------------
(* The weeks a candidate is evaluated in.                                  *)

LEMMA CountOfWindow ==
  ASSUME NEW points, NEW churn
  PROVE  Metrics(points, churn).count = Cardinality(points)
<1>1. Cardinality({}) = 0
  BY FS_EmptySet
<1> QED  BY <1>1 DEF Metrics

\* The recent window of a backtest is that of its newest points.
CountsNewest(b) ==
  {"one", "recentOne"} \subseteq DOMAIN b /\ b.recentOne.count = Cardinality(NewestPoints(b.one, RecentWeeks))

LEMMA MeasuredCountsNewest ==
  ASSUME NEW s, IsPrices(s), NEW x, IsInputs(x), NEW p \in SettingType, p.trend >= 2, NEW k \in Nat \ {0}
  PROVE  CountsNewest(Measured(s, Backtest(s, x, p, k)))
<1>1. PICK one : one = OnesOf(s, x, p, k)
  OBVIOUS
<1>2. PICK b : b = Measured(s, Backtest(s, x, p, k))
  OBVIOUS
<1>3. PICK week, churn : week = WindowStart(s, RecentWeeks) /\ churn = Churn(one, week)
  OBVIOUS
<1>4. b.one = one /\ b.recentOne = Metrics(Since(one, week), churn) /\ {"one", "recentOne"} \subseteq DOMAIN b
  BY <1>1, <1>2, <1>3 DEF Measured, Windowed, OnesOf
<1>5. Since(one, week) = NewestPoints(one, RecentWeeks)
  BY <1>1, <1>3, WindowIsNewest, ViewNumbers
<1> QED  BY <1>2, <1>4, <1>5, CountOfWindow DEF CountsNewest

LEMMA RebuiltCountsNewest ==
  ASSUME NEW base, CountsNewest(base), NEW one
  PROVE  CountsNewest(Rebuilt(base, one)) /\ Rebuilt(base, one).one = one
<1>1. PICK churn, long :
        Rebuilt(base, one) = [base EXCEPT !.one = one, !.recentOne = Metrics(NewestPoints(one, RecentWeeks), churn),
                                          !.longOne = long]
  BY DEF Rebuilt
<1>2. PICK b : b = Rebuilt(base, one)
  OBVIOUS
<1>3. PICK window : window = Metrics(NewestPoints(one, RecentWeeks), churn)
  OBVIOUS
<1>4. b = [base EXCEPT !.one = one, !.recentOne = window, !.longOne = long]
  BY <1>1, <1>2, <1>3
<1>5. b.one = one /\ b.recentOne = window /\ DOMAIN b = DOMAIN base
  BY <1>4 DEF CountsNewest
<1>6. window.count = Cardinality(NewestPoints(one, RecentWeeks))
  BY <1>3, CountOfWindow
<1> QED  BY <1>2, <1>5, <1>6 DEF CountsNewest

LEMMA EvaluatedCountsNewest ==
  ASSUME NEW s, IsPrices(s), NEW x, IsInputs(x), NEW p \in SettingType, p.trend >= 2, NEW k \in Nat \ {0},
         NEW days, NEW perWeek
  PROVE  CountsNewest(Evaluated(s, x, days, perWeek, p, k))
<1>1. PICK base : base = Measured(s, Backtest(s, x, p, k))
  OBVIOUS
<1>2. CountsNewest(base)
  BY <1>1, MeasuredCountsNewest
<1>3. PICK biased : biased = WithBias(base, p.bias)
  OBVIOUS
<1>4. CountsNewest(biased)
  BY <1>2, <1>3, RebuiltCountsNewest DEF WithBias
<1>5. CountsNewest(WithDaily(biased, days, perWeek, p.daily))
  BY <1>4, RebuiltCountsNewest DEF WithDaily
<1> QED  BY <1>1, <1>3, <1>5 DEF Evaluated

LEMMA OnesHaveTheirWeeks ==
  ASSUME NEW s, IsPrices(s), NEW x, IsInputs(x), NEW p \in SettingType, p.trend >= 2, NEW k \in Nat \ {0},
         NEW days, NEW perWeek
  PROVE  SameWeeks(OnesOf(s, x, p, k), Evaluated(s, x, days, perWeek, p, k).one)
<1>1. PICK one, biased : one = OnesOf(s, x, p, k) /\ biased = BiasOnes(one, p.bias)
  OBVIOUS
<1>2. one \in SUBSET PointType /\ IsFiniteSet(one)
  BY <1>1, OnesAreTyped
<1>3. OnePerWeek(one)
  BY <1>1, OnesHaveSameWeeks DEF SameWeeks
<1>4. SameWeeks(one, biased)
  BY <1>1, <1>2, <1>3, BiasHasSameWeeks
<1>5. biased \in SUBSET PointType
  BY <1>1, <1>2, BiasCorrectedAreTyped DEF BiasOnes, SettingType
<1>6. OnePerWeek(biased)
  BY <1>4 DEF SameWeeks
<1>7. SameWeeks(biased, DailyOnes(biased, days, perWeek, p.daily))
  BY <1>5, <1>6, DailyHasSameWeeks
<1>8. Evaluated(s, x, days, perWeek, p, k).one = DailyOnes(biased, days, perWeek, p.daily)
  BY <1>1, EvaluatedOnes DEF Ones, OnesOf
<1> QED  BY <1>1, <1>4, <1>7, <1>8, SameWeeksAreTransitive

\* Whatever the settings, they are evaluated in as many weeks.
LEMMA EvaluatedAreAsMany ==
  ASSUME NEW s, IsPrices(s), NEW x, IsInputs(x), NEW k \in Nat \ {0}, NEW days, NEW perWeek,
         NEW p \in SettingType, p.trend >= 2, NEW q \in SettingType, q.trend >= 2
  PROVE  Evaluated(s, x, days, perWeek, p, k).recentOne.count = Measured(s, Backtest(s, x, q, k)).recentOne.count
<1>1. PICK P, Q : P = Evaluated(s, x, days, perWeek, p, k).one /\ Q = OnesOf(s, x, q, k)
  OBVIOUS
<1>2. SameWeeks(Q, P) /\ IsFiniteSet(Q)
  <2>1. SameWeeks(OnesOf(s, x, p, k), P)
    BY <1>1, OnesHaveTheirWeeks
  <2>2. SameWeeks(Q, OnesOf(s, x, p, k))
    BY <1>1, OnesHaveSameWeeks
  <2> QED  BY <1>1, <2>1, <2>2, SameWeeksAreTransitive, OnesAreTyped
<1>3. PICK A, B : A = NewestPoints(P, RecentWeeks) /\ B = NewestPoints(Q, RecentWeeks)
  OBVIOUS
<1>4. SameWeeks(B, A)
  BY <1>2, <1>3, NewestOfSameWeeks
<1>5. IsFiniteSet(B)
  BY <1>2, <1>3, FS_Subset DEF NewestPoints
<1>6. Cardinality(A) = Cardinality(B)
  BY <1>4, <1>5, SameWeeksAreAsMany
<1>7. Evaluated(s, x, days, perWeek, p, k).recentOne.count = Cardinality(A)
  BY <1>1, <1>3, EvaluatedCountsNewest DEF CountsNewest
<1>8. Measured(s, Backtest(s, x, q, k)).recentOne.count = Cardinality(B)
  <2>1. Measured(s, Backtest(s, x, q, k)).one = Q
    BY <1>1 DEF Measured, Windowed, OnesOf
  <2> QED  BY <1>3, <2>1, MeasuredCountsNewest DEF CountsNewest
<1> QED  BY <1>6, <1>7, <1>8

\* A run, and the page that tests its candidates again.
IsRetest(current, inputs, operating, candidates, tries, places, tested) ==
  /\ Sound(current) /\ IsMaterial(inputs) /\ inputs.horizons \in Nat \ {0}
  /\ operating = Measured(inputs.series, Backtest(inputs.series, inputs.indicators, current, inputs.horizons))
  /\ \E persistent, observed :
       /\ candidates = Tuned(current, operating, inputs, persistent, observed)
       /\ tries = Tried(current, persistent, observed)
  /\ places = [k \in DOMAIN candidates |-> candidates[k].setting]
  /\ tested = Tests((UNION {tries[f] : f \in DOMAIN tries}) \cup {places[k] : k \in DOMAIN places}, inputs)

LEMMA PlacesAreCandidates ==
  ASSUME NEW current, NEW inputs, NEW operating, NEW candidates, NEW tries, NEW places, NEW tested,
         IsRetest(current, inputs, operating, candidates, tries, places, tested)
  PROVE  DOMAIN places = DOMAIN candidates /\ \A k \in DOMAIN candidates : places[k] = candidates[k].setting
BY DEF IsRetest

\* What was tested first, the places that came of it, and what is tested again.
TestsAgain(inputs, operating, candidates, places, tested, results, U) ==
  /\ AreTested(results, inputs) /\ U \subseteq DOMAIN results /\ ArePodium(candidates, operating, results)
  /\ DOMAIN tested = U \cup {places[k] : k \in DOMAIN places}
  /\ \A s \in DOMAIN tested : tested[s] = EvaluatedOn(inputs, s)

\* It tests what the run had tested for them.
LEMMA RetestIsOf ==
  ASSUME NEW current, NEW inputs, NEW operating, NEW candidates, NEW tries, NEW places, NEW tested,
         IsRetest(current, inputs, operating, candidates, tries, places, tested)
  PROVE  \E results, U : TestsAgain(inputs, operating, candidates, places, tested, results, U)
<1>1. PICK persistent, observed :
        /\ candidates = Tuned(current, operating, inputs, persistent, observed)
        /\ tries = Tried(current, persistent, observed)
  BY DEF IsRetest
<1>2. Sound(current) /\ IsMaterial(inputs)
  BY DEF IsRetest
<1>3. PICK U : U = UNION {tries[f] : f \in DOMAIN tries}
  OBVIOUS
<1>4. PICK results :
        AreTested(results, inputs) /\ U \subseteq DOMAIN results /\ ArePodium(candidates, operating, results)
  BY <1>1, <1>2, <1>3, TunedArePodium
<1>5. PICK T : T = U \cup {places[k] : k \in DOMAIN places}
  OBVIOUS
<1>6. tested = [s \in T |-> EvaluatedOn(inputs, s)]
  <2>1. tested = Tests(T, inputs)
    BY <1>3, <1>5 DEF IsRetest
  <2> QED  BY <2>1 DEF Tests, EvaluatedOn
<1> QED  BY <1>4, <1>5, <1>6 DEF TestsAgain

\* Every setting is evaluated in as many weeks as the operating one.
LEMMA RetestedAreAsMany ==
  ASSUME NEW current, NEW inputs, NEW operating, NEW candidates, NEW tries, NEW places, NEW tested,
         IsRetest(current, inputs, operating, candidates, tries, places, tested), NEW s, Sound(s)
  PROVE  EvaluatedOn(inputs, s).recentOne.count = operating.recentOne.count
<1>1. IsPrices(inputs.series) /\ IsInputs(inputs.indicators) /\ inputs.horizons \in Nat \ {0}
  BY DEF IsRetest, IsMaterial
<1>2. current \in SettingType /\ current.trend >= 2 /\ s \in SettingType /\ s.trend >= 2
  BY DEF IsRetest, Sound, Operable
<1>3. operating = Measured(inputs.series, Backtest(inputs.series, inputs.indicators, current, inputs.horizons))
  BY DEF IsRetest
<1> QED  BY <1>1, <1>2, <1>3, EvaluatedAreAsMany DEF EvaluatedOn

LEMMA SaidDoesAgree ==
  ASSUME NEW current, NEW inputs, NEW operating, NEW candidates, NEW tries, NEW places, NEW tested,
         IsRetest(current, inputs, operating, candidates, tries, places, tested)
  PROVE  SaidAgrees(operating, tested, places)
<1>0. PICK results, U : TestsAgain(inputs, operating, candidates, places, tested, results, U)
  BY RetestIsOf
<1>1. /\ AreTested(results, inputs) /\ U \subseteq DOMAIN results /\ ArePodium(candidates, operating, results)
      /\ DOMAIN tested = U \cup {places[k] : k \in DOMAIN places}
      /\ \A s \in DOMAIN tested : tested[s] = EvaluatedOn(inputs, s)
  BY <1>0 DEF TestsAgain
<1>2. PICK D : D = DOMAIN results
  OBVIOUS
<1>3. /\ D \subseteq SettingType /\ IsFiniteSet(D)
      /\ \A s \in D : /\ Sound(s) /\ IsBacktest(results[s]) /\ results[s] = EvaluatedOn(inputs, s)
                      /\ results[s].recentOne.count \in Nat
  <2>1. \A s \in D : Sound(s) /\ IsBacktest(results[s]) /\ results[s] = EvaluatedOn(inputs, s)
    BY <1>1, <1>2 DEF AreTested
  <2>2. \A b : IsBacktest(b) => b.recentOne.count \in Nat
    BY DEF IsBacktest, BacktestType, MetricsType
  <2>3. IsFiniteSet(D) /\ \A s \in D : s \in SettingType
    BY <1>1, <1>2, <2>1 DEF AreTested, Sound, Operable
  <2> QED  BY <2>1, <2>2, <2>3
<1>4. DOMAIN places = DOMAIN candidates /\ \A k \in DOMAIN candidates : places[k] = candidates[k].setting
  BY PlacesAreCandidates
<1>5. CASE operating.recentOne.count < MinSamples
  <2>1. DOMAIN candidates = {}
    BY <1>1, <1>5 DEF ArePodium
  <2>2. DOMAIN places = {} /\ DOMAIN tested = U
    BY <1>1, <1>4, <2>1
  <2>3. ASSUME NEW s \in DOMAIN tested
        PROVE  tested[s].recentOne.count \in Nat /\ tested[s].recentOne.count < MinSamples
    <3>1. s \in D /\ tested[s] = EvaluatedOn(inputs, s)
      BY <1>1, <1>2, <2>2
    <3>2. EvaluatedOn(inputs, s).recentOne.count \in Nat /\ Sound(s)
      BY <1>3, <3>1
    <3>3. EvaluatedOn(inputs, s).recentOne.count = operating.recentOne.count
      BY <3>2, RetestedAreAsMany
    <3> QED  BY <1>5, <3>1, <3>2, <3>3
  <2> QED  BY <2>2, <2>3, NoneEvaluated
<1>6. CASE ~(operating.recentOne.count < MinSamples)
  <2>1. candidates = Podium(operating, results)
    BY <1>1, <1>6 DEF ArePodium
  <2>2. PICK S : S = Passing(operating, results)
    OBVIOUS
  <2>3. PICK m \in Nat :
           /\ DOMAIN candidates = 1..m /\ m <= TuningLimit
           /\ \A i \in 1..m : candidates[i].setting \in S
           /\ \A i, j \in 1..m : candidates[i].setting = candidates[j].setting => i = j
           /\ m < TuningLimit => \A s \in S : \E i \in 1..m : candidates[i].setting = s
    BY <1>2, <1>3, <2>1, <2>2, PodiumIs
  <2>4. S \subseteq D
    BY <1>2, <2>2 DEF Passing
  <2>5. DOMAIN places = 1..m /\ \A i \in 1..m : places[i] = candidates[i].setting /\ places[i] \in S
    BY <1>4, <2>3
  <2>6. ArePlaces(places, m, S)
    <3>1. Len(places) = m
      <4>1. places = [i \in DOMAIN candidates |-> candidates[i].setting]
        BY DEF IsRetest
      <4> QED  BY <2>3, <4>1
    <3> QED  BY <2>3, <2>5, <3>1 DEF ArePlaces, Apart
  <2>7. AreRetested(tested, results, places, m)
    <3>1. \A i \in 1..m : places[i] \in DOMAIN tested
      BY <1>1, <2>5
    <3>2. {places[k] : k \in DOMAIN places} \subseteq D
      BY <2>4, <2>5
    <3>3. DOMAIN tested \subseteq D
      BY <1>1, <1>2, <3>2
    <3>4. \A s \in DOMAIN tested : s \in D /\ tested[s] = results[s] /\ results[s].recentOne.count \in Nat
      BY <1>1, <1>3, <3>3
    <3> QED  BY <1>2, <3>1, <3>4 DEF AreRetested
  <2> QED  BY <2>2, <2>6, <2>7, PodiumIsSaid
<1> QED  BY <1>5, <1>6

-----------------------------------------------------------------------------
(* What was tuned is tuned still, as long as no week came.                 *)

CandidatesNow == TunedBeside(setting, MeasuredNow, Series, UsableDays, Inputs)

TunedNow == tuned = [k \in DOMAIN CandidatesNow |-> CandidatesNow[k].setting]

\* The last run saw all that is known.
Fresh == runs # <<>> /\ Last(runs).at = Len(weeks) /\ ~late

FreshInv ==
  /\ \E S : runs \in Seq(S)
  /\ \A i \in DOMAIN runs : runs[i].at \in Nat /\ runs[i].at <= Len(weeks)
  /\ Fresh => TunedNow

\* Inputs depend on the weeks alone.
LEMMA InputsStay ==
  ASSUME weeks' = weeks
  PROVE  Series' = Series /\ UsableDays' = UsableDays /\ Inputs' = Inputs
<1>1. Series' = Series
  BY DEF Series, CompleteWeeks, Complete, WeekNumbers
<1>2. Days' = Days
  BY DEF Days
<1>3. UsableDays' = UsableDays
  BY <1>2 DEF UsableDays
<1>4. \A code : Indicator(code)' = Indicator(code)
  BY DEF Indicator, WeekNumbers
<1>5. \A code : IndicatorUsable(code)' = IndicatorUsable(code)
  BY <1>4 DEF IndicatorUsable
<1>6. Usable' = Usable
  BY <1>5 DEF Usable
<1>7. Inputs' = Inputs
  BY <1>4, <1>6 DEF Inputs, Masked
<1> QED  BY <1>1, <1>3, <1>7

LEMMA CandidatesStay ==
  ASSUME weeks' = weeks
  PROVE  CandidatesNow' = TunedBeside(setting', Measured(Series, Backtest(Series, Inputs, setting', Horizons)),
                                      Series, UsableDays, Inputs)
<1>1. Series' = Series /\ UsableDays' = UsableDays /\ Inputs' = Inputs
  BY InputsStay
<1>2. CandidatesNow' = TunedBeside(setting', Measured(Series', Backtest(Series', Inputs', setting', Horizons)),
                                   Series', UsableDays', Inputs')
  BY DEF CandidatesNow, MeasuredNow, BacktestNow
<1> QED  BY <1>1, <1>2

\* A run tunes beside the setting it operates.
LEMMA RunTunes ==
  ASSUME weeks \in Seq(WeekType), weeks' = weeks, NEW effective, Sound(effective), NEW cooled,
         NEW selection, selection = Selection(Series, Masked(Usable), effective, Horizons, cooled),
         NEW candidates, Operating(selection, candidates)
  PROVE  TunedNow'
<1>1. IsPrices(Series) /\ IsInputs(Inputs) /\ Horizons \in Nat
  BY BacktestNowIsTyped
<1>2. selection.backtest = Measured(Series, Backtest(Series, Inputs, selection.setting, Horizons))
  BY <1>1, SelectionIsOwn DEF Inputs
<1>3. /\ candidates = TunedBeside(selection.setting, selection.backtest, Series, UsableDays, Inputs)
      /\ setting' = selection.setting
      /\ tuned' = [k \in DOMAIN candidates |-> candidates[k].setting]
  BY DEF Operating, Inputs
<1>4. CandidatesNow' = candidates
  BY <1>2, <1>3, CandidatesStay
<1>5. TunedNow' <=> tuned' = [k \in DOMAIN CandidatesNow' |-> CandidatesNow'[k].setting]
  BY DEF TunedNow
<1> QED  BY <1>3, <1>4, <1>5

LEMMA FreshStep ==
  ASSUME weeks \in Seq(WeekType), SettingsInv, FreshInv, [Next]_vars
  PROVE  FreshInv'
<1>1. PICK n \in Nat : n = Len(weeks) /\ DOMAIN weeks = 1..n
  OBVIOUS
<1>2. CASE EndWeek
  <2>1. PICK shape : weeks' = Append(weeks, shape)
    BY <1>2 DEF EndWeek
  <2>2. Len(weeks') = n + 1
    BY <1>1, <2>1
  <2>3. runs' = runs /\ late' = late
    BY <1>2 DEF EndWeek
  <2>4. ~Fresh'
    <3>1. SUFFICES ASSUME runs # <<>>, Last(runs).at = n + 1  PROVE FALSE
      BY <2>2, <2>3 DEF Fresh
    <3>2. Last(runs) = runs[Len(runs)] /\ Len(runs) \in DOMAIN runs
      BY <3>1 DEF FreshInv, Last
    <3> QED  BY <1>1, <3>1, <3>2 DEF FreshInv
  <2>5. \A i \in DOMAIN runs' : runs'[i].at \in Nat /\ runs'[i].at <= Len(weeks')
    BY <1>1, <2>2, <2>3 DEF FreshInv
  <2> QED  BY <2>3, <2>4, <2>5 DEF FreshInv
<1>3. CASE LateDay
  <2>1. runs' = runs /\ late' = TRUE /\ DOMAIN weeks' = DOMAIN weeks
    BY <1>3 DEF LateDay
  <2>2. Len(weeks') = n
    <3>1. weeks' \in Seq(WeekType)
      BY WeeksStayTyped
    <3>2. PICK later \in Seq(WeekType) : later = weeks'
      BY <3>1
    <3>3. DOMAIN later = 1..n
      BY <1>1, <2>1, <3>2
    <3> QED  BY <3>2, <3>3
  <2>3. \A i \in DOMAIN runs' : runs'[i].at \in Nat /\ runs'[i].at <= Len(weeks')
    BY <1>1, <2>1, <2>2 DEF FreshInv
  <2> QED  BY <2>1, <2>3 DEF FreshInv, Fresh
<1>4. CASE \E effective, since : Sound(effective) /\ RunPipeline(effective, since)
  <2>1. PICK effective, since : Sound(effective) /\ RunPipeline(effective, since)
    BY <1>4
  <2>2. PICK cooled, selection, points, issued, recorded, candidates :
          /\ weeks' = weeks
          /\ selection = Selection(Series, Masked(Usable), effective, Horizons, cooled)
          /\ Keeping(selection, points, issued, recorded)
          /\ Operating(selection, candidates)
    BY <2>1, RunOperates
  <2>3. TunedNow'
    BY <2>1, <2>2, RunTunes
  <2>4. PICK run :
          /\ run.at = Len(weeks) /\ \E S : runs' \in Seq(S)
          /\ Len(runs) \in Nat /\ DOMAIN runs = 1..Len(runs) /\ DOMAIN runs' = 1..(Len(runs) + 1)
          /\ \A i \in DOMAIN runs : runs'[i] = runs[i]
          /\ runs'[Len(runs) + 1] = run
    BY <2>2, RunAppends DEF FreshInv
  <2>5. \A i \in DOMAIN runs' : runs'[i].at \in Nat /\ runs'[i].at <= Len(weeks')
    BY <1>1, <2>2, <2>4 DEF FreshInv
  <2> QED  BY <2>3, <2>4, <2>5 DEF FreshInv
<1>5. CASE UNCHANGED vars
  <2>1. weeks' = weeks /\ runs' = runs /\ late' = late /\ setting' = setting /\ tuned' = tuned
    BY <1>5 DEF vars
  <2>2. CandidatesNow' = CandidatesNow
    BY <2>1, InputsStay DEF CandidatesNow, MeasuredNow, BacktestNow
  <2>3. TunedNow' <=> TunedNow
    BY <2>1, <2>2 DEF TunedNow
  <2> QED  BY <2>1, <2>3 DEF FreshInv, Fresh
<1>6. CASE Run
  BY <1>4, <1>6 DEF Run, SettingsInv
<1>7. CASE RunApproved
  BY <1>4, <1>7, TrackedIsSound DEF RunApproved
<1> QED  BY <1>2, <1>3, <1>5, <1>6, <1>7 DEF Next

LEMMA FreshHolds == Spec => []FreshInv
<1>1. Init => FreshInv
  <2>1. <<>> \in Seq({})
    OBVIOUS
  <2> QED  BY <2>1 DEF Init, FreshInv, Fresh
<1>2. weeks \in Seq(WeekType) /\ SettingsInv /\ FreshInv /\ [Next]_vars => FreshInv'
  BY FreshStep
<1> QED  BY <1>1, <1>2, WeeksAreTyped, SettingsHold, PTL DEF Spec

\* What the page would try and test again.
TriedNow == Tried(setting, BiasPersists(MeasuredNow.one, BiasWeeks), \E d \in DOMAIN UsableDays : UsableDays[d] > 0)

TestedNow == Tests((UNION {TriedNow[f] : f \in DOMAIN TriedNow}) \cup {tuned[k] : k \in DOMAIN tuned}, Material)

LEMMA DecisionsAre ==
  ASSUME SaidAgrees(MeasuredNow, TestedNow, tuned)
  PROVE  DecisionsAgree(Inputs, MeasuredNow)
BY DEF DecisionsAgree, SaidAgrees, TestedNow, TriedNow, Material, Inputs

LEMMA DecisionsDoAgree ==
  ASSUME weeks \in Seq(WeekType), SettingsInv, FreshInv
  PROVE  DecisionsAgree(Inputs, MeasuredNow)
<1>1. SUFFICES ASSUME Fresh  PROVE DecisionsAgree(Inputs, MeasuredNow)
  BY DEF Fresh, DecisionsAgree
<1>2. PICK candidates : candidates = CandidatesNow
  OBVIOUS
<1>3. PICK places : places = tuned
  OBVIOUS
<1>4. places = [k \in DOMAIN candidates |-> candidates[k].setting]
  BY <1>1, <1>2, <1>3 DEF FreshInv, TunedNow
<1>5. PICK persistent, observed :
        /\ candidates = Tuned(setting, MeasuredNow, Material, persistent, observed)
        /\ TriedNow = Tried(setting, persistent, observed)
  BY <1>2 DEF CandidatesNow, TunedBeside, TriedNow, Material, Inputs
<1>6. PICK tries : tries = TriedNow
  OBVIOUS
<1>7. PICK tested : tested = TestedNow
  OBVIOUS
<1>8. tested = Tests((UNION {tries[f] : f \in DOMAIN tries}) \cup {places[k] : k \in DOMAIN places}, Material)
  BY <1>3, <1>6, <1>7 DEF TestedNow
<1>9. /\ Material.series = Series /\ Material.indicators = Inputs /\ Material.horizons = Horizons
      /\ IsMaterial(Material) /\ Material.horizons \in Nat \ {0}
  BY MaterialIsFit, RunsAssumption DEF Material, Inputs
<1>10. PICK operating : operating = MeasuredNow
  OBVIOUS
<1>11. operating = Measured(Material.series, Backtest(Material.series, Material.indicators, setting, Material.horizons))
  BY <1>9, <1>10 DEF MeasuredNow, BacktestNow
<1>12. Sound(setting)
  BY SettingsNowAreSound
<1>13. SaidAgrees(operating, tested, places)
  <2>1. IsRetest(setting, Material, operating, candidates, tries, places, tested)
    BY <1>4, <1>5, <1>6, <1>8, <1>9, <1>10, <1>11, <1>12 DEF IsRetest
  <2> QED  BY <2>1, SaidDoesAgree
<1> QED  BY <1>3, <1>7, <1>10, <1>13, DecisionsAre

\* The views of a backtest agree with each other and with what decided on the
\* settings.
THEOREM DiagnosticsDoAgree == Spec => []DiagnosticsAgree
<1>1. weeks \in Seq(WeekType) /\ SettingsInv /\ FreshInv => DiagnosticsAgree
  <2> SUFFICES ASSUME weeks \in Seq(WeekType), SettingsInv, FreshInv  PROVE DiagnosticsAgree
    OBVIOUS
  <2>1. ComparisonsAgree(BacktestNow(setting), OneNow)
    BY ComparisonsDoAgree
  <2>2. ViewsAgree(Inputs, MeasuredNow, OneNow)
    BY ViewsDoAgree
  <2>3. DecisionsAgree(Inputs, MeasuredNow)
    BY DecisionsDoAgree
  <2> QED  BY <2>1, <2>2, <2>3 DEF DiagnosticsAgree, ComparisonsAgree, ViewsAgree, OneNow, MeasuredNow, BacktestNow, Inputs
<1> QED  BY <1>1, WeeksAreTyped, SettingsHold, FreshHolds, PTL
=============================================================================
