-------------------------- MODULE QuarterWeeks_proofs --------------------------
(***************************************************************************)
(* Theorems about QuarterWeeks for quarters of any length and every value  *)
(* of the bounds.                                                          *)
(***************************************************************************)
EXTENDS QuarterWeeks, NumberLemmas, FiniteSetTheorems

\* The constants as numbers.
LEMMA Bounds ==
  /\ Length \in Nat \ {0} /\ MaxAfter \in Nat /\ MaxLag \in Nat
  /\ LastDay \in Nat /\ Days \subseteq Nat /\ Sundays \subseteq Days
  /\ 0 \in Sundays
BY WeeksAssumption DEF LastDay, Days, Sundays

-----------------------------------------------------------------------------
(* Days and weeks.                                                         *)

\* A week begins on the Sunday of its day.
LEMMA WeekBegins ==
  ASSUME NEW d \in Nat
  PROVE  /\ d % 7 \in 0..6
         /\ WeekStart(d) \in Nat /\ WeekStart(d) % 7 = 0
         /\ WeekStart(d) = d - (d % 7)
BY DEF WeekStart

\* The end of a week that is given by its Sunday is the Thursday after it.
LEMMA WeekEnds ==
  ASSUME NEW s \in Nat, s % 7 = 0
  PROVE  WeekStart(s) = s /\ WeekEnd(s) = s + 4
BY DEF WeekStart, WeekEnd

\* Two Sundays are weeks apart.
LEMMA SundaysApart ==
  ASSUME NEW s \in Nat, NEW t \in Nat, s % 7 = 0, t % 7 = 0, s < t
  PROVE  s + 7 <= t /\ (t - s) % 7 = 0
OBVIOUS

-----------------------------------------------------------------------------
(* Types, and the last week a forecast knows.                              *)

\* The prices of the week a forecast starts from are there, and all prices
\* but the missing ones come before the quarter or up to the confirmed date.
AnchorKnown ==
  /\ start - 1 <= confirmed /\ confirmed \notin missing
  /\ \A d \in forecast.anchor..(forecast.anchor + 4) : d <= confirmed /\ d \notin missing

TypeInv == WeeksTypeOK /\ AnchorKnown

\* A forecast can start from the week before the first one a quarter may
\* begin in, and starts from a week with all of its prices.
LEMMA AnchorIsWeek ==
  ASSUME NEW c \in Days, NEW M \in SUBSET Nat, 6 <= c, \A d \in M : 7 <= d
  PROVE  LET a == Anchor((0..c) \ M)
         IN  a \in Sundays /\ \A d \in a..(a + 4) : d <= c /\ d \notin M
<1> DEFINE T == {w \in Sundays : w..WeekEnd(w) \subseteq (0..c) \ M}
<1>1. \A w \in Sundays : w \in Nat /\ WeekEnd(w) = w + 4
  BY WeekEnds, Bounds DEF Sundays
<1>2. 0 \in T
  BY <1>1, Bounds
<1>3. T \in SUBSET (0..LastDay)
  BY Bounds DEF Sundays, Days
<1>4. Max(T) \in T
  <2> HIDE DEF T
  <2> QED  BY <1>2, <1>3, Bounds, GreatestOf
<1>5. Max(T) \in Sundays /\ Max(T)..(Max(T) + 4) \subseteq (0..c) \ M
  BY <1>1, <1>4
<1> QED  BY <1>5 DEF Anchor

LEMMA TypeInit == Init => TypeInv
<1> SUFFICES ASSUME Init  PROVE TypeInv
  OBVIOUS
<1>1. start \in 7..13 /\ start % 7 \in StartDays
  BY DEF Init, FirstDays
<1>2. today = start - 1 /\ confirmed = start - 1 /\ missing = {} /\ official = {}
  BY DEF Init
<1>3. confirmed \in Days /\ 6 <= confirmed
  BY <1>1, <1>2, Bounds DEF Days, LastDay
<1>4. PICK path \in Paths : forecast = [anchor |-> Anchor(0..confirmed), path |-> path]
  BY DEF Init
<1>5. (0..confirmed) \ {} = 0..confirmed
  OBVIOUS
<1>6. /\ forecast.anchor \in Sundays /\ forecast.path \in Paths
      /\ \A d \in forecast.anchor..(forecast.anchor + 4) : d <= confirmed
  BY <1>3, <1>4, <1>5, AnchorIsWeek
<1>7. WeeksTypeOK
  <2>1. months \in BOOLEAN /\ quarterly \in BOOLEAN
    BY ZenonT(10) DEF Init
  <2>2. start \in FirstDays /\ today \in Days /\ confirmed \in 0..today
    BY <1>1, <1>2, <1>3 DEF FirstDays, Days
  <2> QED  BY <1>1, <1>2, <1>6, <2>1, <2>2 DEF WeeksTypeOK
<1>8. AnchorKnown
  BY <1>1, <1>2, <1>6 DEF AnchorKnown
<1> QED  BY <1>7, <1>8 DEF TypeInv

\* What an ingest leaves of days and prices.
LEMMA IngestKeeps ==
  ASSUME TypeInv, Ingest
  PROVE  /\ today \in Nat /\ today' = today + 1 /\ today' \in Days
         /\ start \in 7..13 /\ start' = start
         /\ missing' \subseteq start..today'
         /\ missing' \subseteq missing \union {today'}
         /\ confirmed \in Nat /\ confirmed' \in confirmed..today' /\ confirmed' \notin missing'
<1>1. start \in 7..13 /\ today \in Nat /\ confirmed \in 0..today /\ start - 1 <= confirmed
  BY Bounds DEF TypeInv, WeeksTypeOK, AnchorKnown, FirstDays
<1>2. today' = today + 1 /\ today' \in Days
  BY <1>1, Bounds DEF Ingest, end, Days, LastDay
<1>3. missing' \subseteq missing \union {today'}
  <2>1. PICK filled \in SUBSET missing, new \in SUBSET {today'} :
          missing' = (missing \ filled) \union new
    BY DEF Ingest
  <2> QED  BY <2>1
<1>4. missing' \subseteq start..today'
  BY <1>1, <1>2, <1>3 DEF TypeInv, WeeksTypeOK
<1> QED  BY <1>1, <1>2, <1>3, <1>4 DEF Ingest

LEMMA TypeStep == TypeInv /\ [Next]_vars => TypeInv'
<1> SUFFICES ASSUME TypeInv, [Next]_vars  PROVE TypeInv'
  OBVIOUS
<1> USE DEF TypeInv
<1>1. CASE Ingest
  <2>1. confirmed' \in Days /\ 6 <= confirmed'
    BY <1>1, IngestKeeps, Bounds DEF AnchorKnown, Days
  <2>2. missing' \in SUBSET Nat /\ \A d \in missing' : 7 <= d
    BY <1>1, IngestKeeps
  <2>3. PICK path \in Paths :
          forecast' = [anchor |-> Anchor((0..confirmed') \ missing'), path |-> path]
    BY <1>1 DEF Ingest
  <2>4. /\ forecast'.anchor \in Sundays /\ forecast'.path \in Paths
        /\ \A d \in (forecast'.anchor)..(forecast'.anchor + 4) :
             d <= confirmed' /\ d \notin missing'
    BY <2>1, <2>2, <2>3, AnchorIsWeek
  <2>5. WeeksTypeOK'
    <3>1. UNCHANGED <<start, official, months, quarterly>>
      BY <1>1 DEF Ingest
    <3>2. months' \in BOOLEAN /\ quarterly' \in BOOLEAN
      BY <3>1 DEF WeeksTypeOK
    <3>3. start' \in FirstDays /\ start' % 7 \in StartDays /\ official' \subseteq Sundays
      BY <3>1 DEF WeeksTypeOK
    <3>4. today' \in Days /\ confirmed' \in 0..today' /\ missing' \subseteq start'..today'
      BY <1>1, IngestKeeps
    <3> QED  BY <2>4, <3>2, <3>3, <3>4 DEF WeeksTypeOK
  <2>6. AnchorKnown'
    BY <1>1, <2>4, IngestKeeps DEF AnchorKnown
  <2> QED  BY <2>5, <2>6
<1>2. ASSUME NEW w \in Sundays, PublishWeek(w)  PROVE TypeInv'
  BY <1>2 DEF PublishWeek, WeeksTypeOK, AnchorKnown
<1>3. CASE PublishMonths
  BY <1>3 DEF PublishMonths, WeeksTypeOK, AnchorKnown
<1>4. CASE PublishQuarter
  BY <1>4 DEF PublishQuarter, WeeksTypeOK, AnchorKnown
<1>5. CASE UNCHANGED vars
  BY <1>5 DEF vars, WeeksTypeOK, AnchorKnown
<1> QED  BY <1>1, <1>2, <1>3, <1>4, <1>5 DEF Next

LEMMA TypeAlways == Spec => []TypeInv
BY TypeInit, TypeStep, PTL DEF Spec

\* Every variable keeps the values the code can give it, for a quarter of any
\* length: a forecast always starts from a week with all of its prices.
THEOREM WeeksTypesHold == Spec => []WeeksTypeOK
<1>1. TypeInv => WeeksTypeOK
  BY DEF TypeInv
<1> QED  BY <1>1, TypeAlways, PTL

-----------------------------------------------------------------------------
(* The weeks of a quarter.                                                 *)

\* A quarter begins on a day Opinet collects prices on.
BeginsOnCollectionDay == StartDays \subseteq 0..4

\* Where the weeks of the quarter lie.
LEMMA SlotFacts ==
  ASSUME TypeInv, NEW s \in Slots
  PROVE  /\ s \in Nat /\ s % 7 = 0 /\ s \in Sundays
         /\ start \in Nat /\ end \in Nat /\ start <= end /\ s <= end
         /\ WeekStart(start) = start - (start % 7) /\ WeekStart(start) <= s
         /\ From(s) = IF s >= start THEN s ELSE start
         /\ To(s) = IF s + 4 <= end THEN s + 4 ELSE end
         /\ From(s) \in Nat /\ To(s) \in Int
<1>1. s \in Sundays /\ s \in Nat /\ s % 7 = 0 /\ WeekStart(start) <= s /\ s <= end
  BY Bounds DEF Slots, Sundays
<1>2. start \in Nat /\ end \in Nat /\ start <= end
  BY Bounds DEF TypeInv, WeeksTypeOK, FirstDays, end
<1>3. WeekEnd(s) = s + 4 /\ WeekStart(start) = start - (start % 7)
  BY <1>1, <1>2, WeekEnds, WeekBegins
<1> QED  BY <1>1, <1>2, <1>3 DEF From, To, Later, Earlier

\* The first week has a day of the quarter, if it begins on a collection day.
LEMMA SlotHasDays ==
  ASSUME BeginsOnCollectionDay, TypeInv, NEW s \in Slots
  PROVE  From(s) <= To(s) /\ From(s) \in Int /\ To(s) \in Int
<1>1. start % 7 \in 0..4
  BY DEF BeginsOnCollectionDay, TypeInv, WeeksTypeOK
<1>2. start <= s + 4
  BY <1>1, SlotFacts
<1> QED  BY <1>2, SlotFacts

\* While a quarter goes on, every collection day of it is in one week, the
\* weeks have no day in common and none is empty or reaches beyond the
\* quarter, whatever day up to Thursday it begins and ends on.
THEOREM DaysCountOnce ==
  ASSUME BeginsOnCollectionDay
  PROVE  Spec => []EveryDayCountsOnce
<1>1. TypeInv => EveryDayCountsOnce
  <2> SUFFICES ASSUME TypeInv  PROVE EveryDayCountsOnce
    OBVIOUS
  <2>1. ASSUME NEW d \in start..end, d % 7 <= 4
        PROVE  \E s \in Slots : d \in DaysOf(s)
    <3>1. start \in 7..13 /\ end \in Nat /\ end <= LastDay /\ d \in Nat
      BY Bounds DEF TypeInv, WeeksTypeOK, FirstDays, end, LastDay
    <3> DEFINE s == WeekStart(d)
    <3>2. s \in Nat /\ s % 7 = 0 /\ s = d - (d % 7) /\ d % 7 \in 0..6
      BY <3>1, WeekBegins
    <3>3. WeekStart(start) <= s
      <4>1. WeekStart(start) = start - (start % 7) /\ WeekStart(start) \in Nat
             /\ WeekStart(start) % 7 = 0 /\ start % 7 \in 0..6
        BY <3>1, WeekBegins
      <4>2. CASE s < WeekStart(start)
        <5>1. s + 7 <= WeekStart(start)
          BY <3>2, <4>1, <4>2, SundaysApart
        <5>2. d < s + 7 /\ WeekStart(start) <= start /\ start <= d
          BY <2>1, <3>1, <3>2, <4>1
        <5> QED  BY <3>1, <3>2, <4>1, <5>1, <5>2
      <4> QED  BY <3>2, <4>1, <4>2
    <3>4. s \in Slots
      <4>1. s <= d /\ d <= end
        BY <2>1, <3>1, <3>2
      <4>2. s \in 0..LastDay
        BY <3>1, <3>2, <4>1, Bounds
      <4> HIDE DEF s
      <4>3. s <= end
        BY <3>1, <3>2, <4>1
      <4> QED  BY <3>2, <3>3, <4>2, <4>3 DEF Slots, Sundays, Days
    <3>5. d \in DaysOf(s)
      BY <2>1, <3>1, <3>2, <3>4, SlotFacts DEF DaysOf
    <3> QED  BY <3>4, <3>5
  <2>2. ASSUME NEW s \in Slots, NEW t \in Slots, s # t
        PROVE  DaysOf(s) \intersect DaysOf(t) = {}
    <3>1. s + 7 <= t \/ t + 7 <= s
      <4>1. s \in Nat /\ t \in Nat /\ s % 7 = 0 /\ t % 7 = 0
        BY SlotFacts
      <4>2. CASE s < t
        BY <4>1, <4>2, SundaysApart
      <4>3. CASE t < s
        BY <4>1, <4>3, SundaysApart
      <4> QED  BY <2>2, <4>1, <4>2, <4>3
    <3>2. s \in Nat /\ t \in Nat /\ From(s) >= s /\ From(t) >= t /\ To(s) <= s + 4 /\ To(t) <= t + 4
      BY SlotFacts
    <3>3. From(s) \in Int /\ From(t) \in Int /\ To(s) \in Int /\ To(t) \in Int
      BY SlotFacts
    <3> QED  BY <3>1, <3>2, <3>3 DEF DaysOf
  <2>3. ASSUME NEW s \in Slots
        PROVE  DaysOf(s) # {} /\ DaysOf(s) \subseteq start..end
    <3>1. From(s) \in DaysOf(s)
      BY SlotHasDays DEF DaysOf
    <3>2. From(s) >= start /\ To(s) <= end /\ From(s) \in Int /\ To(s) \in Int
      BY SlotFacts
    <3>3. start \in Int /\ end \in Int
      BY SlotFacts
    <3> QED  BY <3>1, <3>2, <3>3 DEF DaysOf
  <2> QED  BY <2>1, <2>2, <2>3 DEF EveryDayCountsOnce
<1> QED  BY <1>1, TypeAlways, PTL

-----------------------------------------------------------------------------
(* Actual weeks.                                                           *)

\* As many prices as a week has days are the prices of all of its days.
LEMMA CompletedIsWhole ==
  ASSUME TypeInv, NEW s \in Slots, CompletedDaily(s)
  PROVE  DaysOf(s) \subseteq Priced
<1> DEFINE T == DaysOf(s) \intersect Priced
<1>1. From(s) \in Int /\ To(s) \in Int
  BY SlotFacts
<1>2. IsFiniteSet(DaysOf(s))
      /\ Cardinality(DaysOf(s)) = IF From(s) > To(s) THEN 0 ELSE To(s) - From(s) + 1
  BY <1>1, FS_Interval DEF DaysOf
<1>3. CASE From(s) > To(s)
  BY <1>1, <1>3 DEF DaysOf
<1>4. CASE From(s) <= To(s)
  <2>1. Cardinality(T) = Cardinality(DaysOf(s))
    BY <1>1, <1>2, <1>4 DEF CompletedDaily
  <2>2. T \in SUBSET DaysOf(s)
    OBVIOUS
  <2>3. T = DaysOf(s)
    <3> HIDE DEF T
    <3> QED  BY <1>2, <2>1, <2>2, FS_Subset
  <2> QED  BY <2>3
<1> QED  BY <1>1, <1>3, <1>4

\* The price of an actual week that is not official is the average of all of
\* its days: none is missing and none is after the confirmed date (it is
\* enough that the code compares the number of prices with that of the days).
THEOREM DailyWeeksHaveAllDays ==
  ASSUME BeginsOnCollectionDay
  PROVE  Spec => []DailyWeeksAreWhole
<1>1. TypeInv => DailyWeeksAreWhole
  <2> SUFFICES ASSUME TypeInv, NEW s \in Slots,
                      ~Completed, Actual(s), Published(s) = {}
               PROVE  /\ DaysOf(s) \intersect missing = {} /\ To(s) <= confirmed
                      /\ ActualPrice(s) =
                           Mean(MapThenSumSet(LAMBDA d : DailyPrice[d], DaysOf(s)),
                                Cardinality(DaysOf(s)))
    BY DEF DailyWeeksAreWhole
  <2>1. DaysOf(s) \subseteq Priced
    BY CompletedIsWhole DEF Actual
  <2>2. DaysOf(s) \intersect Priced = DaysOf(s)
    BY <2>1
  <2>3. DaysOf(s) \intersect missing = {}
    BY <2>1 DEF Priced
  <2>4. To(s) \in DaysOf(s)
    BY SlotHasDays DEF DaysOf
  <2>5. To(s) <= confirmed
    BY <2>1, <2>4 DEF Priced
  <2>6. ActualPrice(s) =
          Mean(MapThenSumSet(LAMBDA d : DailyPrice[d], DaysOf(s)), Cardinality(DaysOf(s)))
    BY <2>2, Zenon DEF ActualPrice
  <2> QED  BY <2>3, <2>5, <2>6
<1> QED  BY <1>1, TypeAlways, PTL

\* No price that counts is taken back, and no official week.
LEMMA NothingWithdrawn ==
  ASSUME TypeInv, [Next]_vars
  PROVE  start' = start /\ Priced \subseteq Priced' /\ official \subseteq official'
<1>1. CASE Ingest
  <2>1. start' = start /\ official' = official
    BY <1>1 DEF Ingest
  <2>2. ASSUME NEW d \in Priced  PROVE d \in Priced'
    <3>1. d \in Days /\ d \in Nat /\ d <= confirmed /\ d \notin missing
      BY Bounds DEF Priced
    <3>2. d <= confirmed'
      BY <1>1, <3>1, IngestKeeps
    <3>3. today \in Nat /\ confirmed \in 0..today /\ today' = today + 1
      BY <1>1, IngestKeeps DEF TypeInv, WeeksTypeOK
    <3>4. d # today'
      BY <3>1, <3>3
    <3>5. d \notin missing'
      BY <1>1, <3>1, <3>4, IngestKeeps
    <3> QED  BY <3>1, <3>2, <3>5 DEF Priced
  <2> QED  BY <2>1, <2>2
<1>2. ASSUME NEW w \in Sundays, PublishWeek(w)
      PROVE  start' = start /\ Priced \subseteq Priced' /\ official \subseteq official'
  BY <1>2 DEF PublishWeek, Priced
<1>3. CASE PublishMonths
  BY <1>3 DEF PublishMonths, Priced
<1>4. CASE PublishQuarter
  BY <1>4 DEF PublishQuarter, Priced
<1>5. CASE UNCHANGED vars
  BY <1>5 DEF vars, Priced
<1> QED  BY <1>1, <1>2, <1>3, <1>4, <1>5 DEF Next

\* A week that is actual stays actual while the quarter goes on, whatever
\* prices come late and whatever Opinet publishes.
THEOREM ActualForGood == Spec => ActualIsKept
<1>1. TypeInv /\ TypeInv' /\ [Next]_vars =>
        [~Completed' => \A s \in Slots : Actual(s) => Actual(s)']_vars
  <2> SUFFICES ASSUME TypeInv, TypeInv', [Next]_vars, NEW s \in Slots, Actual(s)
               PROVE  Actual(s)'
    OBVIOUS
  <2>1. start' = start /\ Priced \subseteq Priced' /\ official \subseteq official'
    BY NothingWithdrawn
  <2>2. DaysOf(s)' = DaysOf(s) /\ To(s)' = To(s) /\ From(s)' = From(s)
    BY <2>1 DEF DaysOf, From, To, end
  <2>3. CASE Published(s) # {}
    BY <2>1, <2>2, <2>3 DEF Published, Actual
  <2>4. CASE CompletedDaily(s)
    <3>1. DaysOf(s) \subseteq Priced
      BY <2>4, CompletedIsWhole
    <3>2. DaysOf(s) \intersect Priced = DaysOf(s) /\ DaysOf(s) \intersect Priced' = DaysOf(s)
      BY <2>1, <3>1
    <3>3. Cardinality(DaysOf(s) \intersect Priced') = To(s) - From(s) + 1
      BY <2>4, <3>2 DEF CompletedDaily
    <3>4. \E d \in Priced' : To(s) <= d
      BY <2>1, <2>4 DEF CompletedDaily
    <3>5. CompletedDaily(s)'
      BY <2>2, <3>3, <3>4 DEF CompletedDaily
    <3> QED  BY <3>5 DEF Actual
  <2> QED  BY <2>3, <2>4 DEF Actual
<1> QED  BY <1>1, TypeAlways, PTL DEF Spec, ActualIsKept

-----------------------------------------------------------------------------
(* Weeks without a price, and the average of a completed quarter.          *)

\* Only a week that lies before the last one the forecast knows, and misses a
\* day, is left without a price: what lies after it has a price of the forecast
\* or goes on from it.
THEOREM PendingWeeksAreGaps ==
  ASSUME BeginsOnCollectionDay
  PROVE  Spec => []OnlyGapsArePending
<1>1. TypeInv => OnlyGapsArePending
  <2> SUFFICES ASSUME TypeInv, NEW s \in Slots, ~Actual(s), ~Forecast(s)
               PROVE  s <= forecast.anchor /\ DaysOf(s) \intersect missing # {}
    BY DEF OnlyGapsArePending
  <2> DEFINE a == forecast.anchor
             n == Len(forecast.path)
  <2>1. a \in Nat /\ a % 7 = 0
    BY Bounds DEF TypeInv, WeeksTypeOK, Sundays
  <2>2. n \in Nat /\ n > 1 /\ DOMAIN forecast.path = 1..n
    BY WeeksAssumption DEF TypeInv, WeeksTypeOK
  <2>3. s \in Nat /\ s % 7 = 0
    BY SlotFacts
  <2>4. s <= a
    <3> SUFFICES ASSUME s > a  PROVE FALSE
      BY <2>1, <2>3
    <3> DEFINE k == (s - a) \div 7
    <3>1. (s - a) % 7 = 0
      BY <2>1, <2>3, SundaysApart
    <3>2. k \in Nat /\ k >= 1 /\ s = a + 7 * k
      BY <2>1, <2>3, <3>1
    <3> HIDE DEF k
    <3>3. CASE k <= n
      <4>1. k \in Matching(s)
        BY <2>2, <3>2, <3>3 DEF Matching, Target
      <4> QED  BY <4>1 DEF Forecast
    <3>4. CASE k > n
      <4>1. a \in Int /\ s > a + 14
        BY <2>1, <2>2, <3>2, <3>4
      <4>2. 1 \in Before(s) /\ 2 \in Before(s)
        BY <2>2, <2>3, <4>1 DEF Before, Target
      <4>3. 2 \in Changes(s)
        BY <4>2 DEF Changes
      <4> QED  BY <4>3 DEF Forecast
    <3> QED  BY <2>2, <3>2, <3>3, <3>4
  <2>5. DaysOf(s) \intersect missing # {}
    <3> SUFFICES ASSUME DaysOf(s) \intersect missing = {}  PROVE CompletedDaily(s)
      BY DEF Actual
    <3>1. From(s) <= To(s) /\ From(s) \in Nat /\ To(s) \in Nat /\ To(s) <= s + 4
      BY SlotHasDays, SlotFacts
    <3>2. confirmed \in Nat /\ confirmed <= LastDay /\ a + 4 <= confirmed
      BY <2>1, Bounds DEF TypeInv, WeeksTypeOK, AnchorKnown, Days
    <3>3. ASSUME NEW d \in DaysOf(s)  PROVE d \in Priced
      <4>1. d \in Nat /\ d <= To(s)
        BY <3>1 DEF DaysOf
      <4>2. d <= confirmed /\ d <= LastDay
        BY <2>1, <2>3, <2>4, <3>1, <3>2, <4>1, Bounds
      <4> QED  BY <4>1, <4>2, Bounds DEF Priced, Days
    <3>4. DaysOf(s) \intersect Priced = DaysOf(s)
      BY <3>3
    <3>5. Cardinality(DaysOf(s)) = To(s) - From(s) + 1
      BY <3>1, FS_Interval DEF DaysOf
    <3>6. To(s) \in Priced
      BY <3>1, <3>3 DEF DaysOf
    <3> QED  BY <3>1, <3>4, <3>5, <3>6 DEF CompletedDaily
  <2> QED  BY <2>4, <2>5
<1> QED  BY <1>1, TypeAlways, PTL

\* The average of a completed quarter never rests on its weeks.
BasisIsOfficial ==
  Completed => Basis = IF quarterly THEN "quarter" ELSE IF months THEN "months" ELSE "none"

LEMMA BasisAlways ==
  ASSUME BeginsOnCollectionDay
  PROVE  Spec => []BasisIsOfficial
<1>1. TypeInv => BasisIsOfficial
  <2> SUFFICES ASSUME TypeInv  PROVE BasisIsOfficial
    OBVIOUS
  <2>1. ASSUME NEW s \in Slots  PROVE ~Fails(s)
    <3> SUFFICES ASSUME CompletedDaily(s)  PROVE DaysOf(s) \intersect Priced # {}
      BY DEF Fails
    <3>1. From(s) \in DaysOf(s)
      BY SlotHasDays DEF DaysOf
    <3> QED  BY <3>1, CompletedIsWhole
  <2> QED  BY <2>1 DEF BasisIsOfficial, Basis
<1> QED  BY <1>1, TypeAlways, PTL

\* The average of a completed quarter does not change any more once it is
\* the official one of the quarter; before it can only be that of its months.
THEOREM AverageIsFinal ==
  ASSUME BeginsOnCollectionDay
  PROVE  Spec => OfficialAverageIsFinal
<1> DEFINE Final == \/ Basis' = Basis /\ Average' = Average
                    \/ Basis = "months" /\ Basis' = "quarter"
<1>1. TypeInv /\ BasisIsOfficial /\ BasisIsOfficial' /\ [Next]_vars =>
        [(Completed /\ Basis # "none") => Final]_vars
  <2> SUFFICES ASSUME TypeInv, BasisIsOfficial, BasisIsOfficial', [Next]_vars,
                      Completed, Basis # "none"
               PROVE  Final
    OBVIOUS
  <2>1. start' = start /\ end' = end
    BY NothingWithdrawn DEF end
  <2>2. today' = today \/ today' = today + 1
    BY DEF Next, Ingest, PublishWeek, PublishMonths, PublishQuarter, vars
  <2>3. today \in Int /\ end \in Int
    BY Bounds DEF TypeInv, WeeksTypeOK, FirstDays, end
  <2>4. Completed'
    BY <2>1, <2>2, <2>3 DEF Completed
  <2>5. (quarterly => quarterly') /\ (months => months')
    <3>1. CASE Ingest
      BY <3>1 DEF Ingest
    <3>2. ASSUME NEW w \in Sundays, PublishWeek(w)
          PROVE  (quarterly => quarterly') /\ (months => months')
      BY <3>2 DEF PublishWeek
    <3>3. CASE PublishMonths
      BY <3>3 DEF PublishMonths
    <3>4. CASE PublishQuarter
      BY <3>4 DEF PublishQuarter
    <3>5. CASE UNCHANGED vars
      BY <3>5 DEF vars
    <3> QED  BY <3>1, <3>2, <3>3, <3>4, <3>5 DEF Next
  <2>6. CASE quarterly
    <3>1. Basis = "quarter" /\ Basis' = "quarter"
      BY <2>4, <2>5, <2>6 DEF BasisIsOfficial
    <3> QED  BY <3>1 DEF Average
  <2>7. CASE ~quarterly
    <3>1. months /\ Basis = "months" /\ Basis' \in {"months", "quarter"}
      BY <2>4, <2>5, <2>7 DEF BasisIsOfficial
    <3> QED  BY <3>1 DEF Average
  <2> QED  BY <2>6, <2>7
<1> QED  BY <1>1, TypeAlways, BasisAlways, PTL DEF Spec, OfficialAverageIsFinal

-----------------------------------------------------------------------------
(* Prices beyond the forecast.                                             *)

\* The change along a path from its first to its m-th price is the sum of the
\* changes from week to week.
LEMMA ChangesAddUp ==
  ASSUME NEW path \in Seq(Int), Len(path) > 1
  PROVE  MapThenSumSet(LAMBDA h : path[h] - path[h - 1], 2..Len(path))
           = path[Len(path)] - path[1]
<1> DEFINE Chosen(X) == CHOOSE x \in X : TRUE
           Change(F, X) == IF X = {} THEN 0
                           ELSE (path[Chosen(X)] - path[Chosen(X) - 1]) + F[X \ {Chosen(X)}]
<1>0. PICK n \in Nat : n = Len(path)
  OBVIOUS
<1>1. PICK T : T = 2..n
  OBVIOUS
<1>2. /\ n > 1 /\ IsFiniteSet(T) /\ \A h \in 1..n : path[h] \in Int
      /\ \A h \in T : path[h] \in Int /\ path[h - 1] \in Int
  <2>1. n > 1 /\ \A h \in 1..n : path[h] \in Int
    BY <1>0
  <2>2. \A h \in T : h \in 1..n /\ h - 1 \in 1..n
    BY <1>1, <2>1
  <2>3. IsFiniteSet(T)
    BY <1>1, FS_Interval
  <2> QED  BY <2>1, <2>2, <2>3
<1>3. PICK g \in [T -> Int] : \A h \in T : g[h] = path[h] - path[h - 1]
  <2> DEFINE f == [h \in T |-> path[h] - path[h - 1]]
  <2>1. f \in [T -> Int] /\ \A h \in T : f[h] = path[h] - path[h - 1]
    BY <1>2
  <2> QED  BY <2>1
<1>4. PICK next : \A X \in SUBSET T : next[X] = Chosen(X)
  <2> DEFINE f == [X \in SUBSET T |-> Chosen(X)]
  <2>1. \A X \in SUBSET T : f[X] = Chosen(X)
    OBVIOUS
  <2> QED  BY <2>1
<1>5. \A X \in SUBSET T : X # {} => next[X] \in X /\ next[X] \in T
  BY <1>4
<1>6. Picks(next, T)
  BY <1>5 DEF Picks
<1>7. ASSUME NEW F, NEW X \in SUBSET T
      PROVE  Change(F, X) = IF X = {} THEN 0 ELSE g[next[X]] + F[X \ {next[X]}]
  <2>1. CASE X = {}
    BY <2>1
  <2>2. CASE X # {}
    <3>1. next[X] \in T /\ next[X] = Chosen(X)
      BY <1>4, <1>5, <2>2
    <3>2. g[next[X]] = path[Chosen(X)] - path[Chosen(X) - 1]
      BY <1>3, <3>1
    <3> HIDE DEF Chosen
    <3> QED  BY <2>2, <3>1, <3>2
  <2> QED  BY <2>1, <2>2
<1>8. PICK sum : /\ sum = [X \in SUBSET T |-> Change(sum, X)]
                 /\ MapThenSumSet(LAMBDA h : path[h] - path[h - 1], T) = sum[T]
  <2> DEFINE s == CHOOSE iter : iter = [X \in SUBSET T |-> Change(iter, X)]
  <2>1. PICK F \in [SUBSET T -> Int] : Sums(F, g, next, T)
    BY <1>2, <1>6, SumsExist
  <2>2. MapThenSumSet(LAMBDA h : path[h] - path[h - 1], T) = s[T]
    BY DEF MapThenSumSet, MapThenFoldSet
  <2> HIDE DEF Change
  <2>3. F = [X \in SUBSET T |-> Change(F, X)]
    <3>1. \A X \in SUBSET T : F[X] = Change(F, X)
      BY <1>7, <2>1 DEF Sums
    <3> QED  BY <3>1
  <2>4. s = [X \in SUBSET T |-> Change(s, X)]
    BY <2>3
  <2> QED  BY <2>2, <2>4
<1>9. Sums(sum, g, next, T)
  <2> HIDE DEF Change
  <2> QED  BY <1>7, <1>8 DEF Sums
<1>10. AnyOrder(sum, g, T)
  BY <1>2, <1>6, <1>9, SumsInAnyOrder
<1>11. sum[{}] = 0
  BY <1>9 DEF Sums
<1> HIDE DEF Change
<1> DEFINE wrong == {m \in 1..n : sum[2..m] # path[m] - path[1]}
<1>12. wrong = {}
  <2> SUFFICES ASSUME wrong # {}  PROVE FALSE
    OBVIOUS
  <2>1. PICK m \in wrong : \A k \in wrong : m <= k
    <3>1. wrong \in SUBSET Nat
      OBVIOUS
    <3> HIDE DEF wrong
    <3> QED  BY <3>1, LeastOf
  <2>2. m \in Nat /\ m \in 1..n /\ sum[2..m] # path[m] - path[1]
    BY <2>1
  <2>3. m # 1
    <3>1. 2..1 = {}
      OBVIOUS
    <3>2. path[1] \in Int
      BY <1>2
    <3> QED  BY <1>11, <2>2, <3>1, <3>2
  <2>4. m - 1 \in 1..n /\ m - 1 \in Nat /\ m \in T /\ m - 1 < m
    BY <1>1, <2>2, <2>3
  <2>5. sum[2..(m - 1)] = path[m - 1] - path[1]
    <3>1. m - 1 \notin wrong
      <4> HIDE DEF wrong
      <4> QED  BY <2>1, <2>2, <2>4
    <3> QED  BY <2>4, <3>1
  <2>6. (2..m) \ {m} = 2..(m - 1) /\ 2..m \in SUBSET T /\ m \in 2..m
    <3>1. m \in 2..m /\ m <= n
      BY <2>2, <2>3
    <3>2. 2..m \subseteq 2..n
      BY <2>2, <3>1
    <3>3. (2..m) \ {m} = 2..(m - 1)
      BY <2>2
    <3> QED  BY <1>1, <3>1, <3>2, <3>3
  <2>7. sum[2..m] = g[m] + sum[2..(m - 1)]
    BY <1>10, <2>6 DEF AnyOrder
  <2>8. g[m] = path[m] - path[m - 1]
    BY <1>3, <2>4
  <2>9. path[m] \in Int /\ path[m - 1] \in Int /\ path[1] \in Int
    BY <1>2, <2>2, <2>4
  <2> HIDE DEF wrong
  <2> QED  BY <2>2, <2>5, <2>7, <2>8, <2>9
<1>13. sum[T] = path[n] - path[1]
  <2>1. n \in 1..n /\ n \notin wrong
    BY <1>2, <1>12
  <2> QED  BY <1>1, <2>1
<1> QED  BY <1>0, <1>1, <1>8, <1>13

LEMMA MaxUpto ==
  ASSUME NEW n \in Nat, n > 0
  PROVE  Max(1..n) = n
<1>1. PICK B : B = 1..n
  OBVIOUS
<1>2. B \in SUBSET (0..n) /\ n \in B /\ \A x \in B : x \in Nat /\ x <= n
  BY <1>1
<1>3. Max(B) \in B /\ n <= Max(B)
  BY <1>2, GreatestOf
<1>4. Max(B) = n
  <2>1. Max(B) \in Nat /\ Max(B) <= n
    BY <1>2, <1>3
  <2> QED  BY <1>3, <2>1
<1> QED  BY <1>1, <1>4

\* A week that is no week of the forecast, but comes after a change of it,
\* lies beyond its last week.
LEMMA BeyondForecast ==
  ASSUME TypeInv, NEW s \in Slots, Matching(s) = {}, Forecast(s)
  PROVE  LET n == Len(forecast.path)
         IN  /\ forecast.path \in Seq(Int) /\ n \in Nat /\ n > 1
             /\ Before(s) = 1..n /\ Changes(s) = 2..n
             /\ forecast.anchor \in Nat /\ s \in Nat
             /\ \E k \in Nat : k > n /\ s = forecast.anchor + 7 * k
<1> DEFINE path == forecast.path
           n == Len(path)
           a == forecast.anchor
<1>1. path \in Seq(Int) /\ n \in Nat /\ n > 1 /\ DOMAIN path = 1..n
  BY WeeksAssumption DEF TypeInv, WeeksTypeOK
<1>2. a \in Nat /\ a % 7 = 0 /\ s \in Nat /\ s % 7 = 0
  BY Bounds DEF TypeInv, WeeksTypeOK, Sundays, Slots
<1>3. PICK h \in 1..n : a + 7 * h < s
  BY <1>1 DEF Forecast, Changes, Before, Target
<1>4. \A i \in 1..n : a + 7 * i # s
  BY <1>1 DEF Matching, Target
<1> DEFINE k == (s - a) \div 7
<1> HIDE DEF n, a, path
<1>5. s = a + 7 * k /\ k \in Nat
  <2>1. (s - a) % 7 = 0 /\ s - a \in Nat
    BY <1>2, <1>3, SundaysApart
  <2> QED  BY <1>2, <2>1
<1> HIDE DEF k
<1>6. k > n
  <2>1. k \notin 1..n
    BY <1>4, <1>5
  <2>2. k >= 1
    BY <1>2, <1>3, <1>5
  <2> QED  BY <1>1, <1>5, <2>1, <2>2
<1>7. Before(s) = 1..n
  <2>1. \A i \in 1..n : a + 7 * i < s
    BY <1>1, <1>2, <1>5, <1>6
  <2> QED  BY <1>1, <2>1 DEF Before, Target, a, path
<1>8. Changes(s) = 2..n
  BY <1>1, <1>7 DEF Changes
<1> QED  BY <1>1, <1>2, <1>5, <1>6, <1>7, <1>8 DEF n, a, path

\* Beyond the last week it has a price for, a forecast of any length goes on
\* along the line from its first to its last price.
THEOREM TrendIsALine == Spec => []TrendIsStraight
<1>1. TypeInv => TrendIsStraight
  <2> SUFFICES ASSUME TypeInv, NEW s \in Slots, Matching(s) = {}, Forecast(s)
               PROVE  LET path == forecast.path
                          n    == Len(path)
                      IN  ForecastPrice(s) =
                            Mean(path[1] * (n - 1)
                                   + (path[n] - path[1]) * ((s - Target(1)) \div 7), n - 1)
    BY DEF TrendIsStraight
  <2> DEFINE path == forecast.path
             n == Len(path)
             a == forecast.anchor
  <2>1. /\ path \in Seq(Int) /\ n \in Nat /\ n > 1
        /\ Before(s) = 1..n /\ Changes(s) = 2..n /\ a \in Nat /\ s \in Nat
        /\ \E k \in Nat : k > n /\ s = a + 7 * k
    BY BeyondForecast
  <2>2. PICK k \in Nat : k > n /\ s = a + 7 * k
    BY <2>1
  <2>3. path[n] \in Int /\ path[1] \in Int
    BY <2>1
  <2>4. Max(Before(s)) = n
    BY <2>1, MaxUpto
  <2>5. Cardinality(Changes(s)) = n - 1
    <3>1. Cardinality(2..n) = n - 2 + 1
      <4> HIDE DEF n
      <4>1. n \in Int /\ 2 \in Int /\ 2 <= n
        BY <2>1
      <4> QED  BY <4>1, FS_Interval
    <3> HIDE DEF n
    <3> QED  BY <2>1, <3>1
  <2>6. MapThenSumSet(LAMBDA h : path[h] - path[h - 1], Changes(s)) = path[n] - path[1]
    BY <2>1, ChangesAddUp
  <2>7. ForecastPrice(s) =
          Mean(path[n] * (n - 1) + (path[n] - path[1]) * ((s - Target(n)) \div 7), n - 1)
    BY <2>4, <2>5, <2>6 DEF ForecastPrice
  <2>8. (s - Target(n)) \div 7 = k - n /\ (s - Target(1)) \div 7 = k - 1
    <3>1. Target(n) = a + 7 * n /\ Target(1) = a + 7 * 1
      BY DEF Target
    <3> HIDE DEF n, a
    <3>2. s - (a + 7 * n) = 7 * (k - n) /\ s - (a + 7 * 1) = 7 * (k - 1)
      BY <2>1, <2>2
    <3>3. k - n \in Int /\ k - 1 \in Int
      BY <2>1, <2>2
    <3>4. \A i \in Int : (7 * i) \div 7 = i
      OBVIOUS
    <3> QED  BY <3>1, <3>2, <3>3, <3>4
  <2>9. path[n] * (n - 1) + (path[n] - path[1]) * (k - n) =
          path[1] * (n - 1) + (path[n] - path[1]) * (k - 1)
    <3> DEFINE x == path[1]
               y == path[n]
               m == n - 1
               j == k - n
    <3>1. x \in Int /\ y \in Int /\ m \in Int /\ j \in Int /\ k - 1 = j + m
      BY <2>1, <2>2, <2>3
    <3> HIDE DEF x, y, m, j
    <3>2. (y - x) * (j + m) = (y - x) * j + y * m - x * m
      BY <3>1
    <3>3. y * m + (y - x) * j = x * m + (y - x) * (j + m)
      BY <3>1, <3>2
    <3> QED  BY <3>1, <3>3 DEF x, y, m, j
  <2> QED  BY <2>7, <2>8, <2>9
<1> QED  BY <1>1, TypeAlways, PTL
=============================================================================
