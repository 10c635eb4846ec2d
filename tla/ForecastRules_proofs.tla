-------------------------- MODULE ForecastRules_proofs --------------------------
(***************************************************************************)
(* Lemmas about the rules a forecast run follows, for any series: sets put *)
(* in order, the projection and the backtest that replays it, the figures  *)
(* of its windows, and the order of candidates.  The theorems about the    *)
(* runs themselves are in ForecastRuns_proofs.                             *)
(***************************************************************************)
EXTENDS ForwardRecords, MarketRegimes, BacktestViews,
        NumberLemmas, SequenceTheorems, FiniteSetTheorems, TLAPS

-----------------------------------------------------------------------------
(* Ordered sets.                                                           *)

Below(R, S, s) == {o \in S : <<o, s>> \in R}

\* R orders the elements of S strictly and totally.
Orders(R, S) ==
  /\ \A a \in S : <<a, a>> \notin R
  /\ \A a, b \in S : a = b \/ <<a, b>> \in R \/ <<b, a>> \in R
  /\ \A a, b, c \in S : <<a, b>> \in R /\ <<b, c>> \in R => <<a, c>> \in R

\* What comes later has more before it.
LEMMA BelowGrows ==
  ASSUME NEW S, IsFiniteSet(S), NEW R, Orders(R, S), NEW a \in S, NEW b \in S, <<a, b>> \in R
  PROVE  Cardinality(Below(R, S, a)) < Cardinality(Below(R, S, b))
<1>1. Below(R, S, a) \in SUBSET Below(R, S, b) /\ a \in Below(R, S, b) /\ a \notin Below(R, S, a)
  BY DEF Below, Orders
<1>2. IsFiniteSet(Below(R, S, b)) /\ Below(R, S, b) \in SUBSET S
  BY FS_Subset DEF Below
<1>3. /\ Cardinality(Below(R, S, a)) <= Cardinality(Below(R, S, b))
      /\ Cardinality(Below(R, S, a)) # Cardinality(Below(R, S, b))
      /\ IsFiniteSet(Below(R, S, a))
  BY <1>1, <1>2, FS_Subset
<1> QED  BY <1>2, <1>3, FS_CardinalityType

LEMMA BelowIsLess ==
  ASSUME NEW S, IsFiniteSet(S), NEW R, Orders(R, S), NEW a \in S
  PROVE  Cardinality(Below(R, S, a)) \in 0..(Cardinality(S) - 1)
<1>1. Below(R, S, a) \in SUBSET S /\ a \notin Below(R, S, a)
  BY DEF Below, Orders
<1>2. /\ Cardinality(Below(R, S, a)) <= Cardinality(S)
      /\ Cardinality(Below(R, S, a)) # Cardinality(S)
      /\ IsFiniteSet(Below(R, S, a))
  BY <1>1, FS_Subset
<1> QED  BY <1>2, FS_CardinalityType

\* For every number there is one element with so many before it.
LEMMA EveryPlaceIsTaken ==
  ASSUME NEW S, IsFiniteSet(S), NEW R, Orders(R, S), NEW i \in 1..Cardinality(S)
  PROVE  \E s \in S : Cardinality(Below(R, S, s)) = i - 1
<1> DEFINE n == Cardinality(S)
           place == [s \in S |-> Cardinality(Below(R, S, s))]
<1>1. n \in Nat
  BY FS_CardinalityType
<1>2. place \in [S -> 0..(n - 1)]
  BY BelowIsLess
<1>3. \A a, b \in S : place[a] = place[b] => a = b
  <2> SUFFICES ASSUME NEW a \in S, NEW b \in S, place[a] = place[b], a # b  PROVE FALSE
    OBVIOUS
  <2>1. <<a, b>> \in R \/ <<b, a>> \in R
    BY DEF Orders
  <2>2. place[a] \in Int /\ place[b] \in Int
    BY <1>1, <1>2
  <2>3. CASE <<a, b>> \in R
    BY <2>2, <2>3, BelowGrows
  <2>4. CASE <<b, a>> \in R
    BY <2>2, <2>4, BelowGrows
  <2> QED  BY <2>1, <2>3, <2>4
<1> HIDE DEF place, n
<1>4. IsFiniteSet(0..(n - 1)) /\ Cardinality(0..(n - 1)) = n
  <2>1. 0 \in Int /\ n - 1 \in Int
    BY <1>1
  <2> QED  BY <1>1, <2>1, FS_Interval
<1>5. place \in Injection(S, 0..(n - 1))
  BY <1>2, <1>3 DEF Injection, IsInjective
<1>6. place \in Surjection(S, 0..(n - 1))
  BY <1>4, <1>5, FS_Injection DEF n
<1>7. i - 1 \in 0..(n - 1)
  BY <1>1 DEF n
<1>8. PICK s \in S : place[s] = i - 1
  BY <1>6, <1>7 DEF Surjection
<1>9. place[s] = Cardinality(Below(R, S, s))
  BY DEF place
<1> QED  BY <1>8, <1>9

\* The numbers of a set below one.
LessIn(S, s) == {o \in S : o < s}

LEMMA NumbersAreOrdered ==
  ASSUME NEW S \in SUBSET Nat, IsFiniteSet(S)
  PROVE  LET n == Cardinality(S)
         IN  /\ n \in Nat
             /\ \A s \in S : Cardinality(LessIn(S, s)) \in 0..(n - 1)
             /\ \A i \in 1..n : \E s \in S : Cardinality(LessIn(S, s)) = i - 1
             /\ \A a, b \in S : a < b => Cardinality(LessIn(S, a)) < Cardinality(LessIn(S, b))
<1> DEFINE R == {pair \in S \X S : pair[1] < pair[2]}
           n == Cardinality(S)
<1>1. \A a, b \in S : <<a, b>> \in R <=> a < b
  OBVIOUS
<1> HIDE DEF R
<1>2. \A s \in S : Below(R, S, s) = LessIn(S, s)
  BY <1>1 DEF Below, LessIn
<1>3. Orders(R, S)
  <2>1. \A a, b \in S : a \in Int /\ b \in Int
    OBVIOUS
  <2>2. \A a \in S : ~(a < a)
    BY <2>1
  <2>3. \A a, b \in S : a = b \/ a < b \/ b < a
    BY <2>1
  <2>4. \A a, b, c \in S : a < b /\ b < c => a < c
    BY <2>1
  <2> QED  BY <1>1, <2>2, <2>3, <2>4 DEF Orders
<1>4. n \in Nat
  BY FS_CardinalityType
<1>5. ASSUME NEW i \in 1..n  PROVE \E s \in S : Cardinality(LessIn(S, s)) = i - 1
  <2>1. PICK s \in S : Cardinality(Below(R, S, s)) = i - 1
    BY <1>3, EveryPlaceIsTaken
  <2> QED  BY <1>2, <2>1
<1>6. ASSUME NEW s \in S  PROVE Cardinality(LessIn(S, s)) \in 0..(n - 1)
  <2>1. Cardinality(Below(R, S, s)) \in 0..(n - 1)
    BY <1>3, BelowIsLess
  <2> QED  BY <1>2, <2>1
<1>7. ASSUME NEW a \in S, NEW b \in S, a < b
      PROVE  Cardinality(LessIn(S, a)) < Cardinality(LessIn(S, b))
  <2>1. Cardinality(Below(R, S, a)) < Cardinality(Below(R, S, b))
    BY <1>1, <1>3, <1>7, BelowGrows
  <2> QED  BY <1>2, <2>1
<1> QED  BY <1>4, <1>5, <1>6, <1>7

\* A set of n numbers in ascending order.
InOrder(f, S, n) ==
  /\ n \in Nat /\ f \in Seq(S) /\ Len(f) = n /\ DOMAIN f = 1..n
  /\ \A i \in 1..n : f[i] \in S /\ Cardinality(LessIn(S, f[i])) = i - 1
  /\ \A i, j \in 1..n : i < j => f[i] < f[j]
  /\ \A s \in S : \E i \in 1..n : f[i] = s

LEMMA AscendingIsInOrder ==
  ASSUME NEW S \in SUBSET Nat, IsFiniteSet(S)
  PROVE  InOrder(Ascending(S), S, Cardinality(S))
<1> DEFINE f == Ascending(S)
           n == Cardinality(S)
<1>1. /\ n \in Nat
      /\ \A s \in S : Cardinality(LessIn(S, s)) \in 0..(n - 1)
      /\ \A i \in 1..n : \E s \in S : Cardinality(LessIn(S, s)) = i - 1
      /\ \A a, b \in S : a < b => Cardinality(LessIn(S, a)) < Cardinality(LessIn(S, b))
  BY NumbersAreOrdered
<1>2. f = [i \in 1..n |-> CHOOSE s \in S : Cardinality(LessIn(S, s)) = i - 1]
  BY DEF Ascending, Ordered, LessIn
<1> HIDE DEF f, n
<1>3. \A i \in 1..n : f[i] \in S /\ Cardinality(LessIn(S, f[i])) = i - 1
  BY <1>1, <1>2
<1>4. f \in Seq(S) /\ Len(f) = n /\ DOMAIN f = 1..n
  <2>1. f \in [1..n -> S]
    BY <1>2, <1>3
  <2> QED  BY <1>1, <2>1
<1>5. \A a, b \in S : a \in Int /\ b \in Int /\ Cardinality(LessIn(S, a)) \in Int
  BY <1>1
<1>6. ASSUME NEW i \in 1..n, NEW j \in 1..n, i < j  PROVE f[i] < f[j]
  <2>1. f[i] \in S /\ f[j] \in S
    BY <1>3
  <2>2. Cardinality(LessIn(S, f[i])) < Cardinality(LessIn(S, f[j]))
    BY <1>1, <1>3, <1>6
  <2>3. /\ f[i] \in Int /\ f[j] \in Int
        /\ Cardinality(LessIn(S, f[i])) \in Int /\ Cardinality(LessIn(S, f[j])) \in Int
    BY <1>5, <2>1
  <2>4. f[i] # f[j]
    BY <2>2, <2>3
  <2>5. CASE f[j] < f[i]
    <3>1. Cardinality(LessIn(S, f[j])) < Cardinality(LessIn(S, f[i]))
      BY <1>1, <2>1, <2>5
    <3> QED  BY <2>2, <2>3, <3>1
  <2> QED  BY <2>3, <2>4, <2>5
<1>7. ASSUME NEW s \in S  PROVE \E i \in 1..n : f[i] = s
  <2> DEFINE i == Cardinality(LessIn(S, s)) + 1
  <2>1. i \in 1..n /\ Cardinality(LessIn(S, s)) = i - 1
    BY <1>1
  <2> HIDE DEF i
  <2>2. f[i] \in S /\ Cardinality(LessIn(S, f[i])) = Cardinality(LessIn(S, s))
    BY <1>3, <2>1
  <2>3. f[i] \in Int /\ s \in Int /\ Cardinality(LessIn(S, s)) \in Int
    BY <1>5, <2>2
  <2>4. ~(f[i] < s)
    BY <1>1, <2>2, <2>3
  <2>5. ~(s < f[i])
    BY <1>1, <2>2, <2>3
  <2>6. f[i] = s
    BY <2>3, <2>4, <2>5
  <2> QED  BY <2>1, <2>6
<1>8. InOrder(f, S, n)
  BY <1>1, <1>3, <1>4, <1>6, <1>7 DEF InOrder
<1> QED  BY <1>8 DEF f, n

-----------------------------------------------------------------------------
(* The forecast and its backtest.                                          *)

PricePoint == [week : Nat, price : Nat]

ValuePoint == [week : Nat, value : Nat \ {0}]

\* The weeks of a sequence follow each other.
Rising(s) == \A i, j \in DOMAIN s : i < j => s[i].week < s[j].week

IsPrices(s) == s \in Seq(PricePoint) /\ Rising(s)

IsValues(p) == p \in Seq(ValuePoint) /\ Rising(p)

IsInputs(indicators) == IsValues(indicators.dubai) /\ IsValues(indicators.usdKrw)

LEMMA PricesAreTyped ==
  ASSUME NEW s, IsPrices(s)
  PROVE  /\ Len(s) \in Nat /\ DOMAIN s = 1..Len(s)
         /\ \A i \in DOMAIN s : s[i].week \in Nat /\ s[i].price \in Nat
         /\ \A i, j \in DOMAIN s : i < j => s[i].week < s[j].week
<1>1. s \in Seq(PricePoint)
  BY DEF IsPrices
<1>2. \A i \in DOMAIN s : s[i] \in PricePoint
  BY <1>1
<1> QED  BY <1>1, <1>2 DEF PricePoint, IsPrices, Rising

LEMMA ValuesAreTyped ==
  ASSUME NEW p, IsValues(p)
  PROVE  /\ Len(p) \in Nat /\ DOMAIN p = 1..Len(p)
         /\ \A i \in DOMAIN p : p[i].week \in Nat /\ p[i].value \in Nat \ {0}
         /\ \A i, j \in DOMAIN p : i < j => p[i].week < p[j].week
<1>1. p \in Seq(ValuePoint)
  BY DEF IsValues
<1>2. \A i \in DOMAIN p : p[i] \in ValuePoint
  BY <1>1
<1> QED  BY <1>1, <1>2 DEF ValuePoint, IsValues, Rising

\* The first weeks of a series are one.
LEMMA FirstPrices ==
  ASSUME NEW s, IsPrices(s), NEW n \in 0..Len(s)
  PROVE  /\ IsPrices(SubSeq(s, 1, n)) /\ Len(SubSeq(s, 1, n)) = n
         /\ DOMAIN SubSeq(s, 1, n) = 1..n
         /\ \A i \in 1..n : SubSeq(s, 1, n)[i] = s[i] /\ i \in DOMAIN s
<1>1. s \in Seq(PricePoint) /\ Len(s) \in Nat /\ DOMAIN s = 1..Len(s)
  BY DEF IsPrices
<1>2. SubSeq(s, 1, n) = [i \in 1..n |-> s[i]]
  BY <1>1
<1>3. \A i \in 1..n : i \in DOMAIN s /\ s[i] \in PricePoint
  BY <1>1
<1>4. SubSeq(s, 1, n) \in Seq(PricePoint) /\ Len(SubSeq(s, 1, n)) = n
  BY <1>2, <1>3
<1> QED  BY <1>1, <1>2, <1>3, <1>4 DEF IsPrices, Rising

LEMMA BasisIsInteger ==
  ASSUME NEW p, IsValues(p), NEW use \in UseType, NEW anchor \in Nat
  PROVE  Basis(p, use, anchor) \in Int
<1>1. IsFiniteSet({i \in DOMAIN p : p[i].week <= anchor})
  <2>1. DOMAIN p = 1..Len(p) /\ Len(p) \in Nat
    BY ValuesAreTyped
  <2>2. IsFiniteSet(1..Len(p))
    BY <2>1, FS_Interval
  <2>3. {i \in DOMAIN p : p[i].week <= anchor} \subseteq 1..Len(p)
    BY <2>1
  <2> QED  BY <2>2, <2>3, FS_Subset
<1>2. Cardinality({i \in DOMAIN p : p[i].week <= anchor}) \in Nat
  BY <1>1, FS_CardinalityType
<1>3. use.lag \in Nat
  BY DEF UseType
<1> QED  BY <1>2, <1>3 DEF Basis

LEMMA ContributionIsInteger ==
  ASSUME NEW p, IsValues(p), NEW use \in UseType, NEW anchor \in Nat
  PROVE  Contribution(p, use, anchor) \in Int
<1>1. PICK b \in Int : b = Basis(p, use, anchor)
  BY BasisIsInteger
<1>2. CASE Contributes(p, use, anchor)
  <2>1. b >= 2 /\ b <= Len(p)
    BY <1>1, <1>2 DEF Contributes
  <2>2. b \in DOMAIN p /\ b - 1 \in DOMAIN p
    BY <2>1, ValuesAreTyped
  <2>3. p[b].value \in Nat \ {0} /\ p[b - 1].value \in Nat \ {0}
    BY <2>2, ValuesAreTyped
  <2>4. use.weight \in Nat
    BY DEF UseType
  <2>5. Contribution(p, use, anchor) = ((p[b].value - p[b - 1].value) * use.weight) \div p[b - 1].value
    BY <1>1, <1>2 DEF Contribution
  <2>6. (p[b].value - p[b - 1].value) * use.weight \in Int
    BY <2>3, <2>4
  <2> QED  BY <2>3, <2>5, <2>6
<1>3. CASE ~Contributes(p, use, anchor)
  BY <1>3 DEF Contribution
<1> QED  BY <1>2, <1>3

LEMMA ProjectedIsPrice ==
  ASSUME NEW a \in Int, NEW t \in Int, NEW h \in Int, NEW r \in Int
  PROVE  Projected(a, t, h, r) \in Nat
<1>1. Unit \in Nat
  BY WalkForwardAssumption
<1>2. (a + t * h) * (Unit + r) \in Int
  BY <1>1
<1> QED  BY <1>2 DEF Projected, Greater

LEMMA CappedIsInteger ==
  ASSUME NEW r \in Int, NEW c \in Nat
  PROVE  Capped(r, c) \in Int
BY DEF Capped, Lesser, Greater

\* A forecast is a price for every week, or none.
LEMMA ForecastIsPrices ==
  ASSUME NEW s, IsPrices(s), NEW x, IsInputs(x), NEW p \in SettingType, NEW n \in Nat
  PROVE  WeeklyForecast(s, x, p, n) = <<>> \/ WeeklyForecast(s, x, p, n) \in [1..n -> Nat]
<1> DEFINE m == Lesser(p.trend, Len(s))
           w == SubSeq(s, Len(s) - m + 1, Len(s))
<1>1. CASE Len(s) < MinActuals \/ m < 2
  BY <1>1 DEF WeeklyForecast
<1>2. CASE ~(Len(s) < MinActuals \/ m < 2)
  <2>1. Len(s) \in Nat /\ p.trend \in Nat /\ p.cap \in Nat /\ p.dubai \in UseType /\ p.usdKrw \in UseType
    BY PricesAreTyped DEF SettingType
  <2>2. m \in Nat /\ m >= 2 /\ m <= Len(s)
    BY <1>2, <2>1 DEF Lesser
  <2>3. w \in Seq(PricePoint) /\ Len(w) = m
    <3>1. s \in Seq(PricePoint)
      BY DEF IsPrices
    <3> HIDE DEF m
    <3> QED  BY <2>1, <2>2, <3>1
  <2>4. Last(w).price \in Nat /\ w[1].price \in Nat
    <3> HIDE DEF m, w
    <3>1. w[Len(w)] \in PricePoint /\ w[1] \in PricePoint
      BY <2>2, <2>3
    <3> QED  BY <3>1 DEF Last, PricePoint
  <2>5. Trend(w) \in Int
    <3> HIDE DEF m, w
    <3>1. Len(w) - 1 \in Nat /\ Len(w) - 1 > 0
      BY <2>2, <2>3
    <3>2. PICK a \in Int : a = Last(w).price - w[1].price
      BY <2>4
    <3>3. PICK k \in Nat : k > 0 /\ k = Len(w) - 1
      BY <3>1
    <3>4. Trend(w) = a \div k
      BY <3>2, <3>3 DEF Trend
    <3>5. a \div k \in Int
      BY <3>3
    <3> QED  BY <3>4, <3>5
  <2>6. Last(s).week \in Nat /\ Last(s).price \in Nat
    <3>1. Len(s) \in DOMAIN s
      BY <2>1, <2>2, PricesAreTyped
    <3> QED  BY <3>1, PricesAreTyped DEF Last
  <2>7. PICK raw \in Int : raw = Contribution(x.dubai, p.dubai, Last(s).week)
                                   + Contribution(x.usdKrw, p.usdKrw, Last(s).week)
    <3>1. PICK a \in Int : a = Contribution(x.dubai, p.dubai, Last(s).week)
      BY <2>1, <2>6, ContributionIsInteger DEF IsInputs
    <3>2. PICK b \in Int : b = Contribution(x.usdKrw, p.usdKrw, Last(s).week)
      BY <2>1, <2>6, ContributionIsInteger DEF IsInputs
    <3> HIDE DEF m, w
    <3>3. a + b \in Int
      OBVIOUS
    <3> QED  BY <3>1, <3>2, <3>3
  <2>8. Capped(raw, p.cap) \in Int
    BY <2>1, CappedIsInteger
  <2>9. WeeklyForecast(s, x, p, n)
          = [h \in 1..n |-> Projected(Last(s).price, Trend(w), h, Capped(raw, p.cap))]
    BY <1>2, <2>7 DEF WeeklyForecast
  <2> HIDE DEF m, w
  <2>10. ASSUME NEW h \in 1..n
         PROVE  Projected(Last(s).price, Trend(w), h, Capped(raw, p.cap)) \in Nat
    <3>1. Last(s).price \in Int /\ h \in Int
      BY <2>6
    <3> QED  BY <2>5, <2>8, <3>1, ProjectedIsPrice
  <2> QED  BY <2>9, <2>10
<1> QED  BY <1>1, <1>2

\* A trend can be taken over the weeks of a series.
HasTrend(s, p) == Len(s) >= MinActuals /\ p.trend >= 2 /\ Len(s) >= 2

\* The price forecast at the end of a series for the h-th week after it.
PriceAfter(s, x, p, h) ==
  LET m == Lesser(p.trend, Len(s))
  IN  Projected(Last(s).price, Trend(SubSeq(s, Len(s) - m + 1, Len(s))), h,
                Capped(Contribution(x.dubai, p.dubai, Last(s).week)
                         + Contribution(x.usdKrw, p.usdKrw, Last(s).week), p.cap))

LEMMA ForecastIs ==
  ASSUME NEW s, IsPrices(s), NEW x, NEW p \in SettingType, NEW n \in Nat
  PROVE  WeeklyForecast(s, x, p, n) = IF HasTrend(s, p) THEN [h \in 1..n |-> PriceAfter(s, x, p, h)] ELSE <<>>
<1> DEFINE m == Lesser(p.trend, Len(s))
<1>1. Len(s) \in Nat /\ p.trend \in Nat /\ MinActuals \in Nat
  BY PricesAreTyped, WalkForwardAssumption DEF SettingType
<1>2. (Len(s) < MinActuals \/ m < 2) <=> ~HasTrend(s, p)
  BY <1>1 DEF Lesser, HasTrend
<1>3. CASE HasTrend(s, p)
  BY <1>2, <1>3 DEF WeeklyForecast, PriceAfter
<1>4. CASE ~HasTrend(s, p)
  BY <1>2, <1>4 DEF WeeklyForecast
<1> QED  BY <1>3, <1>4

LEMMA PriceIsNatural ==
  ASSUME NEW s, IsPrices(s), NEW x, IsInputs(x), NEW p \in SettingType, HasTrend(s, p), NEW h \in Nat \ {0}
  PROVE  PriceAfter(s, x, p, h) \in Nat
<1>1. WeeklyForecast(s, x, p, h) = [k \in 1..h |-> PriceAfter(s, x, p, k)]
  BY ForecastIs
<1>2. WeeklyForecast(s, x, p, h) = <<>> \/ WeeklyForecast(s, x, p, h) \in [1..h -> Nat]
  BY ForecastIsPrices
<1>3. h \in 1..h
  OBVIOUS
<1>4. WeeklyForecast(s, x, p, h) # <<>>
  <2>1. DOMAIN WeeklyForecast(s, x, p, h) = 1..h
    BY <1>1
  <2>2. DOMAIN <<>> = {}
    OBVIOUS
  <2> QED  BY <1>3, <2>1, <2>2
<1> QED  BY <1>1, <1>2, <1>3, <1>4

PointType ==
  [origin : Nat, horizon : Nat, target : Nat, anchor : Nat, actual : Nat, forecast : Int]

\* The n-th week can be an origin, and the price of the h-th week after it is known.
IsOrigin(s, p, n, h) ==
  /\ n \in MinActuals..(Len(s) - 1) /\ n >= 2 /\ p.trend >= 2
  /\ h \in Nat \ {0} /\ n + h <= Len(s)

PointAt(s, x, p, n, h) ==
  [origin |-> s[n].week, horizon |-> h, target |-> s[n + h].week,
   anchor |-> Unit * s[n].price, actual |-> Unit * s[n + h].price,
   forecast |-> PriceAfter(SubSeq(s, 1, n), x, p, h)]

LEMMA EvaluationsAre ==
  ASSUME NEW s, IsPrices(s), NEW x, NEW p \in SettingType, NEW k \in Nat, NEW n \in MinActuals..(Len(s) - 1),
         NEW point
  PROVE  point \in Evaluations(s, n, WeeklyForecast(SubSeq(s, 1, n), x, p, Lesser(k, Len(s) - n)))
           <=> \E h \in 1..k : IsOrigin(s, p, n, h) /\ point = PointAt(s, x, p, n, h)
<1> DEFINE q == SubSeq(s, 1, n)
           last == Lesser(k, Len(s) - n)
           forecast == WeeklyForecast(q, x, p, last)
<1>1. Len(s) \in Nat /\ MinActuals \in Nat /\ n \in Nat /\ n <= Len(s) - 1 /\ n >= MinActuals /\ p.trend \in Nat
  BY PricesAreTyped, WalkForwardAssumption DEF SettingType
<1>2. IsPrices(q) /\ Len(q) = n
  BY <1>1, FirstPrices
<1>3. last \in Nat /\ \A h \in Nat : h <= last <=> h <= k /\ n + h <= Len(s)
  BY <1>1 DEF Lesser
<1>4. forecast = IF HasTrend(q, p) THEN [h \in 1..last |-> PriceAfter(q, x, p, h)] ELSE <<>>
  BY <1>2, <1>3, ForecastIs
<1>5. HasTrend(q, p) <=> n >= 2 /\ p.trend >= 2
  BY <1>1, <1>2 DEF HasTrend
<1> HIDE DEF last, forecast
<1>6. CASE HasTrend(q, p)
  <2>1. DOMAIN forecast = 1..last /\ \A h \in 1..last : forecast[h] = PriceAfter(q, x, p, h)
    BY <1>4, <1>6
  <2>2. \A h : h \in 1..last <=> h \in 1..k /\ IsOrigin(s, p, n, h)
    <3>1. ASSUME NEW h \in 1..last  PROVE h \in 1..k /\ IsOrigin(s, p, n, h)
      <4>1. h \in Nat /\ h > 0 /\ h <= last
        BY <1>3
      <4>2. h <= k /\ n + h <= Len(s)
        BY <1>3, <4>1
      <4> QED  BY <1>1, <1>5, <1>6, <4>1, <4>2 DEF IsOrigin
    <3>2. ASSUME NEW h \in 1..k, IsOrigin(s, p, n, h)  PROVE h \in 1..last
      <4>1. h \in Nat /\ h > 0 /\ h <= k /\ n + h <= Len(s)
        BY <3>2 DEF IsOrigin
      <4> QED  BY <1>3, <4>1
    <3> QED  BY <3>1, <3>2
  <2>3. \A h \in 1..last : [origin |-> s[n].week, horizon |-> h, target |-> s[n + h].week,
                            anchor |-> Unit * s[n].price, actual |-> Unit * s[n + h].price,
                            forecast |-> forecast[h]] = PointAt(s, x, p, n, h)
    BY <2>1 DEF PointAt
  <2>4. point \in Evaluations(s, n, forecast) <=> \E h \in 1..last : point = PointAt(s, x, p, n, h)
    BY <2>1, <2>3 DEF Evaluations
  <2> QED  BY <2>2, <2>4 DEF forecast, last
<1>7. CASE ~HasTrend(q, p)
  <2>1. forecast = <<>>
    BY <1>4, <1>7
  <2>2. DOMAIN forecast = {}
    BY <2>1
  <2>3. Evaluations(s, n, forecast) = {}
    BY <2>2 DEF Evaluations
  <2>4. \A h \in 1..k : ~IsOrigin(s, p, n, h)
    BY <1>5, <1>7 DEF IsOrigin
  <2> QED  BY <2>3, <2>4 DEF forecast, last
<1> QED  BY <1>6, <1>7

\* A backtest has a point for every origin and every week after it that is known.
LEMMA BacktestIs ==
  ASSUME NEW s, IsPrices(s), NEW x, NEW p \in SettingType, NEW k \in Nat, NEW point
  PROVE  point \in Backtest(s, x, p, k)
           <=> \E n \in 1..Len(s), h \in 1..k : IsOrigin(s, p, n, h) /\ point = PointAt(s, x, p, n, h)
<1>1. Len(s) \in Nat /\ MinActuals \in Nat /\ MinActuals > 0
  BY PricesAreTyped, WalkForwardAssumption
<1>2. point \in Backtest(s, x, p, k)
        <=> \E n \in MinActuals..(Len(s) - 1) :
              point \in Evaluations(s, n, WeeklyForecast(SubSeq(s, 1, n), x, p, Lesser(k, Len(s) - n)))
  BY DEF Backtest
<1>3. point \in Backtest(s, x, p, k)
        <=> \E n \in MinActuals..(Len(s) - 1) : \E h \in 1..k :
              IsOrigin(s, p, n, h) /\ point = PointAt(s, x, p, n, h)
  <2>1. \A n \in MinActuals..(Len(s) - 1) :
          point \in Evaluations(s, n, WeeklyForecast(SubSeq(s, 1, n), x, p, Lesser(k, Len(s) - n)))
            <=> \E h \in 1..k : IsOrigin(s, p, n, h) /\ point = PointAt(s, x, p, n, h)
    BY EvaluationsAre
  <2> QED  BY <1>2, <2>1
<1>4. \A n \in MinActuals..(Len(s) - 1) : n \in 1..Len(s)
  BY <1>1
<1>5. \A n, h : IsOrigin(s, p, n, h) => n \in MinActuals..(Len(s) - 1)
  BY DEF IsOrigin
<1> QED  BY <1>3, <1>4, <1>5

LEMMA PointOfBacktest ==
  ASSUME NEW s, IsPrices(s), NEW x, NEW p \in SettingType, NEW k \in Nat, NEW point \in Backtest(s, x, p, k)
  PROVE  \E n \in 1..Len(s), h \in 1..k : IsOrigin(s, p, n, h) /\ point = PointAt(s, x, p, n, h)
BY BacktestIs

LEMMA PointIsTyped ==
  ASSUME NEW s, IsPrices(s), NEW x, IsInputs(x), NEW p \in SettingType, NEW n, NEW h, IsOrigin(s, p, n, h)
  PROVE  /\ PointAt(s, x, p, n, h) \in PointType
         /\ n \in DOMAIN s /\ n + h \in DOMAIN s /\ n < n + h
         /\ PointAt(s, x, p, n, h).forecast \in Nat
<1>1. Len(s) \in Nat /\ MinActuals \in Nat /\ Unit \in Nat
  BY PricesAreTyped, WalkForwardAssumption
<1>2. n \in Nat /\ n >= 2 /\ n <= Len(s) /\ h \in Nat /\ n + h \in Nat /\ n + h <= Len(s) /\ n < n + h /\ n + h >= 1
      /\ n >= MinActuals
  BY <1>1 DEF IsOrigin
<1>3. n \in DOMAIN s /\ n + h \in DOMAIN s
  BY <1>2, PricesAreTyped
<1>4. IsPrices(SubSeq(s, 1, n)) /\ Len(SubSeq(s, 1, n)) = n
  BY <1>2, FirstPrices
<1>5. HasTrend(SubSeq(s, 1, n), p)
  BY <1>2, <1>4 DEF HasTrend, IsOrigin
<1>6. PriceAfter(SubSeq(s, 1, n), x, p, h) \in Nat
  BY <1>4, <1>5, PriceIsNatural DEF IsOrigin
<1>7. s[n].week \in Nat /\ s[n].price \in Nat /\ s[n + h].week \in Nat /\ s[n + h].price \in Nat
  BY <1>3, PricesAreTyped
<1>8. Unit * s[n].price \in Nat /\ Unit * s[n + h].price \in Nat
  BY <1>1, <1>7
<1> QED  BY <1>2, <1>3, <1>6, <1>7, <1>8 DEF PointAt, PointType

LEMMA BacktestIsTyped ==
  ASSUME NEW s, IsPrices(s), NEW x, IsInputs(x), NEW p \in SettingType, NEW k \in Nat
  PROVE  Backtest(s, x, p, k) \in SUBSET PointType /\ IsFiniteSet(Backtest(s, x, p, k))
<1> DEFINE B == Backtest(s, x, p, k)
           D == {pair \in (1..Len(s)) \X (1..k) : IsOrigin(s, p, pair[1], pair[2])}
           f == [pair \in D |-> PointAt(s, x, p, pair[1], pair[2])]
<1>1. Len(s) \in Nat
  BY PricesAreTyped
<1>2. IsFiniteSet(D)
  <2>1. IsFiniteSet(1..Len(s)) /\ IsFiniteSet(1..k)
    BY <1>1, FS_Interval
  <2>2. IsFiniteSet((1..Len(s)) \X (1..k))
    BY <2>1, FS_Product
  <2> QED  BY <2>2, FS_Subset
<1>3. \A point : point \in B <=> \E pair \in D : point = PointAt(s, x, p, pair[1], pair[2])
  <2> SUFFICES ASSUME NEW point
               PROVE  point \in B <=> \E pair \in D : point = PointAt(s, x, p, pair[1], pair[2])
    OBVIOUS
  <2>1. point \in B <=> \E n \in 1..Len(s), h \in 1..k : IsOrigin(s, p, n, h) /\ point = PointAt(s, x, p, n, h)
    BY BacktestIs
  <2>2. ASSUME NEW n \in 1..Len(s), NEW h \in 1..k, IsOrigin(s, p, n, h)
        PROVE  <<n, h>> \in D /\ <<n, h>>[1] = n /\ <<n, h>>[2] = h
    BY <2>2
  <2>3. ASSUME point \in B  PROVE \E pair \in D : point = PointAt(s, x, p, pair[1], pair[2])
    <3>1. PICK n \in 1..Len(s), h \in 1..k : IsOrigin(s, p, n, h) /\ point = PointAt(s, x, p, n, h)
      BY <2>1, <2>3
    <3> HIDE DEF B, D
    <3> QED  BY <2>2, <3>1
  <2>4. ASSUME NEW pair \in D, point = PointAt(s, x, p, pair[1], pair[2])  PROVE point \in B
    <3>1. pair[1] \in 1..Len(s) /\ pair[2] \in 1..k /\ IsOrigin(s, p, pair[1], pair[2])
      OBVIOUS
    <3> HIDE DEF B, D
    <3> QED  BY <2>1, <2>4, <3>1
  <2> HIDE DEF B, D
  <2> QED  BY <2>3, <2>4
<1>4. f \in [D -> B]
  BY <1>3
<1> HIDE DEF B, D
<1>5. f \in Surjection(D, B)
  BY <1>3, <1>4 DEF Surjection
<1>6. IsFiniteSet(B)
  BY <1>2, <1>5, FS_Surjection
<1>7. \A pair \in D : PointAt(s, x, p, pair[1], pair[2]) \in PointType
  BY PointIsTyped DEF D
<1> QED  BY <1>3, <1>6, <1>7 DEF B

-----------------------------------------------------------------------------
(* The figures of a window.                                                *)

\* A mean of whole numbers is one.
LEMMA MeanIsInteger ==
  ASSUME NEW T, IsFiniteSet(T), T # {}, NEW g \in [T -> Int]
  PROVE  SumFunction(g) \div Cardinality(T) \in Int
<1>1. Cardinality(T) \in Nat /\ Cardinality(T) > 0
  BY FS_CardinalityType, FS_EmptySet
<1>2. SumFunction(g) \in Int
  BY SumIsInteger
<1> QED  BY <1>1, <1>2

LEMMA ValuesAreFinite ==
  ASSUME NEW T, IsFiniteSet(T), NEW g, DOMAIN g = T
  PROVE  IsFiniteSet({g[x] : x \in T})
<1> DEFINE V == {g[x] : x \in T}
           f == [x \in T |-> g[x]]
<1>1. f \in Surjection(T, V)
  BY DEF Surjection
<1> QED  BY <1>1, FS_Surjection

LEMMA ErrorIsNatural ==
  ASSUME NEW p \in PointType
  PROVE  Error(p) \in Nat
<1>1. p.actual \in Int /\ p.forecast \in Int
  BY DEF PointType
<1> QED  BY <1>1 DEF Error, Distance, Greater

LEMMA MeanErrorIsInteger ==
  ASSUME NEW points \in SUBSET PointType, IsFiniteSet(points), points # {}
  PROVE  MeanError(points) \in Int
<1>1. PICK g : g = [point \in points |-> Error(point)]
  OBVIOUS
<1>2. \A p \in points : Error(p) \in Int
  BY ErrorIsNatural
<1>3. g \in [points -> Int]
  BY <1>1, <1>2
<1> QED  BY <1>1, <1>3, MeanIsInteger DEF MeanError

LEMMA MeanPercentIsInteger ==
  ASSUME NEW points \in SUBSET PointType, IsFiniteSet(points)
  PROVE  MeanPercent(points) \in Int
<1>1. PICK priced : priced = {point \in points : point.actual > 0}
  OBVIOUS
<1>2. IsFiniteSet(priced)
  BY <1>1, FS_Subset
<1>3. ASSUME NEW p \in priced  PROVE PercentError(p) \in Int
  <2>1. Error(p) \in Nat
    BY <1>1, ErrorIsNatural
  <2>2. PICK a \in Nat : a = p.actual /\ a > 0
    BY <1>1 DEF PointType
  <2>3. 1000 * Error(p) \in Int
    BY <2>1
  <2>4. (1000 * Error(p)) \div a \in Int
    BY <2>2, <2>3
  <2> QED  BY <2>2, <2>4 DEF PercentError
<1>4. PICK g : g = [point \in priced |-> PercentError(point)]
  OBVIOUS
<1>5. g \in [priced -> Int]
  BY <1>3, <1>4
<1>6. MeanPercent(points) = IF priced = {} THEN None ELSE SumFunction(g) \div Cardinality(priced)
  BY <1>1, <1>4 DEF MeanPercent
<1> QED  BY <1>2, <1>5, <1>6, MeanIsInteger DEF None

\* The greatest of finitely many numbers.
LEMMA MaxOfFinite ==
  ASSUME NEW S \in SUBSET Nat, IsFiniteSet(S), S # {}
  PROVE  Max(S) \in S /\ \A x \in S : x <= Max(S)
<1>1. \A x, y \in S : x <= y <=> y >= x
  OBVIOUS
<1>2. \E m \in S : \A x \in S : m >= x
  BY <1>1, FiniteGreatest
<1> QED  BY <1>1, <1>2 DEF Max

LEMMA GreatestErrorIsNatural ==
  ASSUME NEW points \in SUBSET PointType, IsFiniteSet(points), points # {}
  PROVE  GreatestError(points) \in Nat
<1>1. PICK g : g = [point \in points |-> Error(point)]
  OBVIOUS
<1>2. \A p \in points : Error(p) \in Nat
  BY ErrorIsNatural
<1>3. PICK V : V = {Error(point) : point \in points}
  OBVIOUS
<1>4. V = {g[point] : point \in points} /\ DOMAIN g = points
  BY <1>1, <1>3
<1>5. V \in SUBSET Nat /\ V # {} /\ IsFiniteSet(V)
  BY <1>2, <1>3, <1>4, ValuesAreFinite
<1> QED  BY <1>3, <1>5, MaxOfFinite DEF GreatestError

\* Among points that are not none there is one of the latest week.
LEMMA LatestPoint ==
  ASSUME NEW points \in SUBSET PointType, IsFiniteSet(points), points # {}
  PROVE  \E p \in points : \A q \in points : q.target <= p.target
<1>1. PICK g : g = [point \in points |-> point.target]
  OBVIOUS
<1>2. PICK V : V = {g[point] : point \in points}
  OBVIOUS
<1>3. \A p \in points : g[p] = p.target /\ p.target \in Nat
  BY <1>1 DEF PointType
<1>4. V \in SUBSET Nat /\ V # {} /\ IsFiniteSet(V)
  BY <1>1, <1>2, <1>3, ValuesAreFinite
<1>5. PICK m \in V : \A x \in V : x <= m
  BY <1>4, FiniteGreatest
<1> QED  BY <1>2, <1>3, <1>5

LEMMA ChurnIsInteger ==
  ASSUME NEW points \in SUBSET PointType, IsFiniteSet(points), NEW from
  PROVE  Churn(points, from) \in Int
<1> DEFINE before(point) == {p \in points : p.target < point.target}
           previous(point) == CHOOSE p \in before(point) : \A q \in before(point) : q.target <= p.target
           moving == {point \in points : point.origin >= from /\ before(point) # {}}
           move(point) == Distance(point.forecast, previous(point).forecast)
<1>1. ASSUME NEW p \in moving  PROVE move(p) \in Int
  <2>1. before(p) \in SUBSET PointType /\ IsFiniteSet(before(p)) /\ before(p) # {}
    BY FS_Subset
  <2> HIDE DEF before
  <2>2. previous(p) \in before(p)
    BY <2>1, LatestPoint
  <2>3. previous(p) \in PointType /\ p \in PointType
    BY <2>1, <2>2
  <2> HIDE DEF previous
  <2> QED  BY <2>3 DEF PointType, Distance, Greater
<1>2. IsFiniteSet(moving)
  BY FS_Subset
<1> HIDE DEF move
<1>3. PICK g : g = [point \in moving |-> move(point)]
  OBVIOUS
<1>4. Churn(points, from) = IF moving = {} THEN None ELSE SumFunction(g) \div Cardinality(moving)
  BY <1>3 DEF Churn, move
<1> HIDE DEF moving
<1>5. g \in [moving -> Int]
  BY <1>1, <1>3
<1> QED  BY <1>2, <1>4, <1>5, MeanIsInteger DEF None

MetricsType == [count : Nat, mae : Int, mape : Int, max : Int, hits : Nat, churn : Int]

LEMMA MetricsAreTyped ==
  ASSUME NEW points \in SUBSET PointType, IsFiniteSet(points), NEW churn \in Int
  PROVE  Metrics(points, churn) \in MetricsType
<1> DEFINE hits == {p \in points : Direction(p.anchor, p.actual) = Direction(p.anchor, p.forecast)}
<1>1. CASE points = {}
  BY <1>1 DEF Metrics, MetricsType, None
<1>2. CASE points # {}
  <2>1. Cardinality(points) \in Nat
    BY FS_CardinalityType
  <2>2. Cardinality(hits) \in Nat
    BY FS_Subset, FS_CardinalityType
  <2>3. MeanError(points) \in Int /\ MeanPercent(points) \in Int /\ GreatestError(points) \in Int
    BY <1>2, MeanErrorIsInteger, MeanPercentIsInteger, GreatestErrorIsNatural
  <2>4. Metrics(points, churn) = [count |-> Cardinality(points), mae |-> MeanError(points),
          mape |-> MeanPercent(points), max |-> GreatestError(points), churn |-> churn,
          hits |-> Cardinality(hits)]
    BY <1>2 DEF Metrics
  <2> HIDE DEF hits
  <2> QED  BY <2>1, <2>2, <2>3, <2>4 DEF MetricsType
<1> QED  BY <1>1, <1>2

\* A backtest and its windows.
BacktestType ==
  [points : SUBSET PointType, one : SUBSET PointType,
   recent : MetricsType, long : MetricsType, recentOne : MetricsType, longOne : MetricsType]

IsBacktest(b) == b \in BacktestType /\ IsFiniteSet(b.points) /\ IsFiniteSet(b.one)

LEMMA MeasuredIsBacktest ==
  ASSUME NEW s, IsPrices(s), NEW x, IsInputs(x), NEW p \in SettingType, NEW k \in Nat
  PROVE  IsBacktest(Measured(s, Backtest(s, x, p, k)))
<1>1. PICK points : points = Backtest(s, x, p, k)
  OBVIOUS
<1>2. points \in SUBSET PointType /\ IsFiniteSet(points)
  BY <1>1, BacktestIsTyped
<1>3. PICK one : one = OneStep(points)
  OBVIOUS
<1>4. one \in SUBSET PointType /\ IsFiniteSet(one)
  BY <1>2, <1>3, FS_Subset DEF OneStep
<1>5. PICK churn \in Int : churn = Churn(one, WindowStart(s, RecentWeeks))
  BY <1>4, ChurnIsInteger
<1>6. PICK recent : recent = WindowStart(s, RecentWeeks)
  OBVIOUS
<1>7. PICK long : long = WindowStart(s, LongWeeks)
  OBVIOUS
<1>8. \A week : /\ Since(points, week) \in SUBSET PointType /\ IsFiniteSet(Since(points, week))
                /\ Since(one, week) \in SUBSET PointType /\ IsFiniteSet(Since(one, week))
  BY <1>2, <1>4, FS_Subset DEF Since
<1>9. \A week : Metrics(Since(points, week), churn) \in MetricsType /\ Metrics(Since(one, week), churn) \in MetricsType
  BY <1>8, MetricsAreTyped
<1>10. Measured(s, points) = Windowed(points, one, churn, recent, long)
  BY <1>3, <1>5, <1>6, <1>7 DEF Measured
<1> QED  BY <1>1, <1>2, <1>4, <1>9, <1>10 DEF Windowed, IsBacktest, BacktestType

-----------------------------------------------------------------------------
(* Ranges.                                                                 *)

\* The greatest of finitely many integers: all others are less.
LEMMA GreatestInteger ==
  ASSUME NEW S \in SUBSET Int, IsFiniteSet(S), S # {}
  PROVE  \E m \in S : \A x \in S : x <= m
<1> DEFINE R == {pair \in S \X S : pair[1] < pair[2]}
<1>1. \A a, b \in S : <<a, b>> \in R <=> a < b
  OBVIOUS
<1>2. \A a, b \in S : a \in Int /\ b \in Int
  OBVIOUS
<1> HIDE DEF R
<1>3. Orders(R, S)
  <2>1. \A a \in S : ~(a < a)
    BY <1>2
  <2>2. \A a, b \in S : a = b \/ a < b \/ b < a
    BY <1>2
  <2>3. \A a, b, c \in S : a < b /\ b < c => a < c
    BY <1>2
  <2> QED  BY <1>1, <2>1, <2>2, <2>3 DEF Orders
<1>4. PICK n \in Nat \ {0} : n = Cardinality(S)
  BY FS_CardinalityType, FS_EmptySet
<1>5. PICK m \in S : Cardinality(Below(R, S, m)) = n - 1
  <2>1. n \in 1..Cardinality(S)
    BY <1>4
  <2> QED  BY <1>3, <2>1, EveryPlaceIsTaken, ZenonT(60)
<1>6. ASSUME NEW x \in S  PROVE x <= m
  <2>1. CASE m < x
    <3>1. <<m, x>> \in R
      BY <1>1, <2>1
    <3>2. Cardinality(Below(R, S, m)) < Cardinality(Below(R, S, x))
      BY <1>3, <3>1, BelowGrows
    <3>3. Cardinality(Below(R, S, x)) \in 0..(n - 1)
      BY <1>3, <1>4, BelowIsLess
    <3> QED  BY <1>4, <1>5, <3>2, <3>3
  <2> QED  BY <1>2, <2>1
<1> QED  BY <1>6

LEMMA LeastInteger ==
  ASSUME NEW S \in SUBSET Int, IsFiniteSet(S), S # {}
  PROVE  \E m \in S : \A x \in S : m <= x
<1> DEFINE T == {0 - x : x \in S}
<1>1. T \in SUBSET Int /\ T # {}
  <2>1. \A x \in S : 0 - x \in Int
    OBVIOUS
  <2> QED  BY <2>1
<1>2. IsFiniteSet(T)
  <2>1. PICK minus : minus = [x \in S |-> 0 - x]
    OBVIOUS
  <2>2. T = {minus[x] : x \in S} /\ DOMAIN minus = S
    BY <2>1
  <2> HIDE DEF T
  <2>3. IsFiniteSet({minus[x] : x \in S})
    BY <2>2, ValuesAreFinite
  <2> QED  BY <2>2, <2>3
<1>3. PICK m \in T : \A x \in T : x <= m
  <2> HIDE DEF T
  <2> QED  BY <1>1, <1>2, GreatestInteger
<1>4. PICK least \in S : m = 0 - least
  OBVIOUS
<1>5. \A x \in S : 0 - x <= 0 - least
  BY <1>3, <1>4
<1>6. \A x \in S : least \in Int /\ x \in Int
  OBVIOUS
<1>7. \A x \in S : least <= x
  BY <1>5, <1>6
<1> QED  BY <1>7

\* How many values are less than one, or at most as large.
Under(values, x) == {k \in DOMAIN values : values[k] < x}

UpToValue(values, x) == {k \in DOMAIN values : values[k] <= x}

\* Finitely many numbers, at least one.
AreNumbers(values) ==
  IsFiniteSet(DOMAIN values) /\ DOMAIN values # {} /\ \A k \in DOMAIN values : values[k] \in Int

LEMMA CountsAreNumbers ==
  ASSUME NEW values, AreNumbers(values), NEW x
  PROVE  /\ Cardinality(Under(values, x)) \in Nat /\ Cardinality(UpToValue(values, x)) \in Nat
         /\ IsFiniteSet(Under(values, x)) /\ IsFiniteSet(UpToValue(values, x))
<1>1. IsFiniteSet(Under(values, x)) /\ IsFiniteSet(UpToValue(values, x))
  BY FS_Subset DEF Under, UpToValue, AreNumbers
<1> QED  BY <1>1, FS_CardinalityType

IsRanked(values, i, x) ==
  /\ x \in {values[k] : k \in DOMAIN values}
  /\ Cardinality(Under(values, x)) < i /\ Cardinality(UpToValue(values, x)) >= i

\* There is an i-th value: the least one that at least i of them do not exceed.
LEMMA RankedIsValue ==
  ASSUME NEW values, AreNumbers(values), NEW i \in 1..Cardinality(DOMAIN values)
  PROVE  IsRanked(values, i, Ranked(values, i)) /\ Ranked(values, i) \in Int
<1>1. PICK V \in SUBSET Int : V = {values[k] : k \in DOMAIN values}
  BY DEF AreNumbers
<1>2. IsFiniteSet(V) /\ V # {}
  <2>1. PICK g : g = [k \in DOMAIN values |-> values[k]]
    OBVIOUS
  <2>2. V = {g[k] : k \in DOMAIN values}
    BY <1>1, <2>1
  <2>3. IsFiniteSet(V)
    BY <2>1, <2>2, ValuesAreFinite DEF AreNumbers
  <2> QED  BY <1>1, <2>3 DEF AreNumbers
<1>3. PICK W : W = {v \in V : Cardinality(UpToValue(values, v)) >= i}
  OBVIOUS
<1>4. W # {}
  <2>1. PICK v \in V : \A x \in V : x <= v
    BY <1>2, GreatestInteger
  <2>2. UpToValue(values, v) = DOMAIN values
    BY <1>1, <2>1 DEF UpToValue
  <2> QED  BY <1>3, <2>2
<1>5. IsFiniteSet(W) /\ W \in SUBSET Int
  BY <1>2, <1>3, FS_Subset
<1>6. PICK x \in W : \A y \in W : x <= y
  BY <1>4, <1>5, LeastInteger
<1>7. Cardinality(Under(values, x)) < i
  <2>1. CASE Under(values, x) = {}
    BY <2>1, FS_EmptySet
  <2>2. CASE Under(values, x) # {}
    <3>1. PICK L : L = {v \in V : v < x}
      OBVIOUS
    <3>2. L # {} /\ IsFiniteSet(L) /\ L \in SUBSET Int
      <4>1. L # {}
        BY <1>1, <2>2, <3>1 DEF Under
      <4> QED  BY <1>2, <3>1, <4>1, FS_Subset
    <3>3. PICK y \in L : \A z \in L : z <= y
      BY <3>2, GreatestInteger
    <3>4. y \in V /\ y < x /\ y \in Int /\ x \in Int
      BY <1>3, <3>1, <3>3
    <3>5. Under(values, x) \in SUBSET UpToValue(values, y)
      BY <1>1, <3>1, <3>3 DEF Under, UpToValue
    <3>6. y \notin W
      BY <1>6, <3>4
    <3>7. Cardinality(UpToValue(values, y)) < i
      BY <1>3, <3>4, <3>6, CountsAreNumbers
    <3>8. Cardinality(Under(values, x)) <= Cardinality(UpToValue(values, y))
      BY <3>5, CountsAreNumbers, FS_Subset
    <3> QED  BY <3>7, <3>8, CountsAreNumbers
  <2> QED  BY <2>1, <2>2
<1>8. IsRanked(values, i, x)
  BY <1>1, <1>3, <1>7 DEF IsRanked
<1>9. Ranked(values, i) = CHOOSE v : IsRanked(values, i, v)
  BY DEF Ranked, IsRanked, Under, UpToValue
<1>10. IsRanked(values, i, Ranked(values, i))
  BY <1>8, <1>9
<1> QED  BY <1>1, <1>10 DEF IsRanked

\* A later one is no less.
LEMMA RankedGrows ==
  ASSUME NEW values, AreNumbers(values), NEW i \in 1..Cardinality(DOMAIN values),
         NEW j \in 1..Cardinality(DOMAIN values), i <= j
  PROVE  Ranked(values, i) <= Ranked(values, j)
<1>1. PICK x \in Int : x = Ranked(values, i) /\ IsRanked(values, i, x)
  BY RankedIsValue
<1>2. PICK y \in Int : y = Ranked(values, j) /\ IsRanked(values, j, y)
  BY RankedIsValue
<1>3. CASE y < x
  <2>1. UpToValue(values, y) \in SUBSET Under(values, x)
    BY <1>3 DEF UpToValue, Under, AreNumbers
  <2>2. Cardinality(UpToValue(values, y)) <= Cardinality(Under(values, x))
    BY <2>1, CountsAreNumbers, FS_Subset
  <2>3. Cardinality(UpToValue(values, y)) >= j /\ Cardinality(Under(values, x)) < i
    BY <1>1, <1>2 DEF IsRanked
  <2> QED  BY <2>2, <2>3, CountsAreNumbers
<1> QED  BY <1>1, <1>2, <1>3

\* Between two neighbours the value grows with the weight of the second.
LEMMA Between ==
  ASSUME NEW a \in Int, NEW b \in Int, a <= b, NEW u \in Nat, NEW v \in 0..u
  PROVE  /\ a * (u - v) + b * v \in Int
         /\ a * u <= a * (u - v) + b * v /\ a * (u - v) + b * v <= b * u
<1>1. PICK d \in Nat : b = a + d
  BY Z3
<1>2. a * (u - v) + b * v = a * u + d * v
  BY <1>1, Z3
<1>3. b * u = a * u + d * u
  BY <1>1, Z3
<1>4. 0 <= d * v /\ d * v <= d * u
  BY <1>1, Z3
<1>5. a * u \in Int /\ d * v \in Int /\ d * u \in Int
  BY <1>1, Z3
<1> QED  BY <1>2, <1>3, <1>4, <1>5

LEMMA FurtherBetween ==
  ASSUME NEW a \in Int, NEW b \in Int, a <= b, NEW u \in Nat, NEW v \in Nat, NEW w \in Nat, v <= w
  PROVE  a * (u - v) + b * v <= a * (u - w) + b * w
<1>1. PICK d \in Nat : b = a + d
  BY Z3
<1>2. a * (u - v) + b * v = a * u + d * v /\ a * (u - w) + b * w = a * u + d * w
  BY <1>1, Z3
<1>3. d * v <= d * w
  BY <1>1, Z3
<1>4. a * u \in Int /\ d * v \in Int /\ d * w \in Int
  BY <1>1, Z3
<1> QED  BY <1>2, <1>3, <1>4

\* The position of a level among n values: the place below it, the one above,
\* and how far it is from the first to the second.
PlaceBelow(n, level) == ((n - 1) * level) \div Unit + 1

PlaceAbove(n, level) == Lesser(PlaceBelow(n, level) + 1, n)

Weight(n, level) == ((n - 1) * level) % Unit

LEMMA PlacesGrow ==
  ASSUME NEW n \in Nat \ {0}, NEW a \in 0..Unit, NEW b \in a..Unit
  PROVE  /\ PlaceBelow(n, a) \in 1..n /\ PlaceAbove(n, a) \in PlaceBelow(n, a)..n
         /\ Weight(n, a) \in 0..Unit
         /\ PlaceBelow(n, a) < PlaceBelow(n, b) => PlaceAbove(n, a) <= PlaceBelow(n, b)
         /\ PlaceBelow(n, a) <= PlaceBelow(n, b)
         /\ PlaceBelow(n, a) = PlaceBelow(n, b) => Weight(n, a) <= Weight(n, b)
<1>1. PICK u \in Nat \ {0} : u = Unit
  BY WalkForwardAssumption
<1>2. PICK m \in Nat : m = n - 1
  OBVIOUS
<1>3. PICK x \in Nat : x = m * a
  BY <1>1, <1>2, Z3
<1>4. PICK y \in Nat : y = m * b
  BY <1>1, <1>2, Z3
<1>5. x <= y /\ y <= m * u
  BY <1>1, <1>2, <1>3, <1>4, Z3
<1>6. PICK p \in Nat, v \in 0..(u - 1) : p = x \div u /\ v = x % u /\ x = u * p + v
  BY <1>1, <1>3, Z3
<1>7. PICK q \in Nat, w \in 0..(u - 1) : q = y \div u /\ w = y % u /\ y = u * q + w
  BY <1>1, <1>4, Z3
<1>8. p <= q
  <2>1. CASE p >= q + 1
    <3>1. u * p >= u * (q + 1)
      BY <1>1, <1>6, <1>7, <2>1, Z3
    <3>2. u * (q + 1) = u * q + u
      BY <1>1, <1>7, Z3
    <3> QED  BY <1>1, <1>3, <1>4, <1>5, <1>6, <1>7, <3>1, <3>2, Z3
  <2> QED  BY <1>6, <1>7, <2>1
<1>9. q <= m
  <2>1. CASE q >= m + 1
    <3>1. u * q >= u * (m + 1) /\ u * (m + 1) = u * m + u
      BY <1>1, <1>2, <1>7, <2>1, Z3
    <3> QED  BY <1>1, <1>2, <1>4, <1>5, <1>7, <3>1, Z3
  <2> QED  BY <1>2, <1>7, <2>1
<1>10. p = q => v <= w
  BY <1>1, <1>3, <1>4, <1>5, <1>6, <1>7, Z3
<1>11. /\ PlaceBelow(n, a) = p + 1 /\ PlaceBelow(n, b) = q + 1 /\ Weight(n, a) = v /\ Weight(n, b) = w
       /\ PlaceAbove(n, a) = IF p + 2 < n THEN p + 2 ELSE n
  BY <1>1, <1>2, <1>3, <1>4, <1>6, <1>7 DEF PlaceBelow, PlaceAbove, Weight, Lesser
<1> QED  BY <1>1, <1>2, <1>6, <1>7, <1>8, <1>9, <1>10, <1>11

LEMMA QuantileIs ==
  ASSUME NEW values, NEW n, n = Cardinality(DOMAIN values), NEW level
  PROVE  Quantile(values, level) = Ranked(values, PlaceBelow(n, level)) * (Unit - Weight(n, level))
                                     + Ranked(values, PlaceAbove(n, level)) * Weight(n, level)
BY DEF Quantile, PlaceBelow, PlaceAbove, Weight

\* A higher level has no lower quantile.
LEMMA QuantileGrows ==
  ASSUME NEW values, AreNumbers(values), NEW a \in 0..Unit, NEW b \in a..Unit
  PROVE  Quantile(values, a) \in Int /\ Quantile(values, b) \in Int /\ Quantile(values, a) <= Quantile(values, b)
<1>1. PICK n \in Nat \ {0} : n = Cardinality(DOMAIN values)
  BY FS_CardinalityType, FS_EmptySet DEF AreNumbers
<1>2. PICK u \in Nat \ {0} : u = Unit
  BY WalkForwardAssumption
<1>3. \A level \in 0..u : /\ PlaceBelow(n, level) \in 1..n /\ PlaceAbove(n, level) \in PlaceBelow(n, level)..n
                          /\ Weight(n, level) \in 0..u
  <2> SUFFICES ASSUME NEW level \in 0..u
               PROVE  /\ PlaceBelow(n, level) \in 1..n /\ PlaceAbove(n, level) \in PlaceBelow(n, level)..n
                      /\ Weight(n, level) \in 0..u
    OBVIOUS
  <2>1. level \in 0..Unit /\ level \in level..Unit
    BY <1>2
  <2> QED  BY <1>2, <2>1, PlacesGrow
<1>4. a \in 0..u /\ b \in 0..u
  BY <1>2
<1>5. PICK p \in 1..n, s \in 1..n, v \in 0..u :
         p = PlaceBelow(n, a) /\ s = PlaceAbove(n, a) /\ v = Weight(n, a) /\ p <= s
  <2>1. PlaceBelow(n, a) \in 1..n /\ PlaceAbove(n, a) \in PlaceBelow(n, a)..n /\ Weight(n, a) \in 0..u
    BY <1>3, <1>4
  <2> QED  BY <2>1
<1>6. PICK q \in 1..n, t \in 1..n, w \in 0..u :
         q = PlaceBelow(n, b) /\ t = PlaceAbove(n, b) /\ w = Weight(n, b) /\ q <= t
  <2>1. PlaceBelow(n, b) \in 1..n /\ PlaceAbove(n, b) \in PlaceBelow(n, b)..n /\ Weight(n, b) \in 0..u
    BY <1>3, <1>4
  <2> QED  BY <2>1
<1>7. /\ p <= q
      /\ p < q => s <= q
      /\ p = q => v <= w /\ s = t
  BY <1>1, <1>5, <1>6, PlacesGrow DEF PlaceAbove
<1>8. PICK P \in Int, S \in Int, Q \in Int, T \in Int :
        /\ P = Ranked(values, p) /\ S = Ranked(values, s) /\ Q = Ranked(values, q) /\ T = Ranked(values, t)
  BY <1>1, <1>5, <1>6, RankedIsValue
<1>9. P <= S /\ Q <= T /\ (p < q => S <= Q)
  BY <1>1, <1>5, <1>6, <1>7, <1>8, RankedGrows
<1>10. PICK x \in Int : x = P * (u - v) + S * v /\ x <= S * u
  BY <1>5, <1>8, <1>9, Between
<1>11. PICK y \in Int : y = Q * (u - w) + T * w /\ Q * u <= y
  BY <1>6, <1>8, <1>9, Between
<1>12. Quantile(values, a) = x /\ Quantile(values, b) = y
  BY <1>1, <1>2, <1>5, <1>6, <1>8, <1>10, <1>11, QuantileIs
<1>13. x <= y
  <2>1. CASE p = q
    <3>1. P = Q /\ S = T /\ v <= w
      BY <1>7, <1>8, <2>1
    <3>2. v \in Nat /\ w \in Nat
      BY <1>5, <1>6
    <3>3. P * (u - v) + S * v <= P * (u - w) + S * w
      BY <1>9, <3>1, <3>2, FurtherBetween
    <3> QED  BY <1>10, <1>11, <3>1, <3>3
  <2>2. CASE p < q
    <3>1. S <= Q
      BY <1>9, <2>2
    <3>2. S * u <= Q * u
      BY <1>2, <1>8, <3>1, Z3
    <3>3. S * u \in Int /\ Q * u \in Int
      BY <1>2, <1>8, Z3
    <3> QED  BY <1>10, <1>11, <3>2, <3>3
  <2>3. p < q \/ p = q
    BY <1>7, <1>5, <1>6
  <2> QED  BY <2>1, <2>2, <2>3
<1> QED  BY <1>12, <1>13

\* What is calibrated on is known.
LEMMA CalibrationIsKnown ==
  ASSUME NEW known, NEW h
  PROVE  Calibration(known, ByTarget, h) \subseteq known
BY DEF Calibration, LatestOf

\* A range does not end before it begins.
LEMMA RangeIsRange ==
  ASSUME NEW known \in SUBSET PointType, IsFiniteSet(known), NEW price \in Int, NEW range,
         NEW calibration \in SUBSET known, range = PriceRange(price, calibration), range # <<>>
  PROVE  range[1] \in Int /\ range[2] \in Int /\ range[1] <= range[2]
<1>1. PICK residuals : residuals = [point \in calibration |-> point.actual - point.forecast]
  OBVIOUS
<1>2. calibration # {} /\ range = <<Unit * price + Quantile(residuals, TailPart),
                                    Unit * price + Quantile(residuals, Unit - TailPart)>>
  BY <1>1 DEF PriceRange
<1>3. AreNumbers(residuals)
  <2>1. IsFiniteSet(calibration)
    BY FS_Subset
  <2>2. \A point \in calibration : point.actual - point.forecast \in Int
    BY DEF PointType
  <2> QED  BY <1>1, <1>2, <2>1, <2>2 DEF AreNumbers
<1>4. TailPart \in 0..Unit /\ Unit - TailPart \in TailPart..Unit
  BY WalkForwardAssumption
<1>5. PICK low \in Int, high \in Int :
        low = Quantile(residuals, TailPart) /\ high = Quantile(residuals, Unit - TailPart) /\ low <= high
  BY <1>3, <1>4, QuantileGrows
<1>6. PICK middle \in Int : middle = Unit * price
  BY WalkForwardAssumption, Z3
<1>7. range = <<middle + low, middle + high>>
  BY <1>2, <1>5, <1>6
<1> QED  BY <1>5, <1>6, <1>7

-----------------------------------------------------------------------------
(* The order of candidates.                                                *)

LEMMA PrecedesIsStrict ==
  ASSUME NEW n \in Nat, NEW a \in [1..n -> Int]
  PROVE  /\ ~Precedes(a, a)
         /\ \A b, c \in [1..n -> Int] : Precedes(a, b) /\ Precedes(b, c) => Precedes(a, c)
         /\ \A b \in [1..n -> Int] : a # b => Precedes(a, b) \/ Precedes(b, a)
<1>1. ~Precedes(a, a)
  <2> SUFFICES ASSUME NEW i \in 1..n, a[i] < a[i]  PROVE FALSE
    BY DEF Precedes
  <2>1. a[i] \in Int
    OBVIOUS
  <2> QED  BY <2>1
<1>2. ASSUME NEW b \in [1..n -> Int], NEW c \in [1..n -> Int], Precedes(a, b), Precedes(b, c)
      PROVE  Precedes(a, c)
  <2>1. PICK i \in 1..n : a[i] < b[i] /\ \A j \in 1..(i - 1) : a[j] = b[j]
    BY <1>2 DEF Precedes
  <2>2. PICK k \in 1..n : b[k] < c[k] /\ \A j \in 1..(k - 1) : b[j] = c[j]
    BY <1>2 DEF Precedes
  <2>3. /\ i \in Int /\ k \in Int /\ a[i] \in Int /\ b[i] \in Int /\ c[i] \in Int
        /\ a[k] \in Int /\ b[k] \in Int /\ c[k] \in Int
    OBVIOUS
  <2>4. CASE i < k
    <3>1. b[i] = c[i]
      BY <2>2, <2>3, <2>4
    <3>2. \A j \in 1..(i - 1) : a[j] = c[j]
      BY <2>1, <2>2, <2>3, <2>4
    <3>3. a[i] < c[i]
      BY <2>1, <3>1
    <3> QED  BY <3>2, <3>3 DEF Precedes
  <2>5. CASE i = k
    <3>1. a[i] < c[i]
      BY <2>1, <2>2, <2>3, <2>5
    <3>2. \A j \in 1..(i - 1) : a[j] = c[j]
      BY <2>1, <2>2, <2>5
    <3> QED  BY <3>1, <3>2 DEF Precedes
  <2>6. CASE k < i
    <3>1. a[k] = b[k]
      BY <2>1, <2>3, <2>6
    <3>2. \A j \in 1..(k - 1) : a[j] = c[j]
      BY <2>1, <2>2, <2>3, <2>6
    <3>3. a[k] < c[k]
      BY <2>2, <3>1
    <3> QED  BY <3>2, <3>3 DEF Precedes
  <2> QED  BY <2>3, <2>4, <2>5, <2>6
<1>3. ASSUME NEW b \in [1..n -> Int], a # b  PROVE Precedes(a, b) \/ Precedes(b, a)
  <2> DEFINE apart == {i \in 1..n : a[i] # b[i]}
  <2>1. apart \in SUBSET Nat /\ apart # {}
    BY <1>3
  <2>2. PICK i \in apart : \A j \in apart : i <= j
    BY <2>1, LeastOf
  <2>3. i \in 1..n /\ a[i] # b[i] /\ a[i] \in Int /\ b[i] \in Int
    BY <2>2
  <2>4. \A j \in 1..(i - 1) : a[j] = b[j]
    <3> SUFFICES ASSUME NEW j \in 1..(i - 1), a[j] # b[j]  PROVE FALSE
      OBVIOUS
    <3>1. j \in apart /\ j \in Int /\ j < i
      BY <2>3
    <3> QED  BY <2>2, <2>3, <3>1
  <2>5. a[i] < b[i] \/ b[i] < a[i]
    BY <2>3
  <2>6. DOMAIN a = 1..n /\ DOMAIN b = 1..n
    OBVIOUS
  <2> HIDE DEF apart
  <2> QED  BY <2>3, <2>4, <2>5, <2>6 DEF Precedes
<1> QED  BY <1>1, <1>2, <1>3

\* Among candidates that are not none there is one none precedes.
LEMMA ForemostIsOne ==
  ASSUME NEW T, IsFiniteSet(T), T # {}, NEW n \in Nat, NEW rank, DOMAIN rank = T,
         \A s \in T : rank[s] \in [1..n -> Int]
  PROVE  Foremost(rank) \in T /\ \A o \in T : ~Precedes(rank[o], rank[Foremost(rank)])
<1> DEFINE ahead(s) == {o \in T : Precedes(rank[o], rank[s])}
           g == [s \in T |-> Cardinality(ahead(s))]
           sizes == {g[s] : s \in T}
<1>1. \A s \in T : IsFiniteSet(ahead(s)) /\ Cardinality(ahead(s)) \in Nat
  <2> SUFFICES ASSUME NEW s \in T  PROVE IsFiniteSet(ahead(s)) /\ Cardinality(ahead(s)) \in Nat
    OBVIOUS
  <2>1. IsFiniteSet(ahead(s))
    BY FS_Subset
  <2> QED  BY <2>1, FS_CardinalityType
<1>2. sizes \in SUBSET Nat /\ sizes # {}
  BY <1>1
<1>3. PICK m \in sizes : \A k \in sizes : m <= k
  <2> HIDE DEF sizes
  <2> QED  BY <1>2, LeastOf
<1>4. PICK s \in T : g[s] = m
  BY <1>3
<1>5. ASSUME NEW o \in T, Precedes(rank[o], rank[s])  PROVE FALSE
  <2>1. \A p \in T : Precedes(rank[p], rank[o]) => Precedes(rank[p], rank[s])
    BY <1>5, PrecedesIsStrict
  <2>2. ~Precedes(rank[o], rank[o])
    BY PrecedesIsStrict
  <2>3. ahead(o) \in SUBSET ahead(s) /\ o \in ahead(s) /\ o \notin ahead(o)
    BY <1>5, <2>1, <2>2
  <2>4. Cardinality(ahead(o)) <= Cardinality(ahead(s)) /\ Cardinality(ahead(o)) # Cardinality(ahead(s))
    <3> HIDE DEF ahead, g, sizes
    <3> QED  BY <1>1, <2>3, FS_Subset
  <2>5. g[o] = Cardinality(ahead(o)) /\ g[s] = Cardinality(ahead(s))
    OBVIOUS
  <2>6. g[o] \in sizes
    OBVIOUS
  <2>7. Cardinality(ahead(o)) \in Nat /\ Cardinality(ahead(s)) \in Nat
    BY <1>1
  <2> HIDE DEF sizes, g, ahead
  <2>8. g[o] < g[s] /\ g[o] \in Nat /\ g[s] \in Nat
    BY <2>4, <2>5, <2>7
  <2> QED  BY <1>3, <1>4, <2>6, <2>8
<1>6. \A o \in T : ~Precedes(rank[o], rank[s])
  BY <1>5
<1> QED  BY <1>6 DEF Foremost

LEMMA PlaceIsTyped ==
  ASSUME NEW s \in SettingType
  PROVE  Place(s) \in Seq(Int) /\ Len(Place(s)) = 10
<1>1. PICK a \in Int, b \in Int, c \in Int, d \in Int, e \in Int :
        a = s.dubai.lag /\ b = s.dubai.weight /\ c = s.cap /\ d = s.usdKrw.lag /\ e = s.usdKrw.weight
  BY SMTT(60) DEF SettingType, UseType
<1>2. PICK f \in Int, g \in Int, h \in Int, i \in Int, j \in Int :
        f = s.trend /\ g = s.bias.lag /\ h = s.bias.weight /\ i = s.daily.lag /\ j = s.daily.weight
  BY SMTT(60) DEF SettingType, UseType
<1>3. Place(s) = <<a, b, c, d, e, f, g, h, i, j>>
  BY <1>1, <1>2 DEF Place
<1> QED  BY <1>3

\* What a setting ranks by is a sequence of numbers.
LEMMA RankIsTyped ==
  ASSUME NEW n \in Nat, NEW figures \in Seq(Int), Len(figures) = n, NEW s \in SettingType
  PROVE  figures \o Place(s) \in [1..(n + 10) -> Int]
<1>1. PICK q \in Seq(Int) : q = Place(s) /\ Len(q) = 10
  BY PlaceIsTyped
<1>2. figures \o q \in Seq(Int)
  BY <1>1, ConcatProperties
<1>3. Len(figures \o q) = n + 10
  <2>1. Len(figures \o q) = Len(figures) + Len(q)
    BY <1>1, ConcatProperties
  <2> QED  BY <1>1, <2>1
<1>4. PICK r \in Seq(Int) : r = figures \o q /\ Len(r) = n + 10
  BY <1>2, <1>3
<1>5. r \in [1..Len(r) -> Int]
  BY LenProperties, <1>4
<1> QED  BY <1>1, <1>4, <1>5

-----------------------------------------------------------------------------
(* Corrected backtests.                                                    *)

LEMMA NewestAreSome ==
  ASSUME NEW points \in SUBSET PointType, IsFiniteSet(points), NEW count
  PROVE  NewestPoints(points, count) \in SUBSET PointType /\ IsFiniteSet(NewestPoints(points, count))
<1>1. NewestPoints(points, count) \in SUBSET points
  BY DEF NewestPoints
<1> QED  BY <1>1, FS_Subset

LEMMA PrecedingAreSome ==
  ASSUME NEW points \in SUBSET PointType, IsFiniteSet(points), NEW point, NEW count
  PROVE  Preceding(points, point, count) \in SUBSET PointType /\ IsFiniteSet(Preceding(points, point, count))
<1>1. PICK before : before = {p \in points : p.target < point.target}
  OBVIOUS
<1>2. before \in SUBSET PointType /\ IsFiniteSet(before)
  BY <1>1, FS_Subset
<1>3. Preceding(points, point, count) = {} \/ Preceding(points, point, count) = NewestPoints(before, count)
  BY <1>1 DEF Preceding
<1> QED  BY <1>2, <1>3, NewestAreSome, FS_EmptySet

LEMMA BiasIsInteger ==
  ASSUME NEW points \in SUBSET PointType, IsFiniteSet(points), points # {}
  PROVE  MeanBias(points) \in Int
<1>1. PICK g : g = [point \in points |-> SignedError(point)]
  OBVIOUS
<1>2. \A p \in points : SignedError(p) \in Int
  BY DEF SignedError, PointType
<1>3. g \in [points -> Int]
  BY <1>1, <1>2
<1> QED  BY <1>1, <1>3, MeanIsInteger DEF MeanBias

\* Another forecast in a point.
LEMMA ForecastReplaced ==
  ASSUME NEW point \in PointType, NEW f \in Int
  PROVE  [point EXCEPT !.forecast = f] \in PointType
BY DEF PointType

LEMMA BiasCorrectedAreTyped ==
  ASSUME NEW points \in SUBSET PointType, IsFiniteSet(points), NEW bias \in UseType
  PROVE  BiasCorrected(points, bias) \in SUBSET PointType /\ IsFiniteSet(BiasCorrected(points, bias))
<1> DEFINE corrected(point) ==
             LET prior == Preceding(points, point, bias.lag)
             IN  IF prior = {} THEN point
                 ELSE [point EXCEPT !.forecast = @ - (MeanBias(prior) * bias.weight) \div Unit]
<1>1. PICK g : g = [point \in points |-> corrected(point)]
  OBVIOUS
<1>2. BiasCorrected(points, bias) = {g[point] : point \in points}
  BY <1>1 DEF BiasCorrected
<1>3. ASSUME NEW point \in points  PROVE corrected(point) \in PointType
  <2>1. PICK prior : prior = Preceding(points, point, bias.lag)
    OBVIOUS
  <2>2. CASE prior = {}
    BY <2>1, <2>2
  <2>3. CASE prior # {}
    <3>1. PICK m \in Int : m = MeanBias(prior)
      BY <2>1, <2>3, PrecedingAreSome, BiasIsInteger
    <3>2. PICK w \in Int, u \in Nat : w = bias.weight /\ u = Unit /\ u > 0
      BY WalkForwardAssumption DEF UseType
    <3>3. PICK c \in Int : c = (m * w) \div u
      <4>1. m * w \in Int
        OBVIOUS
      <4> QED  BY <3>2, <4>1
    <3>4. PICK f \in Int : f = point.forecast
      BY DEF PointType
    <3>5. PICK d \in Int : d = f - c
      OBVIOUS
    <3>6. corrected(point) = [point EXCEPT !.forecast = d]
      BY <2>1, <2>3, <3>1, <3>2, <3>3, <3>4, <3>5
    <3> HIDE DEF corrected
    <3> QED  BY <3>6, ForecastReplaced
  <2> QED  BY <2>2, <2>3
<1> HIDE DEF corrected
<1>4. DOMAIN g = points /\ \A point \in points : g[point] \in PointType
  BY <1>1, <1>3
<1>5. IsFiniteSet({g[point] : point \in points})
  BY <1>4, ValuesAreFinite
<1> QED  BY <1>2, <1>4, <1>5

\* The days a correction looks at have prices.
LEMMA ObservedHavePrices ==
  ASSUME NEW n \in Nat, NEW days \in [1..n -> Nat], NEW upTo \in 0..n, NEW count,
         NEW S, S = Observed(days, upTo, count), S # {}
  PROVE  days[Min(S)] \in Nat \ {0} /\ days[Max(S)] \in Nat
<1>1. S \in SUBSET (1..upTo) /\ \A d \in S : days[d] > 0
  BY DEF Observed
<1>2. 1..upTo \in SUBSET Nat /\ 1..upTo \in SUBSET (1..n)
  OBVIOUS
<1>3. IsFiniteSet(S)
  <2>1. upTo \in Int /\ IsFiniteSet(1..upTo)
    BY FS_Interval
  <2> QED  BY <1>1, <2>1, FS_Subset
<1>4. S \in SUBSET Nat
  BY <1>1, <1>2
<1>5. PICK m \in S : \A k \in S : m <= k
  BY <1>4, LeastOf
<1>6. Min(S) \in S
  BY <1>5 DEF Min
<1>7. Max(S) \in S
  BY <1>3, <1>4, MaxOfFinite
<1> QED  BY <1>1, <1>2, <1>6, <1>7

LEMMA DailyCorrectedAreTyped ==
  ASSUME NEW points \in SUBSET PointType, IsFiniteSet(points), NEW n \in Nat, NEW days \in [1..n -> Nat],
         NEW perWeek \in Nat, \A p \in points : p.origin * perWeek <= n, NEW daily \in UseType
  PROVE  /\ DailyCorrected(points, days, perWeek, daily) \in SUBSET PointType
         /\ IsFiniteSet(DailyCorrected(points, days, perWeek, daily))
<1> DEFINE corrected(point) ==
             LET observed == Observed(days, point.origin * perWeek, daily.lag)
                 first    == days[Min(observed)]
                 latest   == days[Max(observed)]
             IN  IF Cardinality(observed) < 2 THEN point
                 ELSE [point EXCEPT !.forecast = @ + (@ * daily.weight * (latest - first)) \div (Unit * first)]
<1>1. PICK g : g = [point \in points |-> corrected(point)]
  OBVIOUS
<1>2. DailyCorrected(points, days, perWeek, daily) = {g[point] : point \in points}
  BY <1>1 DEF DailyCorrected
<1>3. ASSUME NEW point \in points  PROVE corrected(point) \in PointType
  <2>1. PICK observed : observed = Observed(days, point.origin * perWeek, daily.lag)
    OBVIOUS
  <2>2. CASE Cardinality(observed) < 2
    BY <2>1, <2>2
  <2>3. CASE ~(Cardinality(observed) < 2)
    <3>1. PICK upTo \in 0..n : upTo = point.origin * perWeek
      <4>1. PICK o \in Nat : o = point.origin
        BY DEF PointType
      <4>2. o * perWeek \in Nat
        OBVIOUS
      <4> QED  BY <4>1, <4>2
    <3>2. observed # {}
      <4>1. SUFFICES ASSUME observed = {}  PROVE FALSE
        OBVIOUS
      <4>2. PICK c : c = Cardinality(observed)
        OBVIOUS
      <4>3. c = 0
        BY <4>1, <4>2, FS_EmptySet
      <4>4. c < 2
        BY <4>3
      <4> QED  BY <2>3, <4>2, <4>4
    <3>3. PICK first \in Nat, latest \in Nat : first = days[Min(observed)] /\ latest = days[Max(observed)] /\ first > 0
      <4>1. days[Min(observed)] \in Nat \ {0} /\ days[Max(observed)] \in Nat
        BY <2>1, <3>1, <3>2, ObservedHavePrices
      <4> QED  BY <4>1
    <3>4. PICK w \in Int, f \in Int, u \in Nat : w = daily.weight /\ f = point.forecast /\ u = Unit /\ u > 0
      <4>1. daily.weight \in Nat
        BY DEF UseType
      <4>2. point.forecast \in Int
        BY DEF PointType
      <4>3. Unit \in Nat /\ Unit > 0
        BY WalkForwardAssumption
      <4> QED  BY <4>1, <4>2, <4>3
    <3>5. PICK c \in Int : c = (f * w * (latest - first)) \div (u * first)
      <4>1. PICK a \in Int : a = f * w * (latest - first)
        OBVIOUS
      <4>2. PICK b \in Nat : b = u * first /\ b > 0
        BY <3>3, <3>4
      <4>3. a \div b \in Int
        BY <4>2
      <4> QED  BY <4>1, <4>2, <4>3
    <3>6. PICK d \in Int : d = f + c
      OBVIOUS
    <3>7. corrected(point) = [point EXCEPT !.forecast = d]
      BY <2>1, <2>3, <3>3, <3>4, <3>5, <3>6
    <3> HIDE DEF corrected
    <3> QED  BY <3>7, ForecastReplaced
  <2> QED  BY <2>2, <2>3
<1> HIDE DEF corrected
<1>4. DOMAIN g = points /\ \A point \in points : g[point] \in PointType
  BY <1>1, <1>3
<1>5. IsFiniteSet({g[point] : point \in points})
  BY <1>4, ValuesAreFinite
<1> QED  BY <1>2, <1>4, <1>5

LEMMA RebuiltIsBacktest ==
  ASSUME NEW base, IsBacktest(base), NEW one \in SUBSET PointType, IsFiniteSet(one)
  PROVE  IsBacktest(Rebuilt(base, one)) /\ Rebuilt(base, one).points = base.points
<1>1. \A count : LET last == NewestPoints(one, count)
                 IN  Metrics(last, Churn(last, 0)) \in MetricsType
  BY NewestAreSome, ChurnIsInteger, MetricsAreTyped
<1>2. PICK recent \in MetricsType, long \in MetricsType :
        Rebuilt(base, one) = [base EXCEPT !.one = one, !.recentOne = recent, !.longOne = long]
  BY <1>1 DEF Rebuilt
<1> QED  BY <1>2 DEF IsBacktest, BacktestType

\* A correction changes a forecast, not what it was made for.
LEMMA BiasKeepsOrigins ==
  ASSUME NEW points \in SUBSET PointType, NEW bias, NEW q \in BiasCorrected(points, bias)
  PROVE  \E p \in points : q.origin = p.origin
<1>1. PICK p \in points : q = LET prior == Preceding(points, p, bias.lag)
                              IN  IF prior = {} THEN p
                                  ELSE [p EXCEPT !.forecast = @ - (MeanBias(prior) * bias.weight) \div Unit]
  BY DEF BiasCorrected
<1>2. PICK f : q = p \/ q = [p EXCEPT !.forecast = f]
  BY <1>1
<1>3. q.origin = p.origin
  BY <1>2 DEF PointType
<1> QED  BY <1>3

\* What candidates are tested on: prices, indicators and the days of all weeks.
IsMaterial(inputs) ==
  /\ IsPrices(inputs.series) /\ IsInputs(inputs.indicators)
  /\ inputs.horizons \in Nat /\ inputs.perWeek \in Nat
  /\ \E n \in Nat : /\ inputs.days \in [1..n -> Nat]
                    /\ \A i \in DOMAIN inputs.series : inputs.series[i].week * inputs.perWeek <= n

EvaluatedOn(inputs, s) ==
  Evaluated(inputs.series, inputs.indicators, inputs.days, inputs.perWeek, s, inputs.horizons)

LEMMA EvaluatedIsBacktest ==
  ASSUME NEW inputs, IsMaterial(inputs), NEW p \in SettingType
  PROVE  IsBacktest(EvaluatedOn(inputs, p))
<1>1. PICK s : s = inputs.series
  OBVIOUS
<1>2. PICK x : x = inputs.indicators
  OBVIOUS
<1>3. PICK k \in Nat, w \in Nat, total \in Nat :
        /\ k = inputs.horizons /\ w = inputs.perWeek
        /\ inputs.days \in [1..total -> Nat] /\ \A i \in DOMAIN s : s[i].week * w <= total
  BY <1>1 DEF IsMaterial
<1>4. PICK days \in [1..total -> Nat] : days = inputs.days
  BY <1>3
<1>5. IsPrices(s) /\ IsInputs(x)
  BY <1>1, <1>2 DEF IsMaterial
<1>6. PICK points : points = Backtest(s, x, p, k)
  OBVIOUS
<1>7. PICK base : base = Measured(s, points)
  OBVIOUS
<1>8. IsBacktest(base) /\ base.one = OneStep(points)
  <2>1. IsBacktest(base)
    BY <1>5, <1>6, <1>7, MeasuredIsBacktest
  <2>2. base.one = OneStep(points)
    BY <1>7 DEF Measured, Windowed
  <2> QED  BY <2>1, <2>2
<1>9. \A point \in base.one : point.origin * w <= total
  <2> SUFFICES ASSUME NEW point \in base.one  PROVE point.origin * w <= total
    OBVIOUS
  <2>1. point \in Backtest(s, x, p, k)
    BY <1>6, <1>8 DEF OneStep
  <2>2. PICK o \in 1..Len(s), h \in 1..k : IsOrigin(s, p, o, h) /\ point = PointAt(s, x, p, o, h)
    BY <1>5, <2>1, PointOfBacktest
  <2>3. o \in DOMAIN s
    BY <1>5, PricesAreTyped
  <2> QED  BY <1>3, <2>2, <2>3 DEF PointAt
<1>10. PICK biased : biased = WithBias(base, p.bias)
  OBVIOUS
<1>11. IsBacktest(biased) /\ \A point \in biased.one : point.origin * w <= total
  <2>1. CASE p.bias = Unused
    BY <1>8, <1>9, <1>10, <2>1 DEF WithBias
  <2>2. CASE p.bias # Unused
    <3>1. PICK one : one = BiasCorrected(base.one, p.bias)
      OBVIOUS
    <3>2. base.one \in SUBSET PointType /\ IsFiniteSet(base.one) /\ p.bias \in UseType
      BY <1>8 DEF IsBacktest, BacktestType, SettingType
    <3>3. one \in SUBSET PointType /\ IsFiniteSet(one)
      BY <3>1, <3>2, BiasCorrectedAreTyped
    <3>4. \A point \in one : point.origin * w <= total
      BY <1>9, <3>1, <3>2, BiasKeepsOrigins
    <3>5. biased = Rebuilt(base, one)
      BY <1>10, <2>2, <3>1 DEF WithBias
    <3>6. Rebuilt(base, one).one = one
      BY <1>8 DEF Rebuilt, IsBacktest, BacktestType
    <3> QED  BY <1>8, <3>3, <3>4, <3>5, <3>6, RebuiltIsBacktest
  <2> QED  BY <2>1, <2>2
<1>12. EvaluatedOn(inputs, p) = WithDaily(biased, days, w, p.daily)
  BY <1>1, <1>2, <1>3, <1>4, <1>6, <1>7, <1>10 DEF EvaluatedOn, Evaluated
<1>13. CASE p.daily = Unused
  BY <1>11, <1>12, <1>13 DEF WithDaily
<1>14. CASE p.daily # Unused
  <2>1. PICK one : one = DailyCorrected(biased.one, days, w, p.daily)
    OBVIOUS
  <2>2. biased.one \in SUBSET PointType /\ IsFiniteSet(biased.one) /\ p.daily \in UseType
    BY <1>11 DEF IsBacktest, BacktestType, SettingType
  <2>3. one \in SUBSET PointType /\ IsFiniteSet(one)
    BY <1>11, <2>1, <2>2, DailyCorrectedAreTyped
  <2>4. EvaluatedOn(inputs, p) = Rebuilt(biased, one)
    BY <1>12, <1>14, <2>1 DEF WithDaily
  <2> QED  BY <1>11, <2>3, <2>4, RebuiltIsBacktest
<1> QED  BY <1>13, <1>14

-----------------------------------------------------------------------------
(* The automatic selection.                                                *)

\* A setting that can be operated, with a trend.
Sound(s) == Operable(s) /\ s.trend >= 2

LEMMA ChoicesAreTyped ==
  /\ DubaiChoices \subseteq UseType /\ UsdKrwChoices \subseteq UseType
  /\ BiasChoices \subseteq UseType /\ DailyChoices \subseteq UseType
  /\ Unused \notin DubaiChoices /\ Unused \in UseType
  /\ IsFiniteSet(DubaiChoices) /\ IsFiniteSet(UsdKrwChoices) /\ IsFiniteSet(BiasChoices)
  /\ IsFiniteSet(DailyChoices)
BY CandidatesAssumption DEF UseType, Unused

PlainSetting(cap) ==
  [trend |-> TrendWeeks, dubai |-> Unused, usdKrw |-> Unused, cap |-> cap, bias |-> Unused, daily |-> Unused]

WithIndicators(cap, dubai, usdKrw, choice) ==
  [PlainSetting(cap) EXCEPT !.dubai = dubai, !.usdKrw = usdKrw, !.cap = choice]

LEMMA CandidatesAre ==
  ASSUME NEW cap
  PROVE  ModelCandidates(cap) =
           {PlainSetting(cap)}
             \cup {WithIndicators(cap, dubai, usdKrw, choice) :
                     dubai \in DubaiChoices, usdKrw \in UsdKrwChoices \cup {Unused}, choice \in CapChoices}
BY DEF ModelCandidates, PlainSetting, WithIndicators

LEMMA CandidatesAreSound ==
  ASSUME NEW cap \in Nat, NEW s \in ModelCandidates(cap)
  PROVE  Sound(s)
<1>1. TrendWeeks \in Nat /\ TrendWeeks >= 2 /\ CapChoices \subseteq Nat
  BY CandidatesAssumption
<1>2. CASE s = PlainSetting(cap)
  BY <1>1, <1>2, ChoicesAreTyped DEF PlainSetting, Sound, Operable, SettingType
<1>3. CASE s # PlainSetting(cap)
  <2>1. PICK U : U = UsdKrwChoices \cup {Unused}
    OBVIOUS
  <2>2. \E dubai \in DubaiChoices, usdKrw \in U, choice \in CapChoices : s = WithIndicators(cap, dubai, usdKrw, choice)
    BY <1>3, <2>1, CandidatesAre
  <2>3. PICK dubai \in DubaiChoices, usdKrw \in U, choice \in CapChoices : s = WithIndicators(cap, dubai, usdKrw, choice)
    BY <2>2
  <2>4. s = [trend |-> TrendWeeks, dubai |-> dubai, usdKrw |-> usdKrw, cap |-> choice,
             bias |-> Unused, daily |-> Unused]
    BY <2>3 DEF WithIndicators, PlainSetting
  <2>5. dubai \in UseType /\ dubai # Unused /\ usdKrw \in UseType /\ choice \in Nat /\ Unused \in UseType
    BY <1>1, <2>1, ChoicesAreTyped
  <2> QED  BY <1>1, <2>4, <2>5 DEF Sound, Operable, SettingType
<1> QED  BY <1>2, <1>3

LEMMA CandidatesAreFinite ==
  ASSUME NEW cap \in Nat
  PROVE  IsFiniteSet(ModelCandidates(cap))
<1>1. PICK U : U = UsdKrwChoices \cup {Unused}
  OBVIOUS
<1>2. IsFiniteSet(U) /\ IsFiniteSet(CapChoices) /\ IsFiniteSet(DubaiChoices)
  BY <1>1, CandidatesAssumption, ChoicesAreTyped, FS_AddElement
<1>3. PICK D : D = DubaiChoices \X (U \X CapChoices)
  OBVIOUS
<1>4. IsFiniteSet(D)
  <2>1. IsFiniteSet(U \X CapChoices)
    BY <1>2, FS_Product
  <2> QED  BY <1>2, <1>3, <2>1, FS_Product
<1>5. PICK f : f = [d \in D |-> WithIndicators(cap, d[1], d[2][1], d[2][2])]
  OBVIOUS
<1>6. PICK others : others = {f[d] : d \in D}
  OBVIOUS
<1>7. IsFiniteSet(others)
  BY <1>4, <1>5, <1>6, ValuesAreFinite
<1>8. ASSUME NEW s \in ModelCandidates(cap), s # PlainSetting(cap)
      PROVE  s \in others
  <2>1. PICK dubai \in DubaiChoices, usdKrw \in U, choice \in CapChoices : s = WithIndicators(cap, dubai, usdKrw, choice)
    BY <1>1, <1>8, CandidatesAre
  <2>2. PICK d : d = <<dubai, <<usdKrw, choice>>>>
    OBVIOUS
  <2>3. d \in D /\ d[1] = dubai /\ d[2][1] = usdKrw /\ d[2][2] = choice
    BY <1>3, <2>2
  <2>4. f[d] = s
    BY <1>5, <2>1, <2>3
  <2> QED  BY <1>6, <2>3, <2>4
<1>9. ModelCandidates(cap) \in SUBSET (others \cup {PlainSetting(cap)})
  BY <1>8
<1>10. IsFiniteSet(others \cup {PlainSetting(cap)})
  BY <1>7, FS_AddElement
<1> QED  BY <1>9, <1>10, FS_Subset

\* What is chosen comes with the backtest of its model.
IsChosen(chosen, current, now, tested, T) ==
  \/ chosen.setting = current /\ chosen.backtest = now
  \/ \E best \in T : SameModel(best, current) /\ chosen.setting = current /\ chosen.backtest = tested[best]
  \/ \E best \in T : chosen.setting = best /\ chosen.backtest = tested[best]

LEMMA ChosenIsOwn ==
  ASSUME NEW tested, NEW T, DOMAIN tested = T, T \subseteq SettingType, IsFiniteSet(T),
         \A s \in T : IsBacktest(tested[s]), NEW C \in SUBSET T,
         NEW current, NEW now, NEW cooled, NEW chosen, chosen = Chosen(current, now, tested, C, cooled)
  PROVE  IsChosen(chosen, current, now, tested, T)
<1> DEFINE rank == [s \in C |-> <<tested[s].recent.mae, tested[s].recent.mape>> \o Place(s)]
           best == Foremost(rank)
<1>1. C # {} => best \in T
  <2> SUFFICES ASSUME C # {}  PROVE best \in T
    OBVIOUS
  <2>1. ASSUME NEW s \in C  PROVE rank[s] \in [1..(2 + 10) -> Int]
    <3>1. s \in SettingType /\ IsBacktest(tested[s])
      OBVIOUS
    <3>2. PICK figures : figures = <<tested[s].recent.mae, tested[s].recent.mape>>
      OBVIOUS
    <3>3. tested[s].recent.mae \in Int /\ tested[s].recent.mape \in Int
      BY <3>1 DEF IsBacktest, BacktestType, MetricsType
    <3>4. figures \in Seq(Int) /\ Len(figures) = 2
      BY <3>2, <3>3
    <3>5. figures \o Place(s) \in [1..(2 + 10) -> Int]
      BY <3>1, <3>4, RankIsTyped
    <3>6. rank[s] = figures \o Place(s)
      BY <3>2
    <3> QED  BY <3>5, <3>6
  <2>2. IsFiniteSet(C)
    BY FS_Subset
  <2>3. DOMAIN rank = C
    OBVIOUS
  <2> HIDE DEF rank
  <2>4. PICK width \in Nat : width = 2 + 10
    OBVIOUS
  <2>5. \A s \in C : rank[s] \in [1..width -> Int]
    BY <2>1, <2>4
  <2>6. Foremost(rank) \in C
    BY <2>2, <2>3, <2>5, ForemostIsOne, SMTT(60)
  <2> QED  BY <2>6
<1> HIDE DEF best
<1>2. \/ \E why : chosen = [setting |-> current, backtest |-> now, reason |-> why]
      \/ \E why : /\ C # {} /\ SameModel(best, current)
                  /\ chosen = [[setting |-> current, backtest |-> now, reason |-> why] EXCEPT !.backtest = tested[best]]
      \/ \E why : C # {} /\ chosen = [setting |-> best, backtest |-> tested[best], reason |-> why]
  BY ZenonT(60) DEF Chosen, best
<1>3. CASE \E why : chosen = [setting |-> current, backtest |-> now, reason |-> why]
  BY <1>3 DEF IsChosen
<1>4. CASE \E why : /\ C # {} /\ SameModel(best, current)
                    /\ chosen = [[setting |-> current, backtest |-> now, reason |-> why] EXCEPT !.backtest = tested[best]]
  BY <1>1, <1>4 DEF IsChosen
<1>5. CASE \E why : C # {} /\ chosen = [setting |-> best, backtest |-> tested[best], reason |-> why]
  BY <1>1, <1>5 DEF IsChosen
<1> QED  BY <1>2, <1>3, <1>4, <1>5

\* Settings of the same model have the same backtest.
LEMMA SameModelSameBacktest ==
  ASSUME NEW s, IsPrices(s), NEW x, NEW a \in SettingType, NEW b \in SettingType, SameModel(a, b), NEW k \in Nat
  PROVE  Backtest(s, x, a, k) = Backtest(s, x, b, k)
<1>1. a.trend = b.trend /\ a.dubai = b.dubai /\ a.usdKrw = b.usdKrw /\ a.cap = b.cap
  BY DEF SameModel
<1>2. \A n, h : IsOrigin(s, a, n, h) <=> IsOrigin(s, b, n, h)
  BY <1>1 DEF IsOrigin
<1>3. \A t, h : PriceAfter(t, x, a, h) = PriceAfter(t, x, b, h)
  BY <1>1 DEF PriceAfter
<1>4. \A n, h : PointAt(s, x, a, n, h) = PointAt(s, x, b, n, h)
  BY <1>3 DEF PointAt
<1>5. ASSUME NEW point  PROVE point \in Backtest(s, x, a, k) <=> point \in Backtest(s, x, b, k)
  <2>1. point \in Backtest(s, x, a, k)
          <=> \E n \in 1..Len(s), h \in 1..k : IsOrigin(s, a, n, h) /\ point = PointAt(s, x, a, n, h)
    BY BacktestIs
  <2>2. point \in Backtest(s, x, b, k)
          <=> \E n \in 1..Len(s), h \in 1..k : IsOrigin(s, b, n, h) /\ point = PointAt(s, x, b, n, h)
    BY BacktestIs
  <2> QED  BY <1>2, <1>4, <2>1, <2>2
<1> QED  BY <1>5

\* The selection can be operated, and it comes with its own backtest.
LEMMA SelectionIsOwn ==
  ASSUME NEW s, IsPrices(s), NEW x, IsInputs(x), NEW current, Sound(current), NEW k \in Nat, NEW cooled,
         NEW selection, selection = Selection(s, x, current, k, cooled)
  PROVE  /\ Sound(selection.setting)
         /\ selection.backtest = Measured(s, Backtest(s, x, selection.setting, k))
<1> DEFINE test(p) == Measured(s, Backtest(s, x, p, k))
<1>1. PICK T : T = ModelCandidates(current.cap)
  OBVIOUS
<1>2. PICK tested : tested = [p \in T |-> test(p)]
  OBVIOUS
<1>3. PICK C : C = Contenders(tested, current.cap)
  OBVIOUS
<1>4. selection = Chosen(current, test(current), tested, C, cooled)
  BY <1>1, <1>2, <1>3 DEF Selection, ChosenOf
<1>5. current \in SettingType /\ current.cap \in Nat
  BY DEF Sound, Operable, SettingType
<1>6. IsFiniteSet(T) /\ T \subseteq SettingType /\ \A p \in T : Sound(p)
  BY <1>1, <1>5, CandidatesAreFinite, CandidatesAreSound DEF Sound, Operable
<1>7. DOMAIN tested = T /\ \A p \in T : tested[p] = test(p) /\ IsBacktest(tested[p])
  BY <1>2, <1>6, MeasuredIsBacktest
<1>8. C \in SUBSET T
  BY <1>3, <1>7 DEF Contenders
<1>9. PICK now : now = test(current)
  OBVIOUS
<1>10. IsChosen(selection, current, now, tested, T)
  <2> HIDE DEF test
  <2> QED  BY <1>4, <1>6, <1>7, <1>8, <1>9, ChosenIsOwn
<1>11. \A best \in T : SameModel(best, current) => test(best) = test(current)
  <2>1. SUFFICES ASSUME NEW best \in T, SameModel(best, current)  PROVE test(best) = test(current)
    OBVIOUS
  <2>2. Backtest(s, x, best, k) = Backtest(s, x, current, k)
    BY <1>5, <1>6, <2>1, SameModelSameBacktest
  <2> QED  BY <2>2
<1>12. selection.backtest = test(selection.setting) /\ Sound(selection.setting)
  <2> HIDE DEF test
  <2> QED  BY <1>6, <1>7, <1>9, <1>10, <1>11 DEF IsChosen
<1> QED  BY <1>12

-----------------------------------------------------------------------------
(* The tuning.                                                             *)

FactorNames == {"trend", "dubai", "usdKrw", "cap", "bias", "daily"}

LEMMA FactorsAre == {Factors[i] : i \in DOMAIN Factors} = FactorNames
<1>1. DOMAIN Factors = 1..6
  BY DEF Factors
<1>2. \A i \in 1..6 : Factors[i] \in FactorNames
  BY DEF Factors, FactorNames
<1>3. /\ Factors[1] = "trend" /\ Factors[2] = "dubai" /\ Factors[3] = "usdKrw"
      /\ Factors[4] = "cap" /\ Factors[5] = "bias" /\ Factors[6] = "daily"
  BY DEF Factors
<1>4. \A name \in FactorNames : \E i \in 1..6 : Factors[i] = name
  BY <1>3 DEF FactorNames
<1> QED  BY <1>1, <1>2, <1>4

\* A value of another setting in one of the factors.
LEMMA Substituted ==
  ASSUME NEW s \in SettingType, s.trend >= 2, NEW t \in SettingType, t.trend >= 2, NEW f \in FactorNames
  PROVE  [s EXCEPT ![f] = t[f]] \in SettingType /\ [s EXCEPT ![f] = t[f]].trend >= 2
<1>1. CASE f = "trend"
  BY <1>1 DEF SettingType
<1>2. CASE f = "dubai"
  BY <1>2 DEF SettingType
<1>3. CASE f = "usdKrw"
  BY <1>3 DEF SettingType
<1>4. CASE f = "cap"
  BY <1>4 DEF SettingType
<1>5. CASE f = "bias"
  BY <1>5 DEF SettingType
<1>6. CASE f = "daily"
  BY <1>6 DEF SettingType
<1> QED  BY <1>1, <1>2, <1>3, <1>4, <1>5, <1>6 DEF FactorNames

\* One factor of a sound setting tried with another value.
LEMMA AlternativesAreSound ==
  ASSUME NEW current, Sound(current), NEW factor \in FactorNames,
         NEW persistent, NEW observed, Applicable(current, factor, persistent, observed),
         NEW s \in Alternatives(current, factor)
  PROVE  Sound(s)
<1>1. current \in SettingType /\ current.trend >= 2 /\ (current.usdKrw # Unused => current.dubai # Unused)
  BY DEF Sound, Operable
<1>2. CASE factor = "trend"
  <2>1. PICK count \in TrendChoices : s = [current EXCEPT !.trend = count]
    BY <1>2 DEF Alternatives
  <2>2. count \in Nat /\ count >= 2
    BY CandidatesAssumption
  <2>3. s \in SettingType /\ s.trend = count /\ s.usdKrw = current.usdKrw /\ s.dubai = current.dubai
    BY <1>1, <2>1, <2>2 DEF SettingType
  <2> QED  BY <1>1, <2>2, <2>3 DEF Sound, Operable
<1>3. CASE factor = "dubai"
  <2>1. CASE s = [current EXCEPT !.dubai = Unused, !.usdKrw = Unused]
    <3>1. s \in SettingType /\ s.trend = current.trend /\ s.usdKrw = Unused
      BY <1>1, <2>1, ChoicesAreTyped DEF SettingType
    <3> QED  BY <1>1, <3>1 DEF Sound, Operable
  <2>2. CASE \E use \in DubaiChoices : s = [current EXCEPT !.dubai = use]
    <3>1. PICK use \in DubaiChoices : s = [current EXCEPT !.dubai = use]
      BY <2>2
    <3>2. use \in UseType /\ use # Unused
      BY ChoicesAreTyped
    <3>3. s \in SettingType /\ s.trend = current.trend /\ s.dubai = use
      BY <1>1, <3>1, <3>2 DEF SettingType
    <3> QED  BY <1>1, <3>2, <3>3 DEF Sound, Operable
  <2> QED  BY <1>3, <2>1, <2>2 DEF Alternatives
<1>4. CASE factor = "usdKrw"
  <2>1. PICK use \in UsdKrwChoices \cup {Unused} : s = [current EXCEPT !.usdKrw = use]
    BY <1>4 DEF Alternatives
  <2>2. use \in UseType
    BY ChoicesAreTyped
  <2>3. s \in SettingType /\ s.trend = current.trend /\ s.dubai = current.dubai
    BY <1>1, <2>1, <2>2 DEF SettingType
  <2>4. current.dubai # Unused
    BY <1>1, <1>4 DEF Applicable
  <2> QED  BY <1>1, <2>3, <2>4 DEF Sound, Operable
<1>5. CASE factor = "cap"
  <2>1. PICK cap \in CapChoices : s = [current EXCEPT !.cap = cap]
    BY <1>5 DEF Alternatives
  <2>2. cap \in Nat
    BY CandidatesAssumption
  <2>3. s \in SettingType /\ s.trend = current.trend /\ s.usdKrw = current.usdKrw /\ s.dubai = current.dubai
    BY <1>1, <2>1, <2>2 DEF SettingType
  <2> QED  BY <1>1, <2>3 DEF Sound, Operable
<1>6. CASE factor = "bias"
  <2>1. PICK use \in BiasChoices \cup {Unused} : s = [current EXCEPT !.bias = use]
    BY <1>6 DEF Alternatives
  <2>2. use \in UseType
    BY ChoicesAreTyped
  <2>3. s \in SettingType /\ s.trend = current.trend /\ s.usdKrw = current.usdKrw /\ s.dubai = current.dubai
    BY <1>1, <2>1, <2>2 DEF SettingType
  <2> QED  BY <1>1, <2>3 DEF Sound, Operable
<1>7. CASE factor = "daily"
  <2>1. PICK use \in DailyChoices \cup {Unused} : s = [current EXCEPT !.daily = use]
    BY <1>7 DEF Alternatives
  <2>2. use \in UseType
    BY ChoicesAreTyped
  <2>3. s \in SettingType /\ s.trend = current.trend /\ s.usdKrw = current.usdKrw /\ s.dubai = current.dubai
    BY <1>1, <2>1, <2>2 DEF SettingType
  <2> QED  BY <1>1, <2>3 DEF Sound, Operable
<1> QED  BY <1>2, <1>3, <1>4, <1>5, <1>6, <1>7 DEF FactorNames

\* Only so many settings come of so many values of a factor.
LEMMA SettingsAreFinite ==
  ASSUME NEW current, NEW f, NEW S, IsFiniteSet(S),
         NEW T, \A t \in T : \E value \in S : t = [current EXCEPT ![f] = value]
  PROVE  IsFiniteSet(T)
<1>1. PICK g : g = [value \in S |-> [current EXCEPT ![f] = value]]
  OBVIOUS
<1>2. IsFiniteSet({g[value] : value \in S})
  BY <1>1, ValuesAreFinite
<1>3. T \in SUBSET {g[value] : value \in S}
  BY <1>1
<1> QED  BY <1>2, <1>3, FS_Subset

LEMMA AlternativesAreFinite ==
  ASSUME NEW current, NEW factor \in FactorNames
  PROVE  IsFiniteSet(Alternatives(current, factor))
<1>1. /\ IsFiniteSet(TrendChoices) /\ IsFiniteSet(CapChoices) /\ IsFiniteSet(DubaiChoices)
      /\ IsFiniteSet(UsdKrwChoices \cup {Unused}) /\ IsFiniteSet(BiasChoices \cup {Unused})
      /\ IsFiniteSet(DailyChoices \cup {Unused})
  BY CandidatesAssumption, ChoicesAreTyped, FS_AddElement
<1>2. CASE factor = "trend"
  <2>1. \A s \in Alternatives(current, factor) :
          \E value \in TrendChoices : s = [current EXCEPT !["trend"] = value]
    BY <1>2 DEF Alternatives
  <2> QED  BY <1>1, <2>1, SettingsAreFinite
<1>3. CASE factor = "dubai"
  <2>1. PICK none : none = [current EXCEPT !.dubai = Unused, !.usdKrw = Unused]
    OBVIOUS
  <2>2. PICK others : others = {[current EXCEPT !.dubai = use] : use \in DubaiChoices}
    OBVIOUS
  <2>3. Alternatives(current, factor) = others \cup {none}
    BY <1>3, <2>1, <2>2 DEF Alternatives
  <2>4. IsFiniteSet(others)
    <3>1. \A s \in others : \E value \in DubaiChoices : s = [current EXCEPT !["dubai"] = value]
      BY <2>2
    <3> QED  BY <1>1, <3>1, SettingsAreFinite
  <2> QED  BY <2>3, <2>4, FS_AddElement
<1>4. CASE factor = "usdKrw"
  <2>1. \A s \in Alternatives(current, factor) :
          \E value \in UsdKrwChoices \cup {Unused} : s = [current EXCEPT !["usdKrw"] = value]
    BY <1>4 DEF Alternatives
  <2> QED  BY <1>1, <2>1, SettingsAreFinite
<1>5. CASE factor = "cap"
  <2>1. \A s \in Alternatives(current, factor) :
          \E value \in CapChoices : s = [current EXCEPT !["cap"] = value]
    BY <1>5 DEF Alternatives
  <2> QED  BY <1>1, <2>1, SettingsAreFinite
<1>6. CASE factor = "bias"
  <2>1. \A s \in Alternatives(current, factor) :
          \E value \in BiasChoices \cup {Unused} : s = [current EXCEPT !["bias"] = value]
    BY <1>6 DEF Alternatives
  <2> QED  BY <1>1, <2>1, SettingsAreFinite
<1>7. CASE factor = "daily"
  <2>1. \A s \in Alternatives(current, factor) :
          \E value \in DailyChoices \cup {Unused} : s = [current EXCEPT !["daily"] = value]
    BY <1>7 DEF Alternatives
  <2> QED  BY <1>1, <2>1, SettingsAreFinite
<1> QED  BY <1>2, <1>3, <1>4, <1>5, <1>6, <1>7 DEF FactorNames

LEMMA TriedAreSound ==
  ASSUME NEW current, Sound(current), NEW persistent, NEW observed,
         NEW tried, tried = Tried(current, persistent, observed)
  PROVE  /\ DOMAIN tried = FactorNames
         /\ \A f \in FactorNames : IsFiniteSet(tried[f]) /\ \A s \in tried[f] : Sound(s)
<1>1. tried = [factor \in FactorNames |->
                 IF Applicable(current, factor, persistent, observed)
                   THEN Alternatives(current, factor) \ {current} ELSE {}]
  BY FactorsAre DEF Tried
<1>2. DOMAIN tried = FactorNames
  BY <1>1
<1>3. ASSUME NEW f \in FactorNames
      PROVE  IsFiniteSet(tried[f]) /\ \A s \in tried[f] : Sound(s)
  <2>1. CASE Applicable(current, f, persistent, observed)
    <3>1. tried[f] = Alternatives(current, f) \ {current}
      BY <1>1, <2>1
    <3>2. IsFiniteSet(Alternatives(current, f) \ {current})
      BY AlternativesAreFinite, FS_RemoveElement
    <3>3. \A s \in tried[f] : Sound(s)
      BY <2>1, <3>1, AlternativesAreSound
    <3> QED  BY <3>1, <3>2, <3>3
  <2>2. CASE ~Applicable(current, f, persistent, observed)
    BY <1>1, <2>2, FS_EmptySet
  <2> QED  BY <2>1, <2>2
<1> QED  BY <1>2, <1>3

LEMMA PlaceTellsApart ==
  ASSUME NEW s \in SettingType, NEW t \in SettingType, Place(s) = Place(t)
  PROVE  s = t
<1>1. /\ s.dubai.lag = t.dubai.lag /\ s.dubai.weight = t.dubai.weight
      /\ s.usdKrw.lag = t.usdKrw.lag /\ s.usdKrw.weight = t.usdKrw.weight
      /\ s.bias.lag = t.bias.lag /\ s.bias.weight = t.bias.weight
      /\ s.daily.lag = t.daily.lag /\ s.daily.weight = t.daily.weight
      /\ s.trend = t.trend /\ s.cap = t.cap
  <2>1. \A i \in 1..10 : Place(s)[i] = Place(t)[i]
    OBVIOUS
  <2> QED  BY <2>1 DEF Place
<1>2. \A u, v \in UseType : u.lag = v.lag /\ u.weight = v.weight => u = v
  BY DEF UseType
<1>3. s.dubai = t.dubai /\ s.usdKrw = t.usdKrw /\ s.bias = t.bias /\ s.daily = t.daily
  BY <1>1, <1>2 DEF SettingType
<1> QED  BY <1>1, <1>3 DEF SettingType

\* What a candidate scores is its errors and its place.
LEMMA ScoreIsTyped ==
  ASSUME NEW b, IsBacktest(b), NEW s \in SettingType
  PROVE  \E figures \in Seq(Int) : Len(figures) = 3 /\ Score(b, s) = figures \o Place(s)
                                    /\ Score(b, s) \in [1..(3 + 10) -> Int]
<1>1. PICK figures : figures = <<b.recentOne.mae, b.recentOne.mape, b.longOne.mae>>
  OBVIOUS
<1>2. b.recentOne.mae \in Int /\ b.recentOne.mape \in Int /\ b.longOne.mae \in Int
  BY DEF IsBacktest, BacktestType, MetricsType
<1>3. figures \in Seq(Int) /\ Len(figures) = 3
  BY <1>1, <1>2
<1>4. Score(b, s) = figures \o Place(s)
  BY <1>1 DEF Score
<1>5. figures \o Place(s) \in [1..(3 + 10) -> Int]
  BY <1>3, RankIsTyped
<1> QED  BY <1>3, <1>4, <1>5

\* Sequences that differ at the end alone.
LEMMA EndsAreSame ==
  \A f, g, p, q \in Seq(Int) : Len(f) = Len(g) /\ Len(p) = Len(q) /\ f \o p = g \o q => p = q
<1> SUFFICES ASSUME NEW f \in Seq(Int), NEW g \in Seq(Int), NEW p \in Seq(Int), NEW q \in Seq(Int),
                    Len(f) = Len(g), Len(p) = Len(q), f \o p = g \o q
             PROVE  p = q
  OBVIOUS
<1>1. PICK m \in Nat, n \in Nat : m = Len(f) /\ n = Len(p)
  OBVIOUS
<1>2. ASSUME NEW i \in 1..n  PROVE p[i] = q[i]
  <2>1. PICK k \in Nat : k = i + m
    OBVIOUS
  <2>2. k \in 1..(Len(f) + Len(p)) /\ k \in 1..(Len(g) + Len(q)) /\ ~(k <= m) /\ k - m = i
    BY <1>1, <2>1
  <2>3. (f \o p)[k] = IF k <= Len(f) THEN f[k] ELSE p[k - Len(f)]
    BY <2>2, ConcatProperties
  <2>4. (g \o q)[k] = IF k <= Len(g) THEN g[k] ELSE q[k - Len(g)]
    BY <2>2, ConcatProperties
  <2> QED  BY <1>1, <2>2, <2>3, <2>4
<1> QED  BY <1>1, <1>2, SeqEqual

LEMMA ScoreTellsApart ==
  ASSUME NEW b, IsBacktest(b), NEW s \in SettingType, NEW c, IsBacktest(c), NEW t \in SettingType,
         Score(b, s) = Score(c, t)
  PROVE  s = t
<1>1. PICK m \in Nat, n \in Nat : m = 3 /\ n = 10
  OBVIOUS
<1>2. PICK f \in Seq(Int) : Len(f) = m /\ Score(b, s) = f \o Place(s)
  BY <1>1, ScoreIsTyped
<1>3. PICK g \in Seq(Int) : Len(g) = m /\ Score(c, t) = g \o Place(t)
  BY <1>1, ScoreIsTyped
<1>4. PICK p \in Seq(Int) : p = Place(s) /\ Len(p) = n
  BY <1>1, PlaceIsTyped
<1>5. PICK q \in Seq(Int) : q = Place(t) /\ Len(q) = n
  BY <1>1, PlaceIsTyped
<1>6. f \o p = g \o q
  BY <1>2, <1>3, <1>4, <1>5
<1>7. p = q
  <2>1. Len(f) = Len(g) /\ Len(p) = Len(q)
    BY <1>2, <1>3, <1>4, <1>5
  <2> QED  BY <1>6, <2>1, EndsAreSame
<1> QED  BY <1>4, <1>5, <1>7, PlaceTellsApart

\* Each of the elements of a set is at just one of the places up to n.
Enumerates(f, S, n) ==
  /\ \A i \in 1..n : f[i] \in S
  /\ \A i, j \in 1..n : f[i] = f[j] => i = j
  /\ \A s \in S : \E i \in 1..n : f[i] = s

\* A ranking has every candidate at one place.
LEMMA RankingEnumerates ==
  ASSUME NEW results, NEW S \in SUBSET SettingType, IsFiniteSet(S), \A s \in S : IsBacktest(results[s])
  PROVE  Enumerates(Ranking(results, S), S, Cardinality(S))
<1> DEFINE score(s) == Score(results[s], s)
<1>1. PICK R : R = {pair \in S \X S : Precedes(score(pair[1]), score(pair[2]))}
  OBVIOUS
<1>2. \A a, b \in S : <<a, b>> \in R <=> Precedes(score(a), score(b))
  BY <1>1
<1>3. PICK width \in Nat : width = 3 + 10
  OBVIOUS
<1>4. \A s \in S : score(s) \in [1..width -> Int]
  BY <1>3, ScoreIsTyped
<1>5. \A s, t \in S : score(s) = score(t) => s = t
  BY ScoreTellsApart
<1> HIDE DEF score
<1>6. Orders(R, S)
  <2>1. \A a \in S : <<a, a>> \notin R
    BY <1>2, <1>4, PrecedesIsStrict
  <2>2. \A a, b \in S : a = b \/ <<a, b>> \in R \/ <<b, a>> \in R
    BY <1>2, <1>4, <1>5, PrecedesIsStrict
  <2>3. \A a, b, c \in S : <<a, b>> \in R /\ <<b, c>> \in R => <<a, c>> \in R
    BY <1>2, <1>4, PrecedesIsStrict
  <2> QED  BY <2>1, <2>2, <2>3 DEF Orders
<1>7. Ranking(results, S)
        = [k \in 1..Cardinality(S) |-> CHOOSE s \in S : Cardinality({o \in S : Precedes(score(o), score(s))}) = k - 1]
  BY DEF score, Ranking, Ordered
<1>8. \A s \in S : {o \in S : Precedes(score(o), score(s))} = Below(R, S, s)
  BY <1>2 DEF Below
<1>9. PICK n \in Nat : n = Cardinality(S)
  BY FS_CardinalityType
<1>10. PICK f : f = Ranking(results, S)
  OBVIOUS
<1>11. ASSUME NEW i \in 1..n  PROVE f[i] \in S /\ Cardinality(Below(R, S, f[i])) = i - 1
  <2>1. \E s \in S : Cardinality({o \in S : Precedes(score(o), score(s))}) = i - 1
    <3>1. PICK s \in S : Cardinality(Below(R, S, s)) = i - 1
      BY <1>6, <1>9, EveryPlaceIsTaken
    <3> QED  BY <1>8, <3>1
  <2>2. f[i] = CHOOSE s \in S : Cardinality({o \in S : Precedes(score(o), score(s))}) = i - 1
    BY <1>7, <1>9, <1>10
  <2>3. f[i] \in S /\ Cardinality({o \in S : Precedes(score(o), score(f[i]))}) = i - 1
    BY <2>1, <2>2
  <2> QED  BY <1>8, <2>3
<1>12. ASSUME NEW a \in S, NEW b \in S, Cardinality(Below(R, S, a)) = Cardinality(Below(R, S, b))  PROVE a = b
  <2>1. SUFFICES ASSUME a # b  PROVE FALSE
    OBVIOUS
  <2>2. PICK c \in Int : c = Cardinality(Below(R, S, a)) /\ c = Cardinality(Below(R, S, b))
    BY <1>6, <1>9, <1>12, BelowIsLess
  <2>3. <<a, b>> \in R \/ <<b, a>> \in R
    BY <1>6, <2>1 DEF Orders
  <2>4. c < c
    BY <1>6, <2>2, <2>3, BelowGrows
  <2> QED  BY <2>4
<1>13. \A i, j \in 1..n : f[i] = f[j] => i = j
  <2>1. SUFFICES ASSUME NEW i \in 1..n, NEW j \in 1..n, f[i] = f[j]  PROVE i = j
    OBVIOUS
  <2>2. i - 1 = j - 1
    BY <1>11, <2>1
  <2> QED  BY <2>2
<1>14. \A s \in S : \E i \in 1..n : f[i] = s
  <2>1. SUFFICES ASSUME NEW s \in S  PROVE \E i \in 1..n : f[i] = s
    OBVIOUS
  <2>2. PICK c \in 0..(n - 1) : c = Cardinality(Below(R, S, s))
    BY <1>6, <1>9, BelowIsLess
  <2>3. c + 1 \in 1..n /\ (c + 1) - 1 = c
    OBVIOUS
  <2>4. f[c + 1] \in S /\ Cardinality(Below(R, S, f[c + 1])) = c
    BY <1>11, <2>3
  <2>5. f[c + 1] = s
    BY <1>12, <2>2, <2>4
  <2> QED  BY <2>3, <2>5
<1> QED  BY <1>9, <1>10, <1>11, <1>13, <1>14 DEF Enumerates

\* The best single change of a factor is one of those tried.
LEMMA SeedsAreSome ==
  ASSUME NEW current, NEW operating, NEW tried, NEW tested,
         \A f \in DOMAIN tried : tried[f] \subseteq SettingType /\ IsFiniteSet(tried[f]),
         \A f \in DOMAIN tried : \A s \in tried[f] : IsBacktest(tested[s]),
         NEW seeds, seeds = Seeds(current, operating, tried, tested)
  PROVE  \A f \in DOMAIN seeds : f \in DOMAIN tried /\ seeds[f] \in tried[f]
<1> DEFINE good(f) == {s \in tried[f] : Differences(current, s) = {f} /\ PassesAgainst(operating, tested[s])}
           rank(f) == [s \in good(f) |-> Score(tested[s], s)]
<1>1. seeds = [f \in {f \in DOMAIN tried : good(f) # {}} |-> Foremost(rank(f))]
  BY DEF Seeds
<1>2. ASSUME NEW f \in DOMAIN tried, good(f) # {}  PROVE Foremost(rank(f)) \in tried[f]
  <2>1. good(f) \in SUBSET tried[f] /\ good(f) \subseteq SettingType /\ \A s \in good(f) : IsBacktest(tested[s])
    OBVIOUS
  <2>2. IsFiniteSet(good(f))
    BY <2>1, FS_Subset
  <2>3. PICK T : T = good(f)
    OBVIOUS
  <2>4. PICK r : r = rank(f)
    OBVIOUS
  <2>5. DOMAIN r = T /\ \A s \in T : r[s] = Score(tested[s], s)
    BY <2>3, <2>4
  <2> HIDE DEF good, rank
  <2>6. PICK n \in Nat : n = 3 + 10
    OBVIOUS
  <2>7. \A s \in T : r[s] \in [1..n -> Int]
    BY <2>1, <2>3, <2>5, <2>6, ScoreIsTyped
  <2>8. Foremost(r) \in T
    BY <1>2, <2>2, <2>3, <2>5, <2>6, <2>7, ForemostIsOne
  <2> QED  BY <2>1, <2>3, <2>4, <2>8
<1> HIDE DEF good, rank
<1> QED  BY <1>1, <1>2

LEMMA PairsAreSound ==
  ASSUME NEW current, Sound(current), NEW seeds, DOMAIN seeds \subseteq FactorNames,
         \A f \in DOMAIN seeds : Sound(seeds[f]), NEW pair \in Pairs(current, seeds)
  PROVE  /\ Sound(pair)
         /\ \E f, g \in FactorNames : pair = [[current EXCEPT ![f] = seeds[f][f]] EXCEPT ![g] = seeds[g][g]]
<1>1. ~(pair.usdKrw # Unused /\ pair.dubai = Unused)
  BY DEF Pairs
<1>2. pair \in {[[current EXCEPT ![f] = seeds[f][f]] EXCEPT ![g] = seeds[g][g]] : f, g \in DOMAIN seeds}
  BY DEF Pairs
<1>3. PICK f \in DOMAIN seeds, g \in DOMAIN seeds : pair = [[current EXCEPT ![f] = seeds[f][f]] EXCEPT ![g] = seeds[g][g]]
  BY <1>2
<1>4. PICK one : one = [current EXCEPT ![f] = seeds[f][f]]
  OBVIOUS
<1>5. current \in SettingType /\ current.trend >= 2
  BY DEF Sound, Operable
<1>6. \A k \in DOMAIN seeds : seeds[k] \in SettingType /\ seeds[k].trend >= 2 /\ k \in FactorNames
  BY DEF Sound, Operable
<1>7. one \in SettingType /\ one.trend >= 2
  BY <1>4, <1>5, <1>6, Substituted
<1>8. pair = [one EXCEPT ![g] = seeds[g][g]]
  BY <1>3, <1>4
<1>9. pair \in SettingType /\ pair.trend >= 2
  BY <1>6, <1>7, <1>8, Substituted
<1> QED  BY <1>1, <1>3, <1>9 DEF Sound, Operable

LEMMA FactorsAreFinite == IsFiniteSet(FactorNames)
<1>1. PICK d : d = [i \in 1..6 |-> Factors[i]]
  OBVIOUS
<1>2. IsFiniteSet({d[i] : i \in 1..6})
  <2>1. PICK T : T = 1..6
    OBVIOUS
  <2>2. IsFiniteSet(T)
    <3>1. PICK a \in Int, b \in Int : a = 1 /\ b = 6
      OBVIOUS
    <3>2. IsFiniteSet(a..b)
      BY FS_Interval
    <3> QED  BY <2>1, <3>1, <3>2
  <2>3. DOMAIN d = T
    BY <1>1, <2>1
  <2>4. IsFiniteSet({d[i] : i \in T})
    BY <2>2, <2>3, ValuesAreFinite
  <2> QED  BY <2>1, <2>4
<1>3. DOMAIN Factors = 1..6
  BY DEF Factors
<1>4. FactorNames \in SUBSET {d[i] : i \in 1..6}
  BY <1>1, <1>3, FactorsAre
<1> QED  BY <1>2, <1>4, FS_Subset

LEMMA PairsAreFinite ==
  ASSUME NEW current, Sound(current), NEW seeds, DOMAIN seeds \subseteq FactorNames,
         \A f \in DOMAIN seeds : Sound(seeds[f])
  PROVE  IsFiniteSet(Pairs(current, seeds))
<1>1. PICK D : D = FactorNames \X FactorNames
  OBVIOUS
<1>2. IsFiniteSet(D)
  BY <1>1, FactorsAreFinite, FS_Product
<1>3. PICK v : v = [d \in D |-> [[current EXCEPT ![d[1]] = seeds[d[1]][d[1]]] EXCEPT ![d[2]] = seeds[d[2]][d[2]]]]
  OBVIOUS
<1>4. ASSUME NEW pair \in Pairs(current, seeds)  PROVE pair \in {v[d] : d \in D}
  <2>1. PICK f \in FactorNames, g \in FactorNames :
          pair = [[current EXCEPT ![f] = seeds[f][f]] EXCEPT ![g] = seeds[g][g]]
    BY PairsAreSound
  <2>2. PICK d : d = <<f, g>>
    OBVIOUS
  <2>3. d \in D /\ d[1] = f /\ d[2] = g
    BY <1>1, <2>2
  <2>4. v[d] = pair
    BY <1>3, <2>1, <2>3
  <2> QED  BY <2>3, <2>4
<1>5. Pairs(current, seeds) \in SUBSET {v[d] : d \in D}
  BY <1>4
<1>6. IsFiniteSet({v[d] : d \in D})
  BY <1>2, <1>3, ValuesAreFinite
<1> QED  BY <1>5, <1>6, FS_Subset

\* What is tuned is among what was tested, and no more than is kept.
LEMMA PodiumIsTested ==
  ASSUME NEW operating, NEW results, NEW D, D = DOMAIN results, D \subseteq SettingType, IsFiniteSet(D),
         \A s \in D : IsBacktest(results[s]), NEW podium, podium = Podium(operating, results)
  PROVE  \E m \in 0..TuningLimit : podium \in [1..m -> [setting : D, mae : Int, one : SUBSET PointType]]
<1>1. PICK S : S = {s \in D : results[s].recentOne.count >= MinSamples /\ PassesAgainst(operating, results[s])}
  OBVIOUS
<1>2. S \in SUBSET D /\ S \in SUBSET SettingType /\ IsFiniteSet(S)
  <2>1. S \in SUBSET D
    BY <1>1
  <2> QED  BY <2>1, FS_Subset
<1>3. PICK R, n : R = Ranking(results, S) /\ n = Cardinality(S)
  OBVIOUS
<1>4. \A i \in 1..n : R[i] \in S
  <2>1. \A s \in S : IsBacktest(results[s])
    BY <1>2, SMTT(60)
  <2> QED  BY <1>2, <1>3, <2>1, RankingEnumerates DEF Enumerates
<1>5. podium = [i \in 1..Lesser(TuningLimit, n) |->
         [setting |-> R[i], mae |-> results[R[i]].recentOne.mae, one |-> results[R[i]].one]]
  BY <1>1, <1>3 DEF Podium
<1>6. n \in Nat /\ TuningLimit \in Nat
  BY <1>2, <1>3, FS_CardinalityType, CandidatesAssumption
<1>7. PICK m : m = Lesser(TuningLimit, n)
  OBVIOUS
<1>8. m \in 0..TuningLimit /\ 1..m \subseteq 1..n
  BY <1>6, <1>7 DEF Lesser
<1>9. \A s \in D : results[s].recentOne.mae \in Int /\ results[s].one \in SUBSET PointType
  BY DEF IsBacktest, BacktestType, MetricsType
<1>10. \A i \in 1..m : R[i] \in D
  BY <1>2, <1>4, <1>8
<1> QED  BY <1>5, <1>7, <1>8, <1>9, <1>10

\* Those that pass against the operating setting.
Passing(operating, results) ==
  {s \in DOMAIN results : results[s].recentOne.count >= MinSamples /\ PassesAgainst(operating, results[s])}

\* The podium has the first of them, all if there is room.
LEMMA PodiumIs ==
  ASSUME NEW operating, NEW results, DOMAIN results \subseteq SettingType, IsFiniteSet(DOMAIN results),
         \A s \in DOMAIN results : IsBacktest(results[s]), NEW podium, podium = Podium(operating, results),
         NEW S, S = Passing(operating, results)
  PROVE  \E m \in Nat :
           /\ DOMAIN podium = 1..m /\ m <= TuningLimit
           /\ \A i \in 1..m : podium[i].setting \in S
           /\ \A i, j \in 1..m : podium[i].setting = podium[j].setting => i = j
           /\ m < TuningLimit => \A s \in S : \E i \in 1..m : podium[i].setting = s
<1>1. S \in SUBSET (DOMAIN results) /\ S \in SUBSET SettingType /\ IsFiniteSet(S)
  <2>1. S \in SUBSET (DOMAIN results)
    BY DEF Passing
  <2> QED  BY <2>1, FS_Subset
<1>2. PICK n \in Nat, limit \in Nat : n = Cardinality(S) /\ limit = TuningLimit
  BY <1>1, FS_CardinalityType, CandidatesAssumption
<1>3. PICK R : R = Ranking(results, S)
  OBVIOUS
<1>4. Enumerates(R, S, n)
  <2>1. \A s \in S : IsBacktest(results[s])
    BY <1>1
  <2> QED  BY <1>1, <1>2, <1>3, <2>1, RankingEnumerates
<1>5. PICK m : m = Lesser(limit, n)
  OBVIOUS
<1>6. m \in Nat /\ m <= limit /\ m <= n /\ (m < limit => m = n)
  BY <1>2, <1>5, SMTT(60) DEF Lesser
<1>7. podium = [i \in 1..m |->
         [setting |-> R[i], mae |-> results[R[i]].recentOne.mae, one |-> results[R[i]].one]]
  BY <1>2, <1>3, <1>5 DEF Podium, Passing
<1>8. DOMAIN podium = 1..m /\ \A i \in 1..m : podium[i].setting = R[i] /\ i \in 1..n
  BY <1>2, <1>6, <1>7
<1>9. \A i \in 1..m : podium[i].setting \in S
  BY <1>4, <1>8 DEF Enumerates
<1>10. \A i, j \in 1..m : podium[i].setting = podium[j].setting => i = j
  BY <1>4, <1>8 DEF Enumerates
<1>11. m < limit => \A s \in S : \E i \in 1..m : podium[i].setting = s
  BY <1>4, <1>6, <1>8 DEF Enumerates
<1> QED  BY <1>2, <1>6, <1>8, <1>9, <1>10, <1>11

\* Settings tested on the same material.
LEMMA TestsAreBacktests ==
  ASSUME NEW inputs, IsMaterial(inputs), NEW S, \A s \in S : Sound(s), NEW tests, tests = Tests(S, inputs)
  PROVE  DOMAIN tests = S /\ \A s \in S : IsBacktest(tests[s])
<1>1. tests = [s \in S |-> EvaluatedOn(inputs, s)]
  BY DEF Tests, EvaluatedOn
<1>2. \A s \in S : IsBacktest(EvaluatedOn(inputs, s))
  BY EvaluatedIsBacktest DEF Sound, Operable
<1> QED  BY <1>1, <1>2

TunedType == [setting : {s \in SettingType : Sound(s)}, mae : Int, one : SUBSET PointType]

\* Settings that were tested, each on the same material.
AreTested(results, inputs) ==
  /\ IsFiniteSet(DOMAIN results)
  /\ \A s \in DOMAIN results : /\ Sound(s) /\ IsBacktest(results[s])
                               /\ results[s] = EvaluatedOn(inputs, s)

\* With too few weeks there are no candidates.
ArePodium(candidates, operating, results) ==
  candidates = IF operating.recentOne.count < MinSamples THEN <<>> ELSE Podium(operating, results)

\* The candidates are the podium of what was tested: every single change, and pairs.
LEMMA TunedArePodium ==
  ASSUME NEW current, Sound(current), NEW operating, NEW inputs, IsMaterial(inputs),
         NEW persistent, NEW observed, NEW candidates,
         candidates = Tuned(current, operating, inputs, persistent, observed),
         NEW tries, tries = Tried(current, persistent, observed)
  PROVE  \E results :
           /\ AreTested(results, inputs)
           /\ UNION {tries[f] : f \in DOMAIN tries} \subseteq DOMAIN results
           /\ ArePodium(candidates, operating, results)
<1>1. /\ DOMAIN tries = FactorNames
      /\ \A f \in FactorNames : IsFiniteSet(tries[f]) /\ \A s \in tries[f] : Sound(s)
  BY TriedAreSound
<1>2. PICK S : S = UNION {tries[f] : f \in DOMAIN tries}
  OBVIOUS
<1>3. \A s \in S : Sound(s)
  BY <1>1, <1>2
<1>4. IsFiniteSet(S)
  <2>1. IsFiniteSet({tries[f] : f \in FactorNames})
    BY <1>1, FactorsAreFinite, ValuesAreFinite
  <2>2. \A T \in {tries[f] : f \in FactorNames} : IsFiniteSet(T)
    BY <1>1
  <2> QED  BY <1>1, <1>2, <2>1, <2>2, FS_UNION
<1>5. PICK tested : tested = Tests(S, inputs)
  OBVIOUS
<1>6. DOMAIN tested = S /\ \A s \in S : IsBacktest(tested[s]) /\ tested[s] = EvaluatedOn(inputs, s)
  <2>1. tested = [s \in S |-> EvaluatedOn(inputs, s)]
    BY <1>5 DEF Tests, EvaluatedOn
  <2> QED  BY <1>3, <1>5, <2>1, TestsAreBacktests
<1>7. PICK seeds : seeds = Seeds(current, operating, tries, tested)
  OBVIOUS
<1>8. \A f \in DOMAIN seeds : f \in DOMAIN tries /\ seeds[f] \in tries[f]
  <2>1. \A f \in DOMAIN tries : tries[f] \subseteq SettingType /\ IsFiniteSet(tries[f])
    BY <1>1 DEF Sound, Operable
  <2>2. \A f \in DOMAIN tries : \A s \in tries[f] : IsBacktest(tested[s])
    BY <1>2, <1>6
  <2> QED  BY <1>7, <2>1, <2>2, SeedsAreSome
<1>9. DOMAIN seeds \subseteq FactorNames /\ \A f \in DOMAIN seeds : Sound(seeds[f])
  BY <1>1, <1>8
<1>10. PICK P : P = Pairs(current, seeds)
  OBVIOUS
<1>11. IsFiniteSet(P) /\ \A s \in P : Sound(s)
  BY <1>9, <1>10, PairsAreFinite, PairsAreSound
<1>12. PICK more : more = Tests(P, inputs)
  OBVIOUS
<1>13. DOMAIN more = P /\ \A s \in P : IsBacktest(more[s]) /\ more[s] = EvaluatedOn(inputs, s)
  <2>1. more = [s \in P |-> EvaluatedOn(inputs, s)]
    BY <1>12 DEF Tests, EvaluatedOn
  <2> QED  BY <1>11, <1>12, <2>1, TestsAreBacktests
<1>14. PICK results : results = Together(tested, more)
  OBVIOUS
<1>15. DOMAIN results = S \cup P /\ \A s \in DOMAIN results : results[s] = IF s \in S THEN tested[s] ELSE more[s]
  BY <1>6, <1>13, <1>14 DEF Together
<1>16. AreTested(results, inputs)
  <2>1. IsFiniteSet(DOMAIN results)
    BY <1>4, <1>11, <1>15, FS_Union
  <2>2. ASSUME NEW s \in DOMAIN results
        PROVE  Sound(s) /\ IsBacktest(results[s]) /\ results[s] = EvaluatedOn(inputs, s)
    BY <1>3, <1>6, <1>11, <1>13, <1>15
  <2> QED  BY <2>1, <2>2 DEF AreTested
<1>17. ArePodium(candidates, operating, results)
  BY <1>2, <1>5, <1>7, <1>10, <1>12, <1>14 DEF Tuned, WithPairs, ArePodium
<1> QED  BY <1>2, <1>15, <1>16, <1>17

\* Every tuned candidate can be operated.
LEMMA TunedAreSound ==
  ASSUME NEW current, Sound(current), NEW operating, NEW inputs, IsMaterial(inputs),
         NEW persistent, NEW observed, NEW candidates,
         candidates = Tuned(current, operating, inputs, persistent, observed)
  PROVE  \E m \in 0..TuningLimit : candidates \in [1..m -> TunedType]
<1>0. PICK tries : tries = Tried(current, persistent, observed)
  OBVIOUS
<1>1. PICK results : AreTested(results, inputs) /\ ArePodium(candidates, operating, results)
  BY <1>0, TunedArePodium
<1>2. TuningLimit \in Nat
  BY CandidatesAssumption
<1>3. CASE candidates = <<>>
  <2>1. candidates \in [1..0 -> TunedType] /\ 0 \in 0..TuningLimit
    BY <1>2, <1>3
  <2> QED  BY <2>1
<1>4. CASE candidates = Podium(operating, results)
  <2>1. PICK D : D = DOMAIN results
    OBVIOUS
  <2>2. D \subseteq SettingType /\ IsFiniteSet(D) /\ \A s \in D : Sound(s) /\ IsBacktest(results[s])
    BY <1>1, <2>1 DEF AreTested, Sound, Operable
  <2>3. PICK m \in 0..TuningLimit : candidates \in [1..m -> [setting : D, mae : Int, one : SUBSET PointType]]
    BY <1>4, <2>1, <2>2, PodiumIsTested
  <2>4. [setting : D, mae : Int, one : SUBSET PointType] \subseteq TunedType
    BY <2>2 DEF TunedType
  <2>5. candidates \in [1..m -> TunedType]
    BY <2>3, <2>4
  <2> QED  BY <2>5
<1> QED  BY <1>1, <1>3, <1>4 DEF ArePodium

\* The tracked candidate is a tuned one or that of before, and there is one just when some are tuned.
LEMMA TrackedIsTuned ==
  ASSUME NEW m \in Nat, NEW candidates \in [1..m -> TunedType], NEW previous, NEW half,
         NEW next, next = Tracked(previous, candidates, half)
  PROVE  /\ m = 0 => next = NoSetting
         /\ m > 0 => \E i \in 1..m : next = candidates[i].setting
<1>1. CASE m = 0
  BY <1>1 DEF Tracked
<1>2. CASE m > 0
  <2>1. candidates # <<>> /\ 1 \in 1..m /\ DOMAIN candidates = 1..m
    BY <1>2
  <2>2. next = candidates[1].setting
          \/ (next = previous /\ {i \in DOMAIN candidates : candidates[i].setting = previous} # {})
    BY <2>1 DEF Tracked
  <2> QED  BY <2>1, <2>2
<1> QED  BY <1>1, <1>2

-----------------------------------------------------------------------------
(* Windows of points.                                                      *)

\* The points that come later than one.
LaterThan(points, p) == {q \in points : q.target > p.target}

LEMMA NewestAre ==
  ASSUME NEW points, NEW count, NEW p
  PROVE  p \in NewestPoints(points, count) <=> p \in points /\ Cardinality(LaterThan(points, p)) < count
BY DEF NewestPoints, LaterThan

LEMMA LaterIsLess ==
  ASSUME NEW points \in SUBSET PointType, IsFiniteSet(points), NEW p \in points, NEW q \in points, q.target > p.target
  PROVE  /\ LaterThan(points, q) \in SUBSET LaterThan(points, p)
         /\ Cardinality(LaterThan(points, q)) \in Nat /\ Cardinality(LaterThan(points, p)) \in Nat
         /\ Cardinality(LaterThan(points, q)) <= Cardinality(LaterThan(points, p))
<1>1. \A r \in points : r.target \in Nat
  BY DEF PointType
<1>2. LaterThan(points, q) \in SUBSET LaterThan(points, p)
  BY <1>1 DEF LaterThan
<1>3. IsFiniteSet(LaterThan(points, p))
  <2>1. LaterThan(points, p) \in SUBSET points
    BY DEF LaterThan
  <2> QED  BY <2>1, FS_Subset
<1> QED  BY <1>2, <1>3, FS_Subset, FS_CardinalityType

\* The newest of the newest points are the newest ones.
LEMMA NewestOfNewest ==
  ASSUME NEW points \in SUBSET PointType, IsFiniteSet(points), NEW c \in Nat, NEW d \in Nat, c <= d
  PROVE  NewestPoints(NewestPoints(points, d), c) = NewestPoints(points, c)
<1>1. PICK some : some = NewestPoints(points, d)
  OBVIOUS
<1>2. ASSUME NEW p \in some  PROVE LaterThan(some, p) = LaterThan(points, p)
  <2>1. p \in points /\ Cardinality(LaterThan(points, p)) < d
    BY <1>1, NewestAre
  <2>2. ASSUME NEW q \in points, q.target > p.target  PROVE q \in some
    <3>1. PICK a \in Nat, b \in Nat : /\ a = Cardinality(LaterThan(points, q))
                                      /\ b = Cardinality(LaterThan(points, p)) /\ a <= b
      BY <2>1, <2>2, LaterIsLess
    <3>2. a < d
      BY <2>1, <3>1
    <3> QED  BY <1>1, <2>2, <3>1, <3>2, NewestAre
  <2>3. some \in SUBSET points
    BY <1>1 DEF NewestPoints
  <2> QED  BY <2>2, <2>3 DEF LaterThan
<1>3. ASSUME NEW p \in points, Cardinality(LaterThan(points, p)) < c  PROVE p \in some
  <2>1. PICK n \in Nat : n = Cardinality(LaterThan(points, p))
    <3>1. LaterThan(points, p) \in SUBSET points
      BY DEF LaterThan
    <3> QED  BY <3>1, FS_Subset, FS_CardinalityType
  <2>2. n < d
    BY <1>3, <2>1
  <2> QED  BY <1>1, <2>1, <2>2, NewestAre
<1>4. \A p : p \in NewestPoints(some, c) <=> p \in NewestPoints(points, c)
  <2>1. \A p : p \in NewestPoints(some, c) <=> p \in some /\ Cardinality(LaterThan(some, p)) < c
    BY NewestAre
  <2>2. \A p : p \in NewestPoints(points, c) <=> p \in points /\ Cardinality(LaterThan(points, p)) < c
    BY NewestAre
  <2>3. \A p \in some : p \in points
    BY <1>1 DEF NewestPoints
  <2> QED  BY <1>2, <1>3, <2>1, <2>2, <2>3
<1> QED  BY <1>1, <1>4

\* Points of different weeks.
OnePerWeek(points) == \A a, b \in points : a.target = b.target => a = b

\* For every point of P there is one of Q of the same weeks.
HasWeeksOf(Q, P) == \A p \in P : \E q \in Q : q.target = p.target /\ q.origin = p.origin /\ q.actual = p.actual

SameWeeks(P, Q) == OnePerWeek(P) /\ OnePerWeek(Q) /\ HasWeeksOf(Q, P) /\ HasWeeksOf(P, Q)

\* The point of each week.
Matches(f, P, Q) ==
  /\ OneToOne(f, P, Q)
  /\ \A p \in P : f[p].target = p.target /\ f[p].origin = p.origin /\ f[p].actual = p.actual

LEMMA WeeksMatch ==
  ASSUME NEW P, NEW Q, SameWeeks(P, Q)
  PROVE  \E f : Matches(f, P, Q)
<1>1. PICK f : f = [p \in P |-> CHOOSE q \in Q : q.target = p.target /\ q.origin = p.origin /\ q.actual = p.actual]
  OBVIOUS
<1>2. ASSUME NEW p \in P
      PROVE  f[p] \in Q /\ f[p].target = p.target /\ f[p].origin = p.origin /\ f[p].actual = p.actual
  BY <1>1 DEF SameWeeks, HasWeeksOf
<1>3. f \in [P -> Q]
  BY <1>1, <1>2
<1>4. \A x, y \in P : f[x] = f[y] => x = y
  BY <1>2 DEF SameWeeks, OnePerWeek
<1>5. ASSUME NEW q \in Q  PROVE \E p \in P : f[p] = q
  <2>1. PICK p \in P : p.target = q.target
    BY DEF SameWeeks, HasWeeksOf
  <2> QED  BY <1>2, <2>1 DEF SameWeeks, OnePerWeek
<1> QED  BY <1>2, <1>3, <1>4, <1>5 DEF Matches, OneToOne

LEMMA SameWeeksAreMutual ==
  ASSUME NEW P, NEW Q, SameWeeks(P, Q)
  PROVE  SameWeeks(Q, P)
BY DEF SameWeeks

LEMMA SameWeeksAreAsMany ==
  ASSUME NEW P, NEW Q, SameWeeks(P, Q), IsFiniteSet(P)
  PROVE  IsFiniteSet(Q) /\ Cardinality(P) = Cardinality(Q)
<1>1. PICK f : Matches(f, P, Q)
  BY WeeksMatch
<1> QED  BY <1>1, CountOneToOne DEF Matches

\* The newest points of the same weeks are of the same weeks.
LEMMA NewestHaveWeeks ==
  ASSUME NEW P, NEW Q, SameWeeks(P, Q), IsFiniteSet(P), NEW count
  PROVE  HasWeeksOf(NewestPoints(Q, count), NewestPoints(P, count))
<1>1. SUFFICES ASSUME NEW p \in NewestPoints(P, count)
               PROVE  \E q \in NewestPoints(Q, count) :
                         q.target = p.target /\ q.origin = p.origin /\ q.actual = p.actual
  BY DEF HasWeeksOf
<1>2. p \in P /\ Cardinality(LaterThan(P, p)) < count
  BY NewestAre
<1>3. PICK q \in Q : q.target = p.target /\ q.origin = p.origin /\ q.actual = p.actual
  BY <1>2 DEF SameWeeks, HasWeeksOf
<1>4. PICK A, B : A = LaterThan(P, p) /\ B = LaterThan(Q, q)
  OBVIOUS
<1>5. SameWeeks(A, B) /\ IsFiniteSet(A)
  <2>1. A \in SUBSET P /\ B \in SUBSET Q
    BY <1>4 DEF LaterThan
  <2>2. OnePerWeek(A) /\ OnePerWeek(B)
    BY <2>1 DEF SameWeeks, OnePerWeek
  <2>3. HasWeeksOf(B, A)
    BY <1>3, <1>4 DEF SameWeeks, HasWeeksOf, LaterThan
  <2>4. HasWeeksOf(A, B)
    BY <1>3, <1>4 DEF SameWeeks, HasWeeksOf, LaterThan
  <2> QED  BY <2>1, <2>2, <2>3, <2>4, FS_Subset DEF SameWeeks
<1>6. Cardinality(A) = Cardinality(B)
  BY <1>5, SameWeeksAreAsMany
<1>7. q \in NewestPoints(Q, count)
  BY <1>2, <1>4, <1>6, NewestAre
<1> QED  BY <1>3, <1>7

LEMMA NewestOfSameWeeks ==
  ASSUME NEW P, NEW Q, SameWeeks(P, Q), IsFiniteSet(P), NEW count
  PROVE  SameWeeks(NewestPoints(P, count), NewestPoints(Q, count))
<1>1. SameWeeks(Q, P) /\ IsFiniteSet(Q)
  BY SameWeeksAreMutual, SameWeeksAreAsMany
<1>2. HasWeeksOf(NewestPoints(Q, count), NewestPoints(P, count))
  BY NewestHaveWeeks
<1>3. HasWeeksOf(NewestPoints(P, count), NewestPoints(Q, count))
  BY <1>1, NewestHaveWeeks
<1>4. OnePerWeek(NewestPoints(P, count)) /\ OnePerWeek(NewestPoints(Q, count))
  BY DEF NewestPoints, SameWeeks, OnePerWeek
<1> QED  BY <1>2, <1>3, <1>4 DEF SameWeeks

-----------------------------------------------------------------------------
(* One-step backtests.                                                     *)

\* A one-step backtest: a point for every week that can be an origin.
OnesOf(s, x, p, k) == OneStep(Backtest(s, x, p, k))

LEMMA OnesAre ==
  ASSUME NEW s, IsPrices(s), NEW x, NEW p \in SettingType, NEW k \in Nat \ {0}, NEW point
  PROVE  point \in OnesOf(s, x, p, k)
           <=> \E n \in 1..Len(s) : IsOrigin(s, p, n, 1) /\ point = PointAt(s, x, p, n, 1)
<1>1. point \in Backtest(s, x, p, k)
        <=> \E n \in 1..Len(s), h \in 1..k : IsOrigin(s, p, n, h) /\ point = PointAt(s, x, p, n, h)
  <2>1. \A j \in Nat : point \in Backtest(s, x, p, j)
                        <=> \E n \in 1..Len(s), h \in 1..j : IsOrigin(s, p, n, h) /\ point = PointAt(s, x, p, n, h)
    BY BacktestIs
  <2> QED  BY <2>1
<1>2. \A n, h : PointAt(s, x, p, n, h).horizon = h
  BY DEF PointAt
<1>3. 1 \in 1..k
  OBVIOUS
<1> QED  BY <1>1, <1>2, <1>3 DEF OnesOf, OneStep

LEMMA OnesAreTyped ==
  ASSUME NEW s, IsPrices(s), NEW x, IsInputs(x), NEW p \in SettingType, NEW k \in Nat
  PROVE  OnesOf(s, x, p, k) \in SUBSET PointType /\ IsFiniteSet(OnesOf(s, x, p, k))
<1>1. Backtest(s, x, p, k) \in SUBSET PointType /\ IsFiniteSet(Backtest(s, x, p, k))
  BY BacktestIsTyped
<1>2. OnesOf(s, x, p, k) \in SUBSET Backtest(s, x, p, k)
  BY DEF OnesOf, OneStep
<1> QED  BY <1>1, <1>2, FS_Subset

\* The places of the origins in a series.
OriginPlaces(s) == {n \in MinActuals..(Len(s) - 1) : n >= 2}

LEMMA OriginsAre ==
  ASSUME NEW s, IsPrices(s), NEW p \in SettingType, p.trend >= 2, NEW n
  PROVE  /\ IsOrigin(s, p, n, 1) <=> n \in OriginPlaces(s)
         /\ n \in OriginPlaces(s) => n \in 1..Len(s) /\ n \in DOMAIN s /\ n + 1 \in DOMAIN s /\ n \in Nat
<1>1. PICK l \in Nat : l = Len(s) /\ DOMAIN s = 1..l
  BY PricesAreTyped
<1>2. MinActuals \in Nat \ {0}
  BY WalkForwardAssumption
<1> QED  BY <1>1, <1>2 DEF IsOrigin, OriginPlaces

LEMMA OnePointPerOrigin ==
  ASSUME NEW s, IsPrices(s), NEW x, NEW p \in SettingType, NEW k \in Nat \ {0}, p.trend >= 2, NEW point
  PROVE  point \in OnesOf(s, x, p, k) <=> \E n \in OriginPlaces(s) : point = PointAt(s, x, p, n, 1)
<1>1. point \in OnesOf(s, x, p, k)
        <=> \E n \in 1..Len(s) : IsOrigin(s, p, n, 1) /\ point = PointAt(s, x, p, n, 1)
  BY OnesAre
<1>2. \A n : IsOrigin(s, p, n, 1) <=> n \in OriginPlaces(s)
  BY OriginsAre
<1>3. \A n : n \in OriginPlaces(s) => n \in 1..Len(s)
  BY OriginsAre
<1> QED  BY <1>1, <1>2, <1>3, Zenon

\* Later origins are of later weeks.
LEMMA OriginsRise ==
  ASSUME NEW s, IsPrices(s), NEW x, NEW y, NEW p, NEW q,
         NEW n \in OriginPlaces(s), NEW m \in OriginPlaces(s)
  PROVE  /\ PointAt(s, x, p, n, 1).target \in Nat
         /\ n < m <=> PointAt(s, x, p, n, 1).target < PointAt(s, y, q, m, 1).target
         /\ n = m <=> PointAt(s, x, p, n, 1).target = PointAt(s, y, q, m, 1).target
<1>1. PICK l \in Nat : l = Len(s) /\ DOMAIN s = 1..l
  BY PricesAreTyped
<1>2. MinActuals \in Nat \ {0}
  BY WalkForwardAssumption
<1>3. n \in Nat /\ m \in Nat /\ n + 1 \in DOMAIN s /\ m + 1 \in DOMAIN s
  BY <1>1, <1>2 DEF OriginPlaces
<1>4. PICK a \in Nat, b \in Nat : a = s[n + 1].week /\ b = s[m + 1].week
  BY <1>3, PricesAreTyped
<1>5. n < m => a < b
  <2> SUFFICES ASSUME n < m  PROVE a < b
    OBVIOUS
  <2>1. n + 1 < m + 1
    BY <1>3
  <2> QED  BY <1>3, <1>4, <2>1, PricesAreTyped
<1>6. m < n => b < a
  <2> SUFFICES ASSUME m < n  PROVE b < a
    OBVIOUS
  <2>1. m + 1 < n + 1
    BY <1>3
  <2> QED  BY <1>3, <1>4, <2>1, PricesAreTyped
<1>7. n = m => a = b
  BY <1>4
<1>8. PointAt(s, x, p, n, 1).target = a /\ PointAt(s, y, q, m, 1).target = b
  BY <1>4 DEF PointAt
<1> QED  BY <1>3, <1>5, <1>6, <1>7, <1>8

\* Whatever the settings, one-step backtests are of the same weeks.
LEMMA OnesHaveSameWeeks ==
  ASSUME NEW s, IsPrices(s), NEW x, NEW y, NEW k \in Nat \ {0},
         NEW p \in SettingType, p.trend >= 2, NEW q \in SettingType, q.trend >= 2
  PROVE  SameWeeks(OnesOf(s, x, p, k), OnesOf(s, y, q, k))
<1>1. ASSUME NEW z, NEW r \in SettingType, r.trend >= 2  PROVE OnePerWeek(OnesOf(s, z, r, k))
  <2>1. SUFFICES ASSUME NEW a \in OnesOf(s, z, r, k), NEW b \in OnesOf(s, z, r, k), a.target = b.target
                 PROVE  a = b
    BY DEF OnePerWeek
  <2>2. PICK n \in OriginPlaces(s) : a = PointAt(s, z, r, n, 1)
    BY <1>1, OnePointPerOrigin
  <2>3. PICK m \in OriginPlaces(s) : b = PointAt(s, z, r, m, 1)
    BY <1>1, OnePointPerOrigin
  <2>4. n = m
    BY <2>1, <2>2, <2>3, OriginsRise
  <2> QED  BY <2>2, <2>3, <2>4
<1>2. ASSUME NEW z, NEW r \in SettingType, r.trend >= 2, NEW w, NEW t \in SettingType, t.trend >= 2
      PROVE  HasWeeksOf(OnesOf(s, w, t, k), OnesOf(s, z, r, k))
  <2>1. SUFFICES ASSUME NEW a \in OnesOf(s, z, r, k)
                 PROVE  \E b \in OnesOf(s, w, t, k) :
                          b.target = a.target /\ b.origin = a.origin /\ b.actual = a.actual
    BY DEF HasWeeksOf
  <2>2. PICK n \in OriginPlaces(s) : a = PointAt(s, z, r, n, 1)
    BY <1>2, OnePointPerOrigin
  <2>3. PointAt(s, w, t, n, 1) \in OnesOf(s, w, t, k)
    BY <1>2, OnePointPerOrigin
  <2>4. PICK b : b = PointAt(s, w, t, n, 1)
    OBVIOUS
  <2>5. b.target = a.target /\ b.origin = a.origin /\ b.actual = a.actual
    BY <2>2, <2>4 DEF PointAt
  <2> QED  BY <2>3, <2>4, <2>5
<1> QED  BY <1>1, <1>2 DEF SameWeeks

\* So many one-step points come later than one.
LEMMA LaterOnes ==
  ASSUME NEW s, IsPrices(s), NEW x, NEW p \in SettingType, NEW k \in Nat \ {0}, p.trend >= 2,
         NEW n \in OriginPlaces(s), NEW point, point = PointAt(s, x, p, n, 1)
  PROVE  Cardinality(LaterThan(OnesOf(s, x, p, k), point)) = Len(s) - 1 - n
<1>1. PICK l \in Nat : l = Len(s) /\ DOMAIN s = 1..l
  BY PricesAreTyped
<1>2. MinActuals \in Nat \ {0}
  BY WalkForwardAssumption
<1>3. n \in Nat /\ n <= l - 1 /\ \A m \in (n + 1)..(l - 1) : m \in OriginPlaces(s) /\ n < m
  BY <1>1, <1>2 DEF OriginPlaces
<1>4. \A m \in OriginPlaces(s) : n < m => m \in (n + 1)..(l - 1)
  BY <1>1, <1>2, <1>3 DEF OriginPlaces
<1>5. PICK f : f = [m \in (n + 1)..(l - 1) |-> PointAt(s, x, p, m, 1)]
  OBVIOUS
<1>6. PICK later : later = LaterThan(OnesOf(s, x, p, k), point)
  OBVIOUS
<1>7. \A q : q \in later <=> \E m \in OriginPlaces(s) : q = PointAt(s, x, p, m, 1) /\ n < m
  <2>1. \A q : q \in later <=> q \in OnesOf(s, x, p, k) /\ point.target < q.target
    <3>1. point.target \in Nat
      BY OriginsRise
    <3>2. \A q \in OnesOf(s, x, p, k) : q.target \in Nat
      BY OnePointPerOrigin, OriginsRise
    <3> QED  BY <1>6, <3>1, <3>2 DEF LaterThan
  <2> QED  BY <2>1, OnePointPerOrigin, OriginsRise
<1>8. OneToOne(f, (n + 1)..(l - 1), later)
  <2>1. f \in [(n + 1)..(l - 1) -> later]
    BY <1>3, <1>5, <1>7
  <2>2. \A a, b \in (n + 1)..(l - 1) : f[a] = f[b] => a = b
    BY <1>3, <1>5, OriginsRise
  <2>3. \A q \in later : \E m \in (n + 1)..(l - 1) : f[m] = q
    BY <1>4, <1>5, <1>7
  <2> QED  BY <2>1, <2>2, <2>3 DEF OneToOne
<1>9. IsFiniteSet((n + 1)..(l - 1)) /\ Cardinality((n + 1)..(l - 1)) = l - 1 - n
  <2>1. n + 1 \in Int /\ l - 1 \in Int
    BY <1>3
  <2>2. IsFiniteSet((n + 1)..(l - 1)) /\ Cardinality((n + 1)..(l - 1)) = IF n + 1 > l - 1 THEN 0 ELSE (l - 1) - (n + 1) + 1
    BY <2>1, FS_Interval
  <2> QED  BY <1>3, <2>2
<1> QED  BY <1>1, <1>6, <1>8, <1>9, CountOneToOne

\* The points since the start of a window are the newest ones.
LEMMA WindowIsNewest ==
  ASSUME NEW s, IsPrices(s), NEW x, NEW p \in SettingType, NEW k \in Nat \ {0}, p.trend >= 2,
         NEW count \in Nat \ {0}
  PROVE  Since(OnesOf(s, x, p, k), WindowStart(s, count)) = NewestPoints(OnesOf(s, x, p, k), count)
<1>1. PICK l \in Nat : l = Len(s) /\ DOMAIN s = 1..l
  BY PricesAreTyped
<1>2. MinActuals \in Nat \ {0}
  BY WalkForwardAssumption
<1>3. PICK one, start : one = OnesOf(s, x, p, k) /\ start = Greater(1, l - count + 1)
  OBVIOUS
<1>4. WindowStart(s, count) = s[start].week
  BY <1>1, <1>3 DEF WindowStart
<1>5. ASSUME NEW n \in OriginPlaces(s), NEW q, q = PointAt(s, x, p, n, 1)
      PROVE  q.target >= s[start].week <=> Cardinality(LaterThan(one, q)) < count
  <2>1. Cardinality(LaterThan(one, q)) = l - 1 - n
    BY <1>1, <1>3, <1>5, LaterOnes
  <2>2. n \in Nat /\ n + 1 \in 1..l /\ start \in 1..l
    BY <1>1, <1>2, <1>3 DEF OriginPlaces, Greater
  <2>3. PICK a \in Nat, b \in Nat : a = s[start].week /\ b = s[n + 1].week
    BY <1>1, <2>2, PricesAreTyped
  <2>4. q.target = b
    BY <1>5, <2>3 DEF PointAt
  <2>5. start <= n + 1 <=> a <= b
    <3>1. start < n + 1 => a < b
      BY <1>1, <2>2, <2>3, PricesAreTyped
    <3>2. n + 1 < start => b < a
      BY <1>1, <2>2, <2>3, PricesAreTyped
    <3>3. n + 1 = start => a = b
      BY <2>3
    <3> QED  BY <2>2, <3>1, <3>2, <3>3
  <2>6. start <= n + 1 <=> l - 1 - n < count
    BY <1>1, <1>3, <2>2 DEF Greater
  <2> QED  BY <2>1, <2>3, <2>4, <2>5, <2>6
<1>6. \A q \in one : q.target >= s[start].week <=> Cardinality(LaterThan(one, q)) < count
  BY <1>3, <1>5, OnePointPerOrigin
<1>7. \A q : q \in Since(one, s[start].week) <=> q \in NewestPoints(one, count)
  BY <1>6, NewestAre DEF Since
<1> QED  BY <1>3, <1>4, <1>7

-----------------------------------------------------------------------------
(* Comparisons.                                                            *)

LEMMA MeanErrorIsNatural ==
  ASSUME NEW points \in SUBSET PointType, IsFiniteSet(points), points # {}
  PROVE  MeanError(points) \in Nat
<1>1. PICK errors \in [points -> Nat] : errors = [point \in points |-> Error(point)]
  BY ErrorIsNatural
<1>2. SumFunction(errors) \in Nat
  BY <1>1, SumIsNatural
<1>3. Cardinality(points) \in Nat \ {0}
  BY FS_CardinalityType, FS_EmptySet
<1>4. MeanError(points) = SumFunction(errors) \div Cardinality(points)
  BY <1>1 DEF MeanError
<1>5. PICK a \in Nat, b \in Nat \ {0} : a = SumFunction(errors) /\ b = Cardinality(points)
  BY <1>2, <1>3
<1>6. a \div b \in Nat
  OBVIOUS
<1> QED  BY <1>4, <1>5, <1>6

OfHorizon(points, h) == {p \in points : p.horizon = h}

\* The near horizons that have points.
NearOnes(points, horizons) == {h \in 1..horizons : h <= NearHorizon /\ Cardinality(OfHorizon(points, h)) >= 1}

ErrorsOf(points, near) == [h \in near |-> MeanError(OfHorizon(points, h))]

\* From a horizon on the errors are high.
HighFrom(points, horizons, near, total) ==
  {h \in 1..horizons :
     /\ Cardinality(OfHorizon(points, h)) >= 1
     /\ \A later \in 1..horizons :
          (Cardinality(OfHorizon(points, later)) >= 1 /\ later >= h)
            => 2 * Cardinality(near) * MeanError(OfHorizon(points, later)) >= 3 * total}

LEMMA StartIs ==
  ASSUME NEW points, NEW k \in Nat, NEW near, near = NearOnes(points, k),
         NEW total, total = SumFunction(ErrorsOf(points, near)),
         NEW start, start = DegradationStart(points, k, 1), start # None
  PROVE  total # 0 /\ HighFrom(points, k, near, total) # {} /\ start = Min(HighFrom(points, k, near, total))
<1> DEFINE of(h)   == {p \in points : p.horizon = h}
           judged  == {h \in 1..k : Cardinality(of(h)) >= 1}
           nearby  == {h \in judged : h <= NearHorizon}
           sum     == SumFunction([h \in nearby |-> MeanError(of(h))])
           high(h) == 2 * Cardinality(nearby) * MeanError(of(h)) >= 3 * sum
           from    == {h \in judged : \A later \in judged : later >= h => high(later)}
<1>1. start = IF nearby = {} \/ sum = 0 \/ from = {} THEN None ELSE Min(from)
  BY DEF DegradationStart
<1>2. nearby = near
  BY DEF NearOnes, OfHorizon
<1>3. sum = total
  BY <1>2 DEF ErrorsOf, OfHorizon
<1>4. from = HighFrom(points, k, near, total)
  BY <1>2, <1>3 DEF HighFrom, OfHorizon
<1> HIDE DEF from, sum, nearby
<1> QED  BY <1>1, <1>3, <1>4

\* The least of some horizons is one of them, and those from it on are no less.
LEMMA LeastHorizon ==
  ASSUME NEW k \in Nat, NEW T \in SUBSET (1..k), T # {}
  PROVE  Min(T) \in T
<1>1. \E m \in T : \A h \in T : m <= h
  <2>1. T \in SUBSET Nat
    OBVIOUS
  <2> QED  BY <2>1, LeastOf
<1> QED  BY <1>1 DEF Min

LEMMA StatusIs ==
  ASSUME NEW points, NEW h, NEW near, near = {k \in 1..NearHorizon : Cardinality(OfHorizon(points, k)) >= 1},
         NEW total, total = SumFunction(ErrorsOf(points, near)),
         ~(Cardinality(OfHorizon(points, h)) < 1),
         total # 0, ~(4 * Cardinality(near) * MeanError(OfHorizon(points, h)) < 6 * total)
  PROVE  HorizonStatus(points, h, 1) \in {"watch", "volatile"}
<1>1. near = {k \in 1..NearHorizon : Cardinality({p \in points : p.horizon = k}) >= 1}
  BY DEF OfHorizon
<1>2. total = SumFunction([k \in near |-> MeanError({p \in points : p.horizon = k})])
  BY DEF OfHorizon, ErrorsOf
<1>3. ~(Cardinality({p \in points : p.horizon = h}) < 1)
  BY DEF OfHorizon
<1>4. ~(4 * Cardinality(near) * MeanError({p \in points : p.horizon = h}) < 6 * total)
  BY DEF OfHorizon
<1> QED  BY <1>1, <1>2, <1>3, <1>4 DEF HorizonStatus

LEMMA StatusOfNone ==
  ASSUME NEW points, NEW h, Cardinality(OfHorizon(points, h)) \in Nat, Cardinality(OfHorizon(points, h)) < 1
  PROVE  HorizonStatus(points, h, 1) = "insufficient"
<1>1. PICK c : c = Cardinality({p \in points : p.horizon = h})
  OBVIOUS
<1>2. c \in Nat /\ c < 1
  BY <1>1 DEF OfHorizon
<1>3. ~(c >= 1 /\ c < 1)
  BY <1>2
<1> QED  BY <1>1, <1>2 DEF HorizonStatus

LEMMA HorizonsAgree ==
  ASSUME NEW points \in SUBSET PointType, IsFiniteSet(points), NEW k \in Nat,
         \A q \in points : q.horizon \in 1..k,
         NEW start, start = DegradationStart(points, k, 1), start # None, NEW h \in start..k
  PROVE  HorizonStatus(points, h, 1) \in {"insufficient", "watch", "volatile"}
<1>1. PICK near : near = NearOnes(points, k)
  OBVIOUS
<1>2. PICK total : total = SumFunction(ErrorsOf(points, near))
  OBVIOUS
<1>3. total # 0 /\ HighFrom(points, k, near, total) # {} /\ start = Min(HighFrom(points, k, near, total))
  BY <1>1, <1>2, StartIs
<1>4. HighFrom(points, k, near, total) \in SUBSET (1..k)
  BY DEF HighFrom
<1>5. start \in HighFrom(points, k, near, total)
  BY <1>3, <1>4, LeastHorizon
<1>6. start \in 1..k
  BY <1>4, <1>5
<1>7. ASSUME NEW j
      PROVE  /\ OfHorizon(points, j) \in SUBSET PointType /\ IsFiniteSet(OfHorizon(points, j))
             /\ Cardinality(OfHorizon(points, j)) \in Nat
             /\ Cardinality(OfHorizon(points, j)) >= 1 => MeanError(OfHorizon(points, j)) \in Nat /\ j \in 1..k
  <2>1. OfHorizon(points, j) \in SUBSET points
    BY DEF OfHorizon
  <2>2. OfHorizon(points, j) \in SUBSET PointType /\ IsFiniteSet(OfHorizon(points, j))
    BY <2>1, FS_Subset
  <2>3. Cardinality(OfHorizon(points, j)) >= 1 => OfHorizon(points, j) # {}
    BY FS_EmptySet
  <2>4. OfHorizon(points, j) # {} => j \in 1..k
    BY DEF OfHorizon
  <2> QED  BY <2>2, <2>3, <2>4, FS_CardinalityType, MeanErrorIsNatural
<1>8. NearHorizon \in Nat
  BY WalkForwardAssumption
<1>9. near = {j \in 1..NearHorizon : Cardinality(OfHorizon(points, j)) >= 1}
  <2>1. \A j : j \in near <=> j \in 1..NearHorizon /\ Cardinality(OfHorizon(points, j)) >= 1
    BY <1>1, <1>7, <1>8 DEF NearOnes
  <2> QED  BY <2>1
<1>10. IsFiniteSet(near) /\ Cardinality(near) \in Nat
  <2>1. near \in SUBSET (1..k)
    BY <1>1 DEF NearOnes
  <2>2. IsFiniteSet(1..k)
    BY FS_Interval
  <2> QED  BY <2>1, <2>2, FS_Subset, FS_CardinalityType
<1>11. total \in Int
  <2>1. \A j \in near : MeanError(OfHorizon(points, j)) \in Int
    BY <1>7, <1>9
  <2>2. PICK errors \in [near -> Int] : errors = ErrorsOf(points, near)
    BY <2>1 DEF ErrorsOf
  <2> QED  BY <1>2, <1>10, <2>2, SumIsInteger
<1>12. CASE Cardinality(OfHorizon(points, h)) < 1
  BY <1>7, <1>12, StatusOfNone
<1>13. CASE ~(Cardinality(OfHorizon(points, h)) < 1)
  <2>1. Cardinality(OfHorizon(points, h)) >= 1 /\ h \in 1..k /\ h >= start
    BY <1>6, <1>7, <1>13
  <2>2. PICK n \in Nat, e \in Nat : n = Cardinality(near) /\ e = MeanError(OfHorizon(points, h))
    BY <1>7, <1>10, <2>1
  <2>3. 2 * n * e >= 3 * total
    BY <1>5, <2>1, <2>2 DEF HighFrom
  <2>4. ~(4 * n * e < 6 * total)
    BY <1>11, <2>3, Z3
  <2>5. HorizonStatus(points, h, 1) \in {"watch", "volatile"}
    BY <1>2, <1>3, <1>9, <1>13, <2>2, <2>4, StatusIs
  <2> QED  BY <2>5
<1> QED  BY <1>12, <1>13

\* The points of the same weeks in a regime are of the same weeks.
LEMMA RegimeHasWeeks ==
  ASSUME NEW P, NEW Q, SameWeeks(P, Q), IsFiniteSet(P), NEW s, NEW regime
  PROVE  SameWeeks(PointsIn(s, P, regime), PointsIn(s, Q, regime))
<1>1. PICK A, B : A = NewestPoints(P, LongWeeks) /\ B = NewestPoints(Q, LongWeeks)
  OBVIOUS
<1>2. SameWeeks(A, B)
  BY <1>1, NewestOfSameWeeks
<1>3. PICK C, D : C = PointsIn(s, P, regime) /\ D = PointsIn(s, Q, regime)
  OBVIOUS
<1>4. /\ \A p : p \in C <=> p \in A /\ RegimeAt(s, p.origin) = regime
      /\ \A p : p \in D <=> p \in B /\ RegimeAt(s, p.origin) = regime
  BY <1>1, <1>3 DEF PointsIn
<1>5. OnePerWeek(C) /\ OnePerWeek(D)
  BY <1>2, <1>4 DEF SameWeeks, OnePerWeek
<1>6. HasWeeksOf(D, C) /\ HasWeeksOf(C, D)
  BY <1>2, <1>4 DEF SameWeeks, HasWeeksOf
<1> QED  BY <1>3, <1>5, <1>6 DEF SameWeeks

\* Between backtests of the same weeks all weeks count.
LEMMA VerdictIs ==
  ASSUME NEW current, NEW candidate, SameWeeks(current, candidate), IsFiniteSet(current), NEW s, NEW regime
  PROVE  Verdict(s, current, candidate, regime)
           = Compared(PointsIn(s, candidate, regime), PointsIn(s, current, regime))
<1> DEFINE shared == {p \in candidate : \E c \in current : c.target = p.target}
           mine   == PointsIn(s, shared, regime)
           theirs == {c \in current : \E p \in mine : p.target = c.target}
<1>1. shared = candidate
  BY DEF SameWeeks, HasWeeksOf
<1>2. SameWeeks(mine, PointsIn(s, current, regime))
  BY <1>1, RegimeHasWeeks, SameWeeksAreMutual
<1>3. \A p \in PointsIn(s, current, regime) : p \in current
  BY DEF PointsIn, NewestPoints
<1>4. theirs = PointsIn(s, current, regime)
  <2>1. ASSUME NEW c \in theirs  PROVE c \in PointsIn(s, current, regime)
    <3>1. PICK p \in mine : p.target = c.target
      OBVIOUS
    <3>2. PICK d \in PointsIn(s, current, regime) : d.target = p.target
      BY <1>2 DEF SameWeeks, HasWeeksOf
    <3>3. c = d
      BY <1>3, <3>1, <3>2 DEF SameWeeks, OnePerWeek
    <3> QED  BY <3>2, <3>3
  <2>2. ASSUME NEW c \in PointsIn(s, current, regime)  PROVE c \in theirs
    <3>1. PICK p \in mine : p.target = c.target
      BY <1>2 DEF SameWeeks, HasWeeksOf
    <3> QED  BY <1>3, <3>1
  <2> QED  BY <2>1, <2>2
<1>5. Verdict(s, current, candidate, regime) = Compared(mine, theirs)
  BY DEF Verdict
<1> HIDE DEF mine, theirs
<1>6. mine = PointsIn(s, candidate, regime)
  BY <1>1 DEF mine
<1> QED  BY <1>4, <1>5, <1>6

\* The regime's points of a backtest.
LEMMA RegimePointsAreTyped ==
  ASSUME NEW P \in SUBSET PointType, IsFiniteSet(P), NEW s, NEW regime
  PROVE  PointsIn(s, P, regime) \in SUBSET PointType /\ IsFiniteSet(PointsIn(s, P, regime))
<1>1. PointsIn(s, P, regime) \in SUBSET P
  BY DEF PointsIn, NewestPoints
<1> QED  BY <1>1, FS_Subset

LEMMA ReportMinimumIsPositive == ReportMinimum \in Nat \ {0}
BY RegimesAssumption

\* Of two settings one is better in a regime just when the other is worse.
LEMMA VerdictsAgree ==
  ASSUME NEW P \in SUBSET PointType, NEW Q \in SUBSET PointType, SameWeeks(P, Q), IsFiniteSet(P), NEW s, NEW regime
  PROVE  Verdict(s, P, Q, regime) = "improved" <=> Verdict(s, Q, P, regime) = "worsened"
<1>1. SameWeeks(Q, P) /\ IsFiniteSet(Q)
  BY SameWeeksAreMutual, SameWeeksAreAsMany
<1>2. PICK A, B : A = PointsIn(s, P, regime) /\ B = PointsIn(s, Q, regime)
  OBVIOUS
<1>3. Verdict(s, P, Q, regime) = Compared(B, A) /\ Verdict(s, Q, P, regime) = Compared(A, B)
  BY <1>1, <1>2, VerdictIs
<1>4. A \in SUBSET PointType /\ IsFiniteSet(A) /\ B \in SUBSET PointType /\ IsFiniteSet(B)
  BY <1>1, <1>2, RegimePointsAreTyped
<1>5. PICK n \in Nat : n = Cardinality(A) /\ n = Cardinality(B)
  <2>1. SameWeeks(A, B)
    BY <1>2, RegimeHasWeeks
  <2> QED  BY <1>4, <2>1, SameWeeksAreAsMany, FS_CardinalityType
<1>6. CASE n < ReportMinimum
  <2>1. ~(n >= ReportMinimum)
    BY <1>6, ReportMinimumIsPositive
  <2> QED  BY <1>3, <1>5, <1>6, <2>1 DEF Compared
<1>7. CASE ~(n < ReportMinimum)
  <2>1. n >= ReportMinimum /\ A # {} /\ B # {}
    <3>1. n >= ReportMinimum /\ n # 0
      BY <1>7, ReportMinimumIsPositive
    <3>2. Cardinality({}) = 0
      BY FS_EmptySet
    <3> QED  BY <1>5, <3>1, <3>2
  <2>2. PICK a \in Int, b \in Int : a = MeanError(A) /\ b = MeanError(B)
    BY <1>4, <2>1, MeanErrorIsInteger
  <2>3. Compared(B, A) = "improved" <=> b < a
    BY <1>5, <1>7, <2>1, <2>2 DEF Compared
  <2>4. Compared(A, B) = "worsened" <=> ~(a = b) /\ ~(a < b)
    BY <1>5, <1>7, <2>1, <2>2 DEF Compared
  <2> QED  BY <1>3, <2>2, <2>3, <2>4
<1> QED  BY <1>6, <1>7

\* Those of some sets with the largest error.
WorstOf(inside, reported) == {k \in reported : \A o \in reported : MeanError(inside[o]) <= MeanError(inside[k])}

\* There is a weakest regime just when one has enough weeks.
LEMMA WeakestIsReported ==
  ASSUME NEW inside \in [1..4 -> SUBSET PointType], \A k \in 1..4 : IsFiniteSet(inside[k])
  PROVE  WeakestOf(inside) # "none" <=> \E k \in 1..4 : Cardinality(inside[k]) >= ReportMinimum
<1>1. PICK reported : reported = {k \in 1..4 : Cardinality(inside[k]) >= ReportMinimum}
  OBVIOUS
<1>2. DOMAIN inside = 1..4
  OBVIOUS
<1>3. PICK worst : worst = WorstOf(inside, reported)
  OBVIOUS
<1>4. WeakestOf(inside) = IF reported = {} THEN "none" ELSE Regimes[Min(worst)]
  BY <1>1, <1>2, <1>3 DEF WeakestOf, WorstOf
<1>5. \A k \in reported : k \in 1..4 /\ Cardinality(inside[k]) >= ReportMinimum
  BY <1>1
<1>6. \A k \in 1..4 : Cardinality(inside[k]) >= ReportMinimum => k \in reported
  BY <1>1
<1>7. ASSUME reported # {}  PROVE Regimes[Min(worst)] # "none"
  <2>1. \A k \in reported : MeanError(inside[k]) \in Int
    <3>1. SUFFICES ASSUME NEW k \in reported  PROVE MeanError(inside[k]) \in Int
      OBVIOUS
    <3>2. PICK T : T = inside[k]
      OBVIOUS
    <3>3. T \in SUBSET PointType /\ IsFiniteSet(T) /\ Cardinality(T) \in Nat /\ Cardinality(T) >= ReportMinimum
      BY <1>5, <3>2, FS_CardinalityType
    <3>4. T # {}
      BY <3>3, ReportMinimumIsPositive, FS_EmptySet
    <3> QED  BY <3>2, <3>3, <3>4, MeanErrorIsInteger
  <2>2. PICK errors : errors = {MeanError(inside[k]) : k \in reported}
    OBVIOUS
  <2>3. errors \in SUBSET Int /\ errors # {}
    BY <1>7, <2>1, <2>2
  <2>4. IsFiniteSet(errors)
    <3>1. reported \in SUBSET (1..4)
      BY <1>5
    <3>2. IsFiniteSet(1..4)
      <4>1. 1 \in Int /\ 4 \in Int
        OBVIOUS
      <4> QED  BY <4>1, FS_Interval
    <3>3. IsFiniteSet(reported)
      BY <3>1, <3>2, FS_Subset
    <3>4. PICK g : g = [k \in reported |-> MeanError(inside[k])]
      OBVIOUS
    <3>5. DOMAIN g = reported /\ errors = {g[k] : k \in reported}
      BY <2>2, <3>4
    <3> QED  BY <3>3, <3>5, ValuesAreFinite
  <2>5. PICK m \in errors : \A e \in errors : e <= m
    BY <2>3, <2>4, GreatestInteger
  <2>6. PICK k \in reported : m = MeanError(inside[k])
    BY <2>2, <2>5
  <2>7. k \in worst
    BY <1>3, <2>2, <2>5, <2>6 DEF WorstOf
  <2>8. worst \in SUBSET (1..4)
    BY <1>3, <1>5 DEF WorstOf
  <2>9. Min(worst) \in 1..4
    BY <2>7, <2>8, LeastHorizon
  <2> QED  BY <2>9 DEF Regimes
<1> QED  BY <1>4, <1>5, <1>6, <1>7

LEMMA WeakestAgrees ==
  ASSUME NEW P \in SUBSET PointType, IsFiniteSet(P), NEW s
  PROVE  Weakest(s, P) # "none" <=>
           \E r \in DOMAIN Regimes : Cardinality(PointsIn(s, P, Regimes[r])) >= ReportMinimum
<1>1. DOMAIN Regimes = 1..4
  BY DEF Regimes
<1>2. PICK inside \in [1..4 -> SUBSET PointType] : inside = [k \in 1..4 |-> PointsIn(s, P, Regimes[k])]
  BY RegimePointsAreTyped
<1>3. Weakest(s, P) = WeakestOf(inside)
  BY <1>1, <1>2 DEF Weakest
<1>4. \A k \in 1..4 : IsFiniteSet(inside[k])
  BY <1>2, RegimePointsAreTyped
<1>5. \A k \in 1..4 : inside[k] = PointsIn(s, P, Regimes[k])
  BY <1>2
<1> QED  BY <1>1, <1>3, <1>4, <1>5, WeakestIsReported

-----------------------------------------------------------------------------
(* The page's own figures.                                                 *)

LEMMA ViewNumbers ==
  /\ ShownPoints = RecentWeeks /\ RecentWeeks \in Nat \ {0} /\ StoredPoints \in Nat
  /\ ShownPoints \in Nat /\ ShownPoints <= StoredPoints /\ Highlights \in Nat \ {0}
BY ViewAssumption, WalkForwardAssumption

\* The page shows the window that decides on a setting.
LEMMA ShownIsWindow ==
  ASSUME NEW s, IsPrices(s), NEW x, IsInputs(x), NEW p \in SettingType, NEW k \in Nat \ {0}, p.trend >= 2,
         NEW one, one = OnesOf(s, x, p, k)
  PROVE  Shown(Stored(one)) = Since(one, WindowStart(s, RecentWeeks))
<1>1. one \in SUBSET PointType /\ IsFiniteSet(one)
  BY OnesAreTyped
<1>2. Shown(Stored(one)) = NewestPoints(one, RecentWeeks)
  BY <1>1, NewestOfNewest, ViewNumbers DEF Shown, Stored
<1>3. Since(one, WindowStart(s, RecentWeeks)) = NewestPoints(one, RecentWeeks)
  BY WindowIsNewest, ViewNumbers
<1> QED  BY <1>2, <1>3

\* ... and says the same of it.
LEMMA SummaryIsMetrics ==
  ASSUME NEW rows, rows # {}, NEW churn, NEW figure \in {"count", "mae", "mape", "max", "hits"}
  PROVE  DetailSummary(rows)[figure] = Metrics(rows, churn)[figure]
BY DEF DetailSummary, Metrics, GreatestError

\* A point that lists before another.
Above(p, q) == Error(q) > Error(p) \/ (Error(q) = Error(p) /\ q.target < p.target)

LEMMA HighlightedAre ==
  ASSUME NEW rows, NEW p \in rows, Cardinality({q \in rows : Above(p, q)}) < Highlights
  PROVE  p \in Highlighted(rows)
<1>1. Cardinality({q \in rows : Error(q) > Error(p) \/ (Error(q) = Error(p) /\ q.target < p.target)}) < Highlights
  BY DEF Above
<1> QED  BY <1>1 DEF Highlighted

\* The largest error is among the highlighted ones.
LEMMA LargestIsHighlighted ==
  ASSUME NEW rows \in SUBSET PointType, IsFiniteSet(rows), rows # {}
  PROVE  \E p \in Highlighted(rows) : Error(p) = GreatestError(rows)
<1>1. PICK m : m = GreatestError(rows)
  OBVIOUS
<1>2. /\ \E p \in rows : Error(p) = m
      /\ \A p \in rows : Error(p) \in Nat /\ Error(p) <= m
      /\ m \in Nat
  <2>1. PICK errors : errors = {Error(p) : p \in rows}
    OBVIOUS
  <2>2. errors \in SUBSET Nat /\ errors # {} /\ \A p \in rows : Error(p) \in Nat
    BY <2>1, ErrorIsNatural
  <2>3. IsFiniteSet(errors)
    <3>1. PICK g : g = [p \in rows |-> Error(p)]
      OBVIOUS
    <3>2. DOMAIN g = rows /\ errors = {g[p] : p \in rows}
      BY <2>1, <3>1
    <3> QED  BY <3>2, ValuesAreFinite
  <2>4. Max(errors) \in errors /\ \A e \in errors : e <= Max(errors)
    BY <2>2, <2>3, MaxOfFinite
  <2>5. m = Max(errors)
    BY <1>1, <2>1 DEF GreatestError
  <2> QED  BY <2>1, <2>2, <2>4, <2>5
<1>3. PICK largest : largest = {p \in rows : Error(p) = m}
  OBVIOUS
<1>4. PICK targets : targets = {p.target : p \in largest}
  OBVIOUS
<1>5. targets \in SUBSET Nat /\ targets # {}
  BY <1>2, <1>3, <1>4 DEF PointType
<1>6. PICK t \in targets : \A o \in targets : t <= o
  BY <1>5, LeastOf
<1>7. PICK p \in largest : p.target = t
  BY <1>4, <1>6
<1>8. \A q \in rows : ~Above(p, q)
  <2>1. SUFFICES ASSUME NEW q \in rows, Above(p, q)  PROVE FALSE
    OBVIOUS
  <2>2. Error(p) = m /\ Error(q) \in Nat /\ Error(q) <= m
    BY <1>2, <1>3, <1>7
  <2>3. Error(q) = m /\ q.target < t
    BY <1>2, <1>7, <2>1, <2>2 DEF Above
  <2>4. q.target \in targets
    BY <1>3, <1>4, <2>3
  <2>5. PICK u \in Nat : u = q.target
    BY <1>5, <2>4
  <2>6. t \in Nat /\ t <= u
    BY <1>5, <1>6, <2>4, <2>5
  <2> QED  BY <2>3, <2>5, <2>6
<1>9. {q \in rows : Above(p, q)} = {}
  BY <1>8
<1>10. Cardinality({q \in rows : Above(p, q)}) < Highlights
  <2>1. Cardinality({}) = 0 /\ 0 < Highlights
    BY FS_EmptySet, ViewNumbers
  <2> QED  BY <1>9, <2>1
<1>11. p \in rows /\ Error(p) = m
  BY <1>3, <1>7
<1> QED  BY <1>1, <1>10, <1>11, HighlightedAre
-----------------------------------------------------------------------------
(* The parts of a forecast.                                                *)

\* The parts of a point are those of the forecast from its origin.
LEMMA PartsAtOrigin ==
  ASSUME NEW s, IsPrices(s), NEW x, NEW y, NEW p, NEW q, NEW n \in OriginPlaces(s), NEW point, point = PointAt(s, y, q, n, 1)
  PROVE  PartsAt(s, x, p, point) = Parts(SubSeq(s, 1, n), x, p)
<1>1. PICK l \in Nat : l = Len(s) /\ DOMAIN s = 1..l
  BY PricesAreTyped
<1>2. MinActuals \in Nat \ {0}
  BY WalkForwardAssumption
<1>3. n \in DOMAIN s
  BY <1>1, <1>2 DEF OriginPlaces
<1>4. PICK w : w = point.origin
  OBVIOUS
<1>5. s[n].week = w
  BY <1>4 DEF PointAt
<1>6. \A i \in DOMAIN s : s[i].week = w => i = n
  <2>1. SUFFICES ASSUME NEW i \in DOMAIN s, s[i].week = w, i # n  PROVE FALSE
    OBVIOUS
  <2>2. PICK a \in Nat : a = w
    BY <1>3, <1>5, PricesAreTyped
  <2>3. i < n \/ n < i
    BY <1>1, <1>3, <2>1
  <2>4. s[i].week < s[n].week \/ s[n].week < s[i].week
    BY <1>3, <2>3, PricesAreTyped
  <2> QED  BY <1>5, <2>1, <2>2, <2>4
<1>7. (CHOOSE i \in DOMAIN s : s[i].week = w) = n
  BY <1>3, <1>5, <1>6
<1>8. PartsAt(s, x, p, point) = Parts(SubSeq(s, 1, CHOOSE i \in DOMAIN s : s[i].week = w), x, p)
  BY <1>4 DEF PartsAt
<1> QED  BY <1>7, <1>8

\* What a run stores of an indicator.
IndicatorPart(points, use, week) ==
  [used |-> Contributes(points, use, week), ratio |-> Contribution(points, use, week)]

TrendOf(s, p) == Trend(SubSeq(s, Len(s) - Lesser(p.trend, Len(s)) + 1, Len(s)))

LEMMA PartsAre ==
  ASSUME NEW s, NEW x, NEW p, NEW parts, parts = Parts(s, x, p)
  PROVE  /\ parts.anchor = Last(s).price /\ parts.cap = p.cap /\ parts.trend = TrendOf(s, p)
         /\ parts.dubai = IndicatorPart(x.dubai, p.dubai, Last(s).week)
         /\ parts.usdKrw = IndicatorPart(x.usdKrw, p.usdKrw, Last(s).week)
BY DEF Parts, TrendOf, IndicatorPart

LEMMA PriceIs ==
  ASSUME NEW s, NEW x, NEW p
  PROVE  PriceAfter(s, x, p, 1)
           = Projected(Last(s).price, TrendOf(s, p), 1,
                       Capped(Contribution(x.dubai, p.dubai, Last(s).week)
                                + Contribution(x.usdKrw, p.usdKrw, Last(s).week), p.cap))
BY DEF PriceAfter, TrendOf

\* The parts put together again are the price.
LEMMA ExplainedIsPrice ==
  ASSUME NEW s, NEW x, NEW p
  PROVE  Explained(Parts(s, x, p)) = PriceAfter(s, x, p, 1)
<1>1. PICK parts : parts = Parts(s, x, p)
  OBVIOUS
<1>2. PICK a, b : a = Contribution(x.dubai, p.dubai, Last(s).week) /\ b = Contribution(x.usdKrw, p.usdKrw, Last(s).week)
  OBVIOUS
<1>3. parts.anchor = Last(s).price /\ parts.cap = p.cap /\ parts.trend = TrendOf(s, p)
  BY <1>1, PartsAre
<1>4. parts.dubai.ratio = a /\ parts.usdKrw.ratio = b
  <2>1. /\ parts.dubai = IndicatorPart(x.dubai, p.dubai, Last(s).week)
        /\ parts.usdKrw = IndicatorPart(x.usdKrw, p.usdKrw, Last(s).week)
    BY <1>1, PartsAre
  <2> QED  BY <1>2, <2>1 DEF IndicatorPart
<1>5. PriceAfter(s, x, p, 1) = Projected(Last(s).price, TrendOf(s, p), 1, Capped(a + b, p.cap))
  BY <1>2, PriceIs
<1>6. Explained(parts) = Projected(parts.anchor, parts.trend, 1, Capped(parts.dubai.ratio + parts.usdKrw.ratio, parts.cap))
  BY DEF Explained, Raw
<1> QED  BY <1>1, <1>3, <1>4, <1>5, <1>6

\* An indicator that is not used adds nothing.
LEMMA UnusedAddsNothing ==
  ASSUME NEW points, NEW use, NEW week
  PROVE  /\ ~Contributes(points, use, week) => Contribution(points, use, week) = 0
         /\ Contribution(points, Unused, week) = 0
BY DEF Contributes, Contribution

\* Without a signal that was used the price is that of the setting without it.
LEMMA AblatedPriceIs ==
  ASSUME NEW s, IsPrices(s), Len(s) > 0, NEW x, IsInputs(x), NEW p \in SettingType, NEW signal \in {"dubai", "usdKrw"},
         NEW parts, parts = Parts(s, x, p), signal = "usdKrw" \/ ~parts.usdKrw.used
  PROVE  PriceAfter(s, x, Ablated(p, signal), 1)
           = IF Applied(parts, signal) THEN Without(parts, signal) ELSE PriceAfter(s, x, p, 1)
<1>1. PICK w \in Nat : w = Last(s).week
  <2>1. PICK l \in Nat : l = Len(s) /\ DOMAIN s = 1..l
    BY PricesAreTyped
  <2>2. Last(s) = s[l] /\ l \in DOMAIN s
    BY <2>1 DEF Last
  <2> QED  BY <2>2, PricesAreTyped
<1>2. PICK a \in Int, b \in Int :
        a = Contribution(x.dubai, p.dubai, w) /\ b = Contribution(x.usdKrw, p.usdKrw, w)
  <2>1. IsValues(x.dubai) /\ IsValues(x.usdKrw)
    BY DEF IsInputs
  <2>2. p.dubai \in UseType /\ p.usdKrw \in UseType
    BY DEF SettingType
  <2> QED  BY <2>1, <2>2, ContributionIsInteger
<1>3. PICK price, t : price = Last(s).price /\ t = TrendOf(s, p)
  OBVIOUS
<1>4. PriceAfter(s, x, p, 1) = Projected(price, t, 1, Capped(a + b, p.cap))
  BY <1>1, <1>2, <1>3, PriceIs
<1>5. /\ parts.anchor = price /\ parts.cap = p.cap /\ parts.trend = t
      /\ parts.dubai.ratio = a /\ parts.usdKrw.ratio = b
      /\ parts.dubai.used <=> Contributes(x.dubai, p.dubai, w)
      /\ parts.usdKrw.used <=> Contributes(x.usdKrw, p.usdKrw, w)
  <2>1. /\ parts.anchor = price /\ parts.cap = p.cap /\ parts.trend = t
        /\ parts.dubai = IndicatorPart(x.dubai, p.dubai, w) /\ parts.usdKrw = IndicatorPart(x.usdKrw, p.usdKrw, w)
    BY <1>1, <1>3, PartsAre
  <2>2. /\ parts.dubai.ratio = Contribution(x.dubai, p.dubai, w)
        /\ parts.usdKrw.ratio = Contribution(x.usdKrw, p.usdKrw, w)
        /\ parts.dubai.used = Contributes(x.dubai, p.dubai, w)
        /\ parts.usdKrw.used = Contributes(x.usdKrw, p.usdKrw, w)
    BY <2>1 DEF IndicatorPart
  <2> QED  BY <1>2, <2>1, <2>2
<1>6. (~parts.dubai.used => a = 0) /\ (~parts.usdKrw.used => b = 0)
  BY <1>2, <1>5, UnusedAddsNothing
<1>7. PICK q : q = Ablated(p, signal)
  OBVIOUS
<1>8. PriceAfter(s, x, q, 1) = Projected(price, TrendOf(s, q), 1,
        Capped(Contribution(x.dubai, q.dubai, w) + Contribution(x.usdKrw, q.usdKrw, w), q.cap))
  BY <1>1, <1>3, PriceIs
<1>9. q.trend = p.trend /\ q.cap = p.cap /\ q.usdKrw = Unused
      /\ (signal = "dubai" => q.dubai = Unused) /\ (signal = "usdKrw" => q.dubai = p.dubai)
  BY <1>7 DEF Ablated, SettingType
<1>10. TrendOf(s, q) = t
  BY <1>3, <1>9 DEF TrendOf
<1>11. CASE signal = "usdKrw"
  <2>1. PriceAfter(s, x, q, 1) = Projected(price, t, 1, Capped(a, p.cap))
    <3>1. a + 0 = a
      OBVIOUS
    <3> QED  BY <1>2, <1>8, <1>9, <1>10, <1>11, <3>1, UnusedAddsNothing
  <2>2. Applied(parts, signal) <=> parts.usdKrw.used
    BY <1>11 DEF Applied
  <2>3. Without(parts, signal) = Projected(price, t, 1, Capped(a, p.cap))
    BY <1>5, <1>11 DEF Without
  <2>4. ~parts.usdKrw.used => a + b = a
    BY <1>6
  <2> QED  BY <1>4, <1>7, <2>1, <2>2, <2>3, <2>4
<1>12. CASE signal = "dubai"
  <2>1. PriceAfter(s, x, q, 1) = Projected(price, t, 1, Capped(0, p.cap))
    <3>1. 0 + 0 = 0
      OBVIOUS
    <3> QED  BY <1>8, <1>9, <1>10, <1>12, <3>1, UnusedAddsNothing
  <2>2. Applied(parts, signal) <=> parts.dubai.used
    BY <1>12 DEF Applied
  <2>3. b = 0
    BY <1>6, <1>12
  <2>4. Without(parts, signal) = Projected(price, t, 1, Capped(0, p.cap))
    BY <1>5, <1>12, <2>3 DEF Without
  <2>5. ~parts.dubai.used => a + b = 0
    BY <1>6, <2>3
  <2> QED  BY <1>4, <1>7, <2>1, <2>2, <2>4, <2>5
<1> QED  BY <1>11, <1>12

\* The points of the weeks of some others.
OfWeeks(others, rows) == {p \in others : \E q \in rows : q.target = p.target}

LEMMA RowsHaveWeeks ==
  ASSUME NEW one, NEW other, SameWeeks(one, other), NEW rows \in SUBSET one
  PROVE  SameWeeks(rows, OfWeeks(other, rows))
<1>1. PICK W : W = OfWeeks(other, rows)
  OBVIOUS
<1>2. \A p : p \in W <=> p \in other /\ \E q \in rows : q.target = p.target
  BY <1>1 DEF OfWeeks
<1>3. OnePerWeek(rows) /\ OnePerWeek(W)
  BY <1>2 DEF SameWeeks, OnePerWeek
<1>4. HasWeeksOf(W, rows)
  <2>1. SUFFICES ASSUME NEW p \in rows
                 PROVE  \E q \in W : q.target = p.target /\ q.origin = p.origin /\ q.actual = p.actual
    BY DEF HasWeeksOf
  <2>2. PICK q \in other : q.target = p.target /\ q.origin = p.origin /\ q.actual = p.actual
    BY DEF SameWeeks, HasWeeksOf
  <2> QED  BY <1>2, <2>2
<1>5. HasWeeksOf(rows, W)
  <2>1. SUFFICES ASSUME NEW p \in W
                 PROVE  \E q \in rows : q.target = p.target /\ q.origin = p.origin /\ q.actual = p.actual
    BY DEF HasWeeksOf
  <2>2. PICK q \in one : q.target = p.target /\ q.origin = p.origin /\ q.actual = p.actual
    BY <1>2 DEF SameWeeks, HasWeeksOf
  <2>3. PICK r \in rows : r.target = p.target
    BY <1>2
  <2>4. r = q
    BY <2>2, <2>3 DEF SameWeeks, OnePerWeek
  <2> QED  BY <2>2, <2>3, <2>4
<1> QED  BY <1>1, <1>3, <1>4, <1>5 DEF SameWeeks

ErrorsIn(points) == [p \in points |-> Error(p)]

\* What a factor did to the errors of the weeks it was applied in.
AppliedIn(rows, parts, factor) == {p \in rows : Applied(parts[p], factor)}
ImpactsOn(points, parts, factor) == [p \in points |-> Impact(p, parts[p], factor)]
ReducedIn(points, parts, factor) == {p \in points : Impact(p, parts[p], factor) < 0}

LEMMA FactorSummaryIs ==
  ASSUME NEW rows, NEW parts, NEW factor, NEW A, A = AppliedIn(rows, parts, factor)
  PROVE  /\ FactorSummary(rows, parts, factor).total = SumFunction(ImpactsOn(A, parts, factor))
         /\ FactorSummary(rows, parts, factor).reduced = Cardinality(ReducedIn(A, parts, factor))
BY DEF FactorSummary, AppliedIn, ImpactsOn, ReducedIn

\* Points with the prices without a factor where it was applied.
WithoutFactor(other, rows, parts, factor) ==
  \A p \in rows : \A q \in other :
    q.target = p.target => q.forecast = IF Applied(parts[p], factor) THEN Without(parts[p], factor) ELSE p.forecast

\* The error analysis and the contribution of a signal are the same figure.
LEMMA ContributionAgrees ==
  ASSUME NEW one \in SUBSET PointType, IsFiniteSet(one), NEW other \in SUBSET PointType, SameWeeks(one, other),
         NEW rows \in SUBSET one, NEW parts, NEW factor, WithoutFactor(other, rows, parts, factor),
         NEW summary, summary = FactorSummary(rows, parts, factor),
         NEW gain, gain = SumFunction(ErrorsIn(OfWeeks(other, rows))) - SumFunction(ErrorsIn(rows))
  PROVE  summary.total = -gain /\ (gain > 0 => summary.reduced > 0)
<1>1. PICK W : W = OfWeeks(other, rows)
  OBVIOUS
<1>2. rows \in SUBSET PointType /\ IsFiniteSet(rows) /\ W \in SUBSET other /\ W \in SUBSET PointType
  BY <1>1, FS_Subset DEF OfWeeks
<1>3. SameWeeks(rows, W) /\ IsFiniteSet(W)
  BY <1>1, <1>2, RowsHaveWeeks, SameWeeksAreAsMany
<1>4. PICK f : Matches(f, rows, W)
  BY <1>3, WeeksMatch
<1>5. \A p \in rows : f[p] \in W /\ f[p].target = p.target /\ f[p].actual = p.actual
  BY <1>4 DEF Matches, OneToOne
<1>6. PICK g \in [rows -> Int], h \in [W -> Int] : g = ErrorsIn(rows) /\ h = ErrorsIn(W)
  <2>1. \A p \in rows : Error(p) \in Int
    BY <1>2, ErrorIsNatural
  <2>2. \A p \in W : Error(p) \in Int
    BY <1>2, ErrorIsNatural
  <2> QED  BY <2>1, <2>2 DEF ErrorsIn
<1>7. PICK e \in [rows -> Int] : e = [p \in rows |-> h[f[p]]]
  BY <1>5, <1>6
<1>8. SumFunction(e) = SumFunction(h)
  <2>1. OneToOne(f, rows, W)
    BY <1>4 DEF Matches
  <2>2. \A p \in rows : e[p] = h[f[p]]
    BY <1>7
  <2> QED  BY <1>2, <1>3, <1>6, <1>7, <2>1, <2>2, SumOneToOne
<1>9. PICK d \in [rows -> Int] : d = [p \in rows |-> g[p] - e[p]]
  <2>1. \A p \in rows : g[p] - e[p] \in Int
    BY <1>6, <1>7
  <2> QED  BY <2>1
<1>10. SumFunction(d) = SumFunction(g) - SumFunction(e)
  BY <1>2, <1>6, <1>7, <1>9, SumOfDifferences
<1>11. PICK A \in SUBSET rows : A = AppliedIn(rows, parts, factor)
  BY DEF AppliedIn
<1>12. ASSUME NEW p \in rows
       PROVE  /\ p \in A => d[p] = Impact(p, parts[p], factor)
              /\ p \notin A => d[p] = 0
  <2>1. PICK q \in W : q = f[p]
    BY <1>5, <1>12
  <2>2. d[p] = Error(p) - Error(q)
    BY <1>6, <1>7, <1>9, <1>12, <2>1 DEF ErrorsIn
  <2>3. q \in other /\ q.target = p.target /\ q.actual = p.actual
    BY <1>2, <1>5, <1>12, <2>1
  <2>4. q.forecast = IF Applied(parts[p], factor) THEN Without(parts[p], factor) ELSE p.forecast
    BY <1>12, <2>3 DEF WithoutFactor
  <2>5. p \in A <=> Applied(parts[p], factor)
    BY <1>11, <1>12 DEF AppliedIn
  <2>6. CASE p \in A
    <3>1. Error(q) = Distance(p.actual, Without(parts[p], factor))
      BY <2>3, <2>4, <2>5, <2>6 DEF Error
    <3> QED  BY <2>2, <2>6, <3>1 DEF Impact
  <2>7. CASE p \notin A
    <3>1. Error(q) = Error(p)
      BY <2>3, <2>4, <2>5, <2>7 DEF Error
    <3>2. Error(p) \in Nat
      BY <1>2, <1>12, ErrorIsNatural
    <3> QED  BY <2>2, <2>7, <3>1, <3>2
  <2> QED  BY <2>6, <2>7
<1>13. PICK a \in [A -> Int] : a = [p \in A |-> d[p]]
  BY <1>9, <1>11
<1>14. SumFunction(a) = SumFunction(d)
  <2>1. \A p \in rows \ A : d[p] = 0
    BY <1>12
  <2>2. IsFiniteSet(rows)
    BY <1>2
  <2>3. a = [p \in A |-> d[p]]
    BY <1>13
  <2>4. d \in [rows -> Int] /\ A \in SUBSET rows
    OBVIOUS
  <2>5. \A c : c = [p \in A |-> d[p]] => SumFunction(c) = SumFunction(d)
    BY <2>1, <2>2, <2>4, SumOverPart
  <2> QED  BY <2>3, <2>5
<1>15. a = ImpactsOn(A, parts, factor)
  BY <1>11, <1>12, <1>13 DEF ImpactsOn
<1>16. summary.total = SumFunction(a) /\ summary.reduced = Cardinality(ReducedIn(A, parts, factor))
  BY <1>11, <1>15, FactorSummaryIs
<1>17. SumFunction(g) \in Int /\ SumFunction(h) \in Int /\ gain = SumFunction(h) - SumFunction(g)
  BY <1>1, <1>2, <1>3, <1>6, SumIsInteger
<1>18. summary.total = -gain
  BY <1>8, <1>10, <1>14, <1>16, <1>17
<1>19. ASSUME gain > 0  PROVE summary.reduced > 0
  <2>1. IsFiniteSet(A)
    BY <1>2, <1>11, FS_Subset
  <2>2. ReducedIn(A, parts, factor) # {}
    <3>1. SUFFICES ASSUME ReducedIn(A, parts, factor) = {}  PROVE FALSE
      OBVIOUS
    <3>2. \A p \in A : ~(Impact(p, parts[p], factor) < 0)
      BY <3>1 DEF ReducedIn
    <3>3. \A p \in A : a[p] \in Int /\ a[p] = Impact(p, parts[p], factor)
      BY <1>13, <1>15 DEF ImpactsOn
    <3>4. \A p \in A : a[p] \in Nat
      BY <3>2, <3>3
    <3>5. a \in [A -> Nat]
      BY <1>13, <3>4
    <3>6. SumFunction(a) \in Nat
      BY <2>1, <3>5, SumIsNatural
    <3> QED  BY <1>16, <1>17, <1>18, <1>19, <3>6
  <2>3. IsFiniteSet(ReducedIn(A, parts, factor))
    <3>1. ReducedIn(A, parts, factor) \in SUBSET A
      BY DEF ReducedIn
    <3> QED  BY <2>1, <3>1, FS_Subset
  <2>4. Cardinality(ReducedIn(A, parts, factor)) \in Nat /\ Cardinality(ReducedIn(A, parts, factor)) # 0
    BY <2>2, <2>3, FS_CardinalityType, FS_EmptySet
  <2> QED  BY <1>16, <2>4
<1> QED  BY <1>18, <1>19

LEMMA AblatedIsSound ==
  ASSUME NEW p, Sound(p), NEW signal \in {"dubai", "usdKrw"}
  PROVE  Sound(Ablated(p, signal))
<1>1. p \in SettingType /\ Unused \in UseType /\ p.trend >= 2
  BY ChoicesAreTyped DEF Sound, Operable
<1>2. PICK q : q = Ablated(p, signal)
  OBVIOUS
<1>3. CASE signal = "dubai"
  <2>1. q = [p EXCEPT !.dubai = Unused, !.usdKrw = Unused]
    BY <1>2, <1>3 DEF Ablated
  <2>2. q \in SettingType /\ q.trend = p.trend /\ q.usdKrw = Unused
    BY <1>1, <2>1 DEF SettingType
  <2> QED  BY <1>1, <1>2, <2>2 DEF Sound, Operable
<1>4. CASE signal = "usdKrw"
  <2>1. q = [p EXCEPT !.usdKrw = Unused]
    BY <1>2, <1>4 DEF Ablated
  <2>2. q \in SettingType /\ q.trend = p.trend /\ q.usdKrw = Unused
    BY <1>1, <2>1 DEF SettingType
  <2> QED  BY <1>1, <1>2, <2>2 DEF Sound, Operable
<1> QED  BY <1>3, <1>4

LEMMA OriginIsWeek ==
  ASSUME NEW s, IsPrices(s), NEW n \in OriginPlaces(s)
  PROVE  n \in 0..Len(s) /\ n > 0
<1>1. PICK l \in Nat : l = Len(s) /\ DOMAIN s = 1..l
  BY PricesAreTyped
<1>2. MinActuals \in Nat \ {0}
  BY WalkForwardAssumption
<1> QED  BY <1>1, <1>2 DEF OriginPlaces

\* Every point is explained by its parts ...
LEMMA PointIsExplained ==
  ASSUME NEW s, IsPrices(s), NEW x, NEW p \in SettingType, p.trend >= 2, NEW k \in Nat \ {0},
         NEW point \in OnesOf(s, x, p, k)
  PROVE  Explained(PartsAt(s, x, p, point)) = point.forecast
<1>1. PICK n \in OriginPlaces(s) : point = PointAt(s, x, p, n, 1)
  BY OnePointPerOrigin
<1>2. PartsAt(s, x, p, point) = Parts(SubSeq(s, 1, n), x, p)
  BY <1>1, PartsAtOrigin
<1>3. point.forecast = PriceAfter(SubSeq(s, 1, n), x, p, 1)
  BY <1>1 DEF PointAt
<1> QED  BY <1>2, <1>3, ExplainedIsPrice

\* ... and that of the setting without a signal by the others.
LEMMA AblatedPointIs ==
  ASSUME NEW s, IsPrices(s), NEW x, IsInputs(x), NEW p \in SettingType, p.trend >= 2, NEW k \in Nat \ {0},
         NEW signal \in {"dubai", "usdKrw"}, NEW q \in SettingType, q.trend >= 2, q = Ablated(p, signal),
         NEW point \in OnesOf(s, x, p, k), NEW other \in OnesOf(s, x, q, k), other.target = point.target,
         NEW parts, parts = PartsAt(s, x, p, point), signal = "usdKrw" \/ ~parts.usdKrw.used
  PROVE  other.forecast = IF Applied(parts, signal) THEN Without(parts, signal) ELSE point.forecast
<1>1. PICK n \in OriginPlaces(s) : point = PointAt(s, x, p, n, 1)
  BY OnePointPerOrigin
<1>2. PICK m \in OriginPlaces(s) : other = PointAt(s, x, q, m, 1)
  BY OnePointPerOrigin
<1>3. n = m
  BY <1>1, <1>2, OriginsRise
<1>4. PICK t : t = SubSeq(s, 1, n)
  OBVIOUS
<1>5. IsPrices(t) /\ Len(t) > 0
  <2>1. n \in 0..Len(s) /\ n > 0
    BY OriginIsWeek
  <2> QED  BY <1>4, <2>1, FirstPrices
<1>6. parts = Parts(t, x, p)
  BY <1>1, <1>4, PartsAtOrigin
<1>7. point.forecast = PriceAfter(t, x, p, 1) /\ other.forecast = PriceAfter(t, x, q, 1)
  BY <1>1, <1>2, <1>3, <1>4 DEF PointAt
<1> QED  BY <1>5, <1>6, <1>7, AblatedPriceIs

-----------------------------------------------------------------------------
(* What the page says of a setting.                                        *)

\* A setting has the rank it is at.
Apart(places, m) == DOMAIN places = 1..m /\ \A i, j \in 1..m : places[i] = places[j] => i = j

RanksAre(places, m) ==
  /\ \A k \in 1..m : RankOf(places, places[k]) = k
  /\ \A s : RankOf(places, s) = 0 => \A i \in 1..m : places[i] # s

LEMMA RankIs ==
  ASSUME NEW m \in Nat, NEW places, Apart(places, m)
  PROVE  RanksAre(places, m)
<1>1. ASSUME NEW k \in 1..m  PROVE RankOf(places, places[k]) = k
  <2>1. PICK r : r = CHOOSE i \in DOMAIN places : places[i] = places[k]
    OBVIOUS
  <2>2. r \in 1..m /\ places[r] = places[k]
    BY <2>1 DEF Apart
  <2>3. r = k
    BY <2>2 DEF Apart
  <2> QED  BY <2>1, <2>3 DEF RankOf, Apart
<1>2. ASSUME NEW i \in 1..m, RankOf(places, places[i]) = 0  PROVE FALSE
  BY <1>1, <1>2
<1> QED  BY <1>1, <1>2 DEF RanksAre

\* What is said of a setting.
LEMMA DecisionIs ==
  ASSUME NEW operating, NEW backtest, backtest.recentOne.count \in Nat, NEW rank
  PROVE  /\ backtest.recentOne.count < MinSamples <=> Decision(operating, backtest, rank) = "not evaluable"
         /\ Decision(operating, backtest, rank) = "eligible"
              => backtest.recentOne.count >= MinSamples /\ PassesAgainst(operating, backtest)
         /\ (backtest.recentOne.count >= MinSamples /\ PassesAgainst(operating, backtest))
              => Decision(operating, backtest, rank) = IF rank = 1 THEN "top" ELSE "eligible"
<1>1. MinSamples \in Nat
  BY CandidatesAssumption
<1>2. CASE backtest.recentOne.count < MinSamples
  <2>1. ~(backtest.recentOne.count >= MinSamples)
    BY <1>1, <1>2
  <2>2. Decision(operating, backtest, rank) = "not evaluable"
    BY <1>2, <2>1 DEF Decision
  <2> QED  BY <1>2, <2>1, <2>2
<1>3. CASE backtest.recentOne.count >= MinSamples
  <2>1. ~(backtest.recentOne.count < MinSamples)
    BY <1>1, <1>3
  <2>2. ~PassesAgainst(operating, backtest) => Decision(operating, backtest, rank) = "rejected"
    BY <1>3, <2>1 DEF Decision
  <2>3. PassesAgainst(operating, backtest) => Decision(operating, backtest, rank) = IF rank = 1 THEN "top" ELSE "eligible"
    BY <1>3, <2>1 DEF Decision
  <2> QED  BY <1>3, <2>1, <2>2, <2>3
<1>4. backtest.recentOne.count < MinSamples \/ backtest.recentOne.count >= MinSamples
  BY <1>1
<1> QED  BY <1>2, <1>3, <1>4

\* Nothing that was tuned is called rejected, and what is not placed although it
\* passes has only been cut off.
SaidAgrees(operating, tested, places) ==
  /\ \A k \in DOMAIN places :
       Decision(operating, tested[places[k]], RankOf(places, places[k])) = IF k = 1 THEN "top" ELSE "eligible"
  /\ \A s \in DOMAIN tested :
       (Decision(operating, tested[s], RankOf(places, s)) = "eligible" /\ RankOf(places, s) = 0)
         => Len(places) = TuningLimit
\* With nothing placed and nothing evaluable there is nothing to disagree on.
LEMMA NoneEvaluated ==
  ASSUME NEW operating, NEW tested, NEW places, DOMAIN places = {},
         \A s \in DOMAIN tested : tested[s].recentOne.count \in Nat /\ tested[s].recentOne.count < MinSamples
  PROVE  SaidAgrees(operating, tested, places)
<1>1. ASSUME NEW s \in DOMAIN tested  PROVE Decision(operating, tested[s], RankOf(places, s)) # "eligible"
  <2>1. PICK b, rank : b = tested[s] /\ rank = RankOf(places, s)
    OBVIOUS
  <2>2. b.recentOne.count \in Nat /\ b.recentOne.count < MinSamples
    BY <2>1
  <2>3. Decision(operating, b, rank) = "not evaluable"
    BY <2>2, DecisionIs
  <2> QED  BY <2>1, <2>3
<1> QED  BY <1>1 DEF SaidAgrees

\* Places given out to members of a set, to all of them if places are left.
ArePlaces(places, m, S) ==
  /\ Apart(places, m) /\ Len(places) = m /\ m <= TuningLimit
  /\ \A i \in 1..m : places[i] \in S
  /\ m < TuningLimit => \A s \in S : \E i \in 1..m : places[i] = s

\* What was tested again came out as before, for every place.
AreRetested(tested, results, places, m) ==
  /\ \A s \in DOMAIN tested : s \in DOMAIN results /\ tested[s] = results[s] /\ tested[s].recentOne.count \in Nat
  /\ \A i \in 1..m : places[i] \in DOMAIN tested

\* What is said of the places given out to those that passed.
LEMMA PodiumIsSaid ==
  ASSUME NEW operating, NEW results, NEW S, S = Passing(operating, results), NEW m \in Nat,
         NEW places, ArePlaces(places, m, S), NEW tested, AreRetested(tested, results, places, m)
  PROVE  SaidAgrees(operating, tested, places)
<1>1. RanksAre(places, m) /\ DOMAIN places = 1..m
  BY RankIs DEF ArePlaces, Apart
<1>2. \A s \in S : results[s].recentOne.count >= MinSamples /\ PassesAgainst(operating, results[s])
  BY DEF Passing
<1>3. ASSUME NEW k \in 1..m
      PROVE  Decision(operating, tested[places[k]], RankOf(places, places[k])) = IF k = 1 THEN "top" ELSE "eligible"
  <2>1. PICK s : s = places[k]
    OBVIOUS
  <2>2. s \in S /\ s \in DOMAIN tested
    BY <2>1 DEF ArePlaces, AreRetested
  <2>3. PICK b : b = tested[s]
    OBVIOUS
  <2>4. b = results[s] /\ b.recentOne.count \in Nat
    BY <2>2, <2>3 DEF AreRetested
  <2>5. b.recentOne.count >= MinSamples /\ PassesAgainst(operating, b)
    BY <1>2, <2>2, <2>4
  <2>6. Decision(operating, b, k) = IF k = 1 THEN "top" ELSE "eligible"
    BY <2>4, <2>5, DecisionIs
  <2>7. RankOf(places, s) = k
    BY <1>1, <2>1 DEF RanksAre
  <2> QED  BY <2>1, <2>3, <2>6, <2>7
<1>4. ASSUME NEW s \in DOMAIN tested, Decision(operating, tested[s], RankOf(places, s)) = "eligible",
             RankOf(places, s) = 0
      PROVE  m = TuningLimit
  <2>1. PICK b, rank : b = tested[s] /\ rank = RankOf(places, s)
    OBVIOUS
  <2>2. s \in DOMAIN results /\ b = results[s] /\ b.recentOne.count \in Nat
    BY <2>1 DEF AreRetested
  <2>3. Decision(operating, b, rank) = "eligible"
    BY <1>4, <2>1
  <2>4. b.recentOne.count >= MinSamples /\ PassesAgainst(operating, b)
    BY <2>2, <2>3, DecisionIs
  <2>5. s \in S
    BY <2>2, <2>4 DEF Passing
  <2>6. \A i \in 1..m : places[i] # s
    BY <1>1, <1>4 DEF RanksAre
  <2>7. m <= TuningLimit /\ ~(m < TuningLimit)
    BY <2>5, <2>6 DEF ArePlaces
  <2>8. TuningLimit \in Nat
    BY CandidatesAssumption
  <2> QED  BY <2>7, <2>8
<1>5. Len(places) = m
  BY DEF ArePlaces
<1> QED  BY <1>1, <1>3, <1>4, <1>5 DEF SaidAgrees
=============================================================================
