--------------------------- MODULE FscResults_proofs ---------------------------
(***************************************************************************)
(* Theorems about FscResults for any number of requests and every value of *)
(* the bounds.                                                             *)
(***************************************************************************)
EXTENDS FscResults, NumberLemmas, SequenceTheorems, FiniteSetTheorems

\* The constants as numbers.
LEMMA Bounds ==
  /\ MaxDate \in Nat /\ MaxRuns \in Nat /\ MaxResults \in Nat
  /\ MaxQuarter \in Nat /\ InitialQuarter \in Quarters /\ Quarters \subseteq Nat
  /\ NoClient \notin Clients
BY FscAssumption DEF Quarters

-----------------------------------------------------------------------------
(* Quarters.                                                               *)

\* What every change of the quarters keeps: their types, and that the newest
\* one, and no other, is active.
Orderly(qs) ==
  /\ qs \in [Quarters -> {"none", "active", "closed"}]
  /\ (\E q \in Quarters : qs[q] # "none") =>
       \E q \in Quarters :
         /\ ActiveIn(qs) = {q}
         /\ \A p \in Quarters : qs[p] # "none" => p <= q

\* No quarter disappears and none is opened again.
Kept(qs) ==
  \A q \in Quarters :
    /\ quarters[q] # "none" => qs[q] # "none"
    /\ quarters[q] = "closed" => qs[q] = "closed"

\* A rollover (rolloverActiveQuarter) ends in the one active quarter, that
\* of its date, and is in order whatever lies between.
LEMMA RolledOrderly ==
  ASSUME Orderly(quarters), NEW q \in Quarters, ActiveIn(quarters) = {q},
         NEW date \in Quarters, date > q
  PROVE  LET qs == RolledTo(quarters, q, date)
         IN  /\ Orderly(qs) /\ Kept(qs) /\ ActiveIn(qs) = {date}
             /\ \A p \in Quarters : qs[p] # "none" => p <= date
<1> DEFINE qs == RolledTo(quarters, q, date)
<1>1. \A p \in Quarters : quarters[p] # "none" => p <= q
  BY DEF Orderly, ActiveIn
<1>2. \A p \in Quarters : quarters[p] = "active" => p = q
  BY DEF ActiveIn
<1>3. qs \in [Quarters -> {"none", "active", "closed"}]
  BY DEF RolledTo, Orderly
<1>4. \A p \in Quarters : qs[p] # "none" => p <= date
  BY <1>1, Bounds DEF RolledTo, Orderly
<1>5. ActiveIn(qs) = {date}
  BY <1>2, Bounds DEF RolledTo, Orderly, ActiveIn
<1>6. Kept(qs)
  BY <1>1, <1>2, Bounds DEF RolledTo, Orderly, Kept
<1>7. Orderly(qs)
  BY <1>3, <1>4, <1>5 DEF Orderly
<1> QED  BY <1>4, <1>5, <1>6, <1>7

\* The active quarter after ensureActiveQuarter is the newest of all.
LEMMA EnsuredOrderly ==
  ASSUME Orderly(quarters), today \in Quarters
  PROVE  /\ Orderly(Ensured) /\ Kept(Ensured)
         /\ EnsuredQuarter \in Quarters /\ ActiveIn(Ensured) = {EnsuredQuarter}
         /\ \A p \in Quarters : Ensured[p] # "none" => p <= EnsuredQuarter
<1>1. /\ Orderly(Ensured) /\ Kept(Ensured)
      /\ \E q \in Quarters : /\ ActiveIn(Ensured) = {q}
                            /\ \A p \in Quarters : Ensured[p] # "none" => p <= q
  <2>1. CASE ActiveIn(quarters) # {}
    <3>1. PICK q \in Quarters : /\ ActiveIn(quarters) = {q}
                               /\ \A p \in Quarters : quarters[p] # "none" => p <= q
      BY <2>1 DEF Orderly, ActiveIn
    <3>2. Active = q
      BY <3>1 DEF Active, ActiveIn
    <3>3. Ensured = RolledFrom(quarters, q)
      BY <2>1, <3>2 DEF Ensured
    <3>4. CASE today > q
      <4>1. Ensured = RolledTo(quarters, q, today)
        BY <3>3, <3>4 DEF RolledFrom
      <4> QED  BY <3>1, <3>4, <4>1, RolledOrderly
    <3>5. CASE ~(today > q)
      <4>1. Ensured = quarters
        BY <3>3, <3>5 DEF RolledFrom
      <4> QED  BY <3>1, <4>1 DEF Kept
    <3> QED  BY <3>4, <3>5
  <2>2. CASE ActiveIn(quarters) = {}
    <3>1. \A q \in Quarters : quarters[q] = "none"
      BY <2>2 DEF Orderly
    <3>2. Ensured = [quarters EXCEPT ![InitialQuarter] = "active"]
      BY <2>2, <3>1 DEF Ensured
    <3>3. /\ Ensured \in [Quarters -> {"none", "active", "closed"}]
          /\ ActiveIn(Ensured) = {InitialQuarter}
          /\ \A p \in Quarters : Ensured[p] # "none" => p = InitialQuarter
      BY <3>1, <3>2, Bounds DEF Orderly, ActiveIn
    <3> QED  BY <3>1, <3>3, Bounds DEF Orderly, Kept
  <2> QED  BY <2>1, <2>2
<1>2. PICK q \in Quarters : /\ ActiveIn(Ensured) = {q}
                           /\ \A p \in Quarters : Ensured[p] # "none" => p <= q
  BY <1>1
<1>3. EnsuredQuarter = q
  BY <1>2 DEF EnsuredQuarter, ActiveIn
<1> QED  BY <1>1, <1>2, <1>3

-----------------------------------------------------------------------------
(* Types.                                                                  *)

Steps == {"waiting", "computing", "absent", "past"}

\* What a request knows while it recomputes or backfills: a quarter, and one
\* before some other quarter once it has been checked; then the forecast.
SoundIn(x, qs, n) ==
  /\ x.pc \in Steps => x.target \in Quarters
  /\ x.pc = "past" => \E q \in Quarters : qs[q] # "none" /\ x.target < q
  /\ x.pc = "computing" => x.forecast \in 1..n

Sound(c) == SoundIn(client[c], quarters, Len(forecasts))

FeedType == [run : Runs, rows : SUBSET Captured, upto : Dates]

FeedInv ==
  /\ current \in [Dates -> [run : 0..MaxRuns, tag : 0..MaxRuns]]
  /\ \A d \in Dates : current[d].tag # 0 => current[d].run # 0
  /\ forecasts \in Seq(FeedType)
  /\ \A i, k \in DOMAIN forecasts : forecasts[i].run = forecasts[k].run => i = k

TypeInv ==
  /\ FscTypeOK /\ FeedInv /\ Orderly(quarters)
  /\ \A c \in Clients : Sound(c)

\* A run has one forecast, so there are no more forecasts than runs.
LEMMA FewForecasts ==
  ASSUME FeedInv
  PROVE  Len(forecasts) \in 0..MaxRuns
<1> DEFINE S == 1..Len(forecasts)
           f == [i \in S |-> forecasts[i].run]
<1>1. Len(forecasts) \in Nat /\ DOMAIN forecasts = S
  BY DEF FeedInv
<1>2. f \in [S -> Runs]
  <2>1. ASSUME NEW i \in S  PROVE forecasts[i] \in FeedType
    BY <1>1, ElementOfSeq DEF FeedInv
  <2>2. ASSUME NEW i \in S  PROVE forecasts[i].run \in Runs
    BY <2>1 DEF FeedType
  <2> QED  BY <2>2
<1>3. f \in Injection(S, Runs)
  <2>1. \A i, k \in S : f[i] = f[k] => i = k
    BY <1>1 DEF FeedInv
  <2> HIDE DEF f, S
  <2> QED  BY <1>2, <2>1 DEF Injection, IsInjective
<1>4. IsFiniteSet(Runs) /\ Cardinality(Runs) = MaxRuns
  <2>1. IsFiniteSet(1..MaxRuns) /\ Cardinality(1..MaxRuns) = IF 1 > MaxRuns THEN 0 ELSE MaxRuns - 1 + 1
    BY Bounds, FS_Interval
  <2> QED  BY <2>1, Bounds DEF Runs
<1>5. Cardinality(S) <= Cardinality(Runs)
  <2> HIDE DEF f, S
  <2> QED  BY <1>3, <1>4, FS_Injection
<1>6. Cardinality(S) = Len(forecasts)
  <2>1. Cardinality(1..Len(forecasts)) = IF 1 > Len(forecasts) THEN 0 ELSE Len(forecasts) - 1 + 1
    BY <1>1, FS_Interval
  <2> QED  BY <1>1, <2>1
<1> QED  BY <1>1, <1>4, <1>5, <1>6, Bounds

\* The newest result of a quarter (readLatestBaseFscResult) is one of its
\* results, after which it has no other, or there is none.
LEMMA NewestFound ==
  ASSUME results \in Seq(ResultType), Len(results) <= MaxResults, NEW quarter
  PROVE  LET n == NewestResult(quarter)
         IN  /\ n \in 0..MaxResults
             /\ n # 0 => n \in DOMAIN results /\ results[n].quarter = quarter
             /\ \A i \in DOMAIN results : results[i].quarter = quarter => i <= n
<1> DEFINE T == {0} \union {i \in DOMAIN results : results[i].quarter = quarter}
<1>1. Len(results) \in Nat /\ DOMAIN results = 1..Len(results)
  OBVIOUS
<1>2. T \in SUBSET (0..MaxResults) /\ T # {}
  BY <1>1, Bounds
<1>3. Max(T) \in T /\ \A k \in T : k <= Max(T)
  <2> HIDE DEF T
  <2> QED  BY <1>2, Bounds, GreatestOf
<1>4. NewestResult(quarter) = Max(T)
  BY DEF NewestResult
<1> HIDE DEF T
<1>5. Max(T) \in 0..MaxResults
  BY <1>2, <1>3
<1> USE DEF T
<1> QED  BY <1>3, <1>4, <1>5

\* The prices under the snapshot of a run are captured prices.
LEMMA PricesTyped ==
  ASSUME FeedInv, NEW run \in Runs, NEW upto
  PROVE  PricesUnder(run, upto) \subseteq Captured
<1>1. ASSUME NEW d \in Dates, current[d].tag = run
      PROVE  [date |-> d, run |-> current[d].run] \in Captured
  BY <1>1, Bounds DEF FeedInv, Captured, Runs
<1> QED  BY <1>1 DEF PricesUnder

\* A step that changes one request, and the quarters in order, keeps the
\* types if it does so for that request.
LEMMA StepTyped ==
  ASSUME TypeInv, UNCHANGED feedVars, today' \in Quarters,
         Orderly(quarters'), Kept(quarters'),
         results' \in Seq(ResultType), Len(results') <= MaxResults,
         recomputing' \in Clients \union {NoClient},
         NEW c \in Clients, NEW r \in ClientType, client' = [client EXCEPT ![c] = r],
         SoundIn(r, quarters', Len(forecasts))
  PROVE  TypeInv'
<1>1. FeedInv'
  BY DEF TypeInv, FeedInv, feedVars
<1>2. client' \in [Clients -> ClientType]
  BY DEF TypeInv, FscTypeOK
<1>3. quarters' \in [Quarters -> {"none", "active", "closed"}]
  BY DEF Orderly
<1>4. ASSUME NEW d \in Clients  PROVE Sound(d)'
  <2>1. CASE d = c
    BY <2>1, <1>2 DEF Sound, feedVars, TypeInv, FscTypeOK
  <2>2. CASE d # c
    <3>1. client'[d] = client[d]
      BY <2>2 DEF TypeInv, FscTypeOK
    <3>2. Sound(d)
      BY DEF TypeInv
    <3> QED  BY <3>1, <3>2 DEF Sound, SoundIn, Kept, feedVars
  <2> QED  BY <2>1, <2>2
<1>5. Orderly(quarters)'
  BY DEF Orderly, ActiveIn
<1> QED  BY <1>1, <1>2, <1>3, <1>4, <1>5 DEF TypeInv, FscTypeOK

\* Whatever leaves the quarters alone keeps them in order.
LEMMA QuartersStay ==
  ASSUME TypeInv, UNCHANGED quarters
  PROVE  Orderly(quarters') /\ Kept(quarters')
BY DEF TypeInv, Orderly, Kept, ActiveIn

\* An idle request is well typed and has nothing to lose.
LEMMA IdleTyped == IdleClient \in ClientType /\ \A qs, n : SoundIn(IdleClient, qs, n)
BY Bounds DEF IdleClient, ClientType, ClientSteps, SoundIn, Steps

\* What the types say of one request and of the rest.
LEMMA Typed ==
  ASSUME TypeInv, NEW c \in Clients
  PROVE  /\ client[c] \in ClientType /\ client \in [Clients -> ClientType]
         /\ today \in Quarters /\ Orderly(quarters)
         /\ results \in Seq(ResultType) /\ Len(results) <= MaxResults
         /\ recomputing \in Clients \union {NoClient}
         /\ SoundIn(client[c], quarters, Len(forecasts))
         /\ Len(forecasts) \in 0..MaxRuns
BY FewForecasts DEF TypeInv, FscTypeOK, Sound

\* The steps of a reader keep the types and the order of the quarters.
LEMMA ReaderTyped ==
  ASSUME TypeInv, UNCHANGED feedVars, NEW c \in Clients,
         \/ \E q \in Quarters : Ask(c, q)
         \/ AskCurrent(c) \/ LookUp(c) \/ CheckActive(c) \/ CheckStale(c)
         \/ LookAgain(c) \/ Answer(c)
  PROVE  TypeInv' /\ Kept(quarters')
<1>1. /\ client[c] \in ClientType /\ client \in [Clients -> ClientType]
      /\ today \in Quarters /\ Orderly(quarters)
      /\ results \in Seq(ResultType) /\ Len(results) <= MaxResults
      /\ recomputing \in Clients \union {NoClient}
      /\ SoundIn(client[c], quarters, Len(forecasts))
      /\ Len(forecasts) \in 0..MaxRuns
  BY Typed
<1>2. ASSUME NEW q \in Quarters, Ask(c, q)  PROVE TypeInv' /\ Kept(quarters')
  <2> DEFINE r == [IdleClient EXCEPT !.pc = "asked", !.quarter = q, !.refresh = TRUE,
                     !.seen = IF quarters[q] = "active" THEN Len(forecasts) ELSE 0]
  <2>0. q \in 0..MaxQuarter /\ 0 \in 0..MaxRuns
    BY Bounds DEF Quarters
  <2>1. r \in ClientType /\ SoundIn(r, quarters', Len(forecasts))
    BY <1>1, <2>0, IdleTyped DEF ClientType, ClientSteps, SoundIn, Steps
  <2>2. client' = [client EXCEPT ![c] = r]
    BY <1>2 DEF Ask
  <2> HIDE DEF r
  <2> QED  BY <1>1, <1>2, <2>1, <2>2, QuartersStay, StepTyped DEF Ask
<1>3. ASSUME AskCurrent(c)  PROVE TypeInv' /\ Kept(quarters')
  <2> DEFINE r == [IdleClient EXCEPT !.pc = "asked", !.quarter = EnsuredQuarter,
                     !.refresh = TRUE, !.seen = Len(forecasts)]
  <2>0. EnsuredQuarter \in 0..MaxQuarter
    BY <1>1, EnsuredOrderly, Bounds DEF Quarters
  <2>1. r \in ClientType /\ SoundIn(r, quarters', Len(forecasts))
    BY <1>1, <2>0, IdleTyped DEF ClientType, ClientSteps, SoundIn, Steps
  <2>2. client' = [client EXCEPT ![c] = r]
    BY <1>3 DEF AskCurrent
  <2> HIDE DEF r
  <2> QED  BY <1>1, <1>3, <2>1, <2>2, EnsuredOrderly, StepTyped DEF AskCurrent
<1>4. ASSUME LookUp(c)  PROVE TypeInv' /\ Kept(quarters')
  <2> DEFINE r == [client[c] EXCEPT !.pc = "looked", !.answer = NewestResult(client[c].quarter)]
  <2>1. NewestResult(client[c].quarter) \in 0..MaxResults
    BY <1>1, NewestFound
  <2>2. r \in ClientType /\ SoundIn(r, quarters', Len(forecasts))
    BY <1>1, <2>1 DEF ClientType, ClientSteps, SoundIn, Steps
  <2>3. client' = [client EXCEPT ![c] = r]
    BY <1>1, <1>4 DEF LookUp
  <2> HIDE DEF r
  <2> QED  BY <1>1, <1>4, <2>2, <2>3, QuartersStay, StepTyped DEF LookUp
<1>5. ASSUME CheckActive(c)  PROVE TypeInv' /\ Kept(quarters')
  <2> DEFINE r == [client[c] EXCEPT !.pc =
                     IF quarters[client[c].quarter] = "active" THEN "active" ELSE "answered"]
  <2>1. r \in ClientType /\ SoundIn(r, quarters', Len(forecasts))
    BY <1>1 DEF ClientType, ClientSteps, SoundIn, Steps
  <2>2. client' = [client EXCEPT ![c] = r]
    BY <1>1, <1>5 DEF CheckActive
  <2> HIDE DEF r
  <2> QED  BY <1>1, <1>5, <2>1, <2>2, QuartersStay, StepTyped DEF CheckActive
<1>6. ASSUME CheckStale(c)  PROVE TypeInv' /\ Kept(quarters')
  <2> DEFINE r == [client[c] EXCEPT !.pc =
                     IF forecasts # <<>> /\ Stale(client[c].answer) THEN "targeting" ELSE "answered"]
  <2>1. r \in ClientType /\ SoundIn(r, quarters', Len(forecasts))
    BY <1>1 DEF ClientType, ClientSteps, SoundIn, Steps
  <2>2. client' = [client EXCEPT ![c] = r]
    BY <1>1, <1>6 DEF CheckStale
  <2> HIDE DEF r
  <2> QED  BY <1>1, <1>6, <2>1, <2>2, QuartersStay, StepTyped DEF CheckStale
<1>7. ASSUME LookAgain(c)  PROVE TypeInv' /\ Kept(quarters')
  <2> DEFINE r == [client[c] EXCEPT !.pc = "answered", !.answer = NewestResult(client[c].quarter)]
  <2>1. NewestResult(client[c].quarter) \in 0..MaxResults
    BY <1>1, NewestFound
  <2>2. r \in ClientType /\ SoundIn(r, quarters', Len(forecasts))
    BY <1>1, <2>1 DEF ClientType, ClientSteps, SoundIn, Steps
  <2>3. client' = [client EXCEPT ![c] = r]
    BY <1>1, <1>7 DEF LookAgain
  <2> HIDE DEF r
  <2> QED  BY <1>1, <1>7, <2>2, <2>3, QuartersStay, StepTyped DEF LookAgain
<1>8. ASSUME Answer(c)  PROVE TypeInv' /\ Kept(quarters')
  BY <1>1, <1>8, IdleTyped, QuartersStay, StepTyped DEF Answer
<1> QED  BY <1>2, <1>3, <1>4, <1>5, <1>6, <1>7, <1>8

\* The steps of a recomputation keep the types.
LEMMA RecomputeTyped ==
  ASSUME TypeInv, UNCHANGED feedVars, NEW c \in Clients,
         \/ AskRecompute(c) \/ Target(c) \/ RecomputeStart(c)
         \/ RecomputeFinish(c) \/ RecomputeFail(c)
  PROVE  TypeInv' /\ Kept(quarters')
<1>1. /\ client[c] \in ClientType /\ client \in [Clients -> ClientType]
      /\ today \in Quarters /\ Orderly(quarters)
      /\ results \in Seq(ResultType) /\ Len(results) <= MaxResults
      /\ recomputing \in Clients \union {NoClient}
      /\ SoundIn(client[c], quarters, Len(forecasts))
      /\ Len(forecasts) \in 0..MaxRuns
  BY Typed
<1>2. ASSUME AskRecompute(c)  PROVE TypeInv' /\ Kept(quarters')
  <2> DEFINE r == [IdleClient EXCEPT !.pc = "targeting"]
  <2>1. r \in ClientType /\ SoundIn(r, quarters', Len(forecasts))
    BY <1>1, <1>2, IdleTyped DEF AskRecompute, ClientType, ClientSteps, SoundIn, Steps
  <2>2. client' = [client EXCEPT ![c] = r]
    BY <1>1, <1>2 DEF AskRecompute
  <2> HIDE DEF r
  <2> QED  BY <1>1, <1>2, <2>1, <2>2, QuartersStay, StepTyped DEF AskRecompute, Released
<1>3. ASSUME Target(c)  PROVE TypeInv' /\ Kept(quarters')
  <2> DEFINE r == [client[c] EXCEPT !.pc = "waiting", !.target = EnsuredQuarter]
  <2>0. EnsuredQuarter \in 0..MaxQuarter /\ EnsuredQuarter \in Quarters
    BY <1>1, EnsuredOrderly, Bounds DEF Quarters
  <2>1. r \in ClientType /\ SoundIn(r, quarters', Len(forecasts))
    BY <1>1, <1>3, <2>0, IdleTyped DEF Target, ClientType, ClientSteps, SoundIn, Steps
  <2>2. client' = [client EXCEPT ![c] = r]
    BY <1>1, <1>3 DEF Target
  <2> HIDE DEF r
  <2> QED  BY <1>1, <1>3, <2>1, <2>2, EnsuredOrderly, StepTyped DEF Target, Released
<1>4. ASSUME RecomputeStart(c)  PROVE TypeInv' /\ Kept(quarters')
  <2> DEFINE r == [client[c] EXCEPT !.pc = "computing", !.forecast = Len(forecasts)]
  <2>0. Len(forecasts) \in 1..Len(forecasts)
    BY <1>1, <1>4 DEF RecomputeStart, TypeInv, FeedInv
  <2>1. r \in ClientType /\ SoundIn(r, quarters', Len(forecasts))
    BY <1>1, <1>4, <2>0, IdleTyped DEF RecomputeStart, ClientType, ClientSteps, SoundIn, Steps
  <2>2. client' = [client EXCEPT ![c] = r]
    BY <1>1, <1>4 DEF RecomputeStart
  <2> HIDE DEF r
  <2> QED  BY <1>1, <1>4, <2>1, <2>2, QuartersStay, StepTyped DEF RecomputeStart, Released
<1>5. ASSUME RecomputeFinish(c)  PROVE TypeInv' /\ Kept(quarters')
  <2> DEFINE n == client[c].forecast
             r == IF client[c].refresh
                    THEN [client[c] EXCEPT !.pc = "recomputed", !.target = 0, !.forecast = 0]
                    ELSE IdleClient
             new == [quarter |-> client[c].target, forecast |-> n,
                     rows |-> PricesUnder(forecasts[n].run, forecasts[n].upto)]
  <2>1. n \in 1..Len(forecasts) /\ client[c].target \in Quarters
    BY <1>1, <1>5 DEF RecomputeFinish, SoundIn, Steps
  <2>2. forecasts[n] \in FeedType
    BY <2>1, ElementOfSeq DEF TypeInv, FeedInv
  <2>3. PricesUnder(forecasts[n].run, forecasts[n].upto) \subseteq Captured
    BY <2>2, PricesTyped DEF TypeInv, FeedType
  <2>4. n \in 1..MaxRuns
    BY <1>1, <2>1, Bounds
  <2>5. new \in ResultType
    BY <2>1, <2>3, <2>4 DEF ResultType
  <2>6. results' = Append(results, new) /\ Len(results) < MaxResults
    BY <1>5 DEF RecomputeFinish
  <2>7. results' \in Seq(ResultType) /\ Len(results') <= MaxResults
    <3> HIDE DEF new
    <3> QED  BY <1>1, <2>5, <2>6, AppendProperties, Bounds
  <2>8. 0 \in 0..MaxQuarter /\ 0 \in 0..MaxRuns
    BY Bounds
  <2>9. r \in ClientType /\ SoundIn(r, quarters', Len(forecasts))
    BY <1>1, <2>8, IdleTyped DEF ClientType, ClientSteps, SoundIn, Steps
  <2>10. client' = [client EXCEPT ![c] = r]
    BY <1>1, <1>5 DEF RecomputeFinish
  <2> HIDE DEF r, new, n
  <2> QED  BY <1>1, <1>5, <2>7, <2>9, <2>10, QuartersStay, StepTyped DEF RecomputeFinish, Released
<1>6. ASSUME RecomputeFail(c)  PROVE TypeInv' /\ Kept(quarters')
  <2> DEFINE r == IF client[c].refresh
                    THEN [client[c] EXCEPT !.pc = "answered", !.failed = TRUE,
                                           !.target = 0, !.forecast = 0]
                    ELSE IdleClient
  <2>0. 0 \in 0..MaxQuarter /\ 0 \in 0..MaxRuns
    BY Bounds
  <2>1. r \in ClientType /\ SoundIn(r, quarters', Len(forecasts))
    BY <1>1, <1>6, <2>0, IdleTyped DEF RecomputeFail, ClientType, ClientSteps, SoundIn, Steps
  <2>2. client' = [client EXCEPT ![c] = r]
    BY <1>1, <1>6 DEF RecomputeFail
  <2> HIDE DEF r
  <2> QED  BY <1>1, <1>6, <2>1, <2>2, QuartersStay, StepTyped DEF RecomputeFail, Released
<1> QED  BY <1>2, <1>3, <1>4, <1>5, <1>6

\* The steps of a backfill, and the end of a process, keep the types.
LEMMA PastTyped ==
  ASSUME TypeInv, UNCHANGED feedVars, NEW c \in Clients,
         \/ \E q \in Quarters : FindPast(c, q)
         \/ CheckPast(c) \/ CreatePast(c) \/ Die(c)
  PROVE  TypeInv' /\ Kept(quarters')
<1>1. /\ client[c] \in ClientType /\ client \in [Clients -> ClientType]
      /\ today \in Quarters /\ Orderly(quarters)
      /\ results \in Seq(ResultType) /\ Len(results) <= MaxResults
      /\ recomputing \in Clients \union {NoClient}
      /\ SoundIn(client[c], quarters, Len(forecasts))
      /\ Len(forecasts) \in 0..MaxRuns
  BY Typed
<1>2. ASSUME NEW q \in Quarters, FindPast(c, q)
      PROVE  TypeInv' /\ Kept(quarters')
  <2> DEFINE r == [IdleClient EXCEPT
                     !.pc = IF quarters[q] = "none" THEN "absent" ELSE "waiting", !.target = q]
  <2>0. q \in 0..MaxQuarter
    BY Bounds DEF Quarters
  <2>1. r \in ClientType /\ SoundIn(r, quarters', Len(forecasts))
    BY <1>1, <1>2, <2>0, IdleTyped DEF FindPast, ClientType, ClientSteps, SoundIn, Steps
  <2>2. client' = [client EXCEPT ![c] = r]
    BY <1>1, <1>2 DEF FindPast
  <2> HIDE DEF r
  <2> QED  BY <1>1, <1>2, <2>1, <2>2, QuartersStay, StepTyped DEF FindPast, Released
<1>3. ASSUME CheckPast(c)  PROVE TypeInv' /\ Kept(quarters')
  <2> DEFINE r == IF client[c].target < EnsuredQuarter THEN [client[c] EXCEPT !.pc = "past"]
                                                      ELSE IdleClient
  <2>1. /\ quarters' = Ensured /\ EnsuredQuarter \in Quarters
        /\ quarters'[EnsuredQuarter] # "none"
    BY <1>1, <1>3, EnsuredOrderly DEF CheckPast, ActiveIn
  <2>2. client[c].target \in Quarters
    BY <1>1, <1>3 DEF CheckPast, SoundIn, Steps
  <2>3. r \in ClientType
    BY <1>1, IdleTyped DEF ClientType, ClientSteps
  <2>4. SoundIn(r, quarters', Len(forecasts))
    BY <1>1, <2>1, <2>2, IdleTyped DEF SoundIn, Steps, ClientType
  <2>5. client' = [client EXCEPT ![c] = r]
    BY <1>1, <1>3 DEF CheckPast
  <2> HIDE DEF r
  <2> QED  BY <1>1, <1>3, <2>3, <2>4, <2>5, EnsuredOrderly, StepTyped DEF CheckPast
<1>4. ASSUME CreatePast(c)  PROVE TypeInv' /\ Kept(quarters')
  <2> DEFINE t == client[c].target
  <2>1. CASE quarters[t] = "none"
    <3> DEFINE r == [client[c] EXCEPT !.pc = "waiting"]
    <3>1. t \in Quarters /\ \E q \in Quarters : quarters[q] # "none" /\ t < q
      BY <1>1, <1>4 DEF CreatePast, SoundIn, Steps
    <3>2. quarters' = [quarters EXCEPT ![t] = "closed"] /\ client' = [client EXCEPT ![c] = r]
      BY <1>1, <1>4, <2>1 DEF CreatePast
    <3>3. PICK a \in Quarters : /\ ActiveIn(quarters) = {a}
                                /\ \A p \in Quarters : quarters[p] # "none" => p <= a
      BY <1>1, <3>1 DEF Orderly
    <3>4. t <= a
      <4>1. PICK q \in Quarters : quarters[q] # "none" /\ t < q
        BY <3>1
      <4>2. q <= a /\ t \in Nat /\ q \in Nat /\ a \in Nat
        BY <3>1, <3>3, <4>1, Bounds
      <4> HIDE DEF t
      <4> QED  BY <4>1, <4>2
    <3>5. \A p \in Quarters : quarters'[p] = IF p = t THEN "closed" ELSE quarters[p]
      BY <1>1, <3>1, <3>2 DEF Orderly
    <3>6. \A p \in Quarters : quarters'[p] = "active" <=> quarters[p] = "active"
      BY <2>1, <3>5
    <3>7. ActiveIn(quarters') = {a}
      BY <3>3, <3>6 DEF ActiveIn
    <3>8. \A p \in Quarters : quarters'[p] # "none" => p <= a
      BY <3>3, <3>4, <3>5
    <3>9. quarters' \in [Quarters -> {"none", "active", "closed"}]
      BY <1>1, <3>2 DEF Orderly
    <3>10. Orderly(quarters') /\ Kept(quarters')
      BY <2>1, <3>5, <3>7, <3>8, <3>9 DEF Orderly, Kept
    <3>11. r \in ClientType /\ SoundIn(r, quarters', Len(forecasts))
      BY <1>1, <3>1 DEF ClientType, ClientSteps, SoundIn, Steps
    <3> HIDE DEF r, t
    <3> QED  BY <1>1, <1>4, <3>2, <3>10, <3>11, StepTyped DEF CreatePast
  <2>2. CASE quarters[t] # "none"
    BY <1>1, <1>4, <2>2, IdleTyped, QuartersStay, StepTyped DEF CreatePast
  <2> QED  BY <2>1, <2>2
<1>5. ASSUME Die(c)  PROVE TypeInv' /\ Kept(quarters')
  BY <1>1, <1>5, IdleTyped, QuartersStay, StepTyped DEF Die, Released
<1> QED  BY <1>2, <1>3, <1>4, <1>5

\* The changes an administrator makes of the quarters, and time, keep their
\* order: a forced rollover goes on from the active quarter, and only the
\* active quarter can be activated (the route refuses a closed one).
LEMMA AdminTyped ==
  ASSUME TypeInv, UNCHANGED feedVars,
         \/ \E force \in BOOLEAN : Rollover(force)
         \/ \E q \in Quarters : Activate(q)
         \/ Tick
  PROVE  TypeInv' /\ Kept(quarters')
<1>1. ASSUME Orderly(quarters'), Kept(quarters'), today' \in Quarters,
             UNCHANGED <<results, client, recomputing>>
      PROVE  TypeInv' /\ Kept(quarters')
  <2>1. FeedInv'
    BY DEF TypeInv, FeedInv, feedVars
  <2>2. ASSUME NEW d \in Clients  PROVE Sound(d)'
    BY <1>1 DEF TypeInv, Sound, SoundIn, Kept, feedVars
  <2>3. FscTypeOK'
    BY <1>1 DEF TypeInv, FscTypeOK, Orderly
  <2>4. Orderly(quarters)'
    BY <1>1 DEF Orderly, ActiveIn
  <2> QED  BY <1>1, <2>1, <2>2, <2>3, <2>4 DEF TypeInv
<1>2. Orderly(quarters) /\ today \in Quarters
  BY DEF TypeInv, FscTypeOK
<1>3. ASSUME NEW force \in BOOLEAN, Rollover(force)  PROVE TypeInv' /\ Kept(quarters')
  <2> DEFINE date == IF force THEN Active + 1 ELSE today
  <2>1. PICK q \in Quarters : ActiveIn(quarters) = {q}
    BY <1>2, <1>3 DEF Rollover, Orderly, ActiveIn
  <2>2. Active = q
    BY <2>1 DEF Active, ActiveIn
  <2>3. date \in Quarters /\ date > q /\ quarters' = RolledTo(quarters, q, date)
    BY <1>2, <1>3, <2>2, Bounds DEF Rollover, Quarters
  <2>4. Orderly(quarters') /\ Kept(quarters')
    <3> HIDE DEF date
    <3> QED  BY <1>2, <2>1, <2>3, RolledOrderly
  <2> QED  BY <1>1, <1>2, <1>3, <2>4 DEF Rollover
<1>4. ASSUME NEW q \in Quarters, Activate(q)  PROVE TypeInv' /\ Kept(quarters')
  <2>1. quarters[q] = "active"
    BY <1>2, <1>4 DEF Activate, Orderly
  <2>2. \A p \in Quarters : quarters[p] = "active" => p = q
    BY <1>2, <2>1 DEF Orderly, ActiveIn
  <2>3. quarters' = quarters
    BY <1>2, <1>4, <2>1, <2>2 DEF Activate, Activated, Orderly
  <2> QED  BY <1>1, <1>2, <1>4, <2>3, QuartersStay DEF Activate
<1>5. ASSUME Tick  PROVE TypeInv' /\ Kept(quarters')
  <2>1. today' \in Quarters
    BY <1>2, <1>5, Bounds DEF Tick, Quarters
  <2> QED  BY <1>1, <1>5, <2>1, QuartersStay DEF Tick
<1> QED  BY <1>3, <1>4, <1>5

\* The ingest keeps the types; it only ever adds forecasts.
LEMMA FeedTyped ==
  ASSUME TypeInv, FeedNext, UNCHANGED fscVars
  PROVE  /\ TypeInv' /\ Kept(quarters')
         /\ \A i \in DOMAIN forecasts : i \in DOMAIN forecasts' /\ forecasts'[i] = forecasts[i]
         /\ Len(forecasts') >= Len(forecasts)
<1>1. PICK run \in Runs : TakeSnapshot(run) \/ MakeForecast(run)
  BY DEF FeedNext
<1>2. forecasts \in Seq(FeedType) /\ run \in Nat /\ run \in 1..MaxRuns
  BY Bounds DEF TypeInv, FeedInv, Runs
<1>3. /\ FeedInv'
      /\ \A i \in DOMAIN forecasts : i \in DOMAIN forecasts' /\ forecasts'[i] = forecasts[i]
      /\ Len(forecasts') >= Len(forecasts)
  <2>1. CASE TakeSnapshot(run)
    <3>1. PICK changed \in SUBSET Dates :
            current' = [d \in Dates |->
              [run |-> IF d \in changed THEN run ELSE current[d].run,
               tag |-> IF d \in changed \union Priced THEN run ELSE current[d].tag]]
      BY <2>1 DEF TakeSnapshot
    <3>2. ASSUME NEW d \in Dates
          PROVE  /\ current'[d] \in [run : 0..MaxRuns, tag : 0..MaxRuns]
                 /\ current'[d].tag # 0 => current'[d].run # 0
      BY <1>2, <3>1, Bounds DEF TypeInv, FeedInv, Priced
    <3>3. forecasts' = forecasts
      BY <2>1 DEF TakeSnapshot
    <3>4. FeedInv'
      BY <3>1, <3>2, <3>3 DEF TypeInv, FeedInv
    <3> QED  BY <1>2, <3>3, <3>4
  <2>2. CASE MakeForecast(run)
    <3>1. PICK upto \in Dates :
            forecasts' = Append(forecasts,
              [run |-> run, rows |-> PricesUnder(run, upto), upto |-> upto])
      BY <2>2 DEF MakeForecast
    <3> DEFINE new == [run |-> run, rows |-> PricesUnder(run, upto), upto |-> upto]
    <3>2. new \in FeedType /\ new.run = run
      BY PricesTyped DEF TypeInv, FeedType
    <3>3. UNCHANGED current /\ \A i \in DOMAIN forecasts : forecasts[i].run # run
      BY <2>2 DEF MakeForecast
    <3> HIDE DEF new
    <3>4. /\ forecasts' \in Seq(FeedType) /\ Len(forecasts') = Len(forecasts) + 1
          /\ DOMAIN forecasts' = 1..(Len(forecasts) + 1)
          /\ \A i \in 1..Len(forecasts) : forecasts'[i] = forecasts[i]
          /\ forecasts'[Len(forecasts) + 1] = new
      BY <1>2, <3>1, <3>2, AppendProperties DEF new
    <3>5. \A i, k \in DOMAIN forecasts' : forecasts'[i].run = forecasts'[k].run => i = k
      <4>1. Len(forecasts) \in Nat /\ DOMAIN forecasts = 1..Len(forecasts)
        BY <1>2
      <4>2. \A i \in 1..Len(forecasts) : forecasts'[i].run = forecasts[i].run /\ forecasts'[i].run # run
        BY <3>3, <3>4, <4>1
      <4>3. forecasts'[Len(forecasts) + 1].run = run
        BY <3>2, <3>4
      <4>4. \A i, k \in 1..Len(forecasts) : forecasts[i].run = forecasts[k].run => i = k
        BY <4>1 DEF TypeInv, FeedInv
      <4> QED  BY <3>4, <4>1, <4>2, <4>3, <4>4
    <3>6. FeedInv'
      BY <3>3, <3>4, <3>5 DEF TypeInv, FeedInv
    <3> QED  BY <1>2, <3>4, <3>6
  <2> QED  BY <1>1, <2>1, <2>2
<1>4. Orderly(quarters') /\ Kept(quarters')
  BY QuartersStay DEF fscVars
<1>5. ASSUME NEW d \in Clients  PROVE Sound(d)'
  <2>1. Len(forecasts) \in Nat /\ Len(forecasts') \in Nat
    BY <1>2, <1>3 DEF FeedInv
  <2> QED  BY <1>3, <2>1 DEF TypeInv, Sound, SoundIn, fscVars
<1>6. FscTypeOK' /\ Orderly(quarters)'
  BY DEF TypeInv, FscTypeOK, Orderly, ActiveIn, fscVars
<1> QED  BY <1>3, <1>4, <1>5, <1>6 DEF TypeInv

\* Every step keeps the types and the order of the quarters.
LEMMA TypeStep ==
  ASSUME TypeInv, [FscNext]_<<feedVars, fscVars>>
  PROVE  TypeInv' /\ Kept(quarters')
<1>1. CASE FeedNext /\ UNCHANGED fscVars
  BY <1>1, FeedTyped
<1>2. CASE Serve /\ UNCHANGED feedVars
  <2>1. ASSUME NEW c \in Clients, Request(c)  PROVE TypeInv' /\ Kept(quarters')
    BY <1>2, <2>1, ReaderTyped, RecomputeTyped, PastTyped DEF Request
  <2> QED  BY <1>2, <2>1, AdminTyped DEF Serve
<1>3. CASE UNCHANGED <<feedVars, fscVars>>
  <2>1. Kept(quarters')
    BY <1>3 DEF Kept, fscVars
  <2>2. TypeInv'
    BY <1>3 DEF TypeInv, FscTypeOK, FeedInv, Orderly, ActiveIn, Sound, SoundIn, feedVars, fscVars
  <2> QED  BY <2>1, <2>2
<1> QED  BY <1>1, <1>2, <1>3 DEF FscNext

\* The initial state is well typed and in order.
LEMMA TypeInit == FscInit => TypeInv
<1> SUFFICES ASSUME FscInit  PROVE TypeInv
  OBVIOUS
<1>1. FeedInv
  BY Bounds DEF FscInit, FeedInit, FeedInv
<1>2. FscTypeOK
  BY IdleTyped, Bounds DEF FscInit, FscTypeOK, Quarters
<1>3. Orderly(quarters)
  BY DEF FscInit, Orderly
<1>4. ASSUME NEW c \in Clients  PROVE Sound(c)
  BY IdleTyped DEF FscInit, Sound
<1> QED  BY <1>1, <1>2, <1>3, <1>4 DEF TypeInv

\* All of that is kept for good.
LEMMA Typing == FscSpec => []TypeInv
<1>1. TypeInv /\ [FscNext]_<<feedVars, fscVars>> => TypeInv'
  BY TypeStep
<1> QED  BY <1>1, TypeInit, PTL DEF FscSpec

\* Quarters, results and requests keep their types: among others a recompute
\* always has a quarter and a forecast that exist.
THEOREM TypesHold == FscSpec => []FscTypeOK
<1>1. TypeInv => FscTypeOK
  BY DEF TypeInv
<1> QED  BY <1>1, Typing, PTL

\* Once there is a quarter, exactly one is active and none is newer, for all
\* orders of rollovers, activations, backfills and readers.
THEOREM OneQuarterIsActive == FscSpec => []NewestIsActive
<1>1. TypeInv => NewestIsActive
  BY DEF TypeInv, Orderly, NewestIsActive
<1> QED  BY <1>1, Typing, PTL

\* A closed quarter is never opened again.
THEOREM ClosedForGood == FscSpec => ClosedStaysClosed
<1>1. TypeInv /\ [FscNext]_<<feedVars, fscVars>> =>
        [\A q \in Quarters : quarters[q] = "closed" => quarters'[q] = "closed"]_quarters
  BY TypeStep DEF Kept
<1> QED  BY <1>1, Typing, PTL DEF FscSpec, ClosedStaysClosed

-----------------------------------------------------------------------------
(* The lock of the recomputation keeps the results in the order of the     *)
(* forecasts.                                                              *)

\* Who computes holds the lock, and no result is from a newer forecast than
\* the one it has taken.
LockInv ==
  /\ \A c \in Clients : client[c].pc = "computing" => recomputing = c
  /\ \A i \in DOMAIN results : results[i].forecast <= Len(forecasts)
  /\ \A c \in Clients : client[c].pc = "computing" =>
       \A i \in DOMAIN results : results[i].forecast <= client[c].forecast
  /\ \A i, k \in DOMAIN results : i <= k => results[i].forecast <= results[k].forecast

\* A step that computes nothing and adds no result keeps that.
LEMMA LockKept ==
  ASSUME TypeInv, LockInv, UNCHANGED <<results, recomputing>>,
         Len(forecasts') >= Len(forecasts),
         \A c \in Clients : client'[c].pc = "computing" =>
           client[c].pc = "computing" /\ client'[c].forecast = client[c].forecast
  PROVE  LockInv'
<1>1. \A i \in DOMAIN results : results[i].forecast \in Nat
  <2>1. ASSUME NEW i \in DOMAIN results  PROVE results[i] \in ResultType
    BY ElementOfSeq DEF TypeInv, FscTypeOK
  <2> QED  BY <2>1, Bounds DEF ResultType
<1>2. Len(forecasts) \in Nat
  BY FewForecasts DEF TypeInv
<1>3. \A i \in DOMAIN results : results[i].forecast <= Len(forecasts')
  <2>1. CASE UNCHANGED forecasts
    BY <2>1 DEF LockInv
  <2>2. \A n \in Nat : n <= Len(forecasts) => n <= Len(forecasts')
    OBVIOUS
  <2> QED  BY <1>1, <2>2 DEF LockInv
<1> QED  BY <1>3 DEF LockInv

\* No step of a request but RecomputeStart leaves it computing.
LEMMA QuietStep ==
  ASSUME client \in [Clients -> ClientType], NEW c \in Clients,
         \/ \E q \in Quarters : Ask(c, q) \/ FindPast(c, q)
         \/ AskCurrent(c) \/ LookUp(c) \/ CheckActive(c) \/ CheckStale(c)
         \/ LookAgain(c) \/ Answer(c) \/ AskRecompute(c) \/ Target(c)
         \/ CheckPast(c) \/ CreatePast(c) \/ RecomputeFail(c) \/ Die(c)
  PROVE  client'[c].pc # "computing"
<1>1. client[c] \in ClientType /\ IdleClient \in ClientType /\ IdleClient.pc # "computing"
  BY IdleTyped DEF IdleClient
<1>2. CASE \E q \in Quarters : Ask(c, q)
  BY <1>1, <1>2 DEF Ask, IdleClient
<1>3. CASE \E q \in Quarters : FindPast(c, q)
  BY <1>1, <1>3 DEF FindPast, IdleClient
<1>4. CASE AskCurrent(c)
  BY <1>1, <1>4 DEF AskCurrent, IdleClient
<1>5. CASE AskRecompute(c)
  BY <1>1, <1>5 DEF AskRecompute, IdleClient
<1>6. CASE LookUp(c) \/ CheckActive(c) \/ CheckStale(c) \/ LookAgain(c)
  BY <1>1, <1>6 DEF LookUp, CheckActive, CheckStale, LookAgain, ClientType
<1>7. CASE Answer(c) \/ Target(c) \/ CreatePast(c) \/ Die(c)
  BY <1>1, <1>7 DEF Answer, Target, CreatePast, Die, ClientType
<1>8. CASE CheckPast(c)
  BY <1>1, <1>8 DEF CheckPast, ClientType
<1>9. CASE RecomputeFail(c)
  <2>1. CASE client[c].refresh
    BY <1>1, <1>9, <2>1 DEF RecomputeFail, ClientType
  <2>2. CASE ~client[c].refresh
    BY <1>1, <1>9, <2>2 DEF RecomputeFail
  <2> QED  BY <2>1, <2>2
<1> QED  BY <1>2, <1>3, <1>4, <1>5, <1>6, <1>7, <1>8, <1>9

\* Every step keeps the lock and the order of the results: what is computed
\* under the lock comes from the newest forecast, which is none of before.
LEMMA LockStep ==
  ASSUME TypeInv, LockInv, [FscNext]_<<feedVars, fscVars>>
  PROVE  LockInv'
<1>1. client \in [Clients -> ClientType] /\ results \in Seq(ResultType)
  BY DEF TypeInv, FscTypeOK
<1>2. IdleClient.pc # "computing"
  BY DEF IdleClient
<1>3. Len(forecasts) \in Nat
  BY FewForecasts DEF TypeInv
<1>4. CASE FeedNext /\ UNCHANGED fscVars
  BY <1>4, FeedTyped, LockKept DEF fscVars
<1>5. ASSUME NEW c \in Clients, Request(c), UNCHANGED feedVars  PROVE LockInv'
  <2>1. CASE \/ \E q \in Quarters : Ask(c, q) \/ FindPast(c, q)
             \/ AskCurrent(c) \/ LookUp(c) \/ CheckActive(c) \/ CheckStale(c)
             \/ LookAgain(c) \/ Answer(c) \/ AskRecompute(c) \/ Target(c)
             \/ CheckPast(c) \/ CreatePast(c)
    <3>1. UNCHANGED <<results, recomputing>>
      BY <2>1 DEF Ask, FindPast, AskCurrent, LookUp, CheckActive, CheckStale,
           LookAgain, Answer, AskRecompute, Target, CheckPast, CreatePast
    <3>2. client'[c].pc # "computing"
      BY <2>1, <1>1, QuietStep
    <3>3. \A d \in Clients \ {c} : client'[d] = client[d]
      BY <2>1, <1>1 DEF Ask, FindPast, AskCurrent, LookUp, CheckActive, CheckStale,
           LookAgain, Answer, AskRecompute, Target, CheckPast, CreatePast
    <3>4. Len(forecasts') >= Len(forecasts)
      BY <1>3, <1>5 DEF feedVars
    <3> QED  BY <3>1, <3>2, <3>3, <3>4, LockKept
  <2>2. CASE RecomputeStart(c)
    <3>1. /\ recomputing = NoClient /\ recomputing' = c /\ UNCHANGED <<results, forecasts>>
          /\ client' = [client EXCEPT ![c].pc = "computing", ![c].forecast = Len(forecasts)]
      BY <1>5, <2>2 DEF RecomputeStart, feedVars
    <3>2. \A d \in Clients : client[d].pc # "computing"
      BY <3>1, Bounds DEF LockInv
    <3>3. \A d \in Clients \ {c} : client'[d] = client[d]
      BY <1>1, <3>1
    <3>4. client'[c].forecast = Len(forecasts)
      BY <1>1, <3>1 DEF ClientType
    <3> QED  BY <3>1, <3>2, <3>3, <3>4 DEF LockInv
  <2>3. CASE RecomputeFinish(c)
    <3> DEFINE n == client[c].forecast
               new == [quarter |-> client[c].target, forecast |-> n,
                       rows |-> PricesUnder(forecasts[n].run, forecasts[n].upto)]
    <3>1. results' = Append(results, new) /\ client[c].pc = "computing"
      BY <2>3 DEF RecomputeFinish
    <3>2. recomputing = c
      BY <3>1 DEF LockInv
    <3>3. \A d \in Clients : client'[d].pc # "computing"
      <4>1. \A d \in Clients \ {c} : client'[d] = client[d]
        BY <1>1, <2>3 DEF RecomputeFinish
      <4>2. client'[c].pc # "computing"
        BY <1>1, <1>2, <2>3 DEF RecomputeFinish, ClientType
      <4> QED  BY <3>2, <4>1, <4>2 DEF LockInv
    <3>4. new.forecast = n /\ n \in 1..Len(forecasts)
      BY <3>1 DEF TypeInv, Sound, SoundIn
    <3> HIDE DEF new
    <3>5. /\ Len(results) \in Nat /\ DOMAIN results = 1..Len(results)
          /\ DOMAIN results' = 1..(Len(results) + 1)
          /\ \A i \in 1..Len(results) : results'[i] = results[i]
          /\ results'[Len(results) + 1] = new
      BY <1>1, <3>1
    <3>6. \A i \in 1..Len(results) : results[i].forecast <= n
      BY <3>1, <3>5 DEF LockInv
    <3>7. UNCHANGED forecasts
      BY <1>5 DEF feedVars
    <3>8. \A i \in DOMAIN results' : results'[i].forecast <= Len(forecasts')
      BY <1>3, <3>4, <3>5, <3>7 DEF LockInv
    <3>9. \A i, k \in DOMAIN results' : i <= k => results'[i].forecast <= results'[k].forecast
      <4>1. ASSUME NEW i \in DOMAIN results', NEW k \in DOMAIN results', i <= k
            PROVE  results'[i].forecast <= results'[k].forecast
        <5>1. CASE k \in 1..Len(results)
          <6>1. i \in 1..Len(results)
            BY <3>5, <4>1, <5>1
          <6> QED  BY <3>5, <4>1, <5>1, <6>1 DEF LockInv
        <5>2. CASE k = Len(results) + 1
          <6> HIDE DEF n
          <6> QED  BY <3>4, <3>5, <3>6, <4>1, <5>2
        <5> QED  BY <3>5, <4>1, <5>1, <5>2
      <4> QED  BY <4>1
    <3> QED  BY <3>3, <3>8, <3>9 DEF LockInv
  <2>4. CASE RecomputeFail(c) \/ Die(c)
    <3>1. UNCHANGED <<results, forecasts>> /\ recomputing' = Released(c)
      BY <1>5, <2>4 DEF RecomputeFail, Die, feedVars
    <3>2. \A d \in Clients \ {c} : client'[d] = client[d]
      BY <1>1, <2>4 DEF RecomputeFail, Die
    <3>3. client'[c].pc # "computing"
      BY <2>4, <1>1, QuietStep
    <3> QED  BY <3>1, <3>2, <3>3 DEF LockInv, Released
  <2> QED  BY <1>5, <2>1, <2>2, <2>3, <2>4 DEF Request
<1>6. ASSUME \/ \E force \in BOOLEAN : Rollover(force)
             \/ \E q \in Quarters : Activate(q)
             \/ Tick,
             UNCHANGED feedVars
      PROVE  LockInv'
  BY <1>6 DEF Rollover, Activate, Tick, feedVars, LockInv
<1>7. CASE UNCHANGED <<feedVars, fscVars>>
  BY <1>7 DEF LockInv, feedVars, fscVars
<1> QED  BY <1>4, <1>5, <1>6, <1>7 DEF FscNext, Serve

\* There are no results at first.
LEMMA LockInit == FscInit => LockInv
BY DEF FscInit, LockInv, IdleClient

\* The lock and the order of the results are kept for good.
LEMMA Locking == FscSpec => []LockInv
<1>1. TypeInv /\ LockInv /\ [FscNext]_<<feedVars, fscVars>> => LockInv'
  BY LockStep
<1> QED  BY <1>1, LockInit, Typing, PTL DEF FscSpec

\* Whoever looks up the newest result of a quarter never gets an older
\* forecast than somebody before, for any number of recomputations at once.
THEOREM ResultsKeepUp == FscSpec => []ResultsFollowForecasts
<1>1. LockInv => ResultsFollowForecasts
  BY DEF LockInv, ResultsFollowForecasts
<1> QED  BY <1>1, Locking, PTL

-----------------------------------------------------------------------------
(* Fresh answers.                                                          *)

\* What a request that came knowing a forecast has gained on its way, as
\* long as its quarter is active, with the quarters qs, n forecasts and the
\* results rs.
FreshIn(x, qs, n, rs) ==
  /\ x.answer # 0 => x.answer \in DOMAIN rs
  /\ x.seen > 0 =>
       /\ x.refresh /\ x.pc \notin {"absent", "past"} /\ x.seen <= n
       /\ x.quarter \in Quarters /\ qs[x.quarter] # "none"
       /\ qs[x.quarter] = "active" =>
            /\ x.pc \in {"waiting", "computing"} => x.target = x.quarter
            /\ x.pc = "computing" => x.forecast >= x.seen
            /\ x.pc = "recomputed" =>
                 \E i \in DOMAIN rs : rs[i].quarter = x.quarter /\ rs[i].forecast >= x.seen
            /\ x.pc = "answered" /\ ~x.failed => x.answer # 0 /\ rs[x.answer].forecast >= x.seen

FreshInv == \A c \in Clients : FreshIn(client[c], quarters, Len(forecasts), results)

\* A request keeps that while others work: a quarter that is not active is
\* closed and stays so, and results are only added.
LEMMA FreshStays ==
  ASSUME TypeInv, TypeInv', NEW x \in ClientType, FreshIn(x, quarters, Len(forecasts), results),
         Kept(quarters'), Len(forecasts') >= Len(forecasts),
         \A i \in DOMAIN results : i \in DOMAIN results' /\ results'[i] = results[i]
  PROVE  FreshIn(x, quarters', Len(forecasts'), results')
<1>1. x.answer # 0 => x.answer \in DOMAIN results'
  BY DEF FreshIn
<1>2. CASE x.seen > 0
  <2>1. /\ x.refresh /\ x.pc \notin {"absent", "past"} /\ x.seen <= Len(forecasts)
        /\ x.quarter \in Quarters /\ quarters[x.quarter] # "none"
    BY <1>2 DEF FreshIn
  <2>2. quarters'[x.quarter] # "none"
    BY <2>1 DEF Kept
  <2>3. quarters'[x.quarter] = "active" => quarters[x.quarter] = "active"
    BY <2>1 DEF Kept, TypeInv, FscTypeOK
  <2>4. x.seen <= Len(forecasts')
    <3>1. Len(forecasts) \in Nat /\ Len(forecasts') \in Nat /\ x.seen \in Nat
      BY Bounds DEF TypeInv, FeedInv, ClientType
    <3> QED  BY <2>1, <3>1
  <2>5. ASSUME quarters'[x.quarter] = "active"
        PROVE  /\ x.pc \in {"waiting", "computing"} => x.target = x.quarter
               /\ x.pc = "computing" => x.forecast >= x.seen
               /\ x.pc = "recomputed" =>
                    \E i \in DOMAIN results' :
                      results'[i].quarter = x.quarter /\ results'[i].forecast >= x.seen
               /\ x.pc = "answered" /\ ~x.failed =>
                    x.answer # 0 /\ results'[x.answer].forecast >= x.seen
    BY <1>2, <2>3, <2>5 DEF FreshIn
  <2> QED  BY <1>1, <2>1, <2>2, <2>4, <2>5 DEF FreshIn
<1>3. CASE ~(x.seen > 0)
  BY <1>1, <1>3 DEF FreshIn
<1> QED  BY <1>2, <1>3

\* A step of one request, with what it has gained, keeps it for all.
LEMMA FreshKept ==
  ASSUME TypeInv, TypeInv', FreshInv, UNCHANGED forecasts, Kept(quarters'),
         \A i \in DOMAIN results : i \in DOMAIN results' /\ results'[i] = results[i],
         NEW c \in Clients, NEW r, client' = [client EXCEPT ![c] = r],
         FreshIn(r, quarters', Len(forecasts), results')
  PROVE  FreshInv'
<1>1. client \in [Clients -> ClientType]
  BY DEF TypeInv, FscTypeOK
<1>2. ASSUME NEW d \in Clients  PROVE FreshIn(client'[d], quarters', Len(forecasts'), results')
  <2>1. CASE d = c
    BY <1>1, <2>1
  <2>2. CASE d # c
    <3>1. client'[d] = client[d] /\ client[d] \in ClientType
      BY <1>1, <2>2
    <3>2. Len(forecasts') >= Len(forecasts)
      BY DEF TypeInv, FeedInv
    <3>3. FreshIn(client[d], quarters', Len(forecasts'), results')
      BY <3>1, <3>2, FreshStays DEF FreshInv
    <3> QED  BY <3>1, <3>3
  <2> QED  BY <2>1, <2>2
<1> QED  BY <1>2 DEF FreshInv

\* An idle request has nothing to keep.
LEMMA FreshIdle == \A qs, n, rs : FreshIn(IdleClient, qs, n, rs)
BY DEF FreshIn, IdleClient

\* The steps of a reader up to a recomputation, and its answer.
LEMMA FreshReader ==
  ASSUME TypeInv, TypeInv', LockInv, FreshInv, UNCHANGED feedVars, Kept(quarters'),
         NEW c \in Clients,
         \/ \E q \in Quarters : Ask(c, q)
         \/ AskCurrent(c) \/ LookUp(c) \/ CheckActive(c) \/ CheckStale(c)
         \/ LookAgain(c) \/ Answer(c)
  PROVE  FreshInv'
<1>1. /\ client[c] \in ClientType /\ Orderly(quarters) /\ today \in Quarters
      /\ results \in Seq(ResultType) /\ Len(results) <= MaxResults
      /\ Len(forecasts) \in 0..MaxRuns
      /\ FreshIn(client[c], quarters, Len(forecasts), results)
  BY Typed DEF FreshInv
<1>2. UNCHANGED <<forecasts, results>>
  BY DEF feedVars, Ask, AskCurrent, LookUp, CheckActive, CheckStale, LookAgain, Answer
<1>3. ASSUME NEW r, client' = [client EXCEPT ![c] = r],
             FreshIn(r, quarters', Len(forecasts), results)
      PROVE  FreshInv'
  BY <1>2, <1>3, FreshKept
<1>4. ASSUME NEW q \in Quarters, Ask(c, q)  PROVE FreshInv'
  <2> DEFINE r == [IdleClient EXCEPT !.pc = "asked", !.quarter = q, !.refresh = TRUE,
                     !.seen = IF quarters[q] = "active" THEN Len(forecasts) ELSE 0]
  <2>1. FreshIn(r, quarters', Len(forecasts), results)
    <3>1. /\ r.pc = "asked" /\ r.quarter = q /\ r.refresh /\ r.answer = 0
          /\ r.seen = IF quarters[q] = "active" THEN Len(forecasts) ELSE 0
      BY DEF IdleClient
    <3>2. UNCHANGED quarters
      BY <1>4 DEF Ask
    <3> HIDE DEF r
    <3> QED  BY <1>1, <3>1, <3>2 DEF FreshIn
  <2>2. client' = [client EXCEPT ![c] = r]
    BY <1>4 DEF Ask
  <2> HIDE DEF r
  <2> QED  BY <1>3, <2>1, <2>2
<1>5. ASSUME AskCurrent(c)  PROVE FreshInv'
  <2> DEFINE r == [IdleClient EXCEPT !.pc = "asked", !.quarter = EnsuredQuarter,
                     !.refresh = TRUE, !.seen = Len(forecasts)]
  <2>1. EnsuredQuarter \in Quarters /\ quarters'[EnsuredQuarter] # "none"
    BY <1>1, <1>5, EnsuredOrderly DEF AskCurrent, ActiveIn
  <2>2. FreshIn(r, quarters', Len(forecasts), results)
    BY <1>1, <2>1 DEF IdleClient, FreshIn
  <2>3. client' = [client EXCEPT ![c] = r]
    BY <1>5 DEF AskCurrent
  <2> HIDE DEF r
  <2> QED  BY <1>3, <2>2, <2>3
<1>6. ASSUME LookUp(c)  PROVE FreshInv'
  <2> DEFINE r == [client[c] EXCEPT !.pc = "looked", !.answer = NewestResult(client[c].quarter)]
  <2>1. r.answer # 0 => r.answer \in DOMAIN results
    BY <1>1, NewestFound DEF ClientType
  <2>2. FreshIn(r, quarters', Len(forecasts), results)
    BY <1>1, <1>6, <2>1 DEF LookUp, ClientType, FreshIn
  <2>3. client' = [client EXCEPT ![c] = r]
    BY <1>6 DEF LookUp
  <2> HIDE DEF r
  <2> QED  BY <1>3, <2>2, <2>3
<1>7. ASSUME CheckActive(c)  PROVE FreshInv'
  <2> DEFINE r == [client[c] EXCEPT !.pc =
                     IF quarters[client[c].quarter] = "active" THEN "active" ELSE "answered"]
  <2>1. FreshIn(r, quarters', Len(forecasts), results)
    BY <1>1, <1>7 DEF CheckActive, ClientType, FreshIn
  <2>2. client' = [client EXCEPT ![c] = r]
    BY <1>7 DEF CheckActive
  <2> HIDE DEF r
  <2> QED  BY <1>3, <2>1, <2>2
<1>8. ASSUME CheckStale(c)  PROVE FreshInv'
  <2> DEFINE r == [client[c] EXCEPT !.pc =
                     IF forecasts # <<>> /\ Stale(client[c].answer) THEN "targeting" ELSE "answered"]
  <2>1. client[c].seen > 0 => forecasts # <<>>
    <3>1. client[c].seen \in Nat /\ (forecasts = <<>> => Len(forecasts) = 0)
      BY <1>1, Bounds DEF ClientType
    <3> QED  BY <1>1, <3>1 DEF FreshIn
  <2>2. ASSUME client[c].seen > 0, ~Stale(client[c].answer)
        PROVE  /\ client[c].answer # 0
               /\ results[client[c].answer].forecast >= client[c].seen
    <3>1. client[c].seen \in Nat /\ client[c].seen <= Len(forecasts)
      BY <1>1, <2>2, Bounds DEF ClientType, FreshIn
    <3> QED  BY <1>1, <2>2, <3>1 DEF Stale
  <2>3. FreshIn(r, quarters', Len(forecasts), results)
    BY <1>1, <1>8, <2>1, <2>2 DEF CheckStale, ClientType, FreshIn
  <2>4. client' = [client EXCEPT ![c] = r]
    BY <1>8 DEF CheckStale
  <2> HIDE DEF r
  <2> QED  BY <1>3, <2>3, <2>4
<1>9. ASSUME LookAgain(c)  PROVE FreshInv'
  <2> DEFINE n == NewestResult(client[c].quarter)
             r == [client[c] EXCEPT !.pc = "answered", !.answer = n]
  <2>1. /\ n \in 0..MaxResults
        /\ n # 0 => n \in DOMAIN results
        /\ \A i \in DOMAIN results : results[i].quarter = client[c].quarter => i <= n
    BY <1>1, NewestFound
  <2> HIDE DEF n
  <2>2. ASSUME client[c].seen > 0, quarters[client[c].quarter] = "active"
        PROVE  n # 0 /\ results[n].forecast >= client[c].seen
    <3>1. PICK i \in DOMAIN results : /\ results[i].quarter = client[c].quarter
                                      /\ results[i].forecast >= client[c].seen
      BY <1>1, <1>9, <2>2 DEF LookAgain, FreshIn
    <3>2. i <= n /\ i \in Nat /\ i > 0 /\ n \in Nat
      BY <1>1, <2>1, <3>1, Bounds
    <3>3. n \in DOMAIN results
      BY <2>1, <3>2
    <3>4. results[i].forecast <= results[n].forecast
      BY <3>2, <3>3 DEF LockInv
    <3>5. results[i] \in ResultType /\ results[n] \in ResultType
      BY <1>1, <3>3, ElementOfSeq
    <3>6. /\ results[i].forecast \in Nat /\ results[n].forecast \in Nat
          /\ client[c].seen \in Nat
      <4>1. \A x \in ResultType : x.forecast \in Nat
        BY Bounds DEF ResultType
      <4>2. \A x \in ClientType : x.seen \in Nat
        BY Bounds DEF ClientType
      <4> QED  BY <1>1, <3>5, <4>1, <4>2
    <3>7. \A x, y, z \in Nat : x >= z /\ x <= y => y >= z
      OBVIOUS
    <3>8. results[n].forecast >= client[c].seen
      BY <3>1, <3>4, <3>6, <3>7
    <3> QED  BY <3>2, <3>8
  <2>3. FreshIn(r, quarters', Len(forecasts), results)
    BY <1>1, <1>9, <2>1, <2>2 DEF LookAgain, ClientType, FreshIn
  <2>4. client' = [client EXCEPT ![c] = r]
    BY <1>9 DEF LookAgain, n
  <2> HIDE DEF r
  <2> QED  BY <1>3, <2>3, <2>4
<1>10. ASSUME Answer(c)  PROVE FreshInv'
  BY <1>3, <1>10, FreshIdle DEF Answer
<1> QED  BY <1>4, <1>5, <1>6, <1>7, <1>8, <1>9, <1>10

\* The steps of a recomputation: it aims at the active quarter, so that the
\* quarter asked about is its target if it is still active.
LEMMA FreshRecompute ==
  ASSUME TypeInv, TypeInv', LockInv, FreshInv, UNCHANGED feedVars, Kept(quarters'),
         NEW c \in Clients,
         \/ AskRecompute(c) \/ Target(c) \/ RecomputeStart(c)
         \/ RecomputeFinish(c) \/ RecomputeFail(c)
  PROVE  FreshInv'
<1>1. /\ client[c] \in ClientType /\ Orderly(quarters) /\ today \in Quarters
      /\ results \in Seq(ResultType) /\ Len(results) <= MaxResults
      /\ Len(forecasts) \in 0..MaxRuns
      /\ FreshIn(client[c], quarters, Len(forecasts), results)
  BY Typed DEF FreshInv
<1>2. ASSUME UNCHANGED results, NEW r, client' = [client EXCEPT ![c] = r],
             FreshIn(r, quarters', Len(forecasts), results)
      PROVE  FreshInv'
  BY <1>2, FreshKept DEF feedVars
<1>3. ASSUME AskRecompute(c)  PROVE FreshInv'
  <2> DEFINE r == [IdleClient EXCEPT !.pc = "targeting"]
  <2>1. FreshIn(r, quarters', Len(forecasts), results)
    BY DEF IdleClient, FreshIn
  <2>2. client' = [client EXCEPT ![c] = r] /\ UNCHANGED results
    BY <1>3 DEF AskRecompute
  <2> HIDE DEF r
  <2> QED  BY <1>2, <2>1, <2>2
<1>4. ASSUME Target(c)  PROVE FreshInv'
  <2> DEFINE r == [client[c] EXCEPT !.pc = "waiting", !.target = EnsuredQuarter]
  <2>1. quarters' = Ensured /\ ActiveIn(quarters') = {EnsuredQuarter}
    BY <1>1, <1>4, EnsuredOrderly DEF Target
  <2>2. \A q \in Quarters : quarters'[q] = "active" => q = EnsuredQuarter
    BY <2>1 DEF ActiveIn
  <2>3. \A q \in Quarters : quarters[q] # "none" => quarters'[q] # "none"
    BY DEF Kept
  <2>4. FreshIn(r, quarters', Len(forecasts), results)
    BY <1>1, <2>2, <2>3 DEF ClientType, FreshIn
  <2>5. client' = [client EXCEPT ![c] = r] /\ UNCHANGED results
    BY <1>4 DEF Target
  <2> HIDE DEF r
  <2> QED  BY <1>2, <2>4, <2>5
<1>5. ASSUME RecomputeStart(c)  PROVE FreshInv'
  <2> DEFINE r == [client[c] EXCEPT !.pc = "computing", !.forecast = Len(forecasts)]
  <2>1. client[c].seen > 0 => Len(forecasts) >= client[c].seen
    BY <1>1, Bounds DEF FreshIn, ClientType
  <2>2. client[c].pc = "waiting" /\ UNCHANGED <<quarters, results>>
    BY <1>5 DEF RecomputeStart
  <2>3. FreshIn(r, quarters', Len(forecasts), results)
    BY <1>1, <2>1, <2>2 DEF ClientType, FreshIn
  <2>4. client' = [client EXCEPT ![c] = r]
    BY <1>5 DEF RecomputeStart
  <2> HIDE DEF r
  <2> QED  BY <1>2, <2>2, <2>3, <2>4
<1>6. ASSUME RecomputeFinish(c)  PROVE FreshInv'
  <2> DEFINE n == client[c].forecast
             new == [quarter |-> client[c].target, forecast |-> n,
                     rows |-> PricesUnder(forecasts[n].run, forecasts[n].upto)]
             r == [client[c] EXCEPT !.pc = "recomputed", !.target = 0, !.forecast = 0]
  <2>1. client[c].pc = "computing" /\ results' = Append(results, new) /\ UNCHANGED quarters
    BY <1>6 DEF RecomputeFinish
  <2>2. new.quarter = client[c].target /\ new.forecast = client[c].forecast
    OBVIOUS
  <2> HIDE DEF new
  <2>3. /\ Len(results) + 1 \in DOMAIN results' /\ results'[Len(results) + 1] = new
        /\ \A i \in DOMAIN results : i \in DOMAIN results' /\ results'[i] = results[i]
    BY <1>1, <2>1
  <2>4. CASE client[c].refresh
    <3>1. client' = [client EXCEPT ![c] = r]
      BY <1>6, <2>4 DEF RecomputeFinish
    <3>2. ASSUME client[c].seen > 0, quarters[client[c].quarter] = "active"
          PROVE  \E i \in DOMAIN results' : /\ results'[i].quarter = client[c].quarter
                                            /\ results'[i].forecast >= client[c].seen
      BY <1>1, <2>1, <2>2, <2>3, <3>2 DEF FreshIn
    <3>3. FreshIn(r, quarters', Len(forecasts), results')
      BY <1>1, <2>1, <2>3, <2>4, <3>2 DEF ClientType, FreshIn
    <3> HIDE DEF r
    <3> QED  BY <2>3, <3>1, <3>3, FreshKept DEF feedVars
  <2>5. CASE ~client[c].refresh
    <3>1. client' = [client EXCEPT ![c] = IdleClient]
      BY <1>6, <2>5 DEF RecomputeFinish
    <3> QED  BY <2>3, <3>1, FreshIdle, FreshKept DEF feedVars
  <2> QED  BY <2>4, <2>5
<1>7. ASSUME RecomputeFail(c)  PROVE FreshInv'
  <2> DEFINE r == [client[c] EXCEPT !.pc = "answered", !.failed = TRUE,
                                    !.target = 0, !.forecast = 0]
  <2>1. UNCHANGED <<quarters, results>>
    BY <1>7 DEF RecomputeFail
  <2>2. CASE client[c].refresh
    <3>1. client' = [client EXCEPT ![c] = r]
      BY <1>7, <2>2 DEF RecomputeFail
    <3>2. FreshIn(r, quarters', Len(forecasts), results)
      BY <1>1, <2>1 DEF ClientType, FreshIn
    <3> HIDE DEF r
    <3> QED  BY <1>2, <2>1, <3>1, <3>2
  <2>3. CASE ~client[c].refresh
    <3>1. client' = [client EXCEPT ![c] = IdleClient]
      BY <1>7, <2>3 DEF RecomputeFail
    <3> QED  BY <1>2, <2>1, <3>1, FreshIdle
  <2> QED  BY <2>2, <2>3
<1> QED  BY <1>3, <1>4, <1>5, <1>6, <1>7

\* The steps of a backfill, which is no reader, and the end of a process.
LEMMA FreshPast ==
  ASSUME TypeInv, TypeInv', FreshInv, UNCHANGED feedVars, Kept(quarters'),
         NEW c \in Clients,
         \/ \E q \in Quarters : FindPast(c, q)
         \/ CheckPast(c) \/ CreatePast(c) \/ Die(c)
  PROVE  FreshInv'
<1>1. /\ client[c] \in ClientType
      /\ FreshIn(client[c], quarters, Len(forecasts), results)
  BY Typed DEF FreshInv
<1>2. UNCHANGED <<forecasts, results>>
  BY DEF feedVars, FindPast, CheckPast, CreatePast, Die
<1>3. ASSUME NEW r, client' = [client EXCEPT ![c] = r],
             FreshIn(r, quarters', Len(forecasts), results)
      PROVE  FreshInv'
  BY <1>2, <1>3, FreshKept
<1>4. ASSUME NEW q \in Quarters, FindPast(c, q)  PROVE FreshInv'
  <2> DEFINE r == [IdleClient EXCEPT
                     !.pc = IF quarters[q] = "none" THEN "absent" ELSE "waiting", !.target = q]
  <2>1. FreshIn(r, quarters', Len(forecasts), results)
    BY DEF IdleClient, FreshIn
  <2>2. client' = [client EXCEPT ![c] = r]
    BY <1>4 DEF FindPast
  <2> HIDE DEF r
  <2> QED  BY <1>3, <2>1, <2>2
<1>5. ASSUME CheckPast(c) \/ CreatePast(c)  PROVE FreshInv'
  <2>1. ~(client[c].seen > 0)
    BY <1>1, <1>5 DEF CheckPast, CreatePast, FreshIn
  <2>2. ASSUME NEW pc  PROVE FreshIn([client[c] EXCEPT !.pc = pc], quarters', Len(forecasts), results)
    BY <1>1, <2>1 DEF ClientType, FreshIn
  <2>3. \/ client' = [client EXCEPT ![c] = IdleClient]
        \/ \E pc \in {"past", "waiting"} : client' = [client EXCEPT ![c] = [client[c] EXCEPT !.pc = pc]]
    BY <1>5 DEF CheckPast, CreatePast
  <2> QED  BY <1>3, <2>2, <2>3, FreshIdle
<1>6. ASSUME Die(c)  PROVE FreshInv'
  BY <1>3, <1>6, FreshIdle DEF Die
<1> QED  BY <1>4, <1>5, <1>6

\* Every step keeps what the requests have gained.
LEMMA FreshStep ==
  ASSUME TypeInv, LockInv, FreshInv, [FscNext]_<<feedVars, fscVars>>
  PROVE  FreshInv'
<1>1. TypeInv' /\ Kept(quarters')
  BY TypeStep
<1>2. ASSUME Len(forecasts') >= Len(forecasts), UNCHANGED <<results, client>>  PROVE FreshInv'
  <2>1. ASSUME NEW c \in Clients
        PROVE  FreshIn(client[c], quarters', Len(forecasts'), results')
    BY <1>1, <1>2, Typed, FreshStays DEF FreshInv
  <2> QED  BY <1>2, <2>1 DEF FreshInv
<1>3. Len(forecasts) >= Len(forecasts)
  BY DEF TypeInv, FeedInv
<1>4. CASE FeedNext /\ UNCHANGED fscVars
  BY <1>2, <1>4, FeedTyped DEF fscVars
<1>5. ASSUME NEW c \in Clients, Request(c), UNCHANGED feedVars  PROVE FreshInv'
  BY <1>1, <1>5, FreshReader, FreshRecompute, FreshPast DEF Request
<1>6. ASSUME \/ \E force \in BOOLEAN : Rollover(force)
             \/ \E q \in Quarters : Activate(q)
             \/ Tick,
             UNCHANGED feedVars
      PROVE  FreshInv'
  BY <1>2, <1>3, <1>6 DEF Rollover, Activate, Tick, feedVars
<1>7. CASE UNCHANGED <<feedVars, fscVars>>
  BY <1>2, <1>3, <1>7 DEF feedVars, fscVars
<1> QED  BY <1>4, <1>5, <1>6, <1>7 DEF FscNext, Serve

\* A request that was not told of a failure, and whose quarter has stayed
\* active, answers with a result that is at least as new as the newest
\* forecast there was when it came (ensureFscForLatestForecast), whatever
\* other requests, rollovers and forecasts come between its steps.
THEOREM AnswersAreFresh == FscSpec => []FreshAnswers
<1>1. FscInit => FreshInv
  BY FreshIdle DEF FscInit, FreshInv
<1>2. TypeInv /\ LockInv /\ FreshInv /\ [FscNext]_<<feedVars, fscVars>> => FreshInv'
  BY FreshStep
<1>3. FreshInv => FreshAnswers
  BY DEF FreshInv, FreshIn, FreshAnswers
<1> QED  BY <1>1, <1>2, <1>3, Typing, Locking, PTL DEF FscSpec
-----------------------------------------------------------------------------
(* Duplicates.                                                             *)

\* With n forecasts and the results rs: what a reader has looked up when it
\* goes on to recompute, and all results up to that, are from forecasts older
\* than the newest, and than the one it then takes.
OlderIn(x, rs, n) == \A i \in DOMAIN rs : i <= x.answer => rs[i].forecast < n

LaterIn(x, n, rs) ==
  /\ x.answer # 0 => x.answer \in DOMAIN rs
  /\ x.pc \in {"absent", "past"} => ~x.refresh
  /\ x.refresh /\ x.pc \in {"targeting", "waiting"} => OlderIn(x, rs, n)
  /\ x.refresh /\ x.pc = "computing" => OlderIn(x, rs, x.forecast)

LaterInv == \A c \in Clients : LaterIn(client[c], Len(forecasts), results)

\* It stays so while others work, as results and forecasts are only added.
LEMMA OlderStays ==
  ASSUME results \in Seq(ResultType),
         NEW x \in ClientType, x.answer # 0 => x.answer \in DOMAIN results,
         \A i \in DOMAIN results : i \in DOMAIN results' /\ results'[i] = results[i],
         results' \in Seq(ResultType),
         NEW n \in Nat, NEW m \in Nat, n <= m, OlderIn(x, results, n)
  PROVE  OlderIn(x, results', m)
<1>1. x.answer \in Nat
  BY Bounds DEF ClientType
<1>2. ASSUME NEW i \in DOMAIN results', i <= x.answer  PROVE results'[i].forecast < m
  <2>1. i \in Nat /\ i > 0
    OBVIOUS
  <2>2. x.answer # 0
    BY <1>1, <1>2, <2>1
  <2>3. i \in DOMAIN results
    BY <1>1, <1>2, <2>1, <2>2
  <2>4. results'[i] = results[i] /\ results[i].forecast < n
    BY <1>2, <2>3 DEF OlderIn
  <2>5. results[i].forecast \in Nat
    <3>1. results[i] \in ResultType
      BY <2>3, ElementOfSeq
    <3> QED  BY <3>1, Bounds DEF ResultType
  <2> QED  BY <2>4, <2>5
<1> QED  BY <1>2 DEF OlderIn

LEMMA LaterStays ==
  ASSUME TypeInv, TypeInv', NEW x \in ClientType, LaterIn(x, Len(forecasts), results),
         Len(forecasts') >= Len(forecasts),
         \A i \in DOMAIN results : i \in DOMAIN results' /\ results'[i] = results[i]
  PROVE  LaterIn(x, Len(forecasts'), results')
<1>1. /\ results \in Seq(ResultType) /\ results' \in Seq(ResultType)
      /\ Len(forecasts) \in Nat /\ Len(forecasts') \in Nat /\ x.forecast \in Nat
  <2>1. results \in Seq(ResultType) /\ results' \in Seq(ResultType)
    BY DEF TypeInv, FscTypeOK
  <2>2. Len(forecasts) \in Nat /\ Len(forecasts') \in Nat
    BY DEF TypeInv, FeedInv
  <2>3. x.forecast \in Nat
    BY Bounds DEF ClientType
  <2> QED  BY <2>1, <2>2, <2>3
<1>2. x.answer # 0 => x.answer \in DOMAIN results
  BY DEF LaterIn
<1>3. OlderIn(x, results, Len(forecasts)) => OlderIn(x, results', Len(forecasts'))
  BY <1>1, <1>2, OlderStays
<1>4. OlderIn(x, results, x.forecast) => OlderIn(x, results', x.forecast)
  BY <1>1, <1>2, OlderStays
<1>5. x.answer # 0 => x.answer \in DOMAIN results'
  BY <1>2
<1>6. x.refresh /\ x.pc \in {"targeting", "waiting"} => OlderIn(x, results', Len(forecasts'))
  BY <1>3 DEF LaterIn
<1>7. x.refresh /\ x.pc = "computing" => OlderIn(x, results', x.forecast)
  BY <1>4 DEF LaterIn
<1>8. x.pc \in {"absent", "past"} => ~x.refresh
  BY DEF LaterIn
<1> QED  BY ONLY <1>5, <1>6, <1>7, <1>8 DEF LaterIn

\* A step of one request keeps it for all if it keeps it for that one.
LEMMA LaterKept ==
  ASSUME TypeInv, TypeInv', LaterInv, UNCHANGED forecasts,
         \A i \in DOMAIN results : i \in DOMAIN results' /\ results'[i] = results[i],
         NEW c \in Clients, NEW r, client' = [client EXCEPT ![c] = r],
         LaterIn(r, Len(forecasts), results')
  PROVE  LaterInv'
<1>1. client \in [Clients -> ClientType]
  BY DEF TypeInv, FscTypeOK
<1>2. ASSUME NEW d \in Clients  PROVE LaterIn(client'[d], Len(forecasts'), results')
  <2>1. CASE d = c
    BY <1>1, <2>1
  <2>2. CASE d # c
    <3>1. client'[d] = client[d] /\ client[d] \in ClientType
      BY <1>1, <2>2
    <3>2. Len(forecasts') >= Len(forecasts)
      BY DEF TypeInv, FeedInv
    <3>3. LaterIn(client[d], Len(forecasts'), results')
      BY <3>1, <3>2, LaterStays DEF LaterInv
    <3> QED  BY <3>1, <3>3
  <2> QED  BY <2>1, <2>2
<1> QED  BY <1>2 DEF LaterInv

\* The steps of a reader up to a recomputation.
LEMMA LaterReader ==
  ASSUME TypeInv, TypeInv', LockInv, LaterInv, UNCHANGED feedVars,
         NEW c \in Clients,
         \/ LookUp(c) \/ CheckActive(c) \/ CheckStale(c) \/ LookAgain(c)
  PROVE  LaterInv'
<1>1. /\ client[c] \in ClientType /\ results \in Seq(ResultType) /\ Len(results) <= MaxResults
      /\ Len(forecasts) \in 0..MaxRuns
      /\ LaterIn(client[c], Len(forecasts), results)
  BY Typed DEF LaterInv
<1>2. UNCHANGED <<forecasts, results>>
  BY DEF feedVars, LookUp, CheckActive, CheckStale, LookAgain
<1>3. ASSUME NEW r, client' = [client EXCEPT ![c] = r], LaterIn(r, Len(forecasts), results)
      PROVE  LaterInv'
  BY <1>2, <1>3, LaterKept
<1>4. ASSUME LookUp(c) \/ LookAgain(c)  PROVE LaterInv'
  <2>1. PICK pc \in {"looked", "answered"} :
          client' = [client EXCEPT ![c] =
            [client[c] EXCEPT !.pc = pc, !.answer = NewestResult(client[c].quarter)]]
    BY <1>4 DEF LookUp, LookAgain
  <2> DEFINE r == [client[c] EXCEPT !.pc = pc, !.answer = NewestResult(client[c].quarter)]
  <2>2. r.answer # 0 => r.answer \in DOMAIN results
    BY <1>1, NewestFound DEF ClientType
  <2>3. r.pc = pc
    BY <1>1 DEF ClientType
  <2>4. LaterIn(r, Len(forecasts), results)
    BY <2>2, <2>3 DEF LaterIn
  <2> HIDE DEF r
  <2> QED  BY <1>3, <2>1, <2>4 DEF r
<1>5. ASSUME CheckActive(c)  PROVE LaterInv'
  <2> DEFINE r == [client[c] EXCEPT !.pc =
                     IF quarters[client[c].quarter] = "active" THEN "active" ELSE "answered"]
  <2>1. LaterIn(r, Len(forecasts), results)
    BY <1>1 DEF ClientType, LaterIn
  <2>2. client' = [client EXCEPT ![c] = r]
    BY <1>5 DEF CheckActive
  <2> HIDE DEF r
  <2> QED  BY <1>3, <2>1, <2>2
<1>6. ASSUME CheckStale(c)  PROVE LaterInv'
  <2> DEFINE r == [client[c] EXCEPT !.pc =
                     IF forecasts # <<>> /\ Stale(client[c].answer) THEN "targeting" ELSE "answered"]
             a == client[c].answer
  <2>1. /\ r.answer = a /\ r.pc \in {"targeting", "answered"}
        /\ r.pc = "targeting" => Stale(a)
    BY <1>1 DEF ClientType
  <2>2. a \in Nat /\ (a # 0 => a \in DOMAIN results)
    BY <1>1, Bounds DEF LaterIn, ClientType
  <2>3. client' = [client EXCEPT ![c] = r]
    BY <1>6 DEF CheckStale
  <2> HIDE DEF r, a
  <2>4. ASSUME Stale(a), NEW i \in DOMAIN results, i <= a
        PROVE  results[i].forecast < Len(forecasts)
    <3>1. a \in DOMAIN results
      <4>1. i \in Nat /\ i > 0
        BY <1>1
      <4> QED  BY <2>2, <2>4, <4>1
    <3>2. results[i].forecast <= results[a].forecast /\ results[a].forecast <= Len(forecasts)
      BY <2>4, <3>1 DEF LockInv
    <3>3. results[a].forecast # Len(forecasts)
      <4>1. a # 0
        BY <1>1, <3>1
      <4> QED  BY <2>4, <4>1 DEF Stale
    <3>4. results[i] \in ResultType /\ results[a] \in ResultType
      BY <1>1, <2>4, <3>1, ElementOfSeq
    <3>5. results[i].forecast \in Nat /\ results[a].forecast \in Nat /\ Len(forecasts) \in Nat
      BY <1>1, <3>4, Bounds DEF ResultType
    <3>6. \A x, y, z \in Nat : x <= y /\ y <= z /\ y # z => x < z
      OBVIOUS
    <3> QED  BY <3>2, <3>3, <3>5, <3>6
  <2>5. LaterIn(r, Len(forecasts), results)
    BY <2>1, <2>2, <2>4 DEF LaterIn, OlderIn
  <2> QED  BY <1>3, <2>3, <2>5
<1> QED  BY <1>4, <1>5, <1>6

\* The steps of a recomputation.
LEMMA LaterRecompute ==
  ASSUME TypeInv, TypeInv', LaterInv, UNCHANGED feedVars, NEW c \in Clients,
         \/ Target(c) \/ RecomputeStart(c) \/ RecomputeFinish(c) \/ RecomputeFail(c)
  PROVE  LaterInv'
<1>1. /\ client[c] \in ClientType /\ results \in Seq(ResultType) /\ results' \in Seq(ResultType)
      /\ LaterIn(client[c], Len(forecasts), results)
  BY Typed DEF LaterInv, TypeInv, FscTypeOK
<1>2. ASSUME UNCHANGED results, NEW r, client' = [client EXCEPT ![c] = r],
             LaterIn(r, Len(forecasts), results)
      PROVE  LaterInv'
  BY <1>2, LaterKept DEF feedVars
<1>3. ASSUME Target(c)  PROVE LaterInv'
  <2> DEFINE r == [client[c] EXCEPT !.pc = "waiting", !.target = EnsuredQuarter]
  <2>1. client[c].pc = "targeting"
    BY <1>3 DEF Target
  <2>2. LaterIn(r, Len(forecasts), results)
    BY <1>1, <2>1 DEF ClientType, LaterIn, OlderIn
  <2>3. client' = [client EXCEPT ![c] = r] /\ UNCHANGED results
    BY <1>3 DEF Target
  <2> HIDE DEF r
  <2> QED  BY <1>2, <2>2, <2>3
<1>4. ASSUME RecomputeStart(c)  PROVE LaterInv'
  <2> DEFINE r == [client[c] EXCEPT !.pc = "computing", !.forecast = Len(forecasts)]
  <2>1. client[c].pc = "waiting"
    BY <1>4 DEF RecomputeStart
  <2>2. LaterIn(r, Len(forecasts), results)
    BY <1>1, <2>1 DEF ClientType, LaterIn, OlderIn
  <2>3. client' = [client EXCEPT ![c] = r] /\ UNCHANGED results
    BY <1>4 DEF RecomputeStart
  <2> HIDE DEF r
  <2> QED  BY <1>2, <2>2, <2>3
<1>5. ASSUME RecomputeFinish(c)  PROVE LaterInv'
  <2> DEFINE r == [client[c] EXCEPT !.pc = "recomputed", !.target = 0, !.forecast = 0]
  <2>1. PICK new : results' = Append(results, new)
    BY <1>5 DEF RecomputeFinish
  <2>2. \A i \in DOMAIN results : i \in DOMAIN results' /\ results'[i] = results[i]
    BY <1>1, <2>1
  <2>3. CASE client[c].refresh
    <3>1. client' = [client EXCEPT ![c] = r]
      BY <1>5, <2>3 DEF RecomputeFinish
    <3>2. r.answer = client[c].answer /\ r.pc = "recomputed"
      BY <1>1 DEF ClientType
    <3>3. LaterIn(r, Len(forecasts), results')
      BY <1>1, <2>2, <3>2 DEF LaterIn
    <3> HIDE DEF r
    <3> QED  BY <2>2, <3>1, <3>3, LaterKept DEF feedVars
  <2>4. CASE ~client[c].refresh
    <3>1. client' = [client EXCEPT ![c] = IdleClient]
      BY <1>5, <2>4 DEF RecomputeFinish
    <3>2. LaterIn(IdleClient, Len(forecasts), results')
      BY DEF IdleClient, LaterIn
    <3> QED  BY <2>2, <3>1, <3>2, LaterKept DEF feedVars
  <2> QED  BY <2>3, <2>4
<1>6. ASSUME RecomputeFail(c)  PROVE LaterInv'
  <2> DEFINE r == [client[c] EXCEPT !.pc = "answered", !.failed = TRUE,
                                    !.target = 0, !.forecast = 0]
  <2>1. UNCHANGED results
    BY <1>6 DEF RecomputeFail
  <2>2. LaterIn(r, Len(forecasts), results)
    BY <1>1 DEF ClientType, LaterIn
  <2>3. LaterIn(IdleClient, Len(forecasts), results)
    BY DEF IdleClient, LaterIn
  <2>4. client' = [client EXCEPT ![c] = r] \/ client' = [client EXCEPT ![c] = IdleClient]
    BY <1>6 DEF RecomputeFail
  <2> HIDE DEF r
  <2> QED  BY <1>2, <2>1, <2>2, <2>3, <2>4
<1> QED  BY <1>3, <1>4, <1>5, <1>6

\* The steps that begin or end a request, and those of a backfill.
LEMMA LaterOther ==
  ASSUME TypeInv, TypeInv', LaterInv, UNCHANGED feedVars, NEW c \in Clients,
         \/ \E q \in Quarters : Ask(c, q) \/ FindPast(c, q)
         \/ AskCurrent(c) \/ AskRecompute(c) \/ Answer(c)
         \/ CheckPast(c) \/ CreatePast(c) \/ Die(c)
  PROVE  LaterInv'
<1>1. /\ client[c] \in ClientType /\ results \in Seq(ResultType)
      /\ LaterIn(client[c], Len(forecasts), results)
  BY Typed DEF LaterInv
<1>2. UNCHANGED <<forecasts, results>>
  BY DEF feedVars, Ask, FindPast, AskCurrent, AskRecompute, Answer, CheckPast, CreatePast, Die
<1>3. ASSUME NEW r, client' = [client EXCEPT ![c] = r], LaterIn(r, Len(forecasts), results)
      PROVE  LaterInv'
  BY <1>2, <1>3, LaterKept
<1>4. LaterIn(IdleClient, Len(forecasts), results)
  BY DEF IdleClient, LaterIn
<1>5. ASSUME NEW q \in Quarters, Ask(c, q)  PROVE LaterInv'
  <2> DEFINE r == [IdleClient EXCEPT !.pc = "asked", !.quarter = q, !.refresh = TRUE,
                     !.seen = IF quarters[q] = "active" THEN Len(forecasts) ELSE 0]
  <2>1. r.pc = "asked" /\ r.answer = 0
    BY DEF IdleClient
  <2>2. client' = [client EXCEPT ![c] = r]
    BY <1>5 DEF Ask
  <2> HIDE DEF r
  <2>3. LaterIn(r, Len(forecasts), results)
    BY <2>1 DEF LaterIn
  <2> QED  BY <1>3, <2>2, <2>3
<1>6. ASSUME NEW q \in Quarters, FindPast(c, q)  PROVE LaterInv'
  <2> DEFINE r == [IdleClient EXCEPT
                     !.pc = IF quarters[q] = "none" THEN "absent" ELSE "waiting", !.target = q]
  <2>1. r.answer = 0 /\ ~r.refresh
    BY DEF IdleClient
  <2>2. client' = [client EXCEPT ![c] = r]
    BY <1>6 DEF FindPast
  <2> HIDE DEF r
  <2>3. LaterIn(r, Len(forecasts), results)
    BY <2>1 DEF LaterIn
  <2> QED  BY <1>3, <2>2, <2>3
<1>7. ASSUME AskCurrent(c)  PROVE LaterInv'
  <2> DEFINE r == [IdleClient EXCEPT !.pc = "asked", !.quarter = EnsuredQuarter,
                     !.refresh = TRUE, !.seen = Len(forecasts)]
  <2>1. r.pc = "asked" /\ r.answer = 0
    BY DEF IdleClient
  <2>2. client' = [client EXCEPT ![c] = r]
    BY <1>7 DEF AskCurrent
  <2> HIDE DEF r
  <2>3. LaterIn(r, Len(forecasts), results)
    BY <2>1 DEF LaterIn
  <2> QED  BY <1>3, <2>2, <2>3
<1>8. ASSUME AskRecompute(c)  PROVE LaterInv'
  <2> DEFINE r == [IdleClient EXCEPT !.pc = "targeting"]
  <2>1. r.answer = 0 /\ ~r.refresh
    BY DEF IdleClient
  <2>2. client' = [client EXCEPT ![c] = r]
    BY <1>8 DEF AskRecompute
  <2> HIDE DEF r
  <2>3. LaterIn(r, Len(forecasts), results)
    BY <2>1 DEF LaterIn
  <2> QED  BY <1>3, <2>2, <2>3
<1>9. ASSUME CheckPast(c) \/ CreatePast(c)  PROVE LaterInv'
  <2>1. client[c].pc \in {"absent", "past"}
    BY <1>9 DEF CheckPast, CreatePast
  <2>2. ASSUME NEW pc
        PROVE  LaterIn([client[c] EXCEPT !.pc = pc], Len(forecasts), results)
    BY <1>1, <2>1 DEF ClientType, LaterIn
  <2>3. \/ client' = [client EXCEPT ![c] = IdleClient]
        \/ \E pc \in {"past", "waiting"} :
             client' = [client EXCEPT ![c] = [client[c] EXCEPT !.pc = pc]]
    BY <1>9 DEF CheckPast, CreatePast
  <2> QED  BY <1>3, <1>4, <2>2, <2>3
<1>10. ASSUME Answer(c) \/ Die(c)  PROVE LaterInv'
  BY <1>3, <1>4, <1>10 DEF Answer, Die
<1> QED  BY <1>5, <1>6, <1>7, <1>8, <1>9, <1>10

\* Every step keeps it.
LEMMA LaterStep ==
  ASSUME TypeInv, LockInv, LaterInv, [FscNext]_<<feedVars, fscVars>>
  PROVE  LaterInv'
<1>1. TypeInv'
  BY TypeStep
<1>2. ASSUME Len(forecasts') >= Len(forecasts), UNCHANGED <<results, client>>  PROVE LaterInv'
  <2>1. ASSUME NEW c \in Clients
        PROVE  LaterIn(client[c], Len(forecasts'), results')
    BY <1>1, <1>2, Typed, LaterStays DEF LaterInv
  <2> QED  BY <1>2, <2>1 DEF LaterInv
<1>3. Len(forecasts) >= Len(forecasts)
  BY DEF TypeInv, FeedInv
<1>4. CASE FeedNext /\ UNCHANGED fscVars
  BY <1>2, <1>4, FeedTyped DEF fscVars
<1>5. ASSUME NEW c \in Clients, Request(c), UNCHANGED feedVars  PROVE LaterInv'
  BY <1>1, <1>5, LaterReader, LaterRecompute, LaterOther DEF Request
<1>6. ASSUME \/ \E force \in BOOLEAN : Rollover(force)
             \/ \E q \in Quarters : Activate(q)
             \/ Tick,
             UNCHANGED feedVars
      PROVE  LaterInv'
  BY <1>2, <1>3, <1>6 DEF Rollover, Activate, Tick, feedVars
<1>7. CASE UNCHANGED <<feedVars, fscVars>>
  BY <1>2, <1>3, <1>7 DEF feedVars, fscVars
<1> QED  BY <1>4, <1>5, <1>6, <1>7 DEF FscNext, Serve

\* A reader about to compute a result that its quarter already has had looked
\* before that was added (ensureFscForLatestForecast looks and compares before
\* it waits for the lock): results of one quarter and one forecast come only
\* from requests that overlap, or from those that ask for them.
THEOREM DuplicatesComeTogether == FscSpec => []DuplicatesOverlap
<1>1. FscInit => LaterInv
  BY DEF FscInit, LaterInv, LaterIn, IdleClient
<1>2. TypeInv /\ LockInv /\ LaterInv /\ [FscNext]_<<feedVars, fscVars>> => LaterInv'
  BY LaterStep
<1>3. TypeInv /\ LaterInv => DuplicatesOverlap
  <2> SUFFICES ASSUME TypeInv, LaterInv, NEW c \in Clients,
                      client[c].pc = "computing", client[c].refresh,
                      NEW i \in DOMAIN results, results[i].forecast = client[c].forecast
               PROVE  i > client[c].answer
    BY DEF DuplicatesOverlap
  <2>1. OlderIn(client[c], results, client[c].forecast)
    BY DEF LaterInv, LaterIn
  <2>2. client[c] \in ClientType /\ results[i] \in ResultType /\ results \in Seq(ResultType)
    BY ElementOfSeq DEF TypeInv, FscTypeOK
  <2>3. client[c].answer \in Nat /\ i \in Nat /\ results[i].forecast \in Nat
    BY <2>2, Bounds DEF ClientType, ResultType
  <2>4. ~(i <= client[c].answer)
    BY <2>1, <2>3 DEF OlderIn
  <2> QED  BY <2>3, <2>4
<1> QED  BY <1>1, <1>2, <1>3, Typing, Locking, PTL DEF FscSpec
=============================================================================
