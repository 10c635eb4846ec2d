------------------------------ MODULE Worker_proofs ------------------------------
(***************************************************************************)
(* Proofs about the scheduled worker and the two tasks it runs, for any    *)
(* number of workers, scripts, providers, codes, kinds, periods and days:  *)
(* the synchronisation of the indicators, whatever fails or dies; the      *)
(* caches of Opinet's series; and that the page tells the truth about the  *)
(* data (HealthIsTrue).  The invariant of the last joins those of the two  *)
(* tasks, whose steps the steps of the worker are, with three facts of its *)
(* own: the state of a code tells only of observations that are stored,    *)
(* the official week is a published one, and the dates are days.  From it  *)
(* the property is arithmetic on business days.                            *)
(***************************************************************************)
EXTENDS Worker, NumberLemmas, FiniteSetTheorems, TLAPS

-----------------------------------------------------------------------------
(* The synchronisation: the inductive invariant.                           *)

\* Between two providers a task is at none in particular; while it works it is
\* at one of them, and one that ended without a failure has seen them all.
AtProvider ==
  \A t \in Tasks :
    /\ sync[t].pc \in {"checked", "fetched", "filtered", "read", "created"} =>
         sync[t].at \in DOMAIN Providers
    /\ sync[t].pc = "done" /\ ~sync[t].failed => sync[t].at > Len(Providers)

\* The newest observation of a response is on its way to the store: kept by the
\* filter, to be created unless it has a row, and stored when success may be
\* recorded.
NewestIsKept(t, c, d) ==
  /\ sync[t].pc = "filtered" => \E x \in sync[t].kept : x.code = c /\ x.day = d
  /\ sync[t].pc = "read" =>
       history[c][d] # 0 \/ \E x \in sync[t].kept : x.code = c /\ x.day = d
  /\ sync[t].pc = "created" => history[c][d] # 0

NewestStored ==
  \A t \in Tasks : \A c \in Codes : \A d \in MarketDays :
    /\ sync[t].pc \in {"filtered", "read", "created"}
    /\ c \in Requested(t) /\ IsNewest(d, DaysOf(c, sync[t].points))
    => NewestIsKept(t, c, d)

\* The providers a task has left behind have a state and, if none failed, an
\* observation.
ProvidersAsked ==
  \A t \in Tasks : \A i \in DOMAIN Providers : i < sync[t].at =>
    \A c \in CodesOf[Providers[i]] :
      /\ syncState[c].status # "none"
      /\ ~sync[t].failed => Stored(c) # {}

SyncInv == SyncTypeOK /\ AtProvider /\ NewestStored /\ ProvidersAsked

-----------------------------------------------------------------------------
(* ... facts about its operators.                                          *)

LEMMA ProvidersLength ==
  Len(Providers) \in Nat /\ DOMAIN Providers = 1..Len(Providers)
BY SyncAssumption

LEMMA RequestedCodes ==
  ASSUME NEW i \in DOMAIN Providers
  PROVE  CodesOf[Providers[i]] \subseteq Codes
BY DEF Codes

LEMMA IdleType == IdleSync \in SyncType
BY ProvidersLength DEF IdleSync, SyncType, Progress

\* The next provider is one, or past the last.
LEMMA NextType ==
  ASSUME SyncTypeOK, NEW t \in Tasks, sync[t].at \in DOMAIN Providers
  PROVE  /\ NextProvider(t) \in SyncType
         /\ NextProvider(t).at = sync[t].at + 1
         /\ NextProvider(t).pc = "begin"
         /\ NextProvider(t).failed = sync[t].failed
<1>1. sync[t] \in SyncType
  BY DEF SyncTypeOK
<1>2. sync[t].at + 1 \in 1..(Len(Providers) + 1)
  BY ProvidersLength
<1> QED  BY <1>1, <1>2 DEF NextProvider, SyncType, Progress

LEMMA QuotedType ==
  ASSUME NEW c \in Codes, NEW upto
  PROVE  Quoted(c, upto) \in SUBSET PointType
<1> DEFINE version(d) == IF <<c, d>> \in market.revised THEN 2 ELSE 1
<1>1. \A d : version(d) \in Versions
  BY DEF Versions
<1>2. Quoted(c, upto) =
        {[code |-> c, day |-> d, version |-> version(d)] :
           d \in {x \in MarketDays : x <= market.newest /\ x <= upto}}
  BY DEF Quoted
<1> HIDE DEF version
<1> QED  BY <1>1, <1>2 DEF PointType

\* Marking the codes of a provider keeps the type of the board, and gives
\* every code that had a state, and every code of the provider, one.
LEMMA MarkedBoard ==
  ASSUME SyncTypeOK, NEW t \in Tasks, NEW status \in {"checking", "failed"},
         syncState' = Marked(t, status)
  PROVE  /\ syncState' \in [Codes -> StateType]
         /\ \A c \in Codes : syncState[c].status # "none" => syncState'[c].status # "none"
         /\ \A c \in Codes : c \in Requested(t) => syncState'[c].status # "none"
<1>1. syncState \in [Codes -> StateType]
  BY DEF SyncTypeOK
<1> QED  BY <1>1 DEF Marked, StateType

\* A task that has gone through a step that keeps the store and the board, and
\* the provider it is at, keeps the last invariant.
LEMMA AskedKept ==
  ASSUME SyncTypeOK, ProvidersAsked, NEW t \in Tasks, NEW S \in SyncType,
         sync' = [sync EXCEPT ![t] = S],
         S.at = 1 \/ (S.at = sync[t].at /\ (sync[t].failed => S.failed)),
         \A c \in Codes : syncState[c].status # "none" => syncState'[c].status # "none",
         \A c \in Codes : Stored(c) \subseteq Stored(c)'
  PROVE  ProvidersAsked'
<1> SUFFICES ASSUME NEW u \in Tasks, NEW i \in DOMAIN Providers, i < sync'[u].at,
                    NEW c \in CodesOf[Providers[i]]
             PROVE  /\ syncState'[c].status # "none"
                    /\ ~sync'[u].failed => Stored(c)' # {}
  BY DEF ProvidersAsked
<1>1. c \in Codes
  BY RequestedCodes
<1>2. sync \in [Tasks -> SyncType]
  BY DEF SyncTypeOK
<1>3. i \in Nat /\ i >= 1
  BY ProvidersLength
<1>4. i < sync[u].at /\ (sync[u].failed => sync'[u].failed)
  BY <1>2, <1>3
<1> QED  BY <1>1, <1>4 DEF ProvidersAsked
-----------------------------------------------------------------------------
(* ... its steps.                                                          *)

LEMMA SyncInvInit == SyncInit => SyncInv
<1> SUFFICES ASSUME SyncInit  PROVE SyncInv
  OBVIOUS
<1>1. \A t \in Tasks : sync[t] = IdleSync
  BY DEF SyncInit
<1>2. SyncTypeOK
  <2>1. market \in [newest : MarketDays \union {0}, revised : SUBSET (Codes \X MarketDays)]
    BY DEF SyncInit
  <2>2. history \in [Codes -> [MarketDays -> 0..2]]
    BY DEF SyncInit
  <2>3. syncState \in [Codes -> StateType]
    BY DEF SyncInit, StateType
  <2>4. sync \in [Tasks -> SyncType]
    BY IdleType DEF SyncInit
  <2> QED  BY <2>1, <2>2, <2>3, <2>4 DEF SyncTypeOK
<1>3. AtProvider
  BY <1>1 DEF AtProvider, IdleSync
<1>4. NewestStored
  BY <1>1 DEF NewestStored, IdleSync
<1>5. ProvidersAsked
  <2>1. \A i \in DOMAIN Providers : ~(i < 1)
    BY ProvidersLength
  <2> QED  BY <1>1, <2>1 DEF ProvidersAsked, IdleSync
<1> QED  BY <1>2, <1>3, <1>4, <1>5 DEF SyncInv

\* A step of one task that leaves store and board alone keeps the invariant
\* when the new state of the task meets its part of it.
LEMMA TaskStep ==
  ASSUME SyncInv, NEW t \in Tasks, NEW S \in SyncType,
         sync' = [sync EXCEPT ![t] = S], UNCHANGED <<market, history, syncState>>,
         S.at = 1 \/ (S.at = sync[t].at /\ (sync[t].failed => S.failed)),
         S.pc \in {"checked", "fetched", "filtered", "read", "created"} =>
           S.at \in DOMAIN Providers,
         S.pc = "done" /\ ~S.failed => S.at > Len(Providers),
         S.pc \in {"filtered", "read", "created"} =>
           \A c \in Codes : \A d \in MarketDays :
             c \in CodesOf[Providers[S.at]] /\ IsNewest(d, DaysOf(c, S.points)) =>
               /\ S.pc = "filtered" => \E x \in S.kept : x.code = c /\ x.day = d
               /\ S.pc = "read" =>
                    history[c][d] # 0 \/ \E x \in S.kept : x.code = c /\ x.day = d
               /\ S.pc = "created" => history[c][d] # 0
  PROVE  SyncInv'
<1>0. SyncTypeOK /\ AtProvider /\ NewestStored /\ ProvidersAsked
  BY DEF SyncInv
<1>1. sync \in [Tasks -> SyncType]
  BY <1>0 DEF SyncTypeOK
<1>2. \A u \in Tasks : sync'[u] = IF u = t THEN S ELSE sync[u]
  BY <1>1
<1>3. SyncTypeOK'
  <2>1. sync' \in [Tasks -> SyncType]
    BY <1>1
  <2> QED  BY <1>0, <2>1 DEF SyncTypeOK
<1>4. AtProvider'
  BY <1>0, <1>2 DEF AtProvider
<1>5. NewestStored'
  <2> SUFFICES ASSUME NEW u \in Tasks, NEW c \in Codes, NEW d \in MarketDays,
                      sync'[u].pc \in {"filtered", "read", "created"},
                      c \in Requested(u)', IsNewest(d, DaysOf(c, sync'[u].points))
               PROVE  NewestIsKept(u, c, d)'
    BY DEF NewestStored
  <2>1. CASE u = t
    <3>1. sync'[u] = S /\ c \in CodesOf[Providers[S.at]]
      BY <1>2, <2>1 DEF Requested
    <3> QED  BY <3>1 DEF NewestIsKept
  <2>2. CASE u # t
    <3>1. sync'[u] = sync[u] /\ c \in Requested(u)
      BY <1>2, <2>2 DEF Requested
    <3>2. NewestIsKept(u, c, d)
      BY <1>0, <3>1 DEF NewestStored
    <3> QED  BY <3>1, <3>2 DEF NewestIsKept
  <2> QED  BY <2>1, <2>2
<1>6. ProvidersAsked'
  <2>1. \A c \in Codes : Stored(c) \subseteq Stored(c)'
    BY DEF Stored
  <2> QED  BY <1>0, <2>1, AskedKept
<1> QED  BY <1>3, <1>4, <1>5, <1>6 DEF SyncInv

\* A step of one task that changes the board keeps the invariant when no state
\* is taken away and the codes of a provider that is left behind have one.
LEMMA BoardStep ==
  ASSUME SyncInv, NEW t \in Tasks, NEW S \in SyncType,
         sync' = [sync EXCEPT ![t] = S], UNCHANGED <<market, history>>,
         S.pc \in {"checked", "begin"},
         S.pc = "checked" => S.at \in DOMAIN Providers,
         sync[t].failed => S.failed,
         syncState' \in [Codes -> StateType],
         \A c \in Codes : syncState[c].status # "none" => syncState'[c].status # "none",
         \/ S.at = sync[t].at
         \/ /\ S.at = sync[t].at + 1
            /\ \A c \in Requested(t) :
                 /\ syncState'[c].status # "none"
                 /\ ~S.failed => Stored(c) # {}
  PROVE  SyncInv'
<1>0. SyncTypeOK /\ AtProvider /\ NewestStored /\ ProvidersAsked
  BY DEF SyncInv
<1>1. sync \in [Tasks -> SyncType]
  BY <1>0 DEF SyncTypeOK
<1>2. \A u \in Tasks : sync'[u] = IF u = t THEN S ELSE sync[u]
  BY <1>1
<1>3. SyncTypeOK'
  <2>1. sync' \in [Tasks -> SyncType]
    BY <1>1
  <2> QED  BY <1>0, <2>1 DEF SyncTypeOK
<1>4. AtProvider'
  BY <1>0, <1>2 DEF AtProvider
<1>5. NewestStored'
  <2> SUFFICES ASSUME NEW u \in Tasks, NEW c \in Codes, NEW d \in MarketDays,
                      sync'[u].pc \in {"filtered", "read", "created"},
                      c \in Requested(u)', IsNewest(d, DaysOf(c, sync'[u].points))
               PROVE  NewestIsKept(u, c, d)'
    BY DEF NewestStored
  <2>1. sync'[u] = sync[u]
    BY <1>2
  <2>2. c \in Requested(u)
    BY <2>1 DEF Requested
  <2>3. NewestIsKept(u, c, d)
    BY <1>0, <2>1, <2>2 DEF NewestStored
  <2> QED  BY <2>1, <2>3 DEF NewestIsKept
<1>6. ProvidersAsked'
  <2> SUFFICES ASSUME NEW u \in Tasks, NEW i \in DOMAIN Providers, i < sync'[u].at,
                      NEW c \in CodesOf[Providers[i]]
               PROVE  /\ syncState'[c].status # "none"
                      /\ ~sync'[u].failed => Stored(c)' # {}
    BY DEF ProvidersAsked
  <2>1. c \in Codes /\ Stored(c)' = Stored(c)
    BY RequestedCodes DEF Stored
  <2>2. CASE i < sync[u].at
    <3>1. /\ syncState[c].status # "none"
          /\ ~sync[u].failed => Stored(c) # {}
      BY <1>0, <2>2 DEF ProvidersAsked
    <3>2. sync[u].failed => sync'[u].failed
      BY <1>2
    <3> QED  BY <2>1, <3>1, <3>2
  <2>3. CASE ~(i < sync[u].at)
    <3>1. u = t /\ sync'[u] = S
      BY <1>2, <2>3
    <3>2. i \in Nat /\ sync[t].at \in Nat
      BY <1>1, ProvidersLength DEF SyncType
    <3>3. i = sync[t].at /\ S.at = sync[t].at + 1
      BY <2>3, <3>1, <3>2
    <3>4. c \in Requested(t)
      BY <3>3 DEF Requested
    <3> QED  BY <2>1, <3>1, <3>2, <3>3, <3>4
  <2> QED  BY <2>2, <2>3
<1> QED  BY <1>3, <1>4, <1>5, <1>6 DEF SyncInv

\* A step of one task that writes rows keeps the invariant when no row is
\* taken away.
LEMMA StoreStep ==
  ASSUME SyncInv, NEW t \in Tasks, NEW S \in SyncType,
         sync' = [sync EXCEPT ![t] = S], UNCHANGED <<market, syncState>>,
         S.pc = "created", S.at = sync[t].at, S.points = sync[t].points,
         S.failed = sync[t].failed, S.at \in DOMAIN Providers,
         history' \in [Codes -> [MarketDays -> 0..2]],
         \A c \in Codes : \A d \in MarketDays : history[c][d] # 0 => history'[c][d] # 0,
         \A c \in Codes : \A d \in MarketDays :
           c \in Requested(t) /\ IsNewest(d, DaysOf(c, sync[t].points))
             => history'[c][d] # 0
  PROVE  SyncInv'
<1>0. SyncTypeOK /\ AtProvider /\ NewestStored /\ ProvidersAsked
  BY DEF SyncInv
<1>1. sync \in [Tasks -> SyncType]
  BY <1>0 DEF SyncTypeOK
<1>2. \A u \in Tasks : sync'[u] = IF u = t THEN S ELSE sync[u]
  BY <1>1
<1>3. SyncTypeOK'
  <2>1. sync' \in [Tasks -> SyncType]
    BY <1>1
  <2> QED  BY <1>0, <2>1 DEF SyncTypeOK
<1>4. AtProvider'
  BY <1>0, <1>2 DEF AtProvider
<1>5. NewestStored'
  <2> SUFFICES ASSUME NEW u \in Tasks, NEW c \in Codes, NEW d \in MarketDays,
                      sync'[u].pc \in {"filtered", "read", "created"},
                      c \in Requested(u)', IsNewest(d, DaysOf(c, sync'[u].points))
               PROVE  NewestIsKept(u, c, d)'
    BY DEF NewestStored
  <2>1. CASE u = t
    <3>1. sync'[u] = S /\ c \in Requested(t)
      BY <1>2, <2>1 DEF Requested
    <3> QED  BY <2>1, <3>1 DEF NewestIsKept
  <2>2. CASE u # t
    <3>1. sync'[u] = sync[u] /\ c \in Requested(u)
      BY <1>2, <2>2 DEF Requested
    <3>2. NewestIsKept(u, c, d)
      BY <1>0, <3>1 DEF NewestStored
    <3> QED  BY <3>1, <3>2 DEF NewestIsKept
  <2> QED  BY <2>1, <2>2
<1>6. ProvidersAsked'
  <2>1. \A c \in Codes : Stored(c) \subseteq Stored(c)'
    BY DEF Stored
  <2> QED  BY <1>0, <2>1, AskedKept
<1> QED  BY <1>3, <1>4, <1>5, <1>6 DEF SyncInv

\* What the filter keeps has the newest observation of every code, since a
\* response that ends before what is stored is refused.
LEMMA FilterKeepsNewest ==
  ASSUME SyncTypeOK, NEW t \in Tasks, FilterPoints(t), NEW c \in Requested(t),
         NEW d \in MarketDays, IsNewest(d, DaysOf(c, sync[t].points))
  PROVE  \E x \in Kept(sync[t].points) : x.code = c /\ x.day = d
<1>1. PICK e \in DaysOf(c, sync[t].points) : \A s \in Stored(c) : s <= e
  BY DEF FilterPoints
<1>2. PICK x \in sync[t].points : x.code = c /\ x.day = d
  BY DEF IsNewest, DaysOf, PointsOf
<1>3. sync[t].points \subseteq PointType
  BY DEF SyncTypeOK, SyncType
<1>4. e \in Nat /\ e <= d /\ d \in Nat
  BY <1>1, <1>3, SyncAssumption DEF IsNewest, DaysOf, PointsOf, PointType
<1>5. \A s \in Stored(c) : s \in Nat
  BY SyncAssumption DEF Stored
<1>6. \A s \in Stored(x.code) : s <= x.day
  BY <1>1, <1>2, <1>4, <1>5
<1> QED  BY <1>2, <1>6 DEF Kept

\* The actions that touch neither the store nor the board.
LEMMA WaitingStep ==
  ASSUME SyncInv, NEW t \in Tasks,
         \/ BeginSync(t) \/ FetchHistory(t) \/ FilterPoints(t) \/ ReadRows(t)
         \/ FinishSync(t) \/ AbortSync(t) \/ EndSync(t)
  PROVE  SyncInv'
<1>0. SyncTypeOK /\ AtProvider /\ NewestStored /\ ProvidersAsked
  BY DEF SyncInv
<1>a. sync[t] \in SyncType
  BY <1>0 DEF SyncTypeOK
<1>b. sync[t].at \in 1..(Len(Providers) + 1) /\ DOMAIN Providers = 1..Len(Providers)
      /\ Len(Providers) \in Nat
  BY <1>a, ProvidersLength DEF SyncType
<1>1. CASE BeginSync(t)
  <2> DEFINE S == [sync[t] EXCEPT !.pc = "begin"]
  <2>1. S \in SyncType /\ S.at = sync[t].at /\ S.failed = sync[t].failed /\ S.pc = "begin"
    BY <1>a DEF SyncType, Progress
  <2>2. sync' = [sync EXCEPT ![t] = S] /\ UNCHANGED <<market, history, syncState>>
    BY <1>1 DEF BeginSync
  <2> HIDE DEF S
  <2> QED  BY <2>1, <2>2, TaskStep
<1>2. CASE FetchHistory(t)
  <2>1. PICK upto \in [Requested(t) -> {0, market.newest - 1, market.newest}] :
          sync' = [sync EXCEPT ![t].pc = "fetched",
            ![t].points = UNION {Quoted(c, upto[c]) : c \in Requested(t)}]
    BY <1>2 DEF FetchHistory
  <2> DEFINE P == UNION {Quoted(c, upto[c]) : c \in Requested(t)}
             S == [sync[t] EXCEPT !.pc = "fetched", !.points = P]
  <2>2. sync[t].at \in DOMAIN Providers
    BY <1>0, <1>2 DEF AtProvider, FetchHistory
  <2>3. P \in SUBSET PointType
    BY <2>2, QuotedType, RequestedCodes DEF Requested
  <2>4. sync' = [sync EXCEPT ![t] = S] /\ UNCHANGED <<market, history, syncState>>
    BY <1>2, <2>1 DEF FetchHistory
  <2> HIDE DEF P
  <2>5. S \in SyncType /\ S.at = sync[t].at /\ S.failed = sync[t].failed /\ S.pc = "fetched"
    BY <1>a, <2>3 DEF SyncType, Progress
  <2> HIDE DEF S
  <2> QED  BY <2>2, <2>4, <2>5, TaskStep
<1>3. CASE FilterPoints(t)
  <2> DEFINE S == [sync[t] EXCEPT !.pc = "filtered", !.kept = Kept(sync[t].points)]
  <2>1. sync[t].at \in DOMAIN Providers
    BY <1>0, <1>3 DEF AtProvider, FilterPoints
  <2>2. Kept(sync[t].points) \in SUBSET PointType
    BY <1>a DEF Kept, SyncType
  <2>3. sync' = [sync EXCEPT ![t] = S] /\ UNCHANGED <<market, history, syncState>>
    BY <1>3 DEF FilterPoints
  <2>4. /\ S \in SyncType /\ S.at = sync[t].at /\ S.failed = sync[t].failed
        /\ S.pc = "filtered" /\ S.points = sync[t].points /\ S.kept = Kept(sync[t].points)
    BY <1>a, <2>2 DEF SyncType, Progress
  <2>5. ASSUME NEW c \in CodesOf[Providers[S.at]], NEW d \in MarketDays,
               IsNewest(d, DaysOf(c, S.points))
        PROVE  \E x \in S.kept : x.code = c /\ x.day = d
    BY <1>0, <1>3, <2>4, <2>5, FilterKeepsNewest DEF Requested
  <2> HIDE DEF S
  <2> QED  BY <2>1, <2>3, <2>4, <2>5, TaskStep
<1>4. CASE ReadRows(t)
  <2> DEFINE K == {x \in sync[t].kept : history[x.code][x.day] = 0}
             U == {x \in sync[t].kept : history[x.code][x.day] \notin {0, x.version}}
             S == [sync[t] EXCEPT !.pc = "read", !.kept = K, !.updates = U]
  <2>1. sync[t].at \in DOMAIN Providers
    BY <1>0, <1>4 DEF AtProvider, ReadRows
  <2>2. K \in SUBSET PointType /\ U \in SUBSET PointType
    BY <1>a DEF SyncType
  <2>3. sync' = [sync EXCEPT ![t] = S] /\ UNCHANGED <<market, history, syncState>>
    BY <1>4 DEF ReadRows
  <2>4. ASSUME NEW c \in CodesOf[Providers[sync[t].at]], c \in Codes, NEW d \in MarketDays,
               IsNewest(d, DaysOf(c, sync[t].points))
        PROVE  history[c][d] # 0 \/ \E x \in K : x.code = c /\ x.day = d
    <3>1. NewestIsKept(t, c, d)
      BY <1>0, <1>4, <2>4 DEF NewestStored, Requested, ReadRows
    <3>2. PICK x \in sync[t].kept : x.code = c /\ x.day = d
      BY <1>4, <3>1 DEF NewestIsKept, ReadRows
    <3> QED  BY <3>2
  <2> HIDE DEF K, U
  <2>5. /\ S \in SyncType /\ S.at = sync[t].at /\ S.failed = sync[t].failed
        /\ S.pc = "read" /\ S.points = sync[t].points /\ S.kept = K
    BY <1>a, <2>2 DEF SyncType, Progress
  <2> HIDE DEF S
  <2>6. \A c \in Codes : \A d \in MarketDays :
          c \in CodesOf[Providers[S.at]] /\ IsNewest(d, DaysOf(c, S.points)) =>
            history[c][d] # 0 \/ \E x \in S.kept : x.code = c /\ x.day = d
    BY <2>4, <2>5
  <2> QED  BY <2>1, <2>3, <2>5, <2>6, TaskStep
<1>5. CASE FinishSync(t)
  <2> DEFINE S == [sync[t] EXCEPT !.pc = "done"]
  <2>1. S \in SyncType /\ S.at = sync[t].at /\ S.failed = sync[t].failed /\ S.pc = "done"
    BY <1>a DEF SyncType, Progress
  <2>2. sync' = [sync EXCEPT ![t] = S] /\ UNCHANGED <<market, history, syncState>>
    BY <1>5 DEF FinishSync
  <2>3. S.at > Len(Providers)
    BY <1>5, <1>b, <2>1 DEF FinishSync
  <2> HIDE DEF S
  <2> QED  BY <2>1, <2>2, <2>3, TaskStep
<1>6. CASE AbortSync(t)
  <2> DEFINE S == [IdleSync EXCEPT !.pc = "done", !.failed = TRUE]
  <2>1. S \in SyncType /\ S.at = 1 /\ S.failed /\ S.pc = "done"
    BY IdleType DEF IdleSync, SyncType, Progress
  <2>2. sync' = [sync EXCEPT ![t] = S] /\ UNCHANGED <<market, history, syncState>>
    BY <1>6 DEF AbortSync
  <2> HIDE DEF S
  <2> QED  BY <2>1, <2>2, TaskStep
<1>7. CASE EndSync(t)
  <2> DEFINE S == IdleSync
  <2>1. S \in SyncType /\ S.at = 1 /\ S.pc = "idle"
    BY IdleType DEF IdleSync
  <2>2. sync' = [sync EXCEPT ![t] = S] /\ UNCHANGED <<market, history, syncState>>
    BY <1>7 DEF EndSync
  <2> HIDE DEF S
  <2> QED  BY <2>1, <2>2, TaskStep
<1> QED  BY <1>1, <1>2, <1>3, <1>4, <1>5, <1>6, <1>7

\* The actions that tell the board about a provider.
LEMMA BoardAction ==
  ASSUME SyncInv, NEW t \in Tasks, CheckProvider(t) \/ RecordSuccess(t) \/ RecordFailure(t)
  PROVE  SyncInv'
<1>0. SyncTypeOK /\ AtProvider /\ NewestStored /\ ProvidersAsked
  BY DEF SyncInv
<1>a. sync[t] \in SyncType /\ syncState \in [Codes -> StateType]
  BY <1>0 DEF SyncTypeOK
<1>1. CASE CheckProvider(t)
  <2> DEFINE S == [sync[t] EXCEPT !.pc = "checked"]
  <2>1. /\ S \in SyncType /\ S.at = sync[t].at /\ S.failed = sync[t].failed
        /\ S.pc = "checked"
    BY <1>a DEF SyncType, Progress
  <2>2. /\ sync' = [sync EXCEPT ![t] = S] /\ UNCHANGED <<market, history>>
        /\ syncState' = Marked(t, "checking") /\ sync[t].at \in DOMAIN Providers
    BY <1>1 DEF CheckProvider
  <2> HIDE DEF S
  <2>3. /\ syncState' \in [Codes -> StateType]
        /\ \A c \in Codes : syncState[c].status # "none" => syncState'[c].status # "none"
    BY <1>0, <2>2, MarkedBoard
  <2> QED  BY <2>1, <2>2, <2>3, BoardStep
<1>2. CASE RecordSuccess(t)
  <2> DEFINE S == NextProvider(t)
  <2>1. PICK newest \in [Requested(t) -> MarketDays] :
          /\ \A c \in Requested(t) : IsNewest(newest[c], DaysOf(c, sync[t].points))
          /\ syncState' = [c \in Codes |->
               IF c \in Requested(t) THEN [status |-> "succeeded", observed |-> newest[c]]
                                     ELSE syncState[c]]
    BY <1>2 DEF RecordSuccess
  <2>2. /\ sync' = [sync EXCEPT ![t] = S] /\ UNCHANGED <<market, history>>
        /\ sync[t].pc = "created"
    BY <1>2 DEF RecordSuccess
  <2>3. sync[t].at \in DOMAIN Providers
    BY <1>0, <2>2 DEF AtProvider
  <2>4. /\ S \in SyncType /\ S.at = sync[t].at + 1 /\ S.failed = sync[t].failed
        /\ S.pc = "begin"
    BY <1>0, <2>3, NextType
  <2> HIDE DEF S
  <2>5. syncState' \in [Codes -> StateType]
    BY <1>a, <2>1 DEF StateType
  <2>6. \A c \in Codes : syncState[c].status # "none" => syncState'[c].status # "none"
    BY <2>1
  <2>7. ASSUME NEW c \in Requested(t)
        PROVE  syncState'[c].status # "none" /\ Stored(c) # {}
    <3>1. c \in Codes
      BY <2>3, RequestedCodes DEF Requested
    <3>2. newest[c] \in MarketDays /\ history[c][newest[c]] # 0
      BY <1>0, <2>1, <2>2, <3>1 DEF NewestStored, NewestIsKept
    <3> QED  BY <2>1, <3>1, <3>2 DEF Stored
  <2> QED  BY <2>2, <2>4, <2>5, <2>6, <2>7, BoardStep
<1>3. CASE RecordFailure(t)
  <2> DEFINE S == [NextProvider(t) EXCEPT !.failed = TRUE]
  <2>1. /\ sync' = [sync EXCEPT ![t] = S] /\ UNCHANGED <<market, history>>
        /\ syncState' = Marked(t, "failed")
    BY <1>3 DEF RecordFailure
  <2>2. sync[t].at \in DOMAIN Providers
    BY <1>0, <1>3 DEF AtProvider, RecordFailure
  <2>3. /\ S \in SyncType /\ S.at = sync[t].at + 1 /\ S.failed /\ S.pc = "begin"
    BY <1>0, <2>2, NextType DEF SyncType
  <2> HIDE DEF S
  <2>4. /\ syncState' \in [Codes -> StateType]
        /\ \A c \in Codes : syncState[c].status # "none" => syncState'[c].status # "none"
        /\ \A c \in Codes : c \in Requested(t) => syncState'[c].status # "none"
    BY <1>0, <2>1, MarkedBoard
  <2>5. Requested(t) \subseteq Codes
    BY <2>2, RequestedCodes DEF Requested
  <2> QED  BY <2>1, <2>3, <2>4, <2>5, BoardStep
<1> QED  BY <1>1, <1>2, <1>3

\* The actions that write rows: what is created or updated has a version, and
\* with the new rows created the newest of every code is there.
LEMMA StoreAction ==
  ASSUME SyncInv, NEW t \in Tasks, CreateRows(t) \/ UpdateRow(t)
  PROVE  /\ SyncInv'
         /\ \A c \in Codes : \A d \in MarketDays : history[c][d] # 0 => history'[c][d] # 0
<1>0. SyncTypeOK /\ AtProvider /\ NewestStored /\ ProvidersAsked
  BY DEF SyncInv
<1>a. sync[t] \in SyncType /\ history \in [Codes -> [MarketDays -> 0..2]]
  BY <1>0 DEF SyncTypeOK
<1>b. sync[t].at \in DOMAIN Providers
  BY <1>0 DEF AtProvider, CreateRows, UpdateRow
<1>c. \A c : c \in Requested(t) => c \in Codes
  BY <1>b, RequestedCodes DEF Requested
<1>1. CASE CreateRows(t)
  <2> DEFINE S == [sync[t] EXCEPT !.pc = "created"]
             Created(c, d) == {x \in sync[t].kept : x.code = c /\ x.day = d}
             row(c, d) == IF history[c][d] = 0 /\ Created(c, d) # {}
                            THEN (CHOOSE x \in Created(c, d) : TRUE).version
                            ELSE history[c][d]
  <2>1. /\ S \in SyncType /\ S.at = sync[t].at /\ S.failed = sync[t].failed
        /\ S.pc = "created" /\ S.points = sync[t].points
    BY <1>a DEF SyncType, Progress
  <2>2. /\ sync' = [sync EXCEPT ![t] = S] /\ UNCHANGED <<market, syncState>>
        /\ history' = [c \in Codes |-> [d \in MarketDays |-> row(c, d)]]
        /\ sync[t].pc = "read"
    BY <1>1 DEF CreateRows
  <2>3. ASSUME NEW c \in Codes, NEW d \in MarketDays, Created(c, d) # {}
        PROVE  (CHOOSE x \in Created(c, d) : TRUE).version \in 1..2
    <3> DEFINE y == CHOOSE x \in Created(c, d) : TRUE
    <3>1. y \in Created(c, d)
      BY <2>3
    <3>2. y \in PointType
      BY <1>a, <3>1 DEF SyncType
    <3> QED  BY <3>2 DEF PointType, Versions
  <2>4. ASSUME NEW c \in Codes, NEW d \in MarketDays
        PROVE  /\ row(c, d) \in 0..2
               /\ history[c][d] # 0 => row(c, d) # 0
               /\ Created(c, d) # {} => row(c, d) # 0
    <3>1. history[c][d] \in 0..2
      BY <1>a
    <3> QED  BY <2>3, <3>1
  <2>5. ASSUME NEW c \in Codes, NEW d \in MarketDays, c \in Requested(t),
               IsNewest(d, DaysOf(c, sync[t].points))
        PROVE  history[c][d] # 0 \/ Created(c, d) # {}
    <3>1. NewestIsKept(t, c, d)
      BY <1>0, <2>2, <2>5 DEF NewestStored
    <3> QED  BY <2>2, <3>1 DEF NewestIsKept
  <2> HIDE DEF S, Created, row
  <2>6. /\ history' \in [Codes -> [MarketDays -> 0..2]]
        /\ \A c \in Codes : \A d \in MarketDays : history'[c][d] = row(c, d)
    BY <2>2, <2>4
  <2>7. \A c \in Codes : \A d \in MarketDays : history[c][d] # 0 => history'[c][d] # 0
    BY <2>4, <2>6
  <2>8. \A c \in Codes : \A d \in MarketDays :
          c \in Requested(t) /\ IsNewest(d, DaysOf(c, sync[t].points)) => history'[c][d] # 0
    BY <2>4, <2>5, <2>6
  <2> QED  BY <1>b, <2>1, <2>2, <2>6, <2>7, <2>8, StoreStep
<1>2. CASE UpdateRow(t)
  <2>1. PICK x \in sync[t].updates :
          /\ history' = [history EXCEPT ![x.code][x.day] = x.version]
          /\ sync' = [sync EXCEPT ![t].updates = @ \ {x}]
    BY <1>2 DEF UpdateRow
  <2> DEFINE S == [sync[t] EXCEPT !.updates = @ \ {x}]
  <2>2. UNCHANGED <<market, syncState>> /\ sync[t].pc = "created"
    BY <1>2 DEF UpdateRow
  <2>3. /\ S \in SyncType /\ S.at = sync[t].at /\ S.failed = sync[t].failed
        /\ S.pc = "created" /\ S.points = sync[t].points /\ sync' = [sync EXCEPT ![t] = S]
    BY <1>a, <2>1, <2>2 DEF SyncType
  <2>4. x.code \in Codes /\ x.day \in MarketDays /\ x.version \in 1..2
    BY <1>a, <2>1 DEF SyncType, PointType, Versions
  <2> HIDE DEF S
  <2>5. /\ history' \in [Codes -> [MarketDays -> 0..2]]
        /\ \A c \in Codes : \A d \in MarketDays :
             history'[c][d] = IF c = x.code /\ d = x.day THEN x.version ELSE history[c][d]
    BY <1>a, <2>1, <2>4
  <2>6. \A c \in Codes : \A d \in MarketDays : history[c][d] # 0 => history'[c][d] # 0
    BY <2>4, <2>5
  <2>7. \A c \in Codes : \A d \in MarketDays :
          c \in Requested(t) /\ IsNewest(d, DaysOf(c, sync[t].points)) => history'[c][d] # 0
    BY <1>0, <2>2, <2>6 DEF NewestStored, NewestIsKept
  <2> QED  BY <1>b, <2>2, <2>3, <2>5, <2>6, <2>7, StoreStep
<1> QED  BY <1>1, <1>2

\* The providers of the data change neither the store nor the board nor a task.
LEMMA MarketStep ==
  ASSUME SyncInv, NEW d \in MarketDays, Quote(d) \/ \E c \in Codes : Revise(c, d)
  PROVE  SyncInv' /\ UNCHANGED <<history, syncState, sync>>
<1>0. SyncTypeOK /\ AtProvider /\ NewestStored /\ ProvidersAsked
  BY DEF SyncInv
<1>1. UNCHANGED <<history, syncState, sync>>
  BY DEF Quote, Revise
<1>2. market' \in [newest : MarketDays \union {0}, revised : SUBSET (Codes \X MarketDays)]
  <2>1. market \in [newest : MarketDays \union {0}, revised : SUBSET (Codes \X MarketDays)]
    BY <1>0 DEF SyncTypeOK
  <2>2. CASE Quote(d)
    BY <2>1, <2>2 DEF Quote
  <2>3. ASSUME NEW c \in Codes, Revise(c, d)  PROVE market'.revised \in SUBSET (Codes \X MarketDays)
    BY <2>1, <2>3 DEF Revise
  <2>4. ASSUME NEW c \in Codes, Revise(c, d)
        PROVE  market' = [market EXCEPT !.revised = market'.revised]
    BY <2>1, <2>4 DEF Revise
  <2> QED  BY <2>1, <2>2, <2>3, <2>4
<1>3. SyncTypeOK' /\ AtProvider'
  BY <1>0, <1>1, <1>2 DEF SyncTypeOK, AtProvider
<1>4. NewestStored'
  BY <1>0, <1>1 DEF NewestStored, NewestIsKept, Requested
<1>5. ProvidersAsked'
  BY <1>0, <1>1 DEF ProvidersAsked, Stored
<1> QED  BY <1>1, <1>3, <1>4, <1>5 DEF SyncInv

LEMMA SyncInvNext == SyncInv /\ [SyncNext]_syncVars => SyncInv'
<1> SUFFICES ASSUME SyncInv, [SyncNext]_syncVars  PROVE SyncInv'
  OBVIOUS
<1>1. ASSUME NEW t \in Tasks, BeginSync(t) \/ SyncStep(t) \/ EndSync(t)  PROVE SyncInv'
  BY <1>1, WaitingStep, BoardAction, StoreAction DEF SyncStep
<1>2. ASSUME NEW d \in MarketDays, Quote(d) \/ \E c \in Codes : Revise(c, d)  PROVE SyncInv'
  BY <1>2, MarketStep
<1>3. CASE UNCHANGED syncVars
  BY <1>3 DEF syncVars, SyncInv, SyncTypeOK, AtProvider, NewestStored, NewestIsKept, Requested,
              ProvidersAsked, Stored
<1> QED  BY <1>1, <1>2, <1>3 DEF SyncNext

LEMMA SyncInvHolds == SyncSpec => []SyncInv
<1> QED  BY SyncInvInit, SyncInvNext, PTL DEF SyncSpec

-----------------------------------------------------------------------------
(* ... its theorems.                                                       *)

\* The variables of the synchronisation keep their types: a task is at one of
\* the providers, and only known codes, days and versions are stored.
THEOREM SyncTypesHold == SyncSpec => []SyncTypeOK
<1>1. SyncInv => SyncTypeOK
  BY DEF SyncInv
<1> QED  BY <1>1, SyncInvHolds, PTL

\* What a synchronisation reports is true for any number of tasks at once: it
\* has asked every provider unless its own records failed, and with none failed
\* every code has an observation.
THEOREM ReportsAreTrue == SyncSpec => []ReportIsTrue
<1>1. SyncInv => ReportIsTrue
  <2> SUFFICES ASSUME SyncInv, NEW t \in Tasks, sync[t].pc = "done"
               PROVE  /\ sync[t].at > Len(Providers) =>
                           \A c \in Codes : syncState[c].status # "none"
                      /\ ~sync[t].failed => \A c \in Codes : Stored(c) # {}
    BY DEF ReportIsTrue
  <2>1. AtProvider /\ ProvidersAsked
    BY DEF SyncInv
  <2>2. ~sync[t].failed => sync[t].at > Len(Providers)
    BY <2>1 DEF AtProvider
  <2>3. sync[t].at \in Nat
    BY ProvidersLength DEF SyncInv, SyncTypeOK, SyncType
  <2>4. ASSUME sync[t].at > Len(Providers), NEW c \in Codes
        PROVE  /\ syncState[c].status # "none"
               /\ ~sync[t].failed => Stored(c) # {}
    <3>1. PICK i \in DOMAIN Providers : c \in CodesOf[Providers[i]]
      BY DEF Codes
    <3>2. i < sync[t].at
      BY <2>3, <2>4, ProvidersLength
    <3> QED  BY <2>1, <3>1, <3>2 DEF ProvidersAsked
  <2> QED  BY <2>2, <2>4
<1> QED  BY <1>1, SyncInvHolds, PTL

-----------------------------------------------------------------------------
(* ... its refinement of the board.                                        *)

\* With no row written and no state changed the board sees nothing.
LEMMA BoardStutters ==
  ASSUME UNCHANGED <<history, syncState>>
  PROVE  UNCHANGED Board!boardVars
BY DEF Board!boardVars, Stored

LEMMA BoardInitially == SyncInit => Board!BoardInit
BY SyncAssumption DEF SyncInit, Board!BoardInit, Stored

\* Rows that are written only ever add observations.
LEMMA WritesAreStores ==
  ASSUME SyncInv, NEW t \in Tasks, CreateRows(t) \/ UpdateRow(t)
  PROVE  Board!Store
<1> DEFINE stored == [c \in Codes |-> Stored(c)]
<1>1. \A c \in Codes : Stored(c) \subseteq Stored(c)'
  BY StoreAction DEF Stored
<1>2. stored' = [c \in Codes |-> Stored(c)']
  OBVIOUS
<1>3. stored' \in [Codes -> SUBSET MarketDays]
  BY <1>2 DEF Stored
<1>4. \A c \in Codes : stored[c] \subseteq stored'[c]
  BY <1>1, <1>2
<1>5. UNCHANGED syncState
  BY DEF CreateRows, UpdateRow
<1> QED  BY <1>3, <1>4, <1>5 DEF Board!Store

\* A provider that is asked, or has failed, is announced for its codes.
LEMMA MarksAreAnnounced ==
  ASSUME SyncInv, NEW t \in Tasks, CheckProvider(t) \/ RecordFailure(t)
  PROVE  \E codes \in SUBSET Codes : \E status \in {"checking", "failed"} :
           Board!Announce(codes, status)
<1>1. sync[t].at \in DOMAIN Providers
  BY DEF SyncInv, AtProvider, CheckProvider, RecordFailure
<1>2. Requested(t) \in SUBSET Codes
  BY <1>1, RequestedCodes DEF Requested
<1>3. UNCHANGED [c \in Codes |-> Stored(c)]
  BY DEF Stored, CheckProvider, RecordFailure
<1>4. PICK status \in {"checking", "failed"} : syncState' = Marked(t, status)
  BY DEF CheckProvider, RecordFailure
<1>5. Board!Announce(Requested(t), status)
  BY <1>3, <1>4 DEF Board!Announce, Marked
<1> QED  BY <1>2, <1>5

\* A success is one of the codes of a provider, whose newest observations are
\* stored by then.
LEMMA SuccessIsConfirmed ==
  ASSUME SyncInv, NEW t \in Tasks, RecordSuccess(t)
  PROVE  \E codes \in SUBSET Codes : Board!Confirm(codes)
<1>0. AtProvider /\ NewestStored
  BY DEF SyncInv
<1>1. sync[t].at \in DOMAIN Providers /\ sync[t].pc = "created"
  BY <1>0 DEF AtProvider, RecordSuccess
<1>2. Requested(t) \in SUBSET Codes
  BY <1>1, RequestedCodes DEF Requested
<1>3. PICK newest \in [Requested(t) -> MarketDays] :
        /\ \A c \in Requested(t) : IsNewest(newest[c], DaysOf(c, sync[t].points))
        /\ syncState' = [c \in Codes |->
             IF c \in Requested(t) THEN [status |-> "succeeded", observed |-> newest[c]]
                                   ELSE syncState[c]]
  BY DEF RecordSuccess
<1>4. UNCHANGED [c \in Codes |-> Stored(c)]
  BY DEF Stored, RecordSuccess
<1>5. ASSUME NEW c \in Requested(t)  PROVE newest[c] \in Stored(c)
  <2>1. c \in Codes /\ newest[c] \in MarketDays
    BY <1>2
  <2>2. history[c][newest[c]] # 0
    BY <1>0, <1>1, <1>3, <2>1 DEF NewestStored, NewestIsKept
  <2> QED  BY <2>1, <2>2 DEF Stored
<1>6. Board!Confirm(Requested(t))
  BY <1>2, <1>3, <1>4, <1>5 DEF Board!Confirm
<1> QED  BY <1>2, <1>6

LEMMA BoardFollows ==
  SyncInv /\ [SyncNext]_syncVars => [Board!BoardNext]_Board!boardVars
<1> SUFFICES ASSUME SyncInv, [SyncNext]_syncVars
             PROVE  Board!BoardNext \/ UNCHANGED Board!boardVars
  OBVIOUS
<1>1. ASSUME NEW t \in Tasks, BeginSync(t) \/ FetchHistory(t) \/ FilterPoints(t)
                 \/ ReadRows(t) \/ FinishSync(t) \/ AbortSync(t) \/ EndSync(t)
      PROVE  UNCHANGED Board!boardVars
  <2>1. UNCHANGED <<history, syncState>>
    BY <1>1 DEF BeginSync, FetchHistory, FilterPoints, ReadRows, FinishSync, AbortSync, EndSync
  <2> QED  BY <2>1, BoardStutters
<1>2. ASSUME NEW t \in Tasks, CreateRows(t) \/ UpdateRow(t)  PROVE Board!BoardNext
  BY <1>2, WritesAreStores DEF Board!BoardNext
<1>3. ASSUME NEW t \in Tasks, CheckProvider(t) \/ RecordFailure(t)  PROVE Board!BoardNext
  BY <1>3, MarksAreAnnounced DEF Board!BoardNext
<1>4. ASSUME NEW t \in Tasks, RecordSuccess(t)  PROVE Board!BoardNext
  BY <1>4, SuccessIsConfirmed DEF Board!BoardNext
<1>5. ASSUME NEW d \in MarketDays, Quote(d) \/ \E c \in Codes : Revise(c, d)
      PROVE  UNCHANGED Board!boardVars
  BY <1>5, MarketStep, BoardStutters
<1>6. CASE UNCHANGED syncVars
  BY <1>6, BoardStutters DEF syncVars
<1> QED  BY <1>1, <1>2, <1>3, <1>4, <1>5, <1>6 DEF SyncNext, SyncStep

\* Any number of synchronisations at once implement the board: no observation
\* is lost, and a code is called successful only with one that is stored.
THEOREM SyncImplementsBoard == SyncSpec => ImplementsBoard
<1> QED  BY BoardInitially, BoardFollows, SyncInvHolds, PTL
         DEF SyncSpec, ImplementsBoard, Board!BoardSpec

OneWorker == \A v, w \in Workers : v = w

-----------------------------------------------------------------------------
(* The caches: the inductive invariant.                                    *)

\* A worker refreshes and a script publishes.
Role(t, r) ==
  /\ t \in Workers => r.pc # "publishing" /\ \A k \in Kinds : r.save[k] # "loaded"
  /\ t \in Scripts => /\ r.pc \in {"idle", "publishing", "done"}
                      /\ \A k \in Kinds : r.save[k] \in {"none", "loaded"}

\* A save never holds more than Opinet has published, holds what its file holds
\* once it has read it, and then is the one that has the file open or has
\* written it.
SaveInv(r, k) ==
  /\ r.save[k] \in {"due", "read", "open", "saved"} =>
       \A p \in Periods : r.series[k][p] <= stats[k][p]
  /\ r.save[k] = "due" /\ file[k] # Torn =>
       \A p \in Periods : r.series[k][p] = 0 \/ file[k][p] <= r.series[k][p]
  /\ r.save[k] = "read" =>
       file[k] # Torn /\ \A p \in Periods : file[k][p] <= r.series[k][p]
  /\ r.save[k] = "open" => file[k] = Torn
  /\ r.save[k] = "saved" => file[k] = r.series[k]

\* A series is in the file of its kind, or in the save that has it open.
InFile(k, series) ==
  /\ file[k] # Torn => \A p \in Periods : series[p] <= file[k][p]
  /\ \A w \in Workers : refresh[w].save[k] = "open" =>
       \A p \in Periods : series[p] <= refresh[w].series[k][p]

FilesPublished ==
  \A k \in Kinds : file[k] # Torn => \A p \in Periods : file[k][p] <= stats[k][p]

Roles == \A t \in Tasks : Role(t, refresh[t])

Saves == \A w \in Workers : \A k \in Kinds : SaveInv(refresh[w], k)

PublishedKept == \A k \in StoredKinds : InFile(k, published[k])

LoadedKept ==
  \A s \in Scripts : \A k \in StoredKinds :
    refresh[s].save[k] = "loaded" => InFile(k, refresh[s].series[k])

CacheInv ==
  /\ CacheTypeOK
  /\ FilesPublished /\ Roles /\ Saves /\ PublishedKept /\ LoadedKept

-----------------------------------------------------------------------------
(* ... facts about their operators.                                        *)

LEMMA SeriesPrices ==
  ASSUME NEW x \in Series, NEW p \in Periods
  PROVE  x[p] \in Nat
BY CacheAssumption DEF Series, Prices

LEMMA NoPricesType == NoPrices \in Series
BY CacheAssumption DEF NoPrices, Series, Prices

LEMMA MergedType ==
  ASSUME NEW old \in Series, NEW new \in Series
  PROVE  /\ Merged(old, new) \in Series
         /\ \A p \in Periods : Merged(old, new)[p] = IF new[p] # 0 THEN new[p] ELSE old[p]
BY DEF Merged, Series

LEMMA RecentType ==
  ASSUME NEW x \in Series
  PROVE  /\ Recent(x) \in Series
         /\ \A p \in Periods : Recent(x)[p] = 0 \/ Recent(x)[p] = x[p]
BY CacheAssumption DEF Recent, Series, Prices

LEMMA IdleRefreshType == IdleRefresh \in RefreshType
BY NoPricesType DEF IdleRefresh, RefreshType, Progressing, SaveStates

LEMMA TasksApart ==
  /\ \A w \in Workers : w \in Tasks /\ w \notin Scripts
  /\ \A s \in Scripts : s \in Tasks /\ s \notin Workers
BY TasksAssumption DEF Tasks

LEMMA StoredAreKinds == StoredKinds \subseteq Kinds
BY CacheAssumption

-----------------------------------------------------------------------------
(* ... their steps.                                                        *)

LEMMA CacheInvInit == CacheInit => CacheInv
<1> SUFFICES ASSUME CacheInit  PROVE CacheInv
  OBVIOUS
<1>1. \A t \in Tasks : refresh[t] = IdleRefresh
  BY DEF CacheInit
<1>2. \A t \in Tasks : \A k \in Kinds : refresh[t].save[k] = "none"
  BY <1>1 DEF IdleRefresh
<1>3. CacheTypeOK
  BY NoPricesType, IdleRefreshType DEF CacheInit, CacheTypeOK
<1>4. FilesPublished
  <2>1. \A k \in Kinds : \A p \in Periods : file[k][p] = 0 /\ stats[k][p] = 0
    BY DEF CacheInit, NoPrices
  <2> QED  BY <2>1 DEF FilesPublished
<1>5. Roles
  BY <1>1, <1>2 DEF Roles, Role, IdleRefresh
<1>6. Saves
  BY <1>2, TasksApart DEF Saves, SaveInv
<1>7. PublishedKept
  <2>1. \A k \in StoredKinds : \A p \in Periods : published[k][p] = 0 /\ file[k][p] = 0
    BY StoredAreKinds DEF CacheInit, NoPrices
  <2>2. \A w \in Workers : \A k \in StoredKinds : refresh[w].save[k] # "open"
    BY <1>2, TasksApart, StoredAreKinds
  <2> QED  BY <2>1, <2>2 DEF PublishedKept, InFile
<1>8. LoadedKept
  BY <1>2, TasksApart, StoredAreKinds DEF LoadedKept
<1> QED  BY <1>3, <1>4, <1>5, <1>6, <1>7, <1>8 DEF CacheInv

\* A step of one task that leaves the files alone keeps the invariant when
\* each save of its new state meets its part of it, and no new one is open.
LEMMA QuietStep ==
  ASSUME CacheInv, NEW t \in Tasks, NEW R \in RefreshType,
         refresh' = [refresh EXCEPT ![t] = R], UNCHANGED <<stats, file, published>>,
         Role(t, R),
         t \in Workers => \A k \in Kinds : SaveInv(R, k),
         \A k \in Kinds : R.save[k] = "open" =>
           refresh[t].save[k] = "open" /\ R.series[k] = refresh[t].series[k],
         t \in Scripts => \A k \in StoredKinds :
           R.save[k] = "loaded" => InFile(k, R.series[k])
  PROVE  CacheInv'
<1>0. CacheTypeOK /\ FilesPublished /\ Roles /\ Saves /\ PublishedKept /\ LoadedKept
  BY DEF CacheInv
<1>1. refresh \in [Tasks -> RefreshType]
  BY <1>0 DEF CacheTypeOK
<1>2. \A u \in Tasks : refresh'[u] = IF u = t THEN R ELSE refresh[u]
  BY <1>1
<1>3. CacheTypeOK'
  <2>1. refresh' \in [Tasks -> RefreshType]
    BY <1>1
  <2> QED  BY <1>0, <2>1 DEF CacheTypeOK
<1>4. FilesPublished'
  BY <1>0 DEF FilesPublished
<1>5. Roles'
  BY <1>0, <1>2 DEF Roles, Role
<1>6. Saves'
  <2> SUFFICES ASSUME NEW w \in Workers, NEW k \in Kinds  PROVE SaveInv(refresh[w], k)'
    BY DEF Saves
  <2>1. w \in Tasks
    BY TasksApart
  <2>2. CASE w = t
    BY <1>2, <2>1, <2>2 DEF SaveInv
  <2>3. CASE w # t
    <3>1. refresh'[w] = refresh[w] /\ SaveInv(refresh[w], k)
      BY <1>0, <1>2, <2>1, <2>3 DEF Saves
    <3> QED  BY <3>1 DEF SaveInv
  <2> QED  BY <2>2, <2>3
<1>7. ASSUME NEW k \in StoredKinds, NEW x, InFile(k, x)
      PROVE  /\ file'[k] # Torn => \A p \in Periods : x[p] <= file'[k][p]
             /\ \A w \in Workers : refresh'[w].save[k] = "open" =>
                  \A p \in Periods : x[p] <= refresh'[w].series[k][p]
  <2>1. k \in Kinds
    BY StoredAreKinds
  <2>2. \A w \in Workers : refresh'[w].save[k] = "open" =>
          refresh[w].save[k] = "open" /\ refresh'[w].series[k] = refresh[w].series[k]
    BY <1>2, <2>1, TasksApart
  <2> QED  BY <1>7, <2>2 DEF InFile
<1>8. PublishedKept'
  BY <1>0, <1>7 DEF PublishedKept, InFile
<1>9. LoadedKept'
  <2> SUFFICES ASSUME NEW s \in Scripts, NEW k \in StoredKinds, refresh'[s].save[k] = "loaded"
               PROVE  InFile(k, refresh[s].series[k])'
    BY DEF LoadedKept
  <2>1. InFile(k, refresh'[s].series[k])
    BY <1>0, <1>2, TasksApart DEF LoadedKept
  <2> QED  BY <1>7, <2>1 DEF InFile
<1> QED  BY <1>3, <1>4, <1>5, <1>6, <1>8, <1>9 DEF CacheInv

\* A save that has failed, or a refresh that ends or begins, keeps what is left
\* of it.
LEMMA PlainStep ==
  ASSUME CacheInv, NEW t \in Tasks, NEW R \in RefreshType,
         refresh' = [refresh EXCEPT ![t] = R], UNCHANGED <<stats, file, published>>,
         Role(t, R),
         \A k \in Kinds : \/ R.save[k] \in {"none", "failed"}
                          \/ /\ R.save[k] = refresh[t].save[k]
                             /\ R.series[k] = refresh[t].series[k]
  PROVE  CacheInv'
<1>1. Saves /\ LoadedKept
  BY DEF CacheInv
<1>2. t \in Workers => \A k \in Kinds : SaveInv(R, k)
  BY <1>1 DEF Saves, SaveInv
<1>3. t \in Scripts => \A k \in StoredKinds : R.save[k] = "loaded" => InFile(k, R.series[k])
  BY <1>1, StoredAreKinds DEF LoadedKept
<1>4. \A k \in Kinds : R.save[k] = "open" =>
        refresh[t].save[k] = "open" /\ R.series[k] = refresh[t].series[k]
  OBVIOUS
<1> QED  BY <1>2, <1>3, <1>4, QuietStep

LEMMA PlainActions ==
  ASSUME CacheInv, NEW t \in Tasks,
         \/ t \in Workers /\ BeginRefresh(t)
         \/ t \in Scripts /\ BeginPublishing(t)
         \/ RefreshFails(t) \/ EndRefresh(t)
         \/ \E k \in Kinds : SaveFails(t, k)
  PROVE  CacheInv'
<1>0. refresh[t] \in RefreshType /\ Role(t, refresh[t])
  BY DEF CacheInv, CacheTypeOK, Roles
<1>1. CASE t \in Workers /\ BeginRefresh(t)
  <2> DEFINE R == [refresh[t] EXCEPT !.pc = "begin"]
  <2>1. /\ R \in RefreshType /\ R.pc = "begin"
        /\ R.save = refresh[t].save /\ R.series = refresh[t].series
    BY <1>0 DEF RefreshType, Progressing
  <2>2. refresh' = [refresh EXCEPT ![t] = R] /\ UNCHANGED <<stats, file, published>>
    BY <1>1 DEF BeginRefresh
  <2> HIDE DEF R
  <2>3. Role(t, R)
    BY <1>0, <1>1, <2>1, TasksApart DEF Role
  <2> QED  BY <2>1, <2>2, <2>3, PlainStep
<1>2. CASE t \in Scripts /\ BeginPublishing(t)
  <2> DEFINE R == [refresh[t] EXCEPT !.pc = "publishing"]
  <2>1. /\ R \in RefreshType /\ R.pc = "publishing"
        /\ R.save = refresh[t].save /\ R.series = refresh[t].series
    BY <1>0 DEF RefreshType, Progressing
  <2>2. refresh' = [refresh EXCEPT ![t] = R] /\ UNCHANGED <<stats, file, published>>
    BY <1>2 DEF BeginPublishing
  <2> HIDE DEF R
  <2>3. Role(t, R)
    BY <1>0, <1>2, <2>1, TasksApart DEF Role
  <2> QED  BY <2>1, <2>2, <2>3, PlainStep
<1>3. CASE RefreshFails(t)
  <2> DEFINE R == [refresh[t] EXCEPT !.pc = "done", !.failed = TRUE]
  <2>1. /\ R \in RefreshType /\ R.pc = "done"
        /\ R.save = refresh[t].save /\ R.series = refresh[t].series
    BY <1>0 DEF RefreshType, Progressing
  <2>2. refresh' = [refresh EXCEPT ![t] = R] /\ UNCHANGED <<stats, file, published>>
    BY <1>3 DEF RefreshFails
  <2> HIDE DEF R
  <2>3. Role(t, R)
    BY <1>0, <2>1 DEF Role
  <2> QED  BY <2>1, <2>2, <2>3, PlainStep
<1>4. CASE EndRefresh(t)
  <2> DEFINE R == IdleRefresh
  <2>1. R \in RefreshType /\ R.pc = "idle" /\ \A k \in Kinds : R.save[k] = "none"
    BY IdleRefreshType DEF IdleRefresh
  <2>2. refresh' = [refresh EXCEPT ![t] = R] /\ UNCHANGED <<stats, file, published>>
    BY <1>4 DEF EndRefresh
  <2> HIDE DEF R
  <2>3. Role(t, R)
    BY <2>1 DEF Role
  <2> QED  BY <2>1, <2>2, <2>3, PlainStep
<1>5. ASSUME NEW k \in Kinds, SaveFails(t, k)  PROVE CacheInv'
  <2> DEFINE R == [refresh[t] EXCEPT !.save[k] = "failed", !.failed = TRUE, !.pc = "done"]
  <2>1. refresh[t].save[k] \in {"due", "read", "open"}
    BY <1>5 DEF SaveFails, Saving
  <2>2. /\ R \in RefreshType /\ R.pc = "done" /\ R.series = refresh[t].series
        /\ \A l \in Kinds : R.save[l] = IF l = k THEN "failed" ELSE refresh[t].save[l]
    BY <1>0 DEF RefreshType, Progressing, SaveStates
  <2>3. refresh' = [refresh EXCEPT ![t] = R] /\ UNCHANGED <<stats, file, published>>
    BY <1>5 DEF SaveFails
  <2> HIDE DEF R
  <2>4. Role(t, R)
    BY <1>0, <2>1, <2>2 DEF Role
  <2> QED  BY <2>2, <2>3, <2>4, PlainStep
<1> QED  BY <1>1, <1>2, <1>3, <1>4, <1>5

\* What is fetched has been published, and is no older than what the files have.
LEMMA FetchStep ==
  ASSUME CacheInv, NEW t \in Tasks, FetchSeries(t)
  PROVE  CacheInv'
<1> DEFINE R == [refresh[t] EXCEPT !.pc = "saving",
                   !.series = [k \in Kinds |-> Recent(stats[k])],
                   !.save = [k \in Kinds |-> "due"]]
<1>1. /\ refresh[t] \in RefreshType /\ Role(t, refresh[t]) /\ FilesPublished
      /\ stats \in [Kinds -> Series] /\ file \in [Kinds -> Series \union {Torn}]
  BY DEF CacheInv, CacheTypeOK, Roles
<1>2. refresh' = [refresh EXCEPT ![t] = R] /\ UNCHANGED <<stats, file, published>>
  BY DEF FetchSeries
<1>3. t \in Workers
  BY <1>1 DEF FetchSeries, Role, Tasks
<1>4. /\ R \in RefreshType /\ R.pc = "saving"
      /\ \A k \in Kinds : R.save[k] = "due" /\ R.series[k] = Recent(stats[k])
  BY <1>1, RecentType DEF RefreshType, Progressing, SaveStates
<1> HIDE DEF R
<1>5. Role(t, R)
  BY <1>3, <1>4, TasksApart DEF Role
<1>6. ASSUME NEW k \in Kinds  PROVE SaveInv(R, k)
  <2>1. \A p \in Periods : stats[k][p] \in Nat /\ (file[k] # Torn => file[k][p] <= stats[k][p])
    BY <1>1, SeriesPrices DEF FilesPublished
  <2>2. \A p \in Periods : R.series[k][p] = 0 \/ R.series[k][p] = stats[k][p]
    BY <1>1, <1>4, RecentType
  <2> QED  BY <1>4, <2>1, <2>2 DEF SaveInv
<1> QED  BY <1>2, <1>3, <1>4, <1>5, <1>6, TasksApart, QuietStep

\* What a save has read and merged is no older than its file.
LEMMA ReadStep ==
  ASSUME CacheInv, NEW t \in Tasks, NEW k \in Kinds, ReadFile(t, k)
  PROVE  CacheInv'
<1> DEFINE M == Merged(file[k], refresh[t].series[k])
           R == [refresh[t] EXCEPT !.save[k] = "read", !.series[k] = M]
<1>1. /\ refresh[t] \in RefreshType /\ Role(t, refresh[t]) /\ FilesPublished /\ Saves
      /\ stats \in [Kinds -> Series] /\ file \in [Kinds -> Series \union {Torn}]
  BY DEF CacheInv, CacheTypeOK, Roles
<1>2. /\ refresh' = [refresh EXCEPT ![t] = R] /\ UNCHANGED <<stats, file, published>>
      /\ refresh[t].save[k] = "due" /\ file[k] # Torn
  BY DEF ReadFile
<1>3. t \in Workers
  BY <1>1, <1>2 DEF Role, Tasks
<1>4. file[k] \in Series /\ refresh[t].series[k] \in Series
  BY <1>1, <1>2 DEF RefreshType
<1>5. /\ M \in Series
      /\ \A p \in Periods : M[p] = IF refresh[t].series[k][p] # 0 THEN refresh[t].series[k][p]
                                                                  ELSE file[k][p]
  BY <1>4, MergedType
<1> HIDE DEF M
<1>6. /\ R \in RefreshType /\ R.pc = refresh[t].pc
      /\ \A l \in Kinds : R.save[l] = IF l = k THEN "read" ELSE refresh[t].save[l]
      /\ \A l \in Kinds : R.series[l] = IF l = k THEN M ELSE refresh[t].series[l]
  BY <1>1, <1>5 DEF RefreshType, SaveStates
<1> HIDE DEF R
<1>7. Role(t, R)
  BY <1>1, <1>3, <1>6, TasksApart DEF Role
<1>8. SaveInv(R, k)
  <2>1. SaveInv(refresh[t], k)
    BY <1>1, <1>3 DEF Saves
  <2>2. \A p \in Periods : /\ stats[k][p] \in Nat /\ file[k][p] \in Nat
                           /\ refresh[t].series[k][p] \in Nat
    BY <1>1, <1>4, SeriesPrices
  <2>3. \A p \in Periods : M[p] <= stats[k][p] /\ file[k][p] <= M[p]
    BY <1>1, <1>2, <1>5, <2>1, <2>2 DEF SaveInv, FilesPublished
  <2> QED  BY <1>2, <1>6, <2>3 DEF SaveInv
<1>9. ASSUME NEW l \in Kinds  PROVE SaveInv(R, l)
  <2>1. CASE l = k
    BY <1>8, <2>1
  <2>2. CASE l # k
    <3>1. SaveInv(refresh[t], l)
      BY <1>1, <1>3 DEF Saves
    <3> QED  BY <1>6, <2>2, <3>1 DEF SaveInv
  <2> QED  BY <2>1, <2>2
<1>10. \A l \in Kinds : R.save[l] = "open" =>
         refresh[t].save[l] = "open" /\ R.series[l] = refresh[t].series[l]
  BY <1>6
<1> QED  BY <1>2, <1>3, <1>6, <1>7, <1>9, <1>10, TasksApart, QuietStep

\* A script loads what a file holds.
LEMMA LoadStep ==
  ASSUME CacheInv, NEW t \in Tasks, NEW k \in Kinds, ReadForPublishing(t, k)
  PROVE  CacheInv'
<1> DEFINE R == [refresh[t] EXCEPT !.series[k] = file[k], !.save[k] = "loaded"]
<1>1. /\ refresh[t] \in RefreshType /\ Role(t, refresh[t]) /\ Saves /\ LoadedKept
      /\ file \in [Kinds -> Series \union {Torn}]
  BY DEF CacheInv, CacheTypeOK, Roles
<1>2. /\ refresh' = [refresh EXCEPT ![t] = R] /\ UNCHANGED <<stats, file, published>>
      /\ refresh[t].pc = "publishing" /\ file[k] # Torn
  BY DEF ReadForPublishing
<1>3. t \in Scripts /\ t \notin Workers
  BY <1>1, <1>2, TasksApart DEF Role, Tasks
<1>4. file[k] \in Series
  BY <1>1, <1>2
<1>5. /\ R \in RefreshType /\ R.pc = refresh[t].pc
      /\ \A l \in Kinds : R.save[l] = IF l = k THEN "loaded" ELSE refresh[t].save[l]
      /\ \A l \in Kinds : R.series[l] = IF l = k THEN file[k] ELSE refresh[t].series[l]
  BY <1>1, <1>4 DEF RefreshType, SaveStates
<1> HIDE DEF R
<1>6. Role(t, R)
  BY <1>1, <1>3, <1>5 DEF Role
<1>7. InFile(k, file[k])
  <2>1. \A p \in Periods : file[k][p] <= file[k][p]
    BY <1>4, SeriesPrices
  <2>2. \A w \in Workers : refresh[w].save[k] # "open"
    BY <1>1, <1>2 DEF Saves, SaveInv
  <2> QED  BY <2>1, <2>2 DEF InFile
<1>8. ASSUME NEW l \in StoredKinds, R.save[l] = "loaded"  PROVE InFile(l, R.series[l])
  BY <1>1, <1>3, <1>5, <1>7, <1>8, StoredAreKinds DEF LoadedKept
<1>9. \A l \in Kinds : R.save[l] # "open"
  BY <1>1, <1>3, <1>5 DEF Role
<1> QED  BY <1>2, <1>3, <1>5, <1>6, <1>8, <1>9, QuietStep

\* The worker that opens or writes a file is the only one that saves: the
\* others only publish.
LEMMA FileStep ==
  ASSUME CacheInv, OneWorker, NEW t \in Workers, NEW k \in Kinds,
         OpenFile(t, k) \/ WriteFile(t, k)
  PROVE  CacheInv'
<1>0. CacheTypeOK /\ FilesPublished /\ Roles /\ Saves /\ PublishedKept /\ LoadedKept
  BY DEF CacheInv
<1>a. /\ refresh \in [Tasks -> RefreshType] /\ t \in Tasks /\ t \notin Scripts
      /\ file \in [Kinds -> Series \union {Torn}] /\ stats \in [Kinds -> Series]
      /\ SaveInv(refresh[t], k) /\ Role(t, refresh[t])
  BY <1>0, TasksApart DEF CacheTypeOK, Saves, Roles
<1>b. \A w \in Workers : w = t
  BY DEF OneWorker
\* The state before and after the step, of the save and of its file.
<1>1. PICK before \in {"read", "open"}, after \in {"open", "saved"},
           content \in Series \union {Torn} :
        /\ refresh[t].save[k] = before
        /\ refresh' = [refresh EXCEPT ![t].save[k] = after]
        /\ file' = [file EXCEPT ![k] = content]
        /\ after = "open" => before = "read" /\ content = Torn
        /\ after = "saved" => content = refresh[t].series[k] /\ content \in Series
        /\ after = "saved" => before = "open"
  <2>1. refresh[t].series[k] \in Series
    BY <1>a DEF RefreshType
  <2> QED  BY <2>1 DEF OpenFile, WriteFile
<1>2. UNCHANGED <<stats, published>>
  BY DEF OpenFile, WriteFile
<1> DEFINE R == [refresh[t] EXCEPT !.save[k] = after]
<1>3. /\ R \in RefreshType /\ R.pc = refresh[t].pc /\ R.series = refresh[t].series
      /\ \A l \in Kinds : R.save[l] = IF l = k THEN after ELSE refresh[t].save[l]
  BY <1>a DEF RefreshType, SaveStates
<1>4. \A u \in Tasks : refresh'[u] = IF u = t THEN R ELSE refresh[u]
  BY <1>a, <1>1
<1>5. /\ file' \in [Kinds -> Series \union {Torn}]
      /\ \A l \in Kinds : file'[l] = IF l = k THEN content ELSE file[l]
  BY <1>a, <1>1
<1>6. CacheTypeOK'
  <2>1. refresh' \in [Tasks -> RefreshType]
    BY <1>a, <1>1, <1>3
  <2> QED  BY <1>0, <1>2, <1>5, <2>1 DEF CacheTypeOK
<1> HIDE DEF R
<1>7. FilesPublished'
  <2>1. content # Torn => \A p \in Periods : content[p] <= stats[k][p]
    BY <1>a, <1>1 DEF SaveInv
  <2> QED  BY <1>0, <1>2, <1>5, <2>1 DEF FilesPublished
<1>8. Roles'
  <2>1. Role(t, R)
    BY <1>a, <1>3 DEF Role
  <2> QED  BY <1>0, <1>4, <2>1 DEF Roles, Role
<1>9. Saves'
  <2> SUFFICES ASSUME NEW l \in Kinds  PROVE SaveInv(refresh[t], l)'
    BY <1>b DEF Saves
  <2>1. refresh'[t] = R
    BY <1>a, <1>4
  <2>2. CASE l = k
    BY <1>a, <1>1, <1>2, <1>3, <1>5, <2>1, <2>2 DEF SaveInv
  <2>3. CASE l # k
    <3>1. SaveInv(refresh[t], l)
      BY <1>0 DEF Saves
    <3> QED  BY <1>2, <1>3, <1>5, <2>1, <2>3, <3>1 DEF SaveInv
  <2> QED  BY <2>2, <2>3
\* What is in the file stays in it, or in the save that has it open.
<1>10. ASSUME NEW l \in StoredKinds, NEW x \in Series, InFile(l, x)
       PROVE  /\ file'[l] # Torn => \A p \in Periods : x[p] <= file'[l][p]
              /\ \A w \in Workers : refresh'[w].save[l] = "open" =>
                   \A p \in Periods : x[p] <= refresh'[w].series[l][p]
  <2>1. l \in Kinds /\ refresh'[t] = R
    BY <1>a, <1>4, StoredAreKinds
  <2>2. CASE l # k
    BY <1>3, <1>5, <1>10, <1>b, <2>1, <2>2 DEF InFile
  <2>3. CASE l = k /\ after = "open"
    <3>1. refresh[t].save[k] = "read" /\ file'[k] = Torn
      BY <1>1, <1>5, <2>3
    <3>2. file[k] # Torn /\ \A p \in Periods : file[k][p] <= refresh[t].series[k][p]
      BY <1>a, <3>1 DEF SaveInv
    <3>3. file[k] \in Series /\ refresh[t].series[k] \in Series
      BY <1>a, <3>2 DEF RefreshType
    <3>4. \A p \in Periods : x[p] <= file[k][p]
      BY <1>10, <2>3, <3>2 DEF InFile
    <3>5. \A p \in Periods : x[p] \in Nat /\ file[k][p] \in Nat /\ refresh[t].series[k][p] \in Nat
      BY <3>3, SeriesPrices
    <3>6. \A p \in Periods : x[p] <= refresh[t].series[k][p]
      BY <3>2, <3>4, <3>5
    <3> QED  BY <1>3, <1>b, <2>1, <2>3, <3>1, <3>6
  <2>4. CASE l = k /\ after = "saved"
    <3>1. refresh[t].save[k] = "open" /\ file'[k] = refresh[t].series[k]
      BY <1>1, <1>5, <2>4
    <3>2. \A p \in Periods : x[p] <= refresh[t].series[k][p]
      BY <1>10, <2>4, <3>1 DEF InFile
    <3> QED  BY <1>3, <1>b, <2>1, <2>4, <3>1, <3>2
  <2> QED  BY <1>1, <2>2, <2>3, <2>4
<1>11. PublishedKept'
  <2>1. \A l \in StoredKinds : published[l] \in Series
    BY <1>0 DEF CacheTypeOK
  <2> QED  BY <1>0, <1>2, <1>10, <2>1 DEF PublishedKept, InFile
<1>12. LoadedKept'
  <2> SUFFICES ASSUME NEW s \in Scripts, NEW l \in StoredKinds, refresh'[s].save[l] = "loaded"
               PROVE  InFile(l, refresh[s].series[l])'
    BY DEF LoadedKept
  <2>1. s \in Tasks /\ refresh'[s] = refresh[s]
    BY <1>a, <1>4, TasksApart
  <2>2. refresh[s].series[l] \in Series /\ InFile(l, refresh[s].series[l])
    BY <1>0, <1>a, <2>1, StoredAreKinds DEF LoadedKept, RefreshType
  <2> QED  BY <1>10, <2>1, <2>2 DEF InFile
<1> QED  BY <1>6, <1>7, <1>8, <1>9, <1>11, <1>12 DEF CacheInv

\* What is published is in the files: the worker publishes what it has written
\* to each of them, a script what it has loaded.
LEMMA PublishStep ==
  ASSUME CacheInv, NEW t \in Tasks, PublishSaved(t) \/ PublishLoaded(t)
  PROVE  CacheInv'
<1>0. CacheTypeOK /\ FilesPublished /\ Roles /\ Saves /\ PublishedKept /\ LoadedKept
  BY DEF CacheInv
<1>a. refresh[t] \in RefreshType /\ Role(t, refresh[t]) /\ refresh \in [Tasks -> RefreshType]
  BY <1>0 DEF CacheTypeOK, Roles
<1> DEFINE R == [refresh[t] EXCEPT !.pc = "done"]
<1>1. /\ refresh' = [refresh EXCEPT ![t] = R] /\ UNCHANGED <<stats, file>>
      /\ published' = [k \in StoredKinds |-> Merged(published[k], refresh[t].series[k])]
  BY DEF PublishSaved, PublishLoaded
<1>2. /\ R \in RefreshType /\ R.pc = "done"
      /\ R.save = refresh[t].save /\ R.series = refresh[t].series
  BY <1>a DEF RefreshType, Progressing
<1>3. \A u \in Tasks : refresh'[u] = IF u = t THEN R ELSE refresh[u]
  BY <1>a, <1>1
<1>4. \A u \in Tasks : refresh'[u].save = refresh[u].save /\ refresh'[u].series = refresh[u].series
  BY <1>2, <1>3
<1>5. ASSUME NEW k \in StoredKinds
      PROVE  /\ published[k] \in Series /\ refresh[t].series[k] \in Series
             /\ published'[k] = Merged(published[k], refresh[t].series[k])
  BY <1>0, <1>1, <1>a, StoredAreKinds DEF CacheTypeOK, RefreshType
<1>6. CacheTypeOK'
  <2>1. published' \in [StoredKinds -> Series]
    BY <1>1, <1>5, MergedType
  <2>2. refresh' \in [Tasks -> RefreshType]
    BY <1>a, <1>1, <1>2
  <2> QED  BY <1>0, <1>1, <2>1, <2>2 DEF CacheTypeOK
<1> HIDE DEF R
<1>7. Roles'
  <2>1. Role(t, R)
    BY <1>2, <1>a DEF Role
  <2> QED  BY <1>0, <1>3, <2>1 DEF Roles, Role
<1>8. FilesPublished'
  BY <1>0, <1>1 DEF FilesPublished
<1>9. Saves'
  BY <1>0, <1>1, <1>4, TasksApart DEF Saves, SaveInv
<1>10. LoadedKept'
  BY <1>0, <1>1, <1>4, TasksApart DEF LoadedKept, InFile
<1>11. ASSUME NEW k \in StoredKinds  PROVE InFile(k, refresh[t].series[k])
  <2>1. k \in Kinds
    BY StoredAreKinds
  <2>2. CASE PublishSaved(t)
    <3>1. refresh[t].save[k] = "saved"
      BY <2>1, <2>2 DEF PublishSaved
    <3>2. t \in Workers
      BY <1>a, <2>1, <3>1 DEF Role, Tasks
    <3>3. file[k] = refresh[t].series[k]
      BY <1>0, <2>1, <3>1, <3>2 DEF Saves, SaveInv
    <3>4. \A w \in Workers : refresh[w].save[k] # "open"
      <4>1. file[k] # Torn
        BY <1>5, <3>3, CacheAssumption
      <4> QED  BY <1>0, <2>1, <4>1 DEF Saves, SaveInv
    <3>5. \A p \in Periods : refresh[t].series[k][p] <= file[k][p]
      BY <1>5, <3>3, SeriesPrices
    <3> QED  BY <3>4, <3>5 DEF InFile
  <2>3. CASE PublishLoaded(t)
    <3>1. refresh[t].pc = "publishing" /\ refresh[t].save[k] = "loaded"
      BY <2>3 DEF PublishLoaded
    <3>2. t \in Scripts
      BY <1>a, <3>1 DEF Role, Tasks
    <3> QED  BY <1>0, <3>1, <3>2 DEF LoadedKept
  <2> QED  BY <2>2, <2>3
<1>12. PublishedKept'
  <2> SUFFICES ASSUME NEW k \in StoredKinds  PROVE InFile(k, published[k])'
    BY DEF PublishedKept
  <2>1. InFile(k, published[k]) /\ InFile(k, refresh[t].series[k])
    BY <1>0, <1>11 DEF PublishedKept
  <2>2. \A p \in Periods : \/ published'[k][p] = published[k][p]
                           \/ published'[k][p] = refresh[t].series[k][p]
    BY <1>5, MergedType
  <2> QED  BY <1>1, <1>4, <2>1, <2>2, TasksApart DEF InFile
<1> QED  BY <1>6, <1>7, <1>8, <1>9, <1>10, <1>12 DEF CacheInv

\* Prices are only ever added to what is published, or corrected upwards.
LEMMA StatsGrow ==
  ASSUME CacheTypeOK, NEW kinds \in SUBSET Kinds, PublishStats(kinds)
  PROVE  /\ stats' \in [Kinds -> Series] /\ UNCHANGED <<file, published, refresh>>
         /\ \A k \in Kinds : \A q \in Periods : stats[k][q] <= stats'[k][q]
<1>a. stats \in [Kinds -> Series] /\ UNCHANGED <<file, published, refresh>>
  BY DEF CacheTypeOK, PublishStats
<1>1. PICK p \in [kinds -> Periods] :
        /\ \A k \in kinds : stats[k][p[k]] < MaxPrice
        /\ stats' = [k \in Kinds |-> IF k \in kinds THEN [stats[k] EXCEPT ![p[k]] = @ + 1]
                                                    ELSE stats[k]]
  BY DEF PublishStats
<1>2. ASSUME NEW k \in Kinds
      PROVE  stats'[k] \in Series /\ \A q \in Periods : stats[k][q] <= stats'[k][q]
  <2>1. \A q \in Periods : stats[k][q] \in Nat
    BY <1>a, SeriesPrices
  <2>2. CASE k \notin kinds
    BY <1>1, <1>a, <2>1, <2>2
  <2>3. CASE k \in kinds
    <3>1. stats'[k] = [stats[k] EXCEPT ![p[k]] = @ + 1] /\ p[k] \in Periods
      BY <1>1, <2>3
    <3>2. stats[k][p[k]] + 1 \in Prices
      <4>1. stats[k][p[k]] < MaxPrice /\ stats[k][p[k]] \in Nat /\ MaxPrice \in Nat
        BY <1>1, <2>1, <2>3, <3>1, CacheAssumption
      <4> QED  BY <4>1 DEF Prices
    <3>3. stats[k] \in [Periods -> Prices]
      BY <1>a DEF Series
    <3>4. stats'[k] \in Series
      BY <3>1, <3>2, <3>3 DEF Series
    <3>5. \A q \in Periods : stats'[k][q] = IF q = p[k] THEN stats[k][q] + 1 ELSE stats[k][q]
      BY <3>1, <3>3
    <3> QED  BY <2>1, <3>4, <3>5
  <2> QED  BY <2>2, <2>3
<1>3. stats' \in [Kinds -> Series]
  BY <1>1, <1>2
<1> QED  BY <1>a, <1>2, <1>3

\* Opinet publishes or corrects a price.
LEMMA StatsStep ==
  ASSUME CacheInv, NEW kinds \in SUBSET Kinds, PublishStats(kinds)
  PROVE  CacheInv'
<1>0. CacheTypeOK /\ FilesPublished /\ Roles /\ Saves /\ PublishedKept /\ LoadedKept
  BY DEF CacheInv
<1>a. /\ stats \in [Kinds -> Series] /\ file \in [Kinds -> Series \union {Torn}]
      /\ refresh \in [Tasks -> RefreshType] /\ UNCHANGED <<file, published, refresh>>
  BY <1>0 DEF CacheTypeOK, PublishStats
<1>2. /\ stats' \in [Kinds -> Series]
      /\ \A k \in Kinds : \A q \in Periods : stats[k][q] <= stats'[k][q]
  BY <1>0, StatsGrow
<1>3. CacheTypeOK'
  BY <1>0, <1>a, <1>2 DEF CacheTypeOK
<1>4. FilesPublished'
  <2> SUFFICES ASSUME NEW k \in Kinds, file[k] # Torn, NEW q \in Periods
               PROVE  file[k][q] <= stats'[k][q]
    BY <1>a DEF FilesPublished
  <2>1. file[k][q] \in Nat /\ stats[k][q] \in Nat /\ stats'[k][q] \in Nat
    BY <1>2, <1>a, SeriesPrices
  <2>2. file[k][q] <= stats[k][q]
    BY <1>0 DEF FilesPublished
  <2> QED  BY <1>2, <2>1, <2>2
<1>5. Saves'
  <2> SUFFICES ASSUME NEW w \in Workers, NEW k \in Kinds  PROVE SaveInv(refresh[w], k)'
    BY DEF Saves
  <2>1. SaveInv(refresh[w], k)
    BY <1>0 DEF Saves
  <2>2. refresh[w].series[k] \in Series
    BY <1>a, TasksApart DEF RefreshType
  <2>3. \A q \in Periods : /\ refresh[w].series[k][q] \in Nat /\ stats[k][q] \in Nat
                           /\ stats'[k][q] \in Nat /\ stats[k][q] <= stats'[k][q]
    BY <1>2, <1>a, <2>2, SeriesPrices
  <2> QED  BY <1>a, <2>1, <2>3 DEF SaveInv
<1>6. Roles' /\ PublishedKept' /\ LoadedKept'
  BY <1>0, <1>a DEF Roles, Role, PublishedKept, LoadedKept, InFile
<1> QED  BY <1>3, <1>4, <1>5, <1>6 DEF CacheInv

LEMMA CacheInvNext ==
  ASSUME OneWorker, CacheInv, [CacheNext]_cacheVars
  PROVE  CacheInv'
<1>1. ASSUME NEW t \in Tasks, RefreshStep(t)  PROVE CacheInv'
  BY <1>1, FetchStep, PublishStep, LoadStep, PlainActions DEF RefreshStep
<1>2. ASSUME NEW t \in Tasks, NEW k \in Kinds, Save(t, k)  PROVE CacheInv'
  <2>1. CASE OpenFile(t, k) \/ WriteFile(t, k)
    <3>1. t \in Workers
      BY <2>1 DEF OpenFile, WriteFile, CacheInv, Roles, Role, Tasks
    <3> QED  BY <2>1, <3>1, FileStep
  <2>2. CASE ReadFile(t, k)
    BY <2>2, ReadStep
  <2>3. CASE SaveFails(t, k)
    BY <2>3, PlainActions
  <2> QED  BY <1>2, <2>1, <2>2, <2>3 DEF Save
<1>3. ASSUME NEW t \in Tasks, EndRefresh(t)  PROVE CacheInv'
  BY <1>3, PlainActions
<1>4. ASSUME NEW w \in Workers, BeginRefresh(w)  PROVE CacheInv'
  BY <1>4, PlainActions, TasksApart
<1>5. ASSUME NEW s \in Scripts, BeginPublishing(s)  PROVE CacheInv'
  BY <1>5, PlainActions, TasksApart
<1>6. ASSUME NEW kinds \in SUBSET Kinds, PublishStats(kinds)  PROVE CacheInv'
  BY <1>6, StatsStep
<1>7. CASE UNCHANGED cacheVars
  BY <1>7 DEF cacheVars, CacheInv, CacheTypeOK, FilesPublished, Roles, Role, Saves, SaveInv,
              PublishedKept, LoadedKept, InFile
<1> QED  BY <1>1, <1>2, <1>3, <1>4, <1>5, <1>6, <1>7 DEF CacheNext

LEMMA CacheInvHolds == ASSUME OneWorker  PROVE CacheSpec => []CacheInv
<1>1. CacheInv /\ [CacheNext]_cacheVars => CacheInv'
  BY CacheInvNext
<1> QED  BY <1>1, CacheInvInit, PTL DEF CacheSpec

-----------------------------------------------------------------------------
(* ... types, and prices that have been published, for any number of workers. *)

\* What a task holds of a series has been published.
CopiesPublished ==
  \A t \in Tasks : \A k \in Kinds : \A p \in Periods :
    refresh[t].series[k][p] <= stats[k][p]

PublishedInv == CacheTypeOK /\ FilesPublished /\ CopiesPublished

LEMMA PublishedInit == CacheInit => PublishedInv
<1> SUFFICES ASSUME CacheInit  PROVE PublishedInv
  OBVIOUS
<1>1. CacheTypeOK
  BY CacheInvInit DEF CacheInv
<1>2. FilesPublished /\ CopiesPublished
  BY DEF CacheInit, IdleRefresh, NoPrices, FilesPublished, CopiesPublished
<1> QED  BY <1>1, <1>2 DEF PublishedInv

\* A step of one task keeps the prices published if its new state holds only
\* such, and a file it changes gets what the task holds, or is torn.
LEMMA PublishedTask ==
  ASSUME PublishedInv, NEW t \in Tasks, NEW R \in RefreshType,
         refresh' = [refresh EXCEPT ![t] = R], UNCHANGED stats,
         published' \in [StoredKinds -> Series],
         \/ file' = file
         \/ \E k \in Kinds : \/ file' = [file EXCEPT ![k] = Torn]
                             \/ file' = [file EXCEPT ![k] = refresh[t].series[k]],
         \A k \in Kinds : \A p \in Periods : R.series[k][p] <= stats[k][p]
  PROVE  PublishedInv'
<1>0. /\ CacheTypeOK /\ FilesPublished /\ CopiesPublished
      /\ stats \in [Kinds -> Series] /\ file \in [Kinds -> Series \union {Torn}]
      /\ refresh \in [Tasks -> RefreshType]
  BY DEF PublishedInv, CacheTypeOK
<1>1. file' \in [Kinds -> Series \union {Torn}] /\ FilesPublished'
  <2>1. CASE file' = file
    BY <1>0, <2>1 DEF FilesPublished
  <2>2. ASSUME NEW k \in Kinds, file' = [file EXCEPT ![k] = Torn]
        PROVE  file' \in [Kinds -> Series \union {Torn}] /\ FilesPublished'
    BY <1>0, <2>2 DEF FilesPublished
  <2>3. ASSUME NEW k \in Kinds, file' = [file EXCEPT ![k] = refresh[t].series[k]]
        PROVE  file' \in [Kinds -> Series \union {Torn}] /\ FilesPublished'
    <3>1. /\ refresh[t].series[k] \in Series
          /\ \A p \in Periods : refresh[t].series[k][p] <= stats[k][p]
      BY <1>0 DEF RefreshType, CopiesPublished
    <3> QED  BY <1>0, <2>3, <3>1 DEF FilesPublished
  <2> QED  BY <2>1, <2>2, <2>3
<1>2. refresh' \in [Tasks -> RefreshType]
  BY <1>0
<1>3. CacheTypeOK'
  BY <1>0, <1>1, <1>2 DEF CacheTypeOK
<1>4. CopiesPublished'
  BY <1>0 DEF CopiesPublished
<1> QED  BY <1>1, <1>3, <1>4 DEF PublishedInv

\* A merge of published prices is published.
LEMMA MergedPublished ==
  ASSUME NEW k \in Kinds, NEW old \in Series, NEW new \in Series,
         \A p \in Periods : old[p] <= stats[k][p],
         \A p \in Periods : new[p] <= stats[k][p]
  PROVE  \A p \in Periods : Merged(old, new)[p] <= stats[k][p]
BY MergedType

\* Every step but those of Opinet is one of these.
LEMMA PublishedAction ==
  ASSUME PublishedInv, NEW t \in Tasks,
         \/ BeginRefresh(t) \/ BeginPublishing(t) \/ RefreshStep(t) \/ EndRefresh(t)
         \/ \E k \in Kinds : Save(t, k)
  PROVE  PublishedInv'
<1>0. /\ refresh[t] \in RefreshType
      /\ stats \in [Kinds -> Series] /\ file \in [Kinds -> Series \union {Torn}]
      /\ published \in [StoredKinds -> Series]
      /\ \A k \in Kinds : refresh[t].series[k] \in Series
      /\ \A k \in Kinds : \A p \in Periods : refresh[t].series[k][p] <= stats[k][p]
      /\ \A k \in Kinds : file[k] # Torn => \A p \in Periods : file[k][p] <= stats[k][p]
  BY DEF PublishedInv, CacheTypeOK, CopiesPublished, FilesPublished, RefreshType
\* Steps that change neither a copy nor a file.
<1>1. ASSUME NEW R \in RefreshType, refresh' = [refresh EXCEPT ![t] = R],
             R.series = refresh[t].series, UNCHANGED <<stats, file>>,
             published' \in [StoredKinds -> Series]
      PROVE  PublishedInv'
  BY <1>0, <1>1, PublishedTask
<1>2. CASE BeginRefresh(t) \/ BeginPublishing(t)
  <2> DEFINE R(pc) == [refresh[t] EXCEPT !.pc = pc]
  <2>1. \A pc \in Progressing : R(pc) \in RefreshType /\ R(pc).series = refresh[t].series
    BY <1>0 DEF RefreshType
  <2>2. \E pc \in Progressing : refresh' = [refresh EXCEPT ![t] = R(pc)]
    BY <1>2 DEF BeginRefresh, BeginPublishing, Progressing
  <2>3. UNCHANGED <<stats, file, published>>
    BY <1>2 DEF BeginRefresh, BeginPublishing
  <2> HIDE DEF R
  <2> QED  BY <1>0, <1>1, <2>1, <2>2, <2>3
<1>3. CASE FetchSeries(t)
  <2> DEFINE R == [refresh[t] EXCEPT !.pc = "saving",
                     !.series = [k \in Kinds |-> Recent(stats[k])],
                     !.save = [k \in Kinds |-> "due"]]
  <2>1. R \in RefreshType /\ \A k \in Kinds : R.series[k] = Recent(stats[k])
    BY <1>0, RecentType DEF RefreshType, Progressing, SaveStates
  <2>2. refresh' = [refresh EXCEPT ![t] = R] /\ UNCHANGED <<stats, file, published>>
    BY <1>3 DEF FetchSeries
  <2> HIDE DEF R
  <2>3. \A k \in Kinds : \A p \in Periods : R.series[k][p] <= stats[k][p]
    <3> SUFFICES ASSUME NEW k \in Kinds, NEW p \in Periods
                 PROVE  R.series[k][p] <= stats[k][p]
      OBVIOUS
    <3>1. stats[k][p] \in Nat
      BY <1>0, SeriesPrices
    <3>2. R.series[k][p] = 0 \/ R.series[k][p] = stats[k][p]
      BY <1>0, <2>1, RecentType
    <3> QED  BY <3>1, <3>2
  <2> QED  BY <1>0, <2>1, <2>2, <2>3, PublishedTask
<1>4. CASE PublishSaved(t) \/ PublishLoaded(t)
  <2> DEFINE R == [refresh[t] EXCEPT !.pc = "done"]
  <2>1. R \in RefreshType /\ R.series = refresh[t].series
    BY <1>0 DEF RefreshType, Progressing
  <2>2. /\ refresh' = [refresh EXCEPT ![t] = R] /\ UNCHANGED <<stats, file>>
        /\ published' = [k \in StoredKinds |-> Merged(published[k], refresh[t].series[k])]
    BY <1>4 DEF PublishSaved, PublishLoaded
  <2>3. published' \in [StoredKinds -> Series]
    BY <1>0, <2>2, MergedType, StoredAreKinds
  <2> HIDE DEF R
  <2> QED  BY <1>1, <2>1, <2>2, <2>3
<1>5. CASE RefreshFails(t)
  <2> DEFINE R == [refresh[t] EXCEPT !.pc = "done", !.failed = TRUE]
  <2>1. R \in RefreshType /\ R.series = refresh[t].series
    BY <1>0 DEF RefreshType, Progressing
  <2>2. refresh' = [refresh EXCEPT ![t] = R] /\ UNCHANGED <<stats, file, published>>
    BY <1>5 DEF RefreshFails
  <2> HIDE DEF R
  <2> QED  BY <1>0, <1>1, <2>1, <2>2
<1>6. ASSUME NEW k \in Kinds, ReadForPublishing(t, k)  PROVE PublishedInv'
  <2> DEFINE R == [refresh[t] EXCEPT !.series[k] = file[k], !.save[k] = "loaded"]
  <2>1. file[k] \in Series /\ \A p \in Periods : file[k][p] <= stats[k][p]
    BY <1>0, <1>6 DEF ReadForPublishing
  <2>2. /\ R \in RefreshType
        /\ \A l \in Kinds : R.series[l] = IF l = k THEN file[k] ELSE refresh[t].series[l]
    BY <1>0, <2>1 DEF RefreshType, SaveStates
  <2>3. refresh' = [refresh EXCEPT ![t] = R] /\ UNCHANGED <<stats, file, published>>
    BY <1>6 DEF ReadForPublishing
  <2> HIDE DEF R
  <2>4. \A l \in Kinds : \A p \in Periods : R.series[l][p] <= stats[l][p]
    BY <1>0, <2>1, <2>2
  <2> QED  BY <1>0, <2>2, <2>3, <2>4, PublishedTask
<1>7. CASE EndRefresh(t)
  <2> DEFINE R == IdleRefresh
  <2>1. R \in RefreshType /\ \A k \in Kinds : R.series[k] = NoPrices
    BY IdleRefreshType DEF IdleRefresh
  <2>2. refresh' = [refresh EXCEPT ![t] = R] /\ UNCHANGED <<stats, file, published>>
    BY <1>7 DEF EndRefresh
  <2> HIDE DEF R
  <2>3. \A k \in Kinds : \A p \in Periods : R.series[k][p] <= stats[k][p]
    BY <1>0, <2>1, SeriesPrices DEF NoPrices
  <2> QED  BY <1>0, <2>1, <2>2, <2>3, PublishedTask
<1>8. ASSUME NEW k \in Kinds, ReadFile(t, k)  PROVE PublishedInv'
  <2> DEFINE M == Merged(file[k], refresh[t].series[k])
             R == [refresh[t] EXCEPT !.save[k] = "read", !.series[k] = M]
  <2>1. file[k] \in Series
    BY <1>0, <1>8 DEF ReadFile
  <2>2. M \in Series /\ \A p \in Periods : M[p] <= stats[k][p]
    BY <1>0, <1>8, <2>1, MergedType, MergedPublished DEF ReadFile
  <2>3. refresh' = [refresh EXCEPT ![t] = R] /\ UNCHANGED <<stats, file, published>>
    BY <1>0, <1>8 DEF ReadFile, RefreshType
  <2> HIDE DEF M
  <2>4. /\ R \in RefreshType
        /\ \A l \in Kinds : R.series[l] = IF l = k THEN M ELSE refresh[t].series[l]
    BY <1>0, <2>2 DEF RefreshType, SaveStates
  <2> HIDE DEF R
  <2>5. \A l \in Kinds : \A p \in Periods : R.series[l][p] <= stats[l][p]
    BY <1>0, <2>2, <2>4
  <2> QED  BY <1>0, <2>3, <2>4, <2>5, PublishedTask
<1>9. ASSUME NEW k \in Kinds, OpenFile(t, k) \/ WriteFile(t, k)  PROVE PublishedInv'
  <2> DEFINE R(state) == [refresh[t] EXCEPT !.save[k] = state]
  <2>1. \A state \in SaveStates : R(state) \in RefreshType /\ R(state).series = refresh[t].series
    BY <1>0 DEF RefreshType
  <2>2. \E state \in SaveStates : refresh' = [refresh EXCEPT ![t] = R(state)]
    BY <1>9 DEF OpenFile, WriteFile, SaveStates
  <2>3. /\ UNCHANGED <<stats, published>>
        /\ \/ file' = [file EXCEPT ![k] = Torn]
           \/ file' = [file EXCEPT ![k] = refresh[t].series[k]]
    BY <1>9 DEF OpenFile, WriteFile
  <2> HIDE DEF R
  <2>4. PICK state \in SaveStates : refresh' = [refresh EXCEPT ![t] = R(state)]
    BY <2>2
  <2>5. R(state) \in RefreshType /\ R(state).series = refresh[t].series
    BY <2>1
  <2>6. \A l \in Kinds : \A p \in Periods : R(state).series[l][p] <= stats[l][p]
    BY <1>0, <2>5
  <2> QED  BY <1>0, <2>3, <2>4, <2>5, <2>6, PublishedTask
<1>10. ASSUME NEW k \in Kinds, SaveFails(t, k)  PROVE PublishedInv'
  <2> DEFINE R == [refresh[t] EXCEPT !.save[k] = "failed", !.failed = TRUE, !.pc = "done"]
  <2>1. R \in RefreshType /\ R.series = refresh[t].series
    BY <1>0 DEF RefreshType, Progressing, SaveStates
  <2>2. refresh' = [refresh EXCEPT ![t] = R] /\ UNCHANGED <<stats, file, published>>
    BY <1>10 DEF SaveFails
  <2> HIDE DEF R
  <2> QED  BY <1>0, <1>1, <2>1, <2>2
<1> QED
  BY <1>2, <1>3, <1>4, <1>5, <1>6, <1>7, <1>8, <1>9, <1>10 DEF RefreshStep, Save

LEMMA PublishedNext ==
  ASSUME PublishedInv, [CacheNext]_cacheVars
  PROVE  PublishedInv'
<1>1. ASSUME NEW kinds \in SUBSET Kinds, PublishStats(kinds)  PROVE PublishedInv'
  <2>0. /\ CacheTypeOK /\ FilesPublished /\ CopiesPublished
        /\ stats \in [Kinds -> Series] /\ file \in [Kinds -> Series \union {Torn}]
        /\ refresh \in [Tasks -> RefreshType]
    BY DEF PublishedInv, CacheTypeOK
  <2>1. /\ stats' \in [Kinds -> Series] /\ UNCHANGED <<file, published, refresh>>
        /\ \A k \in Kinds : \A q \in Periods : stats[k][q] <= stats'[k][q]
    BY <1>1, <2>0, StatsGrow
  <2>2. CacheTypeOK'
    BY <2>0, <2>1 DEF CacheTypeOK
  <2>3. ASSUME NEW k \in Kinds, NEW x \in Series, NEW q \in Periods, x[q] <= stats[k][q]
        PROVE  x[q] <= stats'[k][q]
    <3>1. x[q] \in Nat /\ stats[k][q] \in Nat /\ stats'[k][q] \in Nat
      BY <2>0, <2>1, SeriesPrices
    <3> QED  BY <2>1, <2>3, <3>1
  <2>4. FilesPublished'
    BY <2>0, <2>1, <2>3 DEF FilesPublished
  <2>5. CopiesPublished'
    <3> SUFFICES ASSUME NEW t \in Tasks, NEW k \in Kinds, NEW q \in Periods
                 PROVE  refresh[t].series[k][q] <= stats'[k][q]
      BY <2>1 DEF CopiesPublished
    <3>1. refresh[t].series[k] \in Series /\ refresh[t].series[k][q] <= stats[k][q]
      BY <2>0 DEF RefreshType, CopiesPublished
    <3> QED  BY <2>3, <3>1
  <2> QED  BY <2>2, <2>4, <2>5 DEF PublishedInv
<1>2. CASE UNCHANGED cacheVars
  BY <1>2 DEF cacheVars, PublishedInv, CacheTypeOK, FilesPublished, CopiesPublished
<1> QED  BY <1>1, <1>2, PublishedAction DEF CacheNext, Tasks

-----------------------------------------------------------------------------
(* ... their theorems.                                                     *)

\* Files, database and refreshes keep their types, for any number of workers: a
\* file is a series or torn.
THEOREM CacheTypesHold == CacheSpec => []CacheTypeOK
<1>1. PublishedInv /\ [CacheNext]_cacheVars => PublishedInv'
  BY PublishedNext
<1>2. PublishedInv => CacheTypeOK
  BY DEF PublishedInv
<1> QED  BY <1>1, <1>2, PublishedInit, PTL DEF CacheSpec

\* A save of the one worker replaces a file by one that has everything the file
\* had, at least as new, whatever Opinet corrects and whatever fails or dies.
THEOREM HistoryIsKept == ASSUME OneWorker  PROVE CacheSpec => []SavesKeepHistory
<1>1. CacheInv => SavesKeepHistory
  <2> SUFFICES ASSUME CacheInv, NEW t \in Tasks, NEW k \in Kinds, refresh[t].save[k] = "read"
               PROVE  \A p \in Periods : file[k][p] <= refresh[t].series[k][p]
    BY DEF SavesKeepHistory
  <2>1. t \in Workers
    BY DEF CacheInv, Roles, Role, Tasks
  <2> QED  BY <2>1 DEF CacheInv, Saves, SaveInv
<1> QED  BY <1>1, CacheInvHolds, PTL

\* With one worker the database is never ahead of the files, however many
\* scripts publish beside it.
THEOREM DatabaseStaysBehind == ASSUME OneWorker  PROVE CacheSpec => []DatabaseFollowsFiles
<1>1. CacheInv => DatabaseFollowsFiles
  BY DEF CacheInv, PublishedKept, InFile, DatabaseFollowsFiles
<1> QED  BY <1>1, CacheInvHolds, PTL

\* A file nobody can parse, and nobody is writing, has no save that has read it:
\* nothing opens it again.
LEMMA TornStaysTorn ==
  ASSUME CacheInv, [CacheNext]_cacheVars, NEW k \in Kinds, file[k] = Torn, ~Open(k)
  PROVE  ~Open(k)' /\ file'[k] = Torn
<1>a. /\ refresh \in [Tasks -> RefreshType]
      /\ \A t \in Tasks : refresh[t].save[k] \notin {"read", "open"}
  BY DEF CacheInv, CacheTypeOK, Roles, Role, Saves, SaveInv, Tasks, Open
\* A step that opens no save of this kind and writes no file of it.
<1>b. ASSUME NEW t \in Tasks, NEW R \in RefreshType, refresh' = [refresh EXCEPT ![t] = R],
             R.save[k] # "open", file'[k] = file[k]
      PROVE  ~Open(k)' /\ file'[k] = Torn
  BY <1>a, <1>b DEF Open
<1>1. ASSUME NEW t \in Tasks, NEW l \in Kinds, Save(t, l)
      PROVE  ~Open(k)' /\ file'[k] = Torn
  <2>1. CASE l = k
    <3>1. ReadFile(t, k) \/ SaveFails(t, k)
      BY <1>1, <1>a, <2>1 DEF Save, OpenFile, WriteFile
    <3>2. SaveFails(t, k) /\ file'[k] = file[k]
      BY <3>1 DEF ReadFile, SaveFails
    <3> DEFINE R == [refresh[t] EXCEPT !.save[k] = "failed", !.failed = TRUE, !.pc = "done"]
    <3>3. R \in RefreshType /\ R.save[k] # "open"
      BY <1>a DEF RefreshType, SaveStates, Progressing
    <3>4. refresh' = [refresh EXCEPT ![t] = R]
      BY <3>2 DEF SaveFails
    <3> HIDE DEF R
    <3> QED  BY <1>b, <3>2, <3>3, <3>4
  <2>2. CASE l # k
    <3>1. file'[k] = file[k]
      BY <1>1, <2>2 DEF Save, ReadFile, OpenFile, WriteFile, SaveFails, CacheInv, CacheTypeOK
    <3>2. refresh[t] \in RefreshType
      BY <1>a
    <3>3. PICK R : refresh' = [refresh EXCEPT ![t] = R] /\ R.save[k] = refresh[t].save[k]
      <4>1. CASE ReadFile(t, l)
        <5> DEFINE R == [refresh[t] EXCEPT !.save[l] = "read", !.series[l] = Merged(file[l], @)]
        <5>1. refresh' = [refresh EXCEPT ![t] = R]
          BY <4>1 DEF ReadFile
        <5>2. R.save[k] = refresh[t].save[k]
          BY <2>2, <3>2 DEF RefreshType
        <5> HIDE DEF R
        <5> QED  BY <5>1, <5>2
      <4>2. CASE SaveFails(t, l)
        <5> DEFINE R == [refresh[t] EXCEPT !.save[l] = "failed", !.failed = TRUE, !.pc = "done"]
        <5>1. refresh' = [refresh EXCEPT ![t] = R]
          BY <4>2 DEF SaveFails
        <5>2. R.save[k] = refresh[t].save[k]
          BY <2>2, <3>2 DEF RefreshType
        <5> HIDE DEF R
        <5> QED  BY <5>1, <5>2
      <4>3. CASE OpenFile(t, l) \/ WriteFile(t, l)
        <5>1. PICK after : refresh' = [refresh EXCEPT ![t].save[l] = after]
          BY <4>3 DEF OpenFile, WriteFile
        <5> DEFINE R == [refresh[t] EXCEPT !.save[l] = after]
        <5>2. refresh' = [refresh EXCEPT ![t] = R]
          BY <5>1
        <5>3. R.save[k] = refresh[t].save[k]
          BY <2>2, <3>2 DEF RefreshType
        <5> HIDE DEF R
        <5> QED  BY <5>2, <5>3
      <4> QED  BY <1>1, <4>1, <4>2, <4>3 DEF Save
    <3> QED  BY <1>a, <3>1, <3>3 DEF Open
  <2> QED  BY <2>1, <2>2
<1>2. ASSUME NEW t \in Tasks, RefreshStep(t) \/ EndRefresh(t) \/ BeginRefresh(t)
                 \/ BeginPublishing(t)
      PROVE  ~Open(k)' /\ file'[k] = Torn
  <2>1. refresh[t] \in RefreshType
    BY <1>a
  <2>2. UNCHANGED file
    BY <1>2 DEF RefreshStep, FetchSeries, PublishSaved, RefreshFails, PublishLoaded,
                ReadForPublishing, EndRefresh, BeginRefresh, BeginPublishing
  <2>3. \A u \in Tasks : refresh'[u].save[k] = "open" => refresh[u].save[k] = "open"
    <3>1. CASE FetchSeries(t)
      BY <1>a, <2>1, <3>1 DEF FetchSeries, RefreshType
    <3>2. CASE PublishSaved(t) \/ RefreshFails(t) \/ PublishLoaded(t) \/ BeginRefresh(t)
                 \/ BeginPublishing(t)
      <4>1. PICK pc, failed : refresh' = [refresh EXCEPT ![t].pc = pc, ![t].failed = failed]
        <5>1. \A pc : [refresh[t] EXCEPT !.pc = pc]
                        = [refresh[t] EXCEPT !.pc = pc, !.failed = refresh[t].failed]
          BY <2>1 DEF RefreshType
        <5>2. CASE RefreshFails(t)
          BY <5>2 DEF RefreshFails
        <5>3. CASE ~RefreshFails(t)
          <6>1. PICK pc : refresh' = [refresh EXCEPT ![t].pc = pc]
            BY <3>2, <5>3 DEF PublishSaved, PublishLoaded, BeginRefresh, BeginPublishing
          <6>2. refresh' = [refresh EXCEPT ![t] =
                              [refresh[t] EXCEPT !.pc = pc, !.failed = refresh[t].failed]]
            BY <5>1, <6>1
          <6> QED  BY <6>2
        <5> QED  BY <5>2, <5>3
      <4>2. refresh'[t].save = refresh[t].save
        BY <1>a, <2>1, <4>1 DEF RefreshType
      <4> QED  BY <1>a, <4>1, <4>2
    <3>3. CASE EndRefresh(t)
      BY <1>a, <2>1, <3>3 DEF EndRefresh, IdleRefresh, RefreshType
    <3>4. ASSUME NEW l \in Kinds, ReadForPublishing(t, l)
          PROVE  \A u \in Tasks : refresh'[u].save[k] = "open" => refresh[u].save[k] = "open"
      <4>1. refresh' = [refresh EXCEPT ![t].series[l] = file[l], ![t].save[l] = "loaded"]
        BY <3>4 DEF ReadForPublishing
      <4> QED  BY <1>a, <2>1, <4>1 DEF RefreshType
    <3> QED  BY <1>2, <3>1, <3>2, <3>3, <3>4 DEF RefreshStep
  <2> QED  BY <1>a, <2>2, <2>3 DEF Open
<1>3. ASSUME NEW kinds \in SUBSET Kinds, PublishStats(kinds)
      PROVE  ~Open(k)' /\ file'[k] = Torn
  BY <1>3 DEF PublishStats, Open
<1>4. CASE UNCHANGED cacheVars
  BY <1>4 DEF cacheVars, Open
<1> QED  BY <1>1, <1>2, <1>3, <1>4, TasksApart DEF CacheNext

\* With one worker a torn file is left alone for good: no refresh replaces the
\* history it had by the few periods a response reaches back.
THEOREM TornIsLeftAlone == ASSUME OneWorker  PROVE CacheSpec => UnreadableIsLeftAlone
<1>1. CacheInv /\ [CacheNext]_cacheVars =>
        [\A k \in Kinds : file[k] = Torn /\ ~Open(k) => ~Open(k)' /\ file'[k] = Torn]_cacheVars
  BY TornStaysTorn
<1> QED  BY <1>1, CacheInvHolds, PTL DEF CacheSpec, UnreadableIsLeftAlone

-----------------------------------------------------------------------------
(* The page: business days.                                                *)

Count(first, last) == Cardinality(BusinessDays(first, last))

LEMMA DaysFinite ==
  ASSUME NEW a \in Int, NEW b \in Int
  PROVE  IsFiniteSet(BusinessDays(a, b)) /\ Count(a, b) \in Nat
BY FS_Interval, FS_Subset, FS_CardinalityType DEF BusinessDays, Count

\* The business days of a span are those of its two parts.
LEMMA CountSplit ==
  ASSUME NEW a \in Int, NEW b \in Int, NEW c \in Int, a <= b + 1, b <= c
  PROVE  Count(a, c) = Count(a, b) + Count(b + 1, c)
<1>1. BusinessDays(a, c) = BusinessDays(a, b) \union BusinessDays(b + 1, c)
  BY DEF BusinessDays
<1>2. BusinessDays(a, b) \intersect BusinessDays(b + 1, c) = {}
  BY DEF BusinessDays
<1>3. /\ IsFiniteSet(BusinessDays(a, b)) /\ IsFiniteSet(BusinessDays(b + 1, c))
      /\ Count(a, b) \in Nat /\ Count(b + 1, c) \in Nat
  BY DaysFinite
<1> QED  BY <1>1, <1>2, <1>3, FS_Union, FS_EmptySet DEF Count

LEMMA CountOne ==
  ASSUME NEW d \in Int
  PROVE  Count(d, d) = IF IsBusinessDay(d) THEN 1 ELSE 0
<1>1. BusinessDays(d, d) = IF IsBusinessDay(d) THEN {d} ELSE {}
  BY DEF BusinessDays
<1> QED  BY <1>1, FS_EmptySet, FS_Singleton DEF Count

\* One of three days running is a business day.
LEMMA CountThree ==
  ASSUME NEW d \in Int
  PROVE  Count(d, d + 2) >= 1
<1>1. \E x \in d..(d + 2) : IsBusinessDay(x)
  BY DEF IsBusinessDay, Weekday
<1>2. BusinessDays(d, d + 2) # {}
  BY <1>1 DEF BusinessDays
<1>3. d + 2 \in Int
  OBVIOUS
<1>4. IsFiniteSet(BusinessDays(d, d + 2)) /\ Count(d, d + 2) \in Nat
  BY <1>3, DaysFinite
<1>5. Count(d, d + 2) # 0
  BY <1>2, <1>4, FS_EmptySet DEF Count
<1> QED  BY <1>4, <1>5

\* So the 3n days before a day have n of them.
LEMMA CountWindow ==
  ASSUME NEW t \in Int, NEW n \in Nat
  PROVE  Count(t - 3 * n, t - 1) >= n
<1> DEFINE few == {k \in Nat : ~(Count(t - 3 * k, t - 1) >= k)}
<1>1. SUFFICES ASSUME few # {}  PROVE FALSE
  OBVIOUS
<1>2. PICK m \in few : \A k \in few : m <= k
  <2>1. few \in SUBSET Nat
    OBVIOUS
  <2> HIDE DEF few
  <2> QED  BY <1>1, <2>1, LeastOf
<1>3. m # 0
  <2>1. t - 3 * 0 \in Int /\ t - 1 \in Int
    OBVIOUS
  <2>2. Count(t - 3 * 0, t - 1) \in Nat
    BY <2>1, DaysFinite
  <2> QED  BY <1>2, <2>2
<1>4. m - 1 \in Nat /\ m - 1 \notin few
  BY <1>2, <1>3
<1> DEFINE s == t - 3 * m
<1>5. Count(s + 3, t - 1) >= m - 1
  <2>1. s + 3 = t - 3 * (m - 1)
    BY <1>2
  <2> QED  BY <1>4, <2>1
<1>6. s \in Int /\ s <= t - 3 /\ m \in Nat
  BY <1>2, <1>3
<1>7. ~(Count(s, t - 1) >= m)
  BY <1>2
<1> HIDE DEF s, few
<1>8. Count(s, t - 1) = Count(s, s + 2) + Count(s + 3, t - 1)
  BY <1>6, CountSplit
<1>9. Count(s, s + 2) >= 1 /\ Count(s, s + 2) \in Nat /\ Count(s + 3, t - 1) \in Nat
  <2>1. s + 2 \in Int /\ s + 3 \in Int /\ t - 1 \in Int
    BY <1>6
  <2> QED  BY <1>6, <2>1, CountThree, DaysFinite
<1> QED  BY <1>5, <1>6, <1>7, <1>8, <1>9

\* Going back from a day there is a business day before which `count' days,
\* itself among them, are business days.
LEMMA PreviousExists ==
  ASSUME NEW today \in Int, NEW count \in Nat \ {0}
  PROVE  \E d \in (today - 3 * count - 2)..(today - 1) :
           IsBusinessDay(d) /\ Count(d, today - 1) = count
<1> DEFINE far == {n \in Nat : Count(today - n, today - 1) >= count}
<1>1. 3 * count \in far
  BY CountWindow
<1>2. PICK m \in far : \A k \in far : m <= k
  <2>1. far \in SUBSET Nat /\ far # {}
    BY <1>1
  <2> HIDE DEF far
  <2> QED  BY <2>1, LeastOf
<1>3. m \in Nat /\ m <= 3 * count
  BY <1>1, <1>2
<1>4. m # 0
  <2>1. BusinessDays(today - 0, today - 1) = {}
    BY DEF BusinessDays
  <2>2. Count(today - 0, today - 1) = 0
    BY <2>1, FS_EmptySet DEF Count
  <2> QED  BY <1>2, <2>2
<1> DEFINE d == today - m
<1>5. d \in Int /\ d <= today - 1 /\ d >= today - 3 * count - 2
  BY <1>3, <1>4
<1>6. Count(d, today - 1) >= count
  BY <1>2
<1>7. ~(Count(d + 1, today - 1) >= count)
  <2>1. m - 1 \in Nat /\ m - 1 \notin far /\ today - (m - 1) = d + 1
    BY <1>2, <1>3, <1>4
  <2> QED  BY <2>1
<1> HIDE DEF d, far
<1>8. Count(d, today - 1) = Count(d, d) + Count(d + 1, today - 1)
  BY <1>5, CountSplit
<1>9. Count(d, d) \in Nat /\ Count(d + 1, today - 1) \in Nat
  BY <1>5, DaysFinite
<1>10. Count(d, d) = IF IsBusinessDay(d) THEN 1 ELSE 0
  BY <1>5, CountOne
<1>11. IsBusinessDay(d) /\ Count(d, today - 1) = count
  BY <1>6, <1>7, <1>8, <1>9, <1>10
<1> QED  BY <1>5, <1>11

LEMMA PreviousIs ==
  ASSUME NEW today \in Int, NEW count \in Nat \ {0}
  PROVE  LET d == PreviousBusinessDay(today, count)
         IN  d \in Int /\ d <= today - 1 /\ IsBusinessDay(d) /\ Count(d, today - 1) = count
<1>1. PreviousBusinessDay(today, count) \in (today - 3 * count - 2)..(today - 1)
  BY PreviousExists DEF PreviousBusinessDay, Count
<1>2. /\ IsBusinessDay(PreviousBusinessDay(today, count))
      /\ Count(PreviousBusinessDay(today, count), today - 1) = count
  BY PreviousExists DEF PreviousBusinessDay, Count
<1>3. today - 3 * count - 2 \in Int
  OBVIOUS
<1> QED  BY <1>1, <1>2, <1>3

-----------------------------------------------------------------------------
(* ... the invariant.                                                      *)

\* What the state of a code tells of has been stored.
ObservedStored ==
  \A c \in Codes : syncState[c].observed = 0 \/ syncState[c].observed \in Stored(c)

\* The newest official week of a quarter is one Opinet has published.
OfficialPublished ==
  official = 0 \/ \E p \in Periods : stats["weekly"][p] # 0 /\ official = WeekEnd(p)

DaysTyped ==
  /\ clock \in [day : Nat, afternoon : BOOLEAN]
  /\ daily \in Nat /\ official \in Nat

HealthInv == SyncInv /\ PublishedInv /\ ObservedStored /\ OfficialPublished /\ DaysTyped

LEMMA PeriodNumbers ==
  \A p \in Periods : p \in Nat /\ p >= 1 /\ WeekEnd(p) \in Nat \ {0}
BY CacheAssumption DEF WeekEnd

LEMMA HealthInvInit == Init => HealthInv
<1> SUFFICES ASSUME Init  PROVE HealthInv
  OBVIOUS
<1>1. SyncInv /\ PublishedInv
  BY SyncInvInit, PublishedInit DEF Init
<1>2. ObservedStored
  BY DEF Init, SyncInit, ObservedStored
<1>3. OfficialPublished
  BY DEF Init, OfficialPublished
<1>4. DaysTyped
  BY WorkerAssumption DEF Init, DaysTyped
<1> QED  BY <1>1, <1>2, <1>3, <1>4 DEF HealthInv

\* Every step of the worker's system is one of the synchronisation, or none,
\* and at the same time one of the caches, or none.
LEMMA WorkerIsItsParts ==
  ASSUME [Next]_vars
  PROVE  [SyncNext]_syncVars /\ [CacheNext]_cacheVars
<1>1. ASSUME NEW w \in Workers,
             \/ Enqueue(w) \/ TakeLane(w) \/ StartIngest(w)
             \/ IngestPrices(w) \/ IngestFails(w) \/ Release(w)
      PROVE  [SyncNext]_syncVars /\ [CacheNext]_cacheVars
  <2>1. w \in Tasks
    BY DEF Tasks
  <2>2. CASE TakeLane(w)
    BY <2>1, <2>2 DEF TakeLane, SyncNext
  <2>3. CASE StartIngest(w)
    BY <2>1, <2>3 DEF StartIngest, CacheNext
  <2>4. CASE Enqueue(w) \/ IngestPrices(w) \/ IngestFails(w) \/ Release(w)
    BY <2>4 DEF Enqueue, IngestPrices, IngestFails, Release
  <2> QED  BY <1>1, <2>2, <2>3, <2>4
<1>2. ASSUME NEW s \in Scripts, (\E task \in ScriptTasks : StartScript(s, task)) \/ EndScript(s)
      PROVE  [SyncNext]_syncVars /\ [CacheNext]_cacheVars
  <2>1. s \in Tasks
    BY DEF Tasks
  <2>2. ASSUME NEW task \in ScriptTasks, StartScript(s, task)
        PROVE  [SyncNext]_syncVars /\ [CacheNext]_cacheVars
    BY <2>1, <2>2 DEF StartScript, SyncNext, CacheNext
  <2>3. CASE EndScript(s)
    BY <2>3 DEF EndScript
  <2> QED  BY <1>2, <2>2, <2>3
<1>3. ASSUME NEW t \in Tasks,
             Synchronise(t) \/ RefreshCaches(t) \/ SaveSeries(t) \/ Exit(t) \/ Crash(t)
      PROVE  [SyncNext]_syncVars /\ [CacheNext]_cacheVars
  <2>1. CASE Synchronise(t)
    BY <2>1 DEF Synchronise, SyncNext
  <2>2. CASE RefreshCaches(t) \/ SaveSeries(t)
    BY <2>2 DEF RefreshCaches, SaveSeries, CacheNext
  <2>3. CASE Exit(t) \/ Crash(t)
    BY <2>3 DEF Exit, Crash, SyncNext, CacheNext
  <2> QED  BY <1>3, <2>1, <2>2, <2>3
<1>4. CASE Tick
  BY <1>4 DEF Tick, SyncNext, CacheNext
<1>5. CASE (\E p \in Periods : StoreOfficialWeek(p)) \/ UNCHANGED vars
  BY <1>5 DEF StoreOfficialWeek, vars
<1> QED  BY <1>1, <1>2, <1>3, <1>4, <1>5 DEF Next

\* The board never tells of an observation that is not stored.
LEMMA ObservedStep ==
  ASSUME SyncInv, ObservedStored, [SyncNext]_syncVars
  PROVE  ObservedStored'
<1> DEFINE stored == [c \in Codes |-> Stored(c)]
<1>0. syncState \in [Codes -> StateType]
  BY DEF SyncInv, SyncTypeOK
<1>1. Board!BoardNext \/ UNCHANGED Board!boardVars
  BY BoardFollows
<1>2. \A c \in Codes : stored[c] = Stored(c) /\ stored'[c] = Stored(c)'
  OBVIOUS
<1>3. CASE Board!Store
  <2>1. /\ \A c \in Codes : stored[c] \subseteq stored'[c]
        /\ syncState' = syncState
    BY <1>3 DEF Board!Store
  <2> HIDE DEF stored
  <2> QED  BY <1>2, <2>1 DEF ObservedStored
<1>4. ASSUME NEW codes \in SUBSET Codes, NEW status \in {"checking", "failed"},
             Board!Announce(codes, status)
      PROVE  ObservedStored'
  <2>1. /\ syncState' = [c \in Codes |-> IF c \in codes
                           THEN [syncState[c] EXCEPT !.status = status] ELSE syncState[c]]
        /\ stored' = stored
    BY <1>4 DEF Board!Announce
  <2>2. \A c \in Codes : syncState'[c].observed = syncState[c].observed
    BY <1>0, <2>1 DEF StateType
  <2> HIDE DEF stored
  <2> QED  BY <1>2, <2>1, <2>2 DEF ObservedStored
<1>5. ASSUME NEW codes \in SUBSET Codes, Board!Confirm(codes)
      PROVE  ObservedStored'
  <2>1. PICK newest \in [codes -> MarketDays] :
           /\ \A c \in codes : newest[c] \in stored[c]
           /\ syncState' = [c \in Codes |-> IF c \in codes
                THEN [status |-> "succeeded", observed |-> newest[c]] ELSE syncState[c]]
    BY <1>5 DEF Board!Confirm
  <2>2. stored' = stored
    BY <1>5 DEF Board!Confirm
  <2>3. \A c \in Codes : syncState'[c].observed =
          IF c \in codes THEN newest[c] ELSE syncState[c].observed
    BY <2>1
  <2> HIDE DEF stored
  <2> QED  BY <1>2, <2>1, <2>2, <2>3 DEF ObservedStored
<1>6. CASE UNCHANGED Board!boardVars
  <2>1. stored' = stored /\ syncState' = syncState
    BY <1>6 DEF Board!boardVars
  <2> HIDE DEF stored
  <2> QED  BY <1>2, <2>1 DEF ObservedStored
<1> QED  BY <1>1, <1>3, <1>4, <1>5, <1>6 DEF Board!BoardNext

\* What Opinet has published stays published.
LEMMA StatsKept ==
  ASSUME CacheTypeOK, [CacheNext]_cacheVars, NEW k \in Kinds, NEW p \in Periods,
         stats[k][p] # 0
  PROVE  stats'[k][p] # 0
<1>1. ASSUME NEW kinds \in SUBSET Kinds, PublishStats(kinds)  PROVE stats'[k][p] # 0
  <2>1. stats[k] \in Series /\ stats'[k] \in Series /\ stats[k][p] <= stats'[k][p]
    BY <1>1, StatsGrow DEF CacheTypeOK
  <2>2. stats[k][p] \in Nat /\ stats'[k][p] \in Nat
    BY <2>1, SeriesPrices
  <2> QED  BY <2>1, <2>2
<1>2. CASE stats' = stats
  BY <1>2
<1> QED
  BY <1>1, <1>2 DEF CacheNext, cacheVars, BeginRefresh, BeginPublishing, RefreshStep, EndRefresh,
     Save, FetchSeries, PublishSaved, RefreshFails, PublishLoaded, ReadForPublishing,
     ReadFile, OpenFile, WriteFile, SaveFails

LEMMA OfficialStep ==
  ASSUME HealthInv, [Next]_vars
  PROVE  OfficialPublished'
<1>0. CacheTypeOK /\ OfficialPublished /\ "weekly" \in Kinds /\ [CacheNext]_cacheVars
  BY WorkerAssumption, WorkerIsItsParts DEF HealthInv, PublishedInv
<1>1. CASE official' = official
  <2>1. CASE official = 0
    BY <1>1, <2>1 DEF OfficialPublished
  <2>2. ASSUME NEW p \in Periods, stats["weekly"][p] # 0, official = WeekEnd(p)
        PROVE  OfficialPublished'
    <3>1. stats'["weekly"][p] # 0
      BY <1>0, <2>2, StatsKept
    <3> QED  BY <1>1, <2>2, <3>1 DEF OfficialPublished, WeekEnd
  <2> QED  BY <1>0, <2>1, <2>2 DEF OfficialPublished
<1>2. ASSUME NEW p \in Periods, StoreOfficialWeek(p)  PROVE OfficialPublished'
  <2>1. stats["weekly"][p] # 0 /\ official' = WeekEnd(p)
    BY <1>2 DEF StoreOfficialWeek
  <2>2. stats'["weekly"][p] # 0
    BY <1>0, <2>1, StatsKept
  <2> QED  BY <2>1, <2>2 DEF OfficialPublished, WeekEnd
<1> QED
  BY <1>1, <1>2 DEF Next, vars, jobVars, Enqueue, TakeLane, StartIngest, IngestPrices, IngestFails,
     Release, StartScript, EndScript, Synchronise, RefreshCaches, SaveSeries, Exit, Crash, Tick

LEMMA DaysStep ==
  ASSUME HealthInv, [Next]_vars
  PROVE  DaysTyped'
<1>0. clock \in [day : Nat, afternoon : BOOLEAN] /\ daily \in Nat /\ official \in Nat
  BY DEF HealthInv, DaysTyped
<1>1. CASE UNCHANGED <<clock, daily, official>>
  BY <1>0, <1>1 DEF DaysTyped
<1>2. ASSUME NEW w \in Workers, IngestPrices(w) \/ IngestFails(w)  PROVE DaysTyped'
  <2>0. clock.day \in Nat
    BY <1>0
  <2>1. UNCHANGED <<clock, official>>
    BY <1>2 DEF IngestPrices, IngestFails
  <2>2. CASE IngestPrices(w)
    <3>1. daily' \in {daily, clock.day - 1, clock.day} /\ daily' >= daily
      BY <2>2 DEF IngestPrices
    <3> QED  BY <1>0, <2>0, <2>1, <3>1 DEF DaysTyped
  <2>3. CASE IngestFails(w)
    <3>1. daily' = daily \/ (daily' \in {clock.day - 1, clock.day} /\ daily' > daily)
      BY <2>3 DEF IngestFails
    <3> QED  BY <1>0, <2>0, <2>1, <3>1 DEF DaysTyped
  <2> QED  BY <1>2, <2>2, <2>3
<1>3. CASE Tick
  <2>1. clock' \in [day : Nat, afternoon : BOOLEAN] /\ UNCHANGED <<daily, official>>
    <3>1. UNCHANGED <<daily, official>>
      BY <1>3 DEF Tick
    <3>2. clock' = [clock EXCEPT !.afternoon = TRUE] \/ clock' = [day |-> clock.day + 1, afternoon |-> FALSE]
      BY <1>3 DEF Tick
    <3>3. clock.day \in Nat /\ clock.day + 1 \in Nat
      BY <1>0
    <3>4. CASE clock' = [clock EXCEPT !.afternoon = TRUE]
      BY <1>0, <3>1, <3>4
    <3>5. CASE clock' = [day |-> clock.day + 1, afternoon |-> FALSE]
      BY <3>1, <3>3, <3>5
    <3> QED  BY <3>2, <3>4, <3>5
  <2> QED  BY <1>0, <2>1 DEF DaysTyped
<1>4. ASSUME NEW p \in Periods, StoreOfficialWeek(p)  PROVE DaysTyped'
  BY <1>0, <1>4, PeriodNumbers DEF StoreOfficialWeek, DaysTyped
<1> QED
  BY <1>1, <1>2, <1>3, <1>4 DEF Next, vars, jobVars, Enqueue, TakeLane, StartIngest,
     Release, StartScript, EndScript, Synchronise, RefreshCaches, SaveSeries, Exit, Crash

LEMMA HealthInvStep ==
  ASSUME HealthInv, [Next]_vars
  PROVE  HealthInv'
<1>1. SyncInv' /\ PublishedInv' /\ ObservedStored'
  BY WorkerIsItsParts, SyncInvNext, PublishedNext, ObservedStep DEF HealthInv
<1> QED  BY <1>1, OfficialStep, DaysStep DEF HealthInv

-----------------------------------------------------------------------------
(* ... what it says.                                                       *)

LEMMA NewestIs ==
  ASSUME NEW S \in SUBSET Nat, IsFiniteSet(S)
  PROVE  /\ Newest(S) \in S \union {0} /\ Newest(S) \in Nat
         /\ \A x \in S : x <= Newest(S)
<1>1. S \union {0} \in SUBSET Nat /\ S \union {0} # {}
  OBVIOUS
<1>2. IsFiniteSet(S \union {0})
  BY FS_AddElement
<1>3. PICK m \in S \union {0} : \A x \in S \union {0} : x <= m
  <2> DEFINE T == S \union {0}
  <2>1. T \in SUBSET Nat /\ T # {} /\ IsFiniteSet(T)
    BY <1>1, <1>2
  <2> HIDE DEF T
  <2>2. \E m \in T : \A x \in T : x <= m
    BY <2>1, FiniteGreatest
  <2> QED  BY <2>2 DEF T
<1> QED  BY <1>1, <1>3 DEF Newest

LEMMA StatusMeans ==
  ASSUME NEW collection, NEW latest \in Nat, NEW expected \in Int
  PROVE  /\ HealthStatus(collection, latest, expected) = "healthy" =>
              latest # 0 /\ latest >= expected
         /\ HealthStatus(collection, latest, expected) = "delayed" =>
              latest # 0 /\ latest < expected
         /\ HealthStatus(collection, latest, expected) \in
              {"error", "missing", "delayed", "healthy"}
BY DEF HealthStatus

\* A source that is not late is fewer business days behind than it may be ...
LEMMA FewBehind ==
  ASSUME NEW today \in Int, NEW lag \in Nat \ {0}, NEW latest \in Int,
         latest >= PreviousBusinessDay(today, lag)
  PROVE  Count(latest + 1, today - 1) \in Nat /\ Count(latest + 1, today - 1) < lag
<1> DEFINE e == PreviousBusinessDay(today, lag)
           l == latest + 1
<1>1. e \in Int /\ e <= today - 1 /\ IsBusinessDay(e) /\ Count(e, today - 1) = lag
  BY PreviousIs
<1>2. latest >= e /\ l \in Int /\ today - 1 \in Int
  OBVIOUS
<1>3. Count(l, today - 1) \in Nat
  BY <1>2, DaysFinite
<1>4. CASE latest > today - 1
  <2>1. BusinessDays(l, today - 1) = {}
    BY <1>4 DEF BusinessDays
  <2>2. Count(l, today - 1) = 0
    BY <2>1, FS_EmptySet DEF Count
  <2> QED  BY <2>2
<1>5. CASE latest <= today - 1
  <2> HIDE DEF e
  <2>1. Count(e, today - 1) = Count(e, latest) + Count(latest + 1, today - 1)
    BY <1>1, <1>2, <1>5, CountSplit
  <2>2. Count(e, latest) = Count(e, e) + Count(e + 1, latest)
    BY <1>1, <1>2, CountSplit
  <2>3. Count(e, e) = 1
    BY <1>1, CountOne
  <2>4. e + 1 \in Int
    BY <1>1
  <2>5. Count(e + 1, latest) \in Nat
    BY <2>4, DaysFinite
  <2> QED  BY <1>1, <1>3, <2>1, <2>2, <2>3, <2>5
<1> QED  BY <1>2, <1>4, <1>5

\* ... and one that is late is behind by what it may be and by the delay.
LEMMA LateBehind ==
  ASSUME NEW today \in Int, NEW lag \in Nat \ {0}, NEW latest \in Int,
         latest < PreviousBusinessDay(today, lag)
  PROVE  Count(latest + 1, today - 1) =
           DelayInDays(latest, PreviousBusinessDay(today, lag)) + lag - 1
<1> DEFINE e == PreviousBusinessDay(today, lag)
           l == latest + 1
<1>1. e \in Int /\ e <= today - 1 /\ IsBusinessDay(e) /\ Count(e, today - 1) = lag
  BY PreviousIs
<1>2. latest < e /\ l \in Int /\ l <= e /\ today - 1 \in Int
  BY <1>1
<1> HIDE DEF e, l
<1>3. Count(l, today - 1) = Count(l, e) + Count(e + 1, today - 1)
  BY <1>1, <1>2, CountSplit
<1>4. Count(e, today - 1) = Count(e, e) + Count(e + 1, today - 1)
  BY <1>1, <1>2, CountSplit
<1>5. Count(e, e) = 1
  BY <1>1, CountOne
<1>6. e + 1 \in Int /\ e - 1 \in Int
  BY <1>1
<1>7. Count(e + 1, today - 1) \in Nat /\ Count(l, e) \in Nat /\ Count(l, e - 1) \in Nat
  BY <1>1, <1>2, <1>6, DaysFinite
<1>8. Count(l, e) >= 1
  <2>1. Count(l, e) = Count(l, e - 1) + Count((e - 1) + 1, e)
    <3>1. l <= (e - 1) + 1 /\ e - 1 <= e
      BY <1>1, <1>2
    <3> QED  BY <1>1, <1>2, <1>6, <3>1, CountSplit
  <2>2. (e - 1) + 1 = e
    BY <1>1
  <2> QED  BY <1>5, <1>7, <2>1, <2>2
<1>9. DelayInDays(latest, e) = Count(l, e)
  BY <1>7, <1>8 DEF DelayInDays, Count, l
<1> QED  BY <1>1, <1>3, <1>4, <1>5, <1>7, <1>9 DEF e, l

LEMMA ExpectedIsRecent ==
  ASSUME NEW today \in Int, NEW afternoon \in BOOLEAN
  PROVE  /\ ExpectedWeeklyDate(today, afternoon) \in Int
         /\ ExpectedWeeklyDate(today, afternoon) >= today - 8
BY DEF ExpectedWeeklyDate, Weekday

\* The newest observation the page shows is the newest that is stored.
LEMMA LatestIsStored ==
  ASSUME HealthInv, NEW c \in Codes
  PROVE  /\ Newest(Stored(c)) \in Nat
         /\ ObservedLatest(c) = Newest(Stored(c))
         /\ Newest(Stored(c)) # 0 => Stored(c) # {}
<1>1. Stored(c) \in SUBSET MarketDays /\ syncState[c].observed \in {0} \union Stored(c)
  BY DEF HealthInv, ObservedStored, Stored
<1>2. Stored(c) \in SUBSET Nat /\ 0 \notin Stored(c) /\ IsFiniteSet(Stored(c))
  BY <1>1, SyncAssumption, FS_Subset
<1>3. /\ Newest(Stored(c)) \in Stored(c) \union {0} /\ Newest(Stored(c)) \in Nat
  BY <1>2, NewestIs
<1>4. (Stored(c) \union {syncState[c].observed}) \union {0} = Stored(c) \union {0}
  BY <1>1
<1>5. ObservedLatest(c) = Newest(Stored(c))
  <2> DEFINE all == Stored(c) \union {syncState[c].observed}
             x == Newest(Stored(c))
  <2>1. /\ x \in Stored(c) \union {0} /\ x \in Nat
        /\ \A d \in Stored(c) : d <= x
    BY <1>2, NewestIs
  <2>2. all \in SUBSET Nat /\ IsFiniteSet(all) /\ all \union {0} = Stored(c) \union {0}
    BY <1>1, <1>2, <1>4, FS_AddElement
  <2>3. /\ Newest(all) \in all \union {0} /\ Newest(all) \in Nat
        /\ \A d \in all : d <= Newest(all)
    <3> HIDE DEF all
    <3> QED  BY <2>2, NewestIs
  <2>4. Newest(all) = x
    <3> HIDE DEF all, x
    <3>1. x <= Newest(all)
      BY <2>1, <2>2, <2>3
    <3>2. Newest(all) <= x
      BY <2>1, <2>2, <2>3
    <3> QED  BY <2>1, <2>3, <3>1, <3>2
  <2> QED  BY <2>4 DEF ObservedLatest
<1> QED  BY <1>3, <1>5

LEMMA CodesAreTrue ==
  ASSUME HealthInv, NEW c \in HealthCodes
  PROVE  /\ CodeHealth(c) = "healthy" => Stored(c) # {} /\ BehindBy(c) < Lag[c]
         /\ CodeHealth(c) = "delayed" =>
              BehindBy(c) = DelayInDays(ObservedLatest(c), PreviousBusinessDay(clock.day, Lag[c]))
                              + Lag[c] - 1
<1> DEFINE latest == Newest(Stored(c))
           lag == Lag[c]
           today == clock.day
<1>1. c \in Codes /\ lag \in Nat \ {0} /\ today \in Int
  BY WorkerAssumption DEF HealthInv, DaysTyped
<1>2. latest \in Nat /\ ObservedLatest(c) = latest /\ (latest # 0 => Stored(c) # {})
  BY <1>1, LatestIsStored
<1>3. BehindBy(c) = Count(latest + 1, today - 1)
  BY DEF BehindBy, Count
<1>4. CodeHealth(c) = HealthStatus(syncState[c].status, latest, PreviousBusinessDay(today, lag))
  BY <1>2 DEF CodeHealth
<1> HIDE DEF latest, lag, today
<1>5. PreviousBusinessDay(today, lag) \in Int
  BY <1>1, PreviousIs
<1>6. ASSUME CodeHealth(c) = "healthy"  PROVE Stored(c) # {} /\ BehindBy(c) < lag
  <2>1. latest # 0 /\ latest >= PreviousBusinessDay(today, lag)
    BY <1>2, <1>4, <1>5, <1>6, StatusMeans
  <2> QED  BY <1>1, <1>2, <1>3, <2>1, FewBehind
<1>7. ASSUME CodeHealth(c) = "delayed"
      PROVE  BehindBy(c) = DelayInDays(latest, PreviousBusinessDay(today, lag)) + lag - 1
  <2>1. latest < PreviousBusinessDay(today, lag)
    BY <1>2, <1>4, <1>5, <1>7, StatusMeans
  <2> QED  BY <1>1, <1>2, <1>3, <2>1, LateBehind
<1> QED  BY <1>2, <1>6, <1>7 DEF latest, lag, today

\* Where the page has the date of a week from, Opinet has published the week.
LEMMA WeekIsPublished ==
  ASSUME HealthInv, WeeklyDate # 0
  PROVE  \E p \in Periods : stats["weekly"][p] # 0 /\ WeekEnd(p) = WeeklyDate
<1>0. /\ CacheTypeOK /\ FilesPublished /\ OfficialPublished /\ "weekly" \in Kinds
  BY WorkerAssumption DEF HealthInv, PublishedInv
<1>1. CASE official # 0 \/ file["weekly"] = Torn
  <2>1. WeeklyDate = official
    BY <1>1 DEF WeeklyDate
  <2>2. PICK p \in Periods : stats["weekly"][p] # 0 /\ official = WeekEnd(p)
    BY <1>0, <2>1 DEF OfficialPublished
  <2> QED  BY <2>1, <2>2
<1>2. CASE official = 0 /\ file["weekly"] # Torn
  <2>1. WeeklyDate = Newest(CachedWeeks)
    BY <1>2 DEF WeeklyDate
  <2>2. CachedWeeks \in SUBSET Nat /\ IsFiniteSet(CachedWeeks)
    <3> DEFINE ends == {WeekEnd(p) : p \in Periods}
    <3>1. IsFiniteSet(ends)
      <4> DEFINE end == [p \in Periods |-> WeekEnd(p)]
      <4>1. end \in Surjection(Periods, ends)
        BY DEF Surjection
      <4> HIDE DEF ends, end
      <4> QED  BY <4>1, CacheAssumption, FS_Surjection
    <3>2. CachedWeeks \subseteq ends
      BY DEF CachedWeeks
    <3>3. ends \subseteq Nat
      BY PeriodNumbers
    <3> QED  BY <3>1, <3>2, <3>3, FS_Subset
  <2>3. WeeklyDate \in CachedWeeks \union {0}
    BY <2>1, <2>2, NewestIs
  <2>4. PICK p \in Periods : file["weekly"][p] # 0 /\ WeeklyDate = WeekEnd(p)
    BY <2>3 DEF CachedWeeks
  <2>5. file["weekly"] \in Series /\ stats["weekly"] \in Series
    BY <1>0, <1>2 DEF CacheTypeOK
  <2>6. /\ file["weekly"][p] \in Nat /\ stats["weekly"][p] \in Nat
        /\ file["weekly"][p] <= stats["weekly"][p]
    BY <1>0, <1>2, <2>5, SeriesPrices DEF FilesPublished
  <2>7. stats["weekly"][p] # 0
    BY <2>4, <2>6
  <2> QED  BY <2>4, <2>7
<1> QED  BY <1>1, <1>2

LEMMA SummaryIsTrue ==
  ASSUME HealthInv, DataHealthSummary = "healthy"
  PROVE  /\ \E p \in Periods : stats["weekly"][p] # 0 /\ WeekEnd(p) >= clock.day - 8
         /\ BusinessDays(daily + 1, clock.day - 1) = {}
<1> DEFINE today == clock.day
<1>0. today \in Int /\ clock.afternoon \in BOOLEAN /\ daily \in Nat /\ official \in Nat
  BY DEF HealthInv, DaysTyped
<1>1. /\ DailyHealth \notin {"error", "missing", "delayed"}
      /\ WeeklyHealth \notin {"error", "missing", "delayed"}
  BY DEF DataHealthSummary, Summary
<1>2. BusinessDays(daily + 1, today - 1) = {}
  <2>1. PreviousBusinessDay(today, 1) \in Int
    BY <1>0, PreviousIs
  <2>2. daily >= PreviousBusinessDay(today, 1)
    BY <1>0, <1>1, <2>1, StatusMeans DEF DailyHealth
  <2>3. Count(daily + 1, today - 1) \in Nat /\ Count(daily + 1, today - 1) < 1
    BY <1>0, <2>2, FewBehind
  <2>4. Count(daily + 1, today - 1) = 0
    BY <2>3
  <2>5. IsFiniteSet(BusinessDays(daily + 1, today - 1))
    <3>1. daily + 1 \in Int /\ today - 1 \in Int
      BY <1>0
    <3> QED  BY <3>1, DaysFinite
  <2> QED  BY <2>4, <2>5, FS_EmptySet DEF Count
<1>3. \E p \in Periods : stats["weekly"][p] # 0 /\ WeekEnd(p) >= today - 8
  <2>1. WeeklyDate \in Nat
    <3>1. CASE WeeklyDate = 0
      BY <3>1
    <3>2. CASE WeeklyDate # 0
      BY <3>2, WeekIsPublished, PeriodNumbers
    <3> QED  BY <3>1, <3>2
  <2>2. /\ ExpectedWeeklyDate(today, clock.afternoon) \in Int
        /\ ExpectedWeeklyDate(today, clock.afternoon) >= today - 8
    BY <1>0, ExpectedIsRecent
  <2>3. WeeklyDate # 0 /\ WeeklyDate >= ExpectedWeeklyDate(today, clock.afternoon)
    BY <1>1, <2>1, <2>2, StatusMeans DEF WeeklyHealth
  <2>4. PICK p \in Periods : stats["weekly"][p] # 0 /\ WeekEnd(p) = WeeklyDate
    BY <2>3, WeekIsPublished
  <2> QED  BY <1>0, <2>1, <2>2, <2>3, <2>4
<1> QED  BY <1>2, <1>3

THEOREM PageTellsTruth == Spec => []HealthIsTrue
<1>1. Init => HealthInv
  BY HealthInvInit
<1>2. HealthInv /\ [Next]_vars => HealthInv'
  BY HealthInvStep
<1>3. HealthInv => HealthIsTrue
  BY CodesAreTrue, SummaryIsTrue DEF HealthIsTrue
<1> QED  BY <1>1, <1>2, <1>3, PTL DEF Spec
=================================================================================
