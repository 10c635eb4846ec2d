------------------------------ MODULE IndicatorSync ------------------------------
(***************************************************************************)
(* The synchronisation of the external indicators.  A task goes through    *)
(* the providers in order.  For each it announces the codes, fetches their *)
(* history, keeps what is new or among the two newest observations, writes *)
(* it row by row outside a transaction and records how it ended.  A        *)
(* provider that fails does not stop the others.                           *)
(*                                                                         *)
(* Days are positive numbers, 0 is none.  An observation has a version, 2  *)
(* once the provider has revised it.  The worker and the script            *)
(* sync:indicators may run at the same time: the synchronisation takes no  *)
(* lock of its own.                                                        *)
(***************************************************************************)
EXTENDS Integers, Sequences, FiniteSets, WorkerTasks

CONSTANTS
  Providers,      \* the providers, in the order they are asked
  CodesOf,        \* the codes each provider has
  MarketDays,     \* days the markets quote
  MaxRevisions    \* bound on the observations that are revised

Codes == UNION {CodesOf[Providers[i]] : i \in DOMAIN Providers}

ASSUME SyncAssumption ==
  /\ MarketDays \subseteq Nat \ {0}
  /\ Providers \in Seq(DOMAIN CodesOf)
  /\ IsFiniteSet(MarketDays)
  /\ MaxRevisions \in Nat

VARIABLES
  market,     \* the providers: the newest day quoted, what has been revised
  history,    \* externalIndicatorHistory: per code and day the version stored
  syncState,  \* externalIndicatorSyncState, per code
  sync        \* per task: where its synchronisation is

syncVars == <<market, history, syncState, sync>>

-----------------------------------------------------------------------------
Versions == 1..2

PointType == [code : Codes, day : MarketDays, version : Versions]

PointsOf(c, points) == {x \in points : x.code = c}

DaysOf(c, points) == {x.day : x \in PointsOf(c, points)}

\* What a provider has of a code, up to a day.
Quoted(c, upto) ==
  {[code |-> c, day |-> d, version |-> IF <<c, d>> \in market.revised THEN 2 ELSE 1] :
     d \in {x \in MarketDays : x <= market.newest /\ x <= upto}}

Stored(c) == {d \in MarketDays : history[c][d] # 0}

IsNewest(day, days) == day \in days /\ \A d \in days : d <= day

\* What is to be stored of a response: everything since the newest stored
\* observation, and the two newest of each code however old.
Kept(points) ==
  {x \in points :
     \/ \A d \in Stored(x.code) : d <= x.day
     \/ Cardinality({d \in DaysOf(x.code, points) : d > x.day}) < 2}

Requested(t) == CodesOf[Providers[sync[t].at]]

IdleSync == [pc |-> "idle", at |-> 1, points |-> {}, kept |-> {}, updates |-> {}, failed |-> FALSE]

SyncInit ==
  /\ market = [newest |-> 0, revised |-> {}]
  /\ history = [c \in Codes |-> [d \in MarketDays |-> 0]]
  /\ syncState = [c \in Codes |-> [status |-> "none", observed |-> 0]]
  /\ sync = [t \in Tasks |-> IdleSync]

\* The row of every requested code gets a status; what it last observed stays.
Marked(t, status) ==
  [c \in Codes |-> IF c \in Requested(t) THEN [syncState[c] EXCEPT !.status = status]
                                         ELSE syncState[c]]

NextProvider(t) ==
  [sync[t] EXCEPT !.pc = "begin", !.at = @ + 1, !.points = {}, !.kept = {}, !.updates = {}]

-----------------------------------------------------------------------------
BeginSync(t) ==
  /\ sync[t].pc = "idle"
  /\ sync' = [sync EXCEPT ![t].pc = "begin"]
  /\ UNCHANGED <<market, history, syncState>>

CheckProvider(t) ==
  /\ sync[t].pc = "begin" /\ sync[t].at \in DOMAIN Providers
  /\ syncState' = Marked(t, "checking")
  /\ sync' = [sync EXCEPT ![t].pc = "checked"]
  /\ UNCHANGED <<market, history>>

\* The provider answers; for a code it may miss the newest day, or all.
FetchHistory(t) ==
  /\ sync[t].pc = "checked"
  /\ \E upto \in [Requested(t) -> {0, market.newest - 1, market.newest}] :
       sync' = [sync EXCEPT ![t].pc = "fetched",
         ![t].points = UNION {Quoted(c, upto[c]) : c \in Requested(t)}]
  /\ UNCHANGED <<market, history, syncState>>

\* The newest stored days are read; a response without one of the codes, or
\* one that ends before what is stored, is refused as a whole.
FilterPoints(t) ==
  /\ sync[t].pc = "fetched"
  /\ \A c \in Requested(t) :
       \E d \in DaysOf(c, sync[t].points) : \A s \in Stored(c) : s <= d
  /\ sync' = [sync EXCEPT ![t].pc = "filtered", ![t].kept = Kept(sync[t].points)]
  /\ UNCHANGED <<market, history, syncState>>

\* The stored rows of the kept days are read: what has no row is to be
\* created, what differs from its row is to be updated.
ReadRows(t) ==
  /\ sync[t].pc = "filtered"
  /\ LET version(x) == history[x.code][x.day]
     IN  sync' = [sync EXCEPT ![t].pc = "read",
           ![t].kept = {x \in sync[t].kept : version(x) = 0},
           ![t].updates = {x \in sync[t].kept : version(x) \notin {0, x.version}}]
  /\ UNCHANGED <<market, history, syncState>>

\* The new rows are created at once, except for the ones another task has
\* created meanwhile.
CreateRows(t) ==
  LET Created(c, d) == {x \in sync[t].kept : x.code = c /\ x.day = d}
  IN  /\ sync[t].pc = "read"
      /\ history' = [c \in Codes |-> [d \in MarketDays |->
           IF history[c][d] = 0 /\ Created(c, d) # {}
             THEN (CHOOSE x \in Created(c, d) : TRUE).version ELSE history[c][d]]]
      /\ sync' = [sync EXCEPT ![t].pc = "created"]
      /\ UNCHANGED <<market, syncState>>

\* The others get the fetched version, one row at a time.
UpdateRow(t) ==
  /\ sync[t].pc = "created"
  /\ \E x \in sync[t].updates :
       /\ history' = [history EXCEPT ![x.code][x.day] = x.version]
       /\ sync' = [sync EXCEPT ![t].updates = @ \ {x}]
  /\ UNCHANGED <<market, syncState>>

\* A defect: success is recorded before the rows are there.
RecordSuccessEarly(t) ==
  /\ sync[t].pc \in {"filtered", "created"}
  /\ \E newest \in [Requested(t) -> MarketDays] :
       /\ \A c \in Requested(t) : IsNewest(newest[c], DaysOf(c, sync[t].points))
       /\ syncState' = [c \in Codes |->
            IF c \in Requested(t) THEN [status |-> "succeeded", observed |-> newest[c]]
                                  ELSE syncState[c]]
       /\ sync' = [sync EXCEPT ![t] = IF @.pc = "filtered" THEN @ ELSE NextProvider(t)]
  /\ UNCHANGED <<market, history>>

\* Every row is stored.
RecordSuccess(t) ==
  /\ sync[t].pc = "created" /\ sync[t].updates = {}
  /\ \E newest \in [Requested(t) -> MarketDays] :
       /\ \A c \in Requested(t) : IsNewest(newest[c], DaysOf(c, sync[t].points))
       /\ syncState' = [c \in Codes |->
            IF c \in Requested(t) THEN [status |-> "succeeded", observed |-> newest[c]]
                                  ELSE syncState[c]]
  /\ sync' = [sync EXCEPT ![t] = NextProvider(t)]
  /\ UNCHANGED <<market, history>>

\* A defect: the provider that fails takes the rest with it.
RecordFailureOfAll(t) ==
  /\ sync[t].pc \in {"checked", "fetched", "filtered", "read", "created"}
  /\ syncState' = Marked(t, "failed")
  /\ sync' = [sync EXCEPT ![t] =
       [NextProvider(t) EXCEPT !.failed = TRUE, !.at = Len(Providers) + 1]]
  /\ UNCHANGED <<market, history>>

\* Any error, of the provider or of the database, before the success is
\* recorded: what has been written stays.
RecordFailure(t) ==
  /\ sync[t].pc \in {"checked", "fetched", "filtered", "read", "created"}
  /\ syncState' = Marked(t, "failed")
  /\ sync' = [sync EXCEPT ![t] = [NextProvider(t) EXCEPT !.failed = TRUE]]
  /\ UNCHANGED <<market, history>>

FinishSync(t) ==
  /\ sync[t].pc = "begin" /\ sync[t].at \notin DOMAIN Providers
  /\ sync' = [sync EXCEPT ![t].pc = "done"]
  /\ UNCHANGED <<market, history, syncState>>

\* The state itself could not be recorded: the synchronisation ends there.
AbortSync(t) ==
  /\ sync[t].pc \notin {"idle", "done"}
  /\ sync' = [sync EXCEPT ![t] = [IdleSync EXCEPT !.pc = "done", !.failed = TRUE]]
  /\ UNCHANGED <<market, history, syncState>>

\* The task is over, or its process has died.
EndSync(t) ==
  /\ sync' = [sync EXCEPT ![t] = IdleSync]
  /\ UNCHANGED <<market, history, syncState>>

SyncStep(t) ==
  \/ CheckProvider(t) \/ FetchHistory(t) \/ FilterPoints(t) \/ ReadRows(t)
  \/ CreateRows(t) \/ UpdateRow(t) \/ RecordSuccess(t) \/ RecordFailure(t)
  \/ FinishSync(t) \/ AbortSync(t)

-----------------------------------------------------------------------------
(* The providers, as the code uses them: a day is quoted after the other,  *)
(* and a value may be revised.                                             *)

Quote(d) ==
  /\ d \in MarketDays /\ d > market.newest
  /\ \A x \in MarketDays : x > market.newest => d <= x
  /\ market' = [market EXCEPT !.newest = d]
  /\ UNCHANGED <<history, syncState, sync>>

Revise(c, d) ==
  /\ d \in MarketDays /\ d <= market.newest /\ <<c, d>> \notin market.revised
  /\ Cardinality(market.revised) < MaxRevisions
  /\ market' = [market EXCEPT !.revised = @ \union {<<c, d>>}]
  /\ UNCHANGED <<history, syncState, sync>>

-----------------------------------------------------------------------------
SyncNext ==
  \/ \E t \in Tasks : BeginSync(t) \/ SyncStep(t) \/ EndSync(t)
  \/ \E d \in MarketDays : Quote(d) \/ \E c \in Codes : Revise(c, d)

SyncSpec == SyncInit /\ [][SyncNext]_syncVars

-----------------------------------------------------------------------------
Progress == {"idle", "begin", "checked", "fetched", "filtered", "read", "created",
             "done"}

StateType == [status : {"none", "checking", "succeeded", "failed"},
              observed : MarketDays \union {0}]

SyncType == [pc : Progress, at : 1..(Len(Providers) + 1),
             points : SUBSET PointType, kept : SUBSET PointType,
             updates : SUBSET PointType, failed : BOOLEAN]

SyncTypeOK ==
  /\ market \in [newest : MarketDays \union {0}, revised : SUBSET (Codes \X MarketDays)]
  /\ history \in [Codes -> [MarketDays -> 0..2]]
  /\ syncState \in [Codes -> StateType]
  /\ sync \in [Tasks -> SyncType]

Board == INSTANCE IndicatorBoard
           WITH Days <- MarketDays, board <- syncState,
                stored <- [c \in Codes |-> Stored(c)]

\* The synchronisation implements the board: no observation is lost, whatever
\* fails or dies between two writes, and a code is successful only with a
\* stored observation.
ImplementsBoard == Board!BoardSpec

\* What a synchronisation reports is true, whatever else goes on beside it:
\* unless its own records failed it has asked every provider, however many of
\* them failed, and if none did every code has an observation.
ReportIsTrue ==
  \A t \in Tasks : sync[t].pc = "done" =>
    /\ sync[t].at > Len(Providers) => \A c \in Codes : syncState[c].status # "none"
    /\ ~sync[t].failed => \A c \in Codes : Stored(c) # {}
=============================================================================
