---------------------------------- MODULE Worker ----------------------------------
(***************************************************************************)
(* One execution of the scheduled worker: it records its run, waits for    *)
(* the dataset lane, synchronises the external indicators, refreshes the   *)
(* series caches and ingests the daily prices; the first two may fail and  *)
(* the ingest still goes on.  Beside it the scripts that synchronise the   *)
(* indicators or publish the cached series, and the admin page, which      *)
(* reads all of them as the state of the data.                             *)
(*                                                                         *)
(* The reconciliation, the snapshot and the forecast are one step here;    *)
(* module Ingest has them in detail.                                       *)
(***************************************************************************)
EXTENDS IndicatorSync, SeriesCache, DataHealth

CONSTANTS
  ScriptTasks,    \* what the scripts do: "sync", "publish"
  NoTask,         \* nobody holds the lane
  HealthCodes,    \* the codes the admin page shows
  Lag,            \* by how many business days each of them may be behind
  FirstDay, LastDay,  \* the days the clock goes through
  MaxRuns         \* bound on the runs

ASSUME WorkerAssumption ==
  /\ NoTask \notin Tasks
  /\ "weekly" \in Kinds
  /\ ScriptTasks \subseteq {"sync", "publish"}
  /\ HealthCodes \subseteq Codes /\ Lag \in [HealthCodes -> Nat \ {0}]
  /\ FirstDay \in Nat \ {0} /\ LastDay \in Nat /\ MaxRuns \in Nat

VARIABLES
  clock,      \* the day in Seoul, and whether its morning is over
  runs,       \* ingestRun: the status of every run, in the order of creation
  daily,      \* dailyPriceCurrent: the newest date
  official,   \* the last day of the newest official week of a quarter
  job,        \* per task: where it is
  lane        \* the worker that holds the advisory lock of the dataset

jobVars == <<clock, runs, daily, official, job, lane>>
vars == <<syncVars, cacheVars, jobVars>>

IdleJob == [pc |-> "idle", run |-> 0]

Init ==
  /\ SyncInit
  /\ CacheInit
  /\ clock = [day |-> FirstDay, afternoon |-> FALSE]
  /\ runs = <<>>
  /\ daily = 0 /\ official = 0
  /\ job = [t \in Tasks |-> IdleJob]
  /\ lane = NoTask

Goto(t, pc) == job' = [job EXCEPT ![t].pc = pc]

-----------------------------------------------------------------------------
(* The worker.                                                             *)

Enqueue(w) ==
  /\ job[w].pc = "idle" /\ Len(runs) < MaxRuns
  /\ runs' = Append(runs, "queued")
  /\ job' = [job EXCEPT ![w] = [pc |-> "queued", run |-> Len(runs) + 1]]
  /\ UNCHANGED <<syncVars, cacheVars, clock, daily, official, lane>>

\* In the lane the indicators come first; the run is still queued.
TakeLane(w) ==
  /\ job[w].pc = "queued" /\ lane = NoTask
  /\ lane' = w
  /\ Goto(w, "syncing")
  /\ BeginSync(w)
  /\ UNCHANGED <<cacheVars, clock, runs, daily, official>>

\* However the synchronisation has ended, the ingest starts; the daily
\* prices are fetched, and the caches are refreshed with them.
StartIngest(w) ==
  /\ job[w].pc = "syncing" /\ sync[w].pc = "done"
  /\ runs' = [runs EXCEPT ![job[w].run] = "running"]
  /\ Goto(w, "refreshing")
  /\ BeginRefresh(w)
  /\ UNCHANGED <<syncVars, clock, daily, official, lane>>

\* However the refresh has ended, the prices are reconciled and the forecast
\* is made.
IngestPrices(w) ==
  /\ job[w].pc = "refreshing" /\ refresh[w].pc = "done"
  /\ daily' \in {d \in {daily, clock.day - 1, clock.day} : d >= daily /\ d > 0}
  /\ runs' = [runs EXCEPT ![job[w].run] = "succeeded"]
  /\ Goto(w, "done")
  /\ UNCHANGED <<syncVars, cacheVars, clock, official, lane>>

\* An error of the ingest itself: one of the forecast comes after the prices
\* have been reconciled.
IngestFails(w) ==
  /\ job[w].pc = "refreshing" /\ refresh[w].pc \in {"begin", "done"}
  /\ \/ daily' = daily
     \/ /\ refresh[w].pc = "done"
        /\ daily' \in {d \in {clock.day - 1, clock.day} : d > daily}
  /\ runs' = [runs EXCEPT ![job[w].run] = "failed"]
  /\ Goto(w, "done")
  /\ UNCHANGED <<syncVars, cacheVars, clock, official, lane>>

\* The summary is printed and the lane released; saves that are still under
\* way keep the process alive.
Release(w) ==
  /\ job[w].pc = "done" /\ w \in Workers
  /\ lane' = IF lane = w THEN NoTask ELSE lane
  /\ Goto(w, "ending")
  /\ UNCHANGED <<syncVars, cacheVars, clock, runs, daily, official>>

Exit(t) ==
  /\ job[t].pc = "ending" /\ Saving(t) = {}
  /\ job' = [job EXCEPT ![t] = IdleJob]
  /\ EndSync(t) /\ EndRefresh(t)
  /\ UNCHANGED <<clock, runs, daily, official, lane>>

\* The process dies: the run, the codes it was checking and the file it was
\* writing stay as they are; the lane ends with its connection.
Crash(t) ==
  /\ job[t].pc # "idle"
  /\ job' = [job EXCEPT ![t] = IdleJob]
  /\ lane' = IF lane = t THEN NoTask ELSE lane
  /\ EndSync(t) /\ EndRefresh(t)
  /\ UNCHANGED <<clock, runs, daily, official>>

-----------------------------------------------------------------------------
(* The scripts sync:indicators and persist:opinet-published.               *)

StartScript(s, task) ==
  /\ task \in ScriptTasks
  /\ job[s].pc = "idle"
  /\ IF task = "sync" THEN BeginSync(s) /\ UNCHANGED cacheVars
                      ELSE BeginPublishing(s) /\ UNCHANGED syncVars
  /\ Goto(s, IF task = "sync" THEN "syncing" ELSE "publishing")
  /\ UNCHANGED <<clock, runs, daily, official, lane>>

EndScript(s) ==
  /\ s \in Scripts
  /\ job[s].pc \in {"syncing", "publishing"}
  /\ IF job[s].pc = "syncing" THEN sync[s].pc = "done" ELSE refresh[s].pc = "done"
  /\ Goto(s, "ending")
  /\ UNCHANGED <<syncVars, cacheVars, clock, runs, daily, official, lane>>

-----------------------------------------------------------------------------
Synchronise(t) ==
  /\ job[t].pc = "syncing"
  /\ SyncStep(t)
  /\ UNCHANGED <<cacheVars, jobVars>>

RefreshCaches(t) ==
  /\ job[t].pc \in {"refreshing", "publishing"}
  /\ RefreshStep(t)
  /\ UNCHANGED <<syncVars, jobVars>>

\* Once begun, a save goes on whatever the task does meanwhile.
SaveSeries(t) ==
  /\ \E k \in Kinds : Save(t, k)
  /\ UNCHANGED <<syncVars, jobVars>>

-----------------------------------------------------------------------------
(* The time, the market, Opinet and the page of a quarter.                 *)

\* Time passes, on Friday by half a day; meanwhile the markets may have
\* quoted another day before this one, and Opinet may have published.
Tick ==
  /\ IF Weekday(clock.day) = 5 /\ ~clock.afternoon
       THEN clock' = [clock EXCEPT !.afternoon = TRUE]
       ELSE /\ clock.day < LastDay
            /\ clock' = [day |-> clock.day + 1, afternoon |-> FALSE]
  /\ \/ \E d \in MarketDays : d < clock.day /\ Quote(d)
     \/ UNCHANGED syncVars
  /\ \E kinds \in SUBSET Kinds : PublishStats(kinds)
  /\ UNCHANGED <<runs, daily, official, job, lane>>

WeekEnd(p) == 7 * p - 6

\* Reading the weeks of a quarter stores the official weeks it is given.
StoreOfficialWeek(p) ==
  /\ stats["weekly"][p] # 0 /\ official < WeekEnd(p)
  /\ official' = WeekEnd(p)
  /\ UNCHANGED <<syncVars, cacheVars, clock, runs, daily, job, lane>>

Next ==
  \/ \E w \in Workers : Enqueue(w) \/ TakeLane(w) \/ StartIngest(w)
                          \/ IngestPrices(w) \/ IngestFails(w) \/ Release(w)
  \/ \E s \in Scripts : (\E task \in ScriptTasks : StartScript(s, task)) \/ EndScript(s)
  \/ \E t \in Tasks : Synchronise(t) \/ RefreshCaches(t) \/ SaveSeries(t)
                        \/ Exit(t) \/ Crash(t)
  \/ Tick
  \/ \E p \in Periods : StoreOfficialWeek(p)

Spec == Init /\ [][Next]_vars

-----------------------------------------------------------------------------
(* The state of the data as the admin page shows it.                       *)

Newest(days) == CHOOSE d \in days \union {0} : \A x \in days : x <= d

CachedWeeks == {WeekEnd(p) : p \in {q \in Periods : file["weekly"][q] # 0}}

WeeklyDate ==
  IF official # 0 \/ file["weekly"] = Torn THEN official ELSE Newest(CachedWeeks)

RunsSucceeded == \E i \in DOMAIN runs : runs[i] = "succeeded"

DailyHealth ==
  HealthStatus(IF runs # <<>> /\ runs[Len(runs)] = "failed" THEN "failed"
               ELSE IF RunsSucceeded THEN "succeeded" ELSE "none",
               daily, PreviousBusinessDay(clock.day, 1))

WeeklyHealth ==
  HealthStatus(IF WeeklyDate = 0 /\ file["weekly"] = Torn THEN "failed" ELSE "succeeded",
               WeeklyDate, ExpectedWeeklyDate(clock.day, clock.afternoon))

\* The newest observation that is stored, or that the state tells of.
ObservedLatest(c) == Newest(Stored(c) \union {syncState[c].observed})

CodeHealth(c) ==
  HealthStatus(syncState[c].status, ObservedLatest(c),
               PreviousBusinessDay(clock.day, Lag[c]))

DataHealthSummary ==
  Summary({DailyHealth, WeeklyHealth} \union {CodeHealth(c) : c \in HealthCodes})

-----------------------------------------------------------------------------
(* Properties.                                                             *)

BehindBy(c) ==
  Cardinality(BusinessDays(Newest(Stored(c)) + 1, clock.day - 1))

\* What the page says of a code is true of the rows the next forecast reads:
\* healthy or late by as many business days as the newest stored observation
\* is behind, weekends and a synchronisation that died halfway included; and
\* all up to date is said only when the daily prices and a week Opinet has
\* published are.
HealthIsTrue ==
  /\ \A c \in HealthCodes :
       /\ CodeHealth(c) = "healthy" => Stored(c) # {} /\ BehindBy(c) < Lag[c]
       /\ CodeHealth(c) = "delayed" =>
            BehindBy(c) = DelayInDays(ObservedLatest(c), PreviousBusinessDay(clock.day, Lag[c]))
                            + Lag[c] - 1
  /\ DataHealthSummary = "healthy" =>
       /\ \E p \in Periods : stats["weekly"][p] # 0 /\ WeekEnd(p) >= clock.day - 8
       /\ BusinessDays(daily + 1, clock.day - 1) = {}
=============================================================================
