--------------------------------- MODULE Ingest ---------------------------------
(***************************************************************************)
(* The ingest of daily prices.  A job records its run, takes the dataset   *)
(* lane (the worker) or not (npm run ingest:opinet), fetches the prices,   *)
(* reconciles them into the price log and a snapshot in one transaction,   *)
(* builds the forecast over that snapshot in another and records how the   *)
(* run ended.                                                              *)
(*                                                                         *)
(* A run writes at most one revision per date, one snapshot and one        *)
(* forecast, so all of them go by the number of the run; 0 is none.        *)
(* Transactions run at READ COMMITTED: their reads are steps of their own, *)
(* a row one of them has written is locked until it ends, and its writes   *)
(* become visible together when it commits.                                *)
(***************************************************************************)
EXTENDS Integers, Sequences, FiniteSetsExt

CONSTANTS
  LaneJobs,      \* workers, which hold the lane while they ingest
  FreeJobs,      \* ingests started from the command line
  NoJob,         \* nobody holds the lane
  Window,        \* dates the recent prices reach back (7 days)
  MaxDate,       \* bound on the dates
  MaxPrice,      \* bound on the revisions of a price by its source
  MaxRuns,       \* bound on the runs
  LaneExpires    \* may the lane transaction time out under its job?

Jobs == LaneJobs \union FreeJobs
Dates == 1..MaxDate
Runs == 1..MaxRuns

ASSUME IngestAssumption ==
  /\ LaneJobs \intersect FreeJobs = {}
  /\ NoJob \notin Jobs
  /\ Window \in Nat \ {0} /\ MaxDate \in Nat \ {0}
  /\ MaxPrice \in Nat \ {0} /\ MaxRuns \in Nat \ {0}
  /\ LaneExpires \in BOOLEAN

VARIABLES
  source,     \* Opinet: the newest date of its average and of its recent
              \* prices, and how often the price of each date was published
  log,        \* priceRevisionLog: the revisions
  current,    \* dailyPriceCurrent: per date its revision and its snapshot
  status,     \* ingestRun: the status of every run, in the order of creation
  snapshots,  \* recomputeSnapshot: the revisions it has captured
  forecasts,  \* forecastRun, in the order of commit: what it was built from
  job,        \* per job: where it is and what it holds
  lane        \* the job that holds the advisory lock of the dataset

vars == <<source, log, current, status, snapshots, forecasts, job, lane>>

-----------------------------------------------------------------------------
Row(date, from) == [date |-> date, price |-> source.price[date], from |-> from]

DatesOf(rows) == {row.date : row \in rows}

\* The revision a run has written for a date.
RevisionOf(run, date) == CHOOSE r \in log : r.run = run /\ r.date = date

\* A defect: the day after the newest price counts as delivered too.
NewestFromNextDay(revisions, from) ==
  Max({0} \union {r.date + 1 : r \in {x \in revisions : x.from = from}})

NewestFrom(revisions, from) == Max({0} \union {r.date : r \in {x \in revisions : x.from = from}})

\* A defect: only the revisions of the last run count.
ConfirmedDateOfLast(revisions) ==
  LET last == {r \in revisions : \A x \in revisions : x.run <= r.run}
      average == NewestFrom(last, "average")
      recent  == NewestFrom(last, "recent")
  IN  IF average # 0 /\ recent # 0 THEN Min({average, recent}) ELSE Max({average, recent})

\* The newest date both feeds have delivered: the public confirmed date.
ConfirmedDate(revisions) ==
  LET average == NewestFrom(revisions, "average")
      recent  == NewestFrom(revisions, "recent")
  IN  IF average # 0 /\ recent # 0 THEN Min({average, recent}) ELSE Max({average, recent})

IdleJob == [pc |-> "idle", run |-> 0, rows |-> {}, known |-> {}, tags |-> {},
            prices |-> {}, upto |-> 0]

\* The rows of a job that are new or differ from what it has read: `known'
\* holds the revision of every fetched date that had one.
Changed(j) ==
  {row \in job[j].rows :
     \A k \in job[j].known : k.date = row.date =>
       k.price # row.price \/ k.from # row.from}

\* The run whose revision a row replaces, 0 if it is the first of its date.
Replaces(j, date) ==
  IF \E k \in job[j].known : k.date = date
    THEN (CHOOSE k \in job[j].known : k.date = date).run ELSE 0

Revisions(j) ==
  {[run |-> job[j].run, date |-> row.date, price |-> row.price, from |-> row.from,
    replaces |-> Replaces(j, row.date)] : row \in Changed(j)}

\* The rows a transaction has written and so holds locked.
Held(j) == IF job[j].pc = "written" THEN DatesOf(Changed(j)) ELSE {}

Blocked(j, dates) == \E k \in Jobs \ {j} : Held(k) \intersect dates # {}

Init ==
  /\ source = [average |-> 0, recent |-> 0, price |-> [d \in Dates |-> 0]]
  /\ log = {}
  /\ current = [d \in Dates |-> [run |-> 0, tag |-> 0]]
  /\ status = <<>>
  /\ snapshots = {}
  /\ forecasts = <<>>
  /\ job = [j \in Jobs |-> IdleJob]
  /\ lane = NoJob

-----------------------------------------------------------------------------
(* A job.                                                                  *)

Enqueue(j) ==
  /\ job[j].pc = "idle"
  /\ Len(status) < MaxRuns
  /\ status' = Append(status, "queued")
  /\ job' = [job EXCEPT ![j].pc = "queued", ![j].run = Len(status) + 1]
  /\ UNCHANGED <<source, log, current, snapshots, forecasts, lane>>

\* A defect: the worker does not wait for the lane.
StartUnlocked(j) ==
  /\ job[j].pc = "queued"
  /\ lane' = lane
  /\ status' = [status EXCEPT ![job[j].run] = "running"]
  /\ job' = [job EXCEPT ![j].pc = "started"]
  /\ UNCHANGED <<source, log, current, snapshots, forecasts>>

\* A worker has recorded its run before it waits for the lane.
Start(j) ==
  /\ job[j].pc = "queued"
  /\ IF j \in LaneJobs THEN lane = NoJob /\ lane' = j ELSE lane' = lane
  /\ status' = [status EXCEPT ![job[j].run] = "running"]
  /\ job' = [job EXCEPT ![j].pc = "started"]
  /\ UNCHANGED <<source, log, current, snapshots, forecasts>>

\* The average price of the newest date.
FetchAverage(j) ==
  /\ job[j].pc = "started"
  /\ job' = [job EXCEPT ![j].pc = "average",
       ![j].rows = IF source.average = 0 THEN {} ELSE {Row(source.average, "average")}]
  /\ UNCHANGED <<source, log, current, status, snapshots, forecasts, lane>>

\* The recent prices; when they cannot be had the job goes on without them.
\* The average price of a date comes before its recent price.
FetchRecent(j) ==
  /\ job[j].pc = "average"
  /\ LET newest == {d \in Dates : d <= source.recent /\ d > source.recent - Window}
     IN  \E dates \in {newest, {}} :
           /\ job[j].rows # {} \/ dates # {}
           /\ job' = [job EXCEPT ![j].pc = "fetched",
                ![j].rows = @ \union {Row(d, "recent") : d \in dates \ DatesOf(@)}]
  /\ UNCHANGED <<source, log, current, status, snapshots, forecasts, lane>>

\* The transaction of the reconciliation reads what is known of the dates,
ReadCurrent(j) ==
  /\ job[j].pc = "fetched"
  /\ job' = [job EXCEPT ![j].pc = "read",
       ![j].known = {RevisionOf(current[d].run, d) :
                       d \in {x \in DatesOf(job[j].rows) : current[x].run # 0}}]
  /\ UNCHANGED <<source, log, current, status, snapshots, forecasts, lane>>

\* ... writes a revision for every row that has changed, waiting for other
\* transactions that have written one of the dates and failing when a date
\* it did not know has been inserted meanwhile; then it reads the rows the
\* snapshot is to capture, its own among them,
WriteRevisions(j) ==
  LET changed == DatesOf(Changed(j))
      present == {d \in Dates : current[d].run # 0} \union changed
  IN  /\ job[j].pc = "read"
      /\ ~Blocked(j, changed)
      /\ \A d \in changed : Replaces(j, d) = 0 => current[d].run = 0
      /\ job' = [job EXCEPT ![j].pc = "written",
           ![j].tags = {[date |-> d, run |-> IF d \in changed THEN job[j].run
                                             ELSE current[d].run] : d \in present},
           ![j].upto = ConfirmedDate(log \union Revisions(j))]
      /\ UNCHANGED <<source, log, current, status, snapshots, forecasts, lane>>

\* A defect: the snapshot takes only the rows that have changed.
CommitSnapshotChanged(j) ==
  /\ job[j].pc = "written"
  /\ ~Blocked(j, DatesOf(job[j].tags))
  /\ log' = log \union Revisions(j)
  /\ current' = [d \in Dates |->
       IF d \in DatesOf(Changed(j)) THEN [run |-> job[j].run, tag |-> job[j].run]
                                    ELSE current[d]]
  /\ snapshots' = snapshots \union {[run |-> job[j].run, rows |-> job[j].tags]}
  /\ job' = [job EXCEPT ![j].pc = "snapshot"]
  /\ UNCHANGED <<source, status, forecasts, lane>>

\* ... puts all of them under the new snapshot and commits.
CommitSnapshot(j) ==
  /\ job[j].pc = "written"
  /\ ~Blocked(j, DatesOf(job[j].tags))
  /\ log' = log \union Revisions(j)
  /\ current' = [d \in Dates |->
       [run |-> IF d \in DatesOf(Changed(j)) THEN job[j].run ELSE current[d].run,
        tag |-> IF d \in DatesOf(job[j].tags) THEN job[j].run ELSE current[d].tag]]
  /\ snapshots' = snapshots \union {[run |-> job[j].run, rows |-> job[j].tags]}
  /\ job' = [job EXCEPT ![j].pc = "snapshot"]
  /\ UNCHANGED <<source, status, forecasts, lane>>

\* The forecast reads the prices that are under its snapshot, up to the
\* confirmed date; without any it fails.  The confirmed date counts the
\* revisions that are older than the snapshot, and perhaps one that was
\* committed next to it.
ReadPrices(j) ==
  /\ job[j].pc = "snapshot"
  /\ \E upto \in job[j].upto..ConfirmedDate(log) :
       LET dates == {d \in Dates : current[d].tag = job[j].run /\ d <= upto}
       IN  /\ dates # {}
           /\ job' = [job EXCEPT ![j].pc = "priced", ![j].upto = upto,
                ![j].prices = {[date |-> d, run |-> current[d].run] : d \in dates}]
  /\ UNCHANGED <<source, log, current, status, snapshots, forecasts, lane>>

CommitForecast(j) ==
  /\ job[j].pc = "priced"
  /\ forecasts' = Append(forecasts,
       [run |-> job[j].run, rows |-> job[j].prices, upto |-> job[j].upto])
  /\ job' = [job EXCEPT ![j].pc = "forecast"]
  /\ UNCHANGED <<source, log, current, status, snapshots, lane>>

\* A defect: the run is recorded as soon as its snapshot is there.
SucceedEarly(j) ==
  /\ job[j].pc \in {"snapshot", "forecast"}
  /\ status' = [status EXCEPT ![job[j].run] = "succeeded"]
  /\ job' = [job EXCEPT ![j].pc = IF @ = "snapshot" THEN "snapshot" ELSE "done"]
  /\ UNCHANGED <<source, log, current, snapshots, forecasts, lane>>

Succeed(j) ==
  /\ job[j].pc = "forecast"
  /\ status' = [status EXCEPT ![job[j].run] = "succeeded"]
  /\ job' = [job EXCEPT ![j].pc = "done"]
  /\ UNCHANGED <<source, log, current, snapshots, forecasts, lane>>

Leave(j) ==
  /\ job' = [job EXCEPT ![j] = IdleJob]
  /\ lane' = IF lane = j THEN NoJob ELSE lane

Return(j) ==
  /\ job[j].pc = "done"
  /\ Leave(j)
  /\ UNCHANGED <<source, log, current, status, snapshots, forecasts>>

\* Any error after the start, in the end even the answer to the last
\* statement getting lost, rolls the open transaction back and records the
\* run as failed.
Fail(j) ==
  /\ job[j].pc \notin {"idle", "queued"}
  /\ status' = [status EXCEPT ![job[j].run] = "failed"]
  /\ Leave(j)
  /\ UNCHANGED <<source, log, current, snapshots, forecasts>>

\* The process dies, waits too long for the lane, or cannot even record the
\* failure: the run keeps the status it has.
Crash(j) ==
  /\ job[j].pc # "idle"
  /\ Leave(j)
  /\ UNCHANGED <<source, log, current, status, snapshots, forecasts>>

\* The transaction that holds the lane ends after 600 s.
LaneExpire ==
  /\ LaneExpires
  /\ lane # NoJob
  /\ lane' = NoJob
  /\ UNCHANGED source

-----------------------------------------------------------------------------
(* Opinet, as the code uses it: a date appears among the average prices,   *)
(* later among the recent prices, and its price may be corrected.          *)

PublishAverage ==
  /\ source.average < MaxDate
  /\ source' = [source EXCEPT !.average = @ + 1, !.price[source.average + 1] = 1]
  /\ UNCHANGED lane

PublishRecent ==
  /\ source.recent < source.average
  /\ source' = [source EXCEPT !.recent = @ + 1]
  /\ UNCHANGED lane

Correct(d) ==
  /\ source.price[d] \in 1..(MaxPrice - 1)
  /\ source' = [source EXCEPT !.price[d] = @ + 1]
  /\ UNCHANGED lane

\* What no job does.
Environment ==
  /\ LaneExpire \/ PublishAverage \/ PublishRecent \/ \E d \in Dates : Correct(d)
  /\ UNCHANGED <<log, current, status, snapshots, forecasts, job>>

Work(j) ==
  \/ Enqueue(j) \/ Start(j) \/ FetchAverage(j) \/ FetchRecent(j)
  \/ ReadCurrent(j) \/ WriteRevisions(j) \/ CommitSnapshot(j)
  \/ ReadPrices(j) \/ CommitForecast(j) \/ Succeed(j) \/ Return(j)
  \/ Fail(j) \/ Crash(j)

Next == (\E j \in Jobs : Work(j)) \/ Environment

Spec == Init /\ [][Next]_vars

-----------------------------------------------------------------------------
(* Types.                                                                  *)

Feeds == {"average", "recent"}
Sources == Feeds \union {"history"}   \* the backfill has a source of its own
Statuses == {"queued", "running", "succeeded", "failed"}
Steps == {"idle", "queued", "started", "average", "fetched", "read", "written",
          "snapshot", "priced", "forecast", "done"}

Captured == [date : Dates, run : Runs]
FetchedType == [date : Dates, price : 1..MaxPrice, from : Sources]
RevisionType == [run : Runs, date : Dates, price : 1..MaxPrice, from : Sources,
                 replaces : 0..MaxRuns]
SnapshotType == [run : Runs, rows : SUBSET Captured]
ForecastType == [run : Runs, rows : SUBSET Captured, upto : Dates]
JobType == [pc : Steps, run : 0..MaxRuns, rows : SUBSET FetchedType,
            known : SUBSET RevisionType, tags : SUBSET Captured,
            prices : SUBSET Captured, upto : 0..MaxDate]

Typed ==
  /\ source \in [average : 0..MaxDate, recent : 0..MaxDate, price : [Dates -> 0..MaxPrice]]
  /\ log \subseteq RevisionType
  /\ current \in [Dates -> [run : 0..MaxRuns, tag : 0..MaxRuns]]
  /\ status \in Seq(Statuses) /\ Len(status) <= MaxRuns
  /\ snapshots \subseteq SnapshotType
  /\ forecasts \in Seq(ForecastType)
  /\ job \in [Jobs -> JobType]
  /\ lane \in LaneJobs \union {NoJob}

OnlyFeeds ==
  /\ \A r \in log : r.from \in Feeds
  /\ \A j \in Jobs : \A row \in job[j].rows \union job[j].known : row.from \in Feeds

\* Every variable has the values the code can give it, and without a backfill
\* every price comes from one of the two daily feeds.
TypeOK == Typed /\ OnlyFeeds

-----------------------------------------------------------------------------
(* Safety.                                                                 *)

\* The revisions of a date form one chain that ends in the revision
\* dailyPriceCurrent names: none is replaced twice, the current one never.
RevisionsFormChains ==
  /\ \A r, s \in log : (r.date = s.date /\ r.replaces = s.replaces) => r = s
  /\ \A r \in log : current[r.date].run # r.replaces

\* The current price of a date never returns to one its source had already
\* corrected when a later one was taken up.
PricesNeverRegress ==
  [][\A d \in Dates :
       (current[d].run # 0 /\ current'[d].run # current[d].run) =>
         \E new \in log' \ log :
           /\ new.date = d /\ new.run = current'[d].run
           /\ new.price >= RevisionOf(current[d].run, d).price]_vars

\* A forecast is built from exactly the revisions its snapshot captured, up
\* to the confirmed date (README: the snapshot fixes the current truth of
\* the calculation, and the forecast is created from the snapshot).
ForecastCoversSnapshot ==
  \A i \in DOMAIN forecasts : \E s \in snapshots :
    /\ s.run = forecasts[i].run
    /\ forecasts[i].rows = {x \in s.rows : x.date <= forecasts[i].upto}

\* The confirmed date of the forecasts never goes back once a snapshot holds
\* prices of both feeds (the weeks a shadow session or a monitoring has
\* completed rely on it).  Before, a missing answer of the recent prices
\* makes the average prices count alone.
ConfirmedNeverRetreats ==
  [][\A i \in DOMAIN forecasts' \ DOMAIN forecasts : \A k \in DOMAIN forecasts :
       (\E s \in snapshots : /\ s.run = forecasts[k].run
                            /\ \A feed \in Feeds : \E r \in log :
                                 r.from = feed /\ [date |-> r.date, run |-> r.run] \in s.rows)
         => forecasts[k].upto <= forecasts'[i].upto]_vars

\* A run that is recorded as succeeded has a snapshot and a forecast, also
\* while other ingests interfere.
SucceededHasForecast ==
  \A r \in DOMAIN status : status[r] = "succeeded" =>
    /\ \E s \in snapshots : s.run = r
    /\ \E i \in DOMAIN forecasts : forecasts[i].run = r

\* Whatever a job that has its snapshot has fetched is in the log, with its
\* price and its feed, also when other ingests have written the same dates.
FetchedIsLogged ==
  \A j \in Jobs : job[j].pc \in {"snapshot", "priced", "forecast", "done"} =>
    \A row \in job[j].rows : \E r \in log :
      r.date = row.date /\ r.price = row.price /\ r.from = row.from

-----------------------------------------------------------------------------
(* In the lane the ingest implements the abstract feed: to a reader of the *)
(* current prices and of the forecasts, a snapshot and its forecast are    *)
(* single steps over all the prices, and nothing comes between the two     *)
(* that the forecast would have to show.                                   *)

Feed == INSTANCE ForecastFeed

ImplementsFeed == Feed!FeedSpec
=============================================================================
