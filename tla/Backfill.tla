-------------------------------- MODULE Backfill --------------------------------
(***************************************************************************)
(* The backfill of daily prices, scripts/backfill-daily-history: an        *)
(* operator has a range of dates fetched from the statistics of Opinet and *)
(* reconciled as the ingest does it, beside the lane.  The run makes a     *)
(* snapshot but no forecast; that is left to the next ingest.  The prices  *)
(* carry a source of their own, "history".                                 *)
(***************************************************************************)
EXTENDS Ingest

CONSTANT
  BackfillJobs   \* those of the free jobs that are backfills

ASSUME BackfillAssumption == BackfillJobs \subseteq FreeJobs

VARIABLE
  historical     \* ingestRun: the runs requested by the backfill script

backfillVars == <<source, log, current, status, snapshots, forecasts, job, lane, historical>>

Ranges == {first..last : first, last \in Dates} \ {{}}

\* A defect: the rows carry the source of the recent prices.
HistoryRowsAsRecent(range) ==
  {Row(d, "recent") : d \in {x \in range : x <= source.average}}

\* What the statistics have on a range: the dates whose average has been
\* published.
HistoryRows(range) ==
  {Row(d, "history") : d \in {x \in range : x <= source.average}}

BackfillInit == Init /\ historical = {}

EnqueueBackfill(j) ==
  /\ Enqueue(j)
  /\ historical' = historical \union {job'[j].run}

\* An answer without a row fails the run instead of reconciling nothing.
FetchRange(j) ==
  /\ job[j].pc = "started"
  /\ \E range \in Ranges :
       /\ HistoryRows(range) # {}
       /\ job' = [job EXCEPT ![j].pc = "fetched", ![j].rows = HistoryRows(range)]
  /\ UNCHANGED <<source, log, current, status, snapshots, forecasts, lane, historical>>

\* The dates of the fetched range that the database is without, which the
\* script reports once its transaction has committed.
MissingDates(j) == {d \in DatesOf(job[j].rows) : current[d].run = 0}

\* The prices are reconciled and the snapshot is made as by an ingest.
Reconcile(j) ==
  /\ Start(j) \/ ReadCurrent(j) \/ WriteRevisions(j) \/ CommitSnapshot(j)
       \/ Return(j) \/ Fail(j) \/ Crash(j)
  /\ UNCHANGED historical

SucceedBackfill(j) ==
  /\ job[j].pc = "snapshot"
  /\ status' = [status EXCEPT ![job[j].run] = "succeeded"]
  /\ job' = [job EXCEPT ![j].pc = "done"]
  /\ UNCHANGED <<source, log, current, snapshots, forecasts, lane, historical>>

\* The ingests and Opinet go on as before.
IngestStep ==
  /\ (\E j \in Jobs \ BackfillJobs : Work(j)) \/ Environment
  /\ UNCHANGED historical

BackfillNext ==
  \/ IngestStep
  \/ \E j \in BackfillJobs :
       EnqueueBackfill(j) \/ FetchRange(j) \/ Reconcile(j) \/ SucceedBackfill(j)

BackfillSpec == BackfillInit /\ [][BackfillNext]_backfillVars

-----------------------------------------------------------------------------
\* A run that is recorded as succeeded has a snapshot and, unless it was a
\* backfill, a forecast, also while other ingests and backfills interfere; a
\* backfill that is done misses no date it has fetched.
SucceededIsComplete ==
  /\ \A r \in DOMAIN status : status[r] = "succeeded" =>
       /\ \E s \in snapshots : s.run = r
       /\ r \notin historical => \E i \in DOMAIN forecasts : forecasts[i].run = r
  /\ \A j \in BackfillJobs : job[j].pc = "done" => MissingDates(j) = {}

\* However late and however far back prices are filled in, the backfill
\* never moves the public confirmed date: the dates a dashboard may show, and
\* the weeks a shadow session or a monitoring may complete, are those the
\* two daily feeds have delivered.
BackfillKeepsConfirmed ==
  [][(\E j \in BackfillJobs : job'[j] # job[j]) =>
       ConfirmedDate(log') = ConfirmedDate(log)]_backfillVars
===============================================================================
