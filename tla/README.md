# Formal models of fsc-Forecast

fsc-Forecast ingests Korean diesel prices from Opinet, keeps them in an
append-only revision log, forecasts weekly and monthly prices, and computes the
fuel surcharge (FSC) of the active quarter from prices and forecasts. A shadow
validation proposes changes of the operating model setting, which an
administrator approves; a monitoring watches what an applied change did.

This directory models the program in TLA+: its stateful core, the arithmetic its
decisions rest on, and what its admin pages say of both. It holds what TLC
checks on small instances, and what TLAPS proves for every value of the
constants. Source paths below are relative to `src/`.

## Inventory

| Component | State | Operations | Where it is hard |
|---|---|---|---|
| Model transition (`src/lib/forecast/model-transition.ts`, `app/api/admin/forecast-model-transition/*`, `src/lib/forecast/run-forecast-pipeline.ts`) | `forecastModelTransition` rows, the metadata of the latest `forecastRun` | approve, approve a rollback, cancel; a pipeline applies or cancels what is pending | the admin routes read in several statements and insert at the end; the pipeline reads early and writes late; web and worker may run different model versions |
| Shadow validation (`shadow-validation.ts`) | one session in the run metadata, handed from run to run | open, record observations, fill actuals, judge, stop | must not outlive the setting it compares with |
| Post-transition monitoring (`post-transition-monitoring.ts`) | one monitoring in the run metadata | start, cycle, degrade, stop | must end when the setting changes in any other way |
| Candidate persistence (`candidate-persistence.ts`) | candidate, count, last week | confirm, reset | a rerun in one week must not count twice |
| Automatic selection and tuning (`select-forecast-model.ts`, `parameter-sensitivity.ts`, `promotion-quality.ts`, `candidate-switch.ts`) | the operating setting, the candidate that is followed | try models and factors, keep, promote, follow | competes with approvals for the same setting; a candidate must not flip from run to run |
| Forecast arithmetic (`build-weekly-forecast.ts`, `run-walk-forward-backtest.ts`, `bias-correction.ts`, `daily-signal.ts`, `prediction-interval.ts`, `market-regime.ts`) | none | forecast, backtest, correct, range, classify | nothing later than the week a forecast was made in may enter it |
| Diagnostics (`interval-forward-validation.ts`, `signal-forward-validation.ts`, `performance-drift.ts`, `horizon-performance.ts`, `signal-review.ts`, `input-quality.ts`) | none: written to go on from the records of the run before, which no run stores | record, fill, judge | computed in one place, stored in another, read in a third |
| Ingest (`src/lib/ingest/*`, `src/lib/opinet/fetch-daily-history.ts`) | `ingestRun`, `priceRevisionLog`, `dailyPriceCurrent`, `recomputeSnapshot`, `forecastRun` | record, fetch, reconcile, snapshot, forecast, record the end | a snapshot is only a tag on the current rows; the command line ingest runs beside the worker |
| Daily backfill (`scripts/backfill-daily-history.ts`) | the same | fetch a range, reconcile, snapshot | runs beside the lane, without a forecast |
| Runtime queue (`src/lib/queue.ts`) | an advisory lock inside a transaction | enter, leave, expire after 600 s | the lock can end while its handler goes on |
| Scheduled worker (`src/worker/index.ts`) | its `ingestRun` | queue, wait for the lane, synchronise, refresh, ingest, summarise | parts may fail while the rest goes on; it may die anywhere |
| Public confirmed date (`resolve-public-confirmed-date.ts`) | none | newest date both feeds have delivered | one feed may be missing |
| Quarter lifecycle (`src/lib/quarter/*`, `app/api/fsc/quarter/*`) | `quarterSetting` | create, roll over, force, activate, backfill | the backfill checks and inserts outside the quarter lock |
| FSC results (`src/lib/fsc/*`) | `fscResult` with its weeks | read, refresh on read, recompute, backfill, approve | every reader of a stale result recomputes; results are immutable |
| External indicators (`src/lib/external-indicators`) | `externalIndicatorHistory`, `externalIndicatorSyncState` | synchronise providers one after the other | one provider fails, the process dies, two synchronise at once, values are revised |
| Cached series (`src/lib/opinet/refresh-series-cache.ts`, `save-*-series.ts`, `published-price-store.ts`) | four JSON files, `opinetPublishedPrice` | fetch, merge into a file, publish | four saves at once, files written in place |
| Admin page and data health (`operations-status.ts`, `load-model-transition-view.ts`, `tuning-timeline.ts`, `src/lib/data-health`) | none | read and tell | has to agree with the gates and with the data |
| Admin authentication (`src/lib/auth`), aggregates, commentary, dashboard, components | signed cookie, or read-only | | |

How they interact: the worker enters the lane of the queue, synchronises the
indicators, refreshes the cached series and runs one ingest; the ingest commits
a snapshot, then calls the forecast pipeline, which commits the next
`forecastRun` with the setting, the session and the monitoring in its metadata
and updates the transition it has applied. The admin routes share only the
database with it. FSC requests read the newest snapshot that has a forecast and
the current prices under its tag, and share the quarters with the admin routes
for quarters. The scripts do parts of the worker's work beside it, outside the
lane. The admin pages read all of it.

`PROJECT.json` lists the hazards of the code at their lines with the properties
that cover them.

## Modules

| Module | Models | Extends |
|---|---|---|
| `ModelRules` | the decision rules of one pipeline run: pending change, persistence, session, monitoring, and the eligibility rules of the admin routes | |
| `ModelTransition` | pipelines, admin requests, the lane, time and deployments around those rules | `ModelRules` |
| `AdminViews` | what the admin page offers, puts first and tells of a run | `ModelTransition` |
| `Ingest` | ingest jobs in and beside the lane, Opinet, crashes | |
| `Backfill` | the backfill of daily prices beside the ingests | `Ingest` |
| `ForecastFeed` | the abstract specification of the ingest: what readers of prices and forecasts may rely on | |
| `FscResults` | quarters, and the requests that read and compute FSC results | `ForecastFeed` |
| `QuarterWeeks` | the weeks of a quarter, their prices and its average, as the quarter goes by | |
| `WalkForward` | forecast, backtest, windows of errors, ranges, corrections | |
| `CandidateRules` | selection among the models, tuning, the followed candidate, what a signal contributes | `WalkForward` |
| `MarketRegimes` | the market's state per week, and candidates compared in each | `WalkForward` |
| `ForwardRecords` | ranges, signal samples and drift, as written to go on from those of the run before | `CandidateRules` |
| `BacktestViews` | what the admin page derives from a stored backtest: its last weeks, the parts of a price, the tuned settings | `CandidateRules` |
| `ForecastRuns` | the pipeline from week to week: inputs and their quality, forecast, candidates, records | `ForwardRecords`, `MarketRegimes`, `BacktestViews` |
| `WorkerTasks` | the processes: workers and scripts | |
| `IndicatorBoard` | the abstract specification of the synchronisation: what readers of indicators and their states may rely on | |
| `IndicatorSync` | the synchronisation of the external indicators | `WorkerTasks` |
| `SeriesCache` | the cached series, their files and the published prices | `WorkerTasks` |
| `DataHealth` | business days, what is expected of a source, and the verdict on it | |
| `Worker` | one execution of the scheduled worker with synchronisation, refresh and ingest, a script beside it, and the data health page | `IndicatorSync`, `SeriesCache`, `DataHealth` |
| `ModelTransition_proofs` | theorems about `ModelTransition` and `AdminViews` | TLAPS |
| `Ingest_proofs` | theorems about `Ingest` and `Backfill` | TLAPS |
| `FscResults_proofs`, `QuarterWeeks_proofs` | theorems about `FscResults` and `QuarterWeeks` | TLAPS |
| `Worker_proofs` | theorems about `IndicatorSync`, `SeriesCache` and `Worker` | TLAPS |
| `ForecastRules_proofs`, `ForecastRuns_proofs` | lemmas about the rules of the forecast, theorems about `ForecastRuns` | TLAPS |
| `NumberLemmas` | lemmas on numbers, finite sets of them and sums | TLAPS |
| `MC*` | model values and instances for TLC | |

Three refinements tie them together: `Ingest` in the lane implements
`ForecastFeed`, on which `FscResults` is built; `IndicatorSync` implements
`IndicatorBoard` (`INSTANCE ... WITH` the stored days and the states as the
board's variables); and `Worker` runs the very actions of `IndicatorSync` and
`SeriesCache`.

Operators headed "A defect" are not part of any specification: each is a
plausible bug in the definition that follows it, used to confirm that the
property it is paired with in `PROJECT.json` ("mutants") does fail for it.

### ModelTransition

`latest` is the metadata of the newest succeeded `forecastRun` (setting,
promotedAt, persistence, session, monitoring), `transitions` the rows of
`forecastModelTransition`. A pipeline is three steps, as its transaction runs at
READ COMMITTED: `PipeBegin` (enter the lane, read the latest run),
`PipeReadPending` (read the pending row), `PipeCommit` (decide by `ModelRules`
and commit). An admin request is a step per statement: read the run, look for
the source, look for a pending row, insert under the partial unique index.
`PipeFail`, `AdminFail` and `LaneExpire` end what is under way at any of these
steps. `Deploy` raises the model version of one process group; `WeekPasses`
moves time and perhaps the confirmed week.

A setting is an element of `Params`; where the code compares fingerprints the
model compares setting and version. Verdicts (better, worse, guardrail broken)
are nondeterministic: the numbers behind them are pure arithmetic over errors
that no other part reads. Time goes in weeks, so transactions and requests are
assumed short against a week (`WeekPasses` needs nothing in flight). Session
identities (UUIDs) are small numbers reused once nothing refers to them. The
automatic selection may choose any setting of the grid. `isSameParams` compares
settings without `biasCorrection` and `dailySignal`; the model compares the
settings themselves. `select-forecast-model.ts:260` (a bootstrap for parameters
that are not in the grid) cannot be reached with stored parameters that parse
and is left out. The model orders runs by their commit, the code by
`completedAt`, which is taken before it: within the lane the two agree.

### AdminViews

Operators over the state of `ModelTransition`: `TransitionStatus` and
`RollbackApprovable` are `loadAdminTransitionSection`, `Items`, `PrimaryAction`
and `CurrentStages` the status center, `NextStep` the tuning card, `RunEvents`
the timeline. One load of the page reads one committed state; the page really
issues several queries, so that in between two stages can both be the current
one. Diagnostics the model of the setting does not keep (drift, ranges, signals,
horizons) are either all alarming or all quiet (`Diagnostics`). The timeline is
modelled from one run to the next; the page has the ten newest runs only, and
tells of the oldest of them that it started what it may merely have carried on
(`tuning-timeline.ts:300`).

### Ingest

A run writes at most one revision per date, one snapshot and one forecast, so
all of them go by the number of the run. The steps are the transaction
boundaries and reads of `runOpinetIngest`: record, enter the lane, fetch the
average prices, fetch the recent ones (a failure there is swallowed, as in the
code), read what is known, write revisions (waiting for row locks, failing on a
unique conflict), snapshot and commit, read the prices of the snapshot, commit
the forecast, record success. `Fail` and `Crash` are possible at every one.
`Environment` is what no job does: `LaneExpire` ends the lane under its job, and
Opinet (external) publishes a date in one feed, then in the other, and corrects
prices.

A price is the number of its publication. The refresh of the cached series,
which never fails an ingest, is in `SeriesCache` and `Worker`; the metadata of
the run is left out. Reads that the code starts
together with `Promise.all` inside one transaction are one step. The confirmed
date of a forecast is one between that at the job's own write and that at its
read; in the lane both are equal, as in the code.

### Backfill

The backfill fetches a range, reconciles and snapshots like an ingest
(`Reconcile` is made of the actions of `Ingest`), and makes no forecast. Its
rows carry the source "history", which the confirmed date does not count; the
next ingest of a recent date therefore writes another revision with the same
price. Its snapshot takes the tag of the rows over, as that of any ingest beside
the lane does. `historical` remembers which runs were backfills.

### ForecastFeed and FscResults

`ForecastFeed` has two steps: a snapshot over all prices there are, and the
forecast of the newest snapshot over exactly its prices. The run `ingest` checks
that `Ingest` in the lane implements it (`ImplementsFeed`: variables of the same
name, so the refinement mapping is the identity on `current` and `forecasts`).
`FscResults` is built on the abstract feed and so holds for the ingest, at a
fraction of its states.

Quarters are numbers and a date is the number of its quarter. Quarter changes
are single transactions under lock (17061, 904), hence single steps
(`RolledTo`, `Activated`, `Ensured`); only the backfill looks up, checks and
inserts in separate steps (`FindPast`, `CheckPast`, `CreatePast`). A reader goes
through `Ask` / `AskCurrent`, `LookUp`, `CheckActive`, `CheckStale`, then
`Target` (ensure the active quarter in a transaction of its own),
`RecomputeStart` (lock (17061, 905), newest forecast) and `RecomputeFinish`
(prices under its snapshot, insert), `LookAgain`, `Answer`. A result is its
quarter, its forecast and the prices it saw; what is computed from them is
`QuarterWeeks`. The approval of a result is a mark nothing reads and is left out.

`seen` in a request is a history variable: the newest forecast when the request
came, if its quarter was active. The prices a quarter inherits are left out; the
branch of `ensureActiveQuarter` for a database with quarters of which none is
active is in the model and unreachable, in the code as in the model.

### QuarterWeeks

`buildFscQuarterWeeks` is a pure function; the module has it as operators over a
state that says what it is given: the day of the newest snapshot, the days whose
price is missing, the confirmed date, what Opinet has published, and the newest
forecast. `Slots`, `From`, `To` are the loop over the weeks, `CompletedDaily` and
`Published` the two ways a week is actual, `ForecastPrice` the forecast of a week
and its extension by the average change, `Mirrored` the weeks of a completed
quarter, `Basis` and `Average` what `resolveQuarterAverage` answers ("none" where
the code throws). The properties hold of every state the computation can meet;
those with a prime compare two computations.

A day is a number, Sundays are divisible by 7, and a quarter may begin on the
weekdays in `StartDays` and have any `Length`. The code's test for a completed
daily week, a comparison of two numbers of days, is kept as it is. Opinet's
weeks are from Sunday to Thursday like the weeks of the quarter, so the choice
among overlapping official weeks (`findOfficialWeeklyMatch`) has one candidate.
The week of a month is that of its Wednesday. An ingest is one step that brings
price, confirmed date and forecast (`Ingest`, `FscResults` have the steps);
prices may be missing and come later, official prices are never withdrawn. The
bounds of the forecast, the previous week and the monthly summary are shown and
not computed with, and are left out, as is the rate computed from the average.

### WalkForward, CandidateRules, MarketRegimes, ForwardRecords, BacktestViews, ForecastRuns

`WalkForward` has the arithmetic as operators over series of weeks and prices:
`WeeklyForecast` (trend, contribution of Dubai and the exchange rate, cap),
`Backtest` (the same, replayed at every earlier week), `Metrics` of its windows,
`Calibration` and `PriceRange` of the ranges, and the two corrections
(`BiasCorrected`, the daily signal) a candidate may put on top. `CandidateRules`
decides with it: `Selection` among the models A, B and C, `Tuned` (single
factors, then pairs of the best ones), `Tracked`, `ContributionStatus`.
`MarketRegimes` classifies weeks and compares candidates in each class,
`ForwardRecords` has what a run finds out about its forecasts: `RecordRanges`,
`RecordSignal`, `Drift`. `BacktestViews` is what the admin page makes of a
backtest: the weeks it lists and sums up (`Shown`, `DetailSummary`), the parts a
price is explained by (`Parts`, `Without`, `FactorSummary`) and what it says of a
tuned setting (`Decision`). `ForecastRuns` runs them: weeks arrive with prices, gaps
and indicators (`EndWeek`), a missing day comes late (`LateDay`), a run reads,
forecasts, tunes and records (`Run`, `RunApproved`). A run is one transaction in
the lane and one step; its concurrency is the subject of `ModelTransition` and
`Ingest`.

Prices are whole numbers, ratios are in parts of `Unit`, quotients are rounded
down where the code keeps floating point; the standard deviation is compared by
its square. Candidates are ordered by their errors and, where the code compares
the texts of settings, in one fixed order (`Place`). Evaluation points, ranges
and samples are sets, which the operators order by week and issue where the code
keeps sorted lists. The windows and counts of
the code are constants, smaller in the runs. The quarterly fallback
(`load-opinet-q2-fallback.ts`) and the monthly baseline are left out.
The modules that validate ranges and signals and follow the drift are written to
go on from the records of the run before. The pipeline stores none of these
records, so that a run finds nothing of them (`Found`: what `ReadRecords` reads
in the metadata `RunOf` has stored) and begins anew. `records` is a history
variable: what the last run computed and did not store. Only the disagreement
`unsaved` and the types speak of it; what those modules would owe to reruns and
to a full record if they were handed anything is not claimed, as no run of the
program gets there.

### IndicatorBoard and IndicatorSync

A synchronisation goes through the providers in turn: mark their codes as
checked, fetch, keep what is not older than the newest stored day or among the
newest two (`Kept`), read the rows, create the missing ones, update the changed
ones, record the success; `RecordFailure` at any of these steps goes on with the
next provider, `AbortSync` is an error of the state itself, `EndSync` also the
death of the process. Providers quote a day after the other and may revise
values (external). The states of the codes of one provider are written in one
step and the answer of a provider is one step. The board, to which this is
mapped, knows rows that are only added, a state that may be announced for any
codes, and a success only with a stored day.

### SeriesCache

A refresh fetches all kinds, then saves them at the same time: each save reads
its file, merges, opens the file - which empties it - and writes it. When all
are saved the database gets the months and quarters; one that fails ends the
refresh (`Promise.all` rejects), and the others go on by themselves. A series
maps periods to prices, of which a greater one is a later correction. The script
that publishes the cached prices loads file after file and writes what it has
loaded.

### DataHealth and Worker

`DataHealth` has the calendar: business days, the day a source should have
reached, and the verdict (`HealthStatus`). The page passes no closed days, so
weekends are the only ones. `Worker` composes one execution of the worker out of
the actions of `IndicatorSync` and `SeriesCache` with the lane and the run
record (`Enqueue`, `TakeLane`, `StartIngest`, `IngestPrices` or `IngestFails`,
`Release`, `Exit`), a script beside it, crashes at every step, and a clock that
goes through days and the noon of a Friday. The reconciliation, the snapshot and
the forecast, which `Ingest` has in detail, are one step here. A quarter's
official weeks are stored when its page is read. What the page says is
`CodeHealth`, `DailyHealth`, `WeeklyHealth` and their `DataHealthSummary`.

## Runs

In the transition runs `Required`, `KeptSamples` = 1, `Confirmations` =
`Cooldown` = 2: one completed week is enough for a verdict to be possible, two
weeks make a confirmation and a cooldown span several runs.

| Run | Instance | Shows |
|---|---|---|
| `serial` | 2 workers in the lane, 1 administrator, 2 settings, 6 weeks, 3 transitions (502 k states) | types; every change of the setting is decided (`SettingChangesAreDecided`), two changes are a cooldown apart (`ChangesKeepCooldown`), a rollback undoes its parent (`RollbackUndoesParent`), an active monitoring observes the operating setting (`MonitoringFollowsSetting`); what the admin page offers is what the routes accept (`ViewAgreesWithGates`) and the timeline tells what the runs did (`TimelineIsTrue`) |
| `deploy` | 1 worker whose lane may expire, 2 administrators, 2 settings, 3 weeks, 2 versions, fair (345 k states) | a session compares with the operating setting under its version (`SessionFollowsSetting`), a setting changes only by an approval made for it and for the version that runs, though web and worker are deployed at different times (`SettingChangesAreDecided`), a session needs its candidate in distinct weeks (`ShadowEntryNeedsWeeks`), and every approval is applied or cancelled in the end (`ApprovalsAreResolved`) |
| `ingest` | 2 workers in the lane, 2 dates, 2 publications, 3 runs (1.5 M states) | revisions form chains, prices and the confirmed date never go back, a forecast covers its snapshot, and the ingest implements `ForecastFeed` |
| `beside` | a worker whose lane may expire, a command line ingest and a backfill, 2 dates, 2 runs (1.1 M states) | a run that succeeded has what it is for (`SucceededIsComplete`), a backfill never moves the confirmed date (`BackfillKeepsConfirmed`) |
| `fsc` | 2 requests, 1 date, 2 runs, quarters 1 to 3, 2 results (3.2 M states) | the active quarter is the newest, results never fall back to an older forecast, an answer that reports no failure is as new as the forecast known when the request came (`FreshAnswers`), and a reader computes anew what is there already only if that came after it had looked (`DuplicatesOverlap`) |
| `weeks` | a quarter of 24 days from a Sunday, Tuesday or Thursday, prices up to 2 days late, one missing, two forecasts (90 k states) | every collection day is in one week; a daily week has all of its days; beyond the forecast prices go on along a straight line; the average of a completed quarter is final |
| `forecast` | 3 histories of 3 weeks, up to 5 weeks, 3 runs, one missing day, one late one, horizons of 2 weeks (3.9 k states) | the backtest replays the prices (`ReplaysIssued`) and the ranges (`RangesReplayed`) that were issued; the past stands when weeks are added; the diagnostics and the views of a backtest agree with each other and with what decided on the settings |
| `indicators` | the worker and the script at once, 2 providers, revisions, failures, deaths | the synchronisation implements `IndicatorBoard`; what it reports is true |
| `caches` | one worker and one script, saves of every kind at once, failures and deaths | no save loses a period of the file it has read (another save of the kind cannot come between, as only the worker in the lane saves), the database follows the files, an unreadable file is left alone |
| `worker` | one worker and a script that synchronises, a Friday to the Monday after, crashes | the data health page says healthy or delayed only of data that is |

The runs `cancel` and `unsaved` are in the next section. Every pair of a run and
a property has a mutant in `PROJECT.json`: an operator headed "A defect" with
which TLC finds that property violated.

Bounds. Six weeks and three transitions let a change be confirmed, approved,
applied, monitored, rolled back and followed by another; in `deploy` one
transition at a time is enough for two administrators to collide and for a
version to change under an approval. Three ingest runs let a worker in the lane
see two earlier ones; two dates and two publications give corrections, a window
that slides and a feed that lags; two runs are enough for a backfill between the
steps of an ingest and the reverse. In `fsc` quarter 1 can only be backfilled, 2
is the first the code creates and 3 is reached by time, by force or not at all;
two requests are enough for the lock, the race of two backfills and a duplicate
refresh, and two forecasts for a stale one. In `weeks` 24 days make a cut first
week, whole weeks and, from a Sunday, a cut last one; the forecast of three weeks
ends before the quarter does as long as it starts from the week before, and two
days after the quarter let week, months and quarter be published in any order.
In `forecast` the windows and minimums of the code are scaled down (13 and 26
weeks to 2 and 3, ranges from one residual on, an alert from two weeks) so that
five weeks fill and overflow them; the page lists as many weeks as the recent
window has (`ShownPoints`), as in the code. Two providers, two synchronisations and two
market days are enough for one to fail, to die or to be overtaken between any two
steps. `CHECK_DEADLOCK FALSE` stands where the bounds on runs, dates, days and
results end every behaviour; in the transition runs deadlock is checked.

Fairness (`deploy`). Pipelines are scheduled by the worker (cron) and retried,
so each step of the lane's pipelines is strongly fair: another job may hold the
lane or the lane may expire in between, but a worker that is retried for ever
gets through for ever. Nothing is assumed of administrators, deployments or
time. The other runs check no liveness: a process that dies in them is not
restarted by anything in the code, and a run or a state it leaves behind stays.

## Disagreements found

Two are runs TLC must find violated.

| Run | What the code does | What the repository says |
|---|---|---|
| `cancel` | a pipeline that read the pending row before it was cancelled applies it by id | the cancel route answers that the approval was cancelled |
| `unsaved` | the pipeline computes the validation of ranges and signals, the drift and the performance per horizon (`run-forecast-pipeline.ts:846`, 855, 861, 923) and stores none of them in the metadata (965-1094), where the admin page (`app/admin/page.tsx:321-326`) and the next run look for them | README: these diagnostics are shown on the admin page |

The following were met while modelling. The instances that show them are small
variations of those above; their constants are named.

- Beside the lane. With two pipelines beside each other (`FreeRunners`) one that
  started before an apply commits after it and takes the change back. With an
  ingest beside a worker (`FreeJobs` in `ingest`) the prices are tagged anew
  between the other job's snapshot and its forecast, so that the forecast is not
  that of its snapshot. A recomputation in that gap (`load-fsc-source-data.ts:213`)
  finds no daily prices under the older snapshot, stores the result and takes it
  for fresh.
- A quarter that begins on a Friday (`StartDays = {5}` in `weeks`) has a first
  week of no days, whose average is an error (`build-fsc-quarter-weeks.ts:586`):
  it has no result. 1 January 2027 is the next. A quarter that begins on a
  Saturday has a first week that ends before it begins, never is actual and
  counts as a forecast if it has a price.
- The automatic selection may promote another setting of its grid
  (`select-forecast-model.ts:305`), where the README allows no change without an
  administrator.
- A cancelled approval keeps the unique key of its session, so that the session
  can never be approved again, and the answer (`approve/route.ts:148`) speaks of
  another change that waits.
- A week that misses a day and lies before the last actual week has no price, as
  `docs/api.md` says, while `docs/architecture.md` has it fall back to the applied
  and the base price.
- The forecast that is issued has neither bias correction nor daily signal
  (`build-weekly-forecast.ts`), and settings that differ only in these are the
  same to the selection (`isSameParams`), while the tuning compares corrected
  backtests with uncorrected ones: a candidate that owes its lead to a correction
  changes nothing once approved.
- The ranges of the backtest are calibrated on points in the order they were
  made (`prediction-interval.ts:180`), those of the issued forecast on points in
  the order of their targets (`run-walk-forward-backtest.ts:332`): where a horizon
  has too few errors and those of others are pooled, the window can cut
  differently. `RangesReplayed` is about horizons with errors enough of their own,
  of which both orders are the same.
- Among the models' candidates the page marks one as selected without comparing
  the cap (`forecast-diagnostics.ts:200`), which the selection does compare
  (`isSameParams`).
- The error analysis takes Dubai alone out of a price
  (`forecast-error-analysis.ts`), the contribution of a signal Dubai together with
  the exchange rate, which is never used without it: with both in use the two
  speak of different prices. `ViewsAgree` compares them where only one is.
- A signal whose ratio happens to be 0 counts as used (`signal-contribution.ts:99`
  tests for `null`).
- Once an approval is applied its session stays reviewable, so the page shows it
  as blocked (`admin-model-transition.tsx:232`) and the status center keeps asking
  for action (`operations-status.ts:262`).
- The data health page takes a run that is checking for its state and hides that
  the one before failed (`data-health.ts:175`).

And of robustness: a process that dies while it writes a cache file leaves a text
that no later save can read, for ever; a command line refresh beside the worker
can lose what the other one saved, and publishing cached prices can put older
ones over newer; when one of the four saves fails the refresh is over while the
others go on behind it (`refresh-series-cache.ts:81`). Of two synchronisations at
once the slower may put an older value over a revised one, and its last observed
day may go back; only the newest two observations of a code are ever revised
(`sync-external-indicators.ts:50`). None of these contradicts a document of the
repository.

## What is proved

All theorems hold for every value of the constants that the named `ASSUME`s
allow: non-empty bounds, disjoint sets of actors, `KeptSamples >= Required`, a
weekly series among the kinds of the caches, finitely many periods; for the
forecast, windows and limits that are not 0, choices of candidates that use what
they try (`CandidatesAssumption`), two tails of a range that are no more than the
whole (`WalkForwardAssumption`), a page that shows as many weeks as the recent
window has, both 13 in the code (`ViewAssumption`), and settings that can be
operated and have a trend (`RunsAssumption`).

`ModelTransition_proofs`:

- `TypesHold`: the types, with the pipeline and request records and the fact
  that a request in flight has a session or monitoring to decide about.
- `SessionsFollowSetting`: for any runners, also beside the lane. It needs no
  lane because one commit writes setting and session together.
- Under `LaneOnly` (no runner beside the lane, and one runner if the lane may
  expire): `ChangesAreDecided`, `AppliedStaysApplied`, `MonitoringsFollowSetting`.
  The invariant `SerialInv` says that a pipeline that is past its first step holds
  the lane, that what it has read is still the latest run, and that rows and
  runs name each other.
- Under `LaneOnly`, `ChangesAreApart` and `RollbacksUndoParent`. What the admin
  routes have read is stale when they insert, so `RequestInv` follows it: a row
  that waits was met by a run it fits (`RowFits`, `RowIsMet`), the run a request
  holds is the latest or one whose conclusion can no longer be inserted
  (`RunFresh`, `Live`), the gate a request has passed still holds when it inserts
  (`GateHeld`), and an active monitoring names an applied shadow transition
  (`MonitoringGrounded`, `RowGrounded`). Both use that a request or pipeline
  does not span a week.
- Under `LaneOnly`, `ViewsAgreeWithGates` (the page offers what the routes
  accept) and `TimelineTellsTruth`. The page looks at the newest rows only, so
  `PendingIsNewest` says that no row is newer than one that waits; the rest is
  the invariants above, rule by rule.
- Under `LaneOnly` and with more than one confirmation asked for,
  `EntriesNeedWeeks`: a session begins after its candidate was seen in distinct
  weeks. `WeeksSeen` follows the count from run to run.

`Ingest_proofs`, for any jobs in or beside the lane, with failures, crashes and
an expiring lane:

- `TypesHold` (invariant `TypeInv`: the types, and that prices, tags and
  revisions that are named exist).
- `SucceededRunsHaveForecasts` and `FetchedStaysLogged`, from `BehindInv`: per
  job, what its step says it has left behind is there, and nothing is ever
  removed (`NothingLost`).
- For the backfill (`Backfill`), `BackfillsAreComplete` and
  `ConfirmedDateIsTheFeeds`. The invariant `BackfillInv` extends `BehindInv` to
  the runs that are backfills: what such a run has fetched is its whole range,
  and the rows it writes carry the source the confirmed date does not count.

and, when nothing is ingested beside the lane and the lane does not expire
(`LaneOnly`), for any number of workers:

- `LogFormsChains`, `ForecastsFollowSnapshots`, `PricesOnlyAdvance`,
  `ConfirmedDateAdvances`, and `IngestImplementsFeed`: the initial states map to
  initial states of `ForecastFeed`, every step to one of its steps or a stutter.
  The invariant `LaneInv` has a part on the data (`DataInv`: numbers of runs to
  come are unused, the log is never ahead of its source, the forecasts go no
  further than the confirmed date) and one on every job (`JobInv`: who is past
  the queue holds the lane; what was fetched is no older than the log; what was
  read is still current; the snapshot is what is under it until its forecast is
  made). With jobs beside the lane none of them holds.

`FscResults_proofs`, for any number of requests, quarters, runs and results:

- `TypesHold`, `OneQuarterIsActive` (`NewestIsActive`) and `ClosedForGood`,
  from the invariant `TypeInv`: the quarters are in order (`Orderly`), a run has
  one forecast, and what a request knows at its step is so (`Sound`: among
  others, a backfill that has passed its check has a target before some quarter
  that exists, and so before the active one). Every step keeps the quarters
  there are and the closed ones closed (`Kept`).
- `ResultsKeepUp`: `ResultsFollowForecasts`. The invariant `LockInv` says that
  whoever computes holds the lock, and that no result is from a newer forecast
  than the one being computed from.
- `AnswersAreFresh`: `FreshAnswers`. The invariant `FreshInv` says, step by step,
  what a request that came knowing a forecast has gained: as long as its quarter
  is active the quarter it recomputes is that one, the forecast it takes and the
  result it leaves are no older than what it knew. It rests on `LockInv`, since
  the second look-up takes whatever result is the newest then.
- `DuplicatesComeTogether`: `DuplicatesOverlap`. The invariant `LaterInv` says that
  a reader on its way to a recomputation has seen only results from older
  forecasts than it will take: the one it looked up is stale, and by `LockInv` no
  earlier one is from a newer forecast.

`QuarterWeeks_proofs`, for quarters of any length, and any lags and gaps:

- `WeeksTypesHold`, from `TypeInv`, which adds that all prices of the week a
  forecast starts from are there (`AnchorKnown`): an ingest can take a week as
  its last one only once it is whole, and no price is withdrawn.
- `DaysCountOnce`, `DailyWeeksHaveAllDays`, `PendingWeeksAreGaps` and
  `AverageIsFinal` for quarters that begin between a Sunday and a Thursday
  (`BeginsOnCollectionDay`): weekday arithmetic, and that a set of as many
  prices as the week has days is all of them (`CompletedIsWhole`).
- `ActualForGood`: actual weeks stay actual, for any first day, as prices and
  official weeks are only added (`NothingWithdrawn`).
- `TrendIsALine`: the average change of the forecast weeks telescopes to the
  difference of the last and the first of them, by the lemmas on sums of
  `NumberLemmas`.

`Worker_proofs`:

- For any providers, codes, days, and any number of workers and scripts that
  synchronise at once, fail and die: `SyncTypesHold`, `ReportsAreTrue` and
  `SyncImplementsBoard`: the initial states map to initial states of
  `IndicatorBoard`, and every step to one of its steps or a stutter. The
  invariant `SyncInv` adds to the types that a synchronisation is at a provider
  of the list and has asked all before it (`AtProvider`, `ProvidersAsked`), and
  that once it is about to announce a success the newest day it has fetched is
  stored (`NewestStored`), which no other synchronisation can undo since rows are
  never removed.
- `CacheTypesHold`, for any number of workers and scripts that refresh and
  publish (`PublishedInv`: whatever is held, saved or published was published by
  Opinet).
- With one worker (`OneWorker`) and any number of scripts, `HistoryIsKept`,
  `DatabaseStaysBehind` and `TornIsLeftAlone`. The invariant `CacheInv` says that
  a save that has read its file holds at least what the file had, is the only
  one that has it open and that the file is unreadable meanwhile (`SaveInv`), and
  that a series which is published, or loaded to be published, is in its file or
  in the save that has the file open (`InFile`). A second worker would break
  these; the lane is what allows only one.
- `PageTellsTruth` (`HealthIsTrue`), for any number of workers and scripts. The
  invariant `HealthInv` joins those of the synchronisation and of the caches,
  whose steps the steps of the worker are, and adds that the state of a code
  tells only of days that are stored, that the official week is one Opinet has
  published, and that dates are days. What the page says follows by counting
  business days (`CountSplit` and the lemmas after it).

`ForecastRules_proofs` has the lemmas: a finite set in a strict order has an
element at every place (`EveryPlaceIsTaken`), a set of numbers in ascending order
(`AscendingIsInOrder`), the points of a backtest and their types (`BacktestIs`,
`BacktestIsTyped`), the figures of its windows (`MeasuredIsBacktest`), corrected
backtests (`EvaluatedIsBacktest`), and that among finitely many candidates there
is one none precedes (`ForemostIsOne`), so that what is selected, tuned and
followed is one of those that were tried and can be operated
(`SelectionIsOwn`, `TunedAreSound`, `TrackedIsTuned`). Points of the same weeks
are matched one to one, and so are those of their windows and regimes, so that
sums and means over them can be compared (`WeeksMatch`, `NewestOfSameWeeks`,
`VerdictsAgree`, `ContributionAgrees`); a price is that of its parts
(`ExplainedIsPrice`, `AblatedPriceIs`), and the tuned candidates are the first of
those that pass, each once, and all of them if there is room (`PodiumIs`).

`ForecastRuns_proofs`, for any weeks, settings, candidates, horizons and number
of runs. A step only adds weeks and fills in missing days (`Grows`), so the weeks
a run saw are still there and complete weeks stay what they are:

- `BacktestReplaysRuns` (`ReplaysIssued`), from `ReplayInv`: every run issued what
  its setting forecasts from weeks that have since only grown. If no complete week
  has come up to its own since, the series up to that week is the same
  (`SeriesUpTo`), and what an indicator contributes depends on what was known then
  (`ContributesLikewise`).
- `RangesAreReplayed` (`RangesReplayed`), from the same invariant: an approved
  run stores the ranges its own backtest gives (`IssuesItsRanges`). What a
  later backtest knew at the week of that run is the backtest the run had
  (`ReplayKnows`), and points of one horizon come in one order, whether by the week
  they were made in or by the week they are for (`OrdersAgree`), so that both cut
  the window alike (`CalibrationsAgree`).
- `ForecastTypesHold` (`ForecastTypeOK`), from `BoundsInv`, `RecordsInv` and
  `SettingsInv`: the operating setting, the tuned ones and the followed one can be
  operated, which makes the backtest of a run a backtest at all.
  That no range ends before it begins is arithmetic on quantiles: a later place
  has no lower value (`RankedGrows`), a higher level no lower quantile
  (`QuantileGrows`), and the two tails together are no more than the whole
  (`2 * TailPart <= Unit`; the code takes a tail of half of what is not covered).
- `PastIsSettled` (`PastStands`). It needs no more than typed weeks: what is known
  at the end of a week are the first points of every series (`UpToIsFirst`), so
  the backtest of that week is the part of a later one that was known then
  (`BacktestStands`). Corrections look at earlier points and days only and
  therefore commute with leaving out later ones (`BiasStands`, `DailyStands`), a
  range rests on what was known at its origin (`RangeStands`), and a regime on the
  weeks before it (`RegimeStands`).

- `DiagnosticsDoAgree` (`DiagnosticsAgree`). That the views of a backtest agree
  (`ComparisonsDoAgree`, `ViewsDoAgree`) holds of any weeks and any settings that
  can be operated: all settings are tested in the same weeks, whatever their
  signals and corrections (`OnesHaveSameWeeks`, `EvaluatedAreAsMany`). What the
  page says of the tuned settings needs `FreshInv`: as long as no week ended and
  no day came late since the last run, the candidates are those that would be
  tuned now beside the operating setting. It rests on the selection coming with
  the backtest of the very setting it names, also where it keeps the setting and
  takes the backtest of a candidate of the same model (`SelectionIsOwn`).

Every invariant and action property of the passing runs is thus proved. Only
model-checked: the liveness property `ApprovalsAreResolved`, as liveness is out of
the prover's reach, and the two disagreements, which TLC refutes.

## Not modelled

- Aggregates and commentary (`src/lib/aggregates`, `src/lib/commentary`): read
  committed rows and write texts or sums nothing else depends on.
- Admin authentication (`src/lib/auth`): a signed cookie, its expiry and a
  comparison; no state is shared.
- The dashboard (`load-fsc-dashboard-data.ts`) and the components: selection and
  display. The dashboard reads the snapshot (381) and then its rows (424), between
  which a new snapshot may take the tags over; `FscResults` has that gap for the
  recomputation, not for the display.
- The rate and the reliability of a result (`calculate-fsc-result.ts`,
  `calculate-fsc-reliability.ts`): functions of the average that `QuarterWeeks`
  ends with.
- The quarterly fallback and the monthly baseline of the forecast, and of the
  forecast diagnostics the comparison of the models' best candidates and the
  texts.
- Parsers of the Opinet and indicator responses: the models begin with rows.
- Clocks that disagree: the code orders runs and results by `completedAt` and
  `createdAt`, the models by commit. On one machine and in the lane the two agree.

## Running

    tlc -workers 2 -config MCTransition_serial.cfg MCModelTransition
    tlc -workers 2 -config MCTransition_deploy.cfg MCModelTransition
    tlc -workers 2 -config MCTransition_cancel.cfg MCModelTransition
    tlc -workers 2 -config MCIngest_lane.cfg MCIngest
    tlc -workers 2 -config MCBackfill_beside.cfg MCBackfill
    tlc -workers 2 -config MCFscResults_fsc.cfg MCFscResults
    tlc -workers 2 -config MCQuarterWeeks_weeks.cfg MCQuarterWeeks
    tlc -workers 2 -config MCForecastRuns_forecast.cfg MCForecastRuns
    tlc -workers 2 -config MCForecastRuns_unsaved.cfg MCForecastRuns
    tlc -workers 2 -config MCIndicatorSync_indicators.cfg MCIndicatorSync
    tlc -workers 2 -config MCSeriesCache_caches.cfg MCSeriesCache
    tlc -workers 2 -config MCWorker_worker.cfg MCWorker
    tlapm ModelTransition_proofs.tla
    tlapm Ingest_proofs.tla
    tlapm FscResults_proofs.tla
    tlapm QuarterWeeks_proofs.tla
    tlapm Worker_proofs.tla
    tlapm ForecastRules_proofs.tla
    tlapm ForecastRuns_proofs.tla
    tlapm NumberLemmas.tla
