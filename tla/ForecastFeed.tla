------------------------------ MODULE ForecastFeed ------------------------------
(***************************************************************************)
(* What the ingest promises to those who read the current prices and the   *)
(* forecasts: snapshots are taken one after the other, each over all the   *)
(* prices there are, and a forecast covers the prices of the newest        *)
(* snapshot.  Ingest in the lane implements it.                            *)
(***************************************************************************)
EXTENDS Integers, Sequences, FiniteSetsExt

CONSTANTS
  MaxDate,    \* bound on the dates
  MaxRuns     \* bound on the runs

Dates == 1..MaxDate
Runs == 1..MaxRuns

VARIABLES
  current,    \* dailyPriceCurrent: per date its revision and its snapshot
  forecasts   \* forecastRun, in the order of commit: what it was built from

feedVars == <<current, forecasts>>

Captured == [date : Dates, run : Runs]

Priced == {d \in Dates : current[d].run # 0}

\* The prices that are under the snapshot of a run, up to a date.
PricesUnder(run, upto) ==
  {[date |-> d, run |-> current[d].run] :
     d \in {x \in Dates : current[x].tag = run /\ x <= upto}}

FeedInit ==
  /\ current = [d \in Dates |-> [run |-> 0, tag |-> 0]]
  /\ forecasts = <<>>

\* A run that has left nothing behind takes the snapshot, with new prices
\* for some of the dates.
TakeSnapshot(run) ==
  /\ \A d \in Dates : current[d].run # run /\ current[d].tag # run
  /\ \A i \in DOMAIN forecasts : forecasts[i].run # run
  /\ \E changed \in SUBSET Dates :
       /\ changed \union Priced # {}
       /\ current' = [d \in Dates |->
            [run |-> IF d \in changed THEN run ELSE current[d].run,
             tag |-> IF d \in changed \union Priced THEN run ELSE current[d].tag]]
  /\ UNCHANGED forecasts

\* The forecast of the newest snapshot, which has all the prices.
MakeForecast(run) ==
  /\ \E d \in Dates : current[d].tag = run
  /\ \A i \in DOMAIN forecasts : forecasts[i].run # run
  /\ \E upto \in Dates :
       /\ PricesUnder(run, upto) # {}
       /\ forecasts' = Append(forecasts,
            [run |-> run, rows |-> PricesUnder(run, upto), upto |-> upto])
  /\ UNCHANGED current

FeedNext == \E run \in Runs : TakeSnapshot(run) \/ MakeForecast(run)

FeedSpec == FeedInit /\ [][FeedNext]_feedVars
=============================================================================
