------------------------------- MODULE FscResults -------------------------------
(***************************************************************************)
(* The quarters and the FSC results computed for them from the current     *)
(* prices and the forecasts of the ingest (ForecastFeed).                  *)
(*                                                                         *)
(* Quarters go by number; a date is the number of its quarter.  Every      *)
(* change of the quarters but the insertion of a past one is a single      *)
(* transaction under the lock (17061, 904) and so a single step here; a    *)
(* quarter is a draft only within such a transaction.  The ingest runs in  *)
(* the lane, so that the newest snapshot with a forecast is that of the    *)
(* last forecast.                                                          *)
(***************************************************************************)
EXTENDS ForecastFeed

CONSTANTS
  Clients,         \* requests being served at the same time
  NoClient,        \* nobody holds the lock (17061, 905)
  InitialQuarter,  \* the quarter of an empty database (2026 Q3)
  MaxQuarter,      \* bound on the quarters
  MaxResults       \* bound on the results

Quarters == 1..MaxQuarter

ASSUME FscAssumption ==
  /\ NoClient \notin Clients
  /\ MaxDate \in Nat \ {0} /\ MaxRuns \in Nat \ {0}
  /\ MaxQuarter \in Nat \ {0} /\ InitialQuarter \in Quarters
  /\ MaxResults \in Nat

VARIABLES
  today,       \* the quarter of the current date
  quarters,    \* quarterSetting: the status of every quarter
  results,     \* fscResult, in the order of their creation
  client,      \* per request: where it is and what it has read
  recomputing  \* the request that holds the lock of the recomputation

fscVars == <<today, quarters, results, client, recomputing>>

-----------------------------------------------------------------------------
(* Quarters.                                                               *)

ActiveIn(qs) == {q \in Quarters : qs[q] = "active"}

Active == CHOOSE q \in Quarters : quarters[q] = "active"

\* Activating a quarter closes any other that is active.
Activated(qs, quarter) ==
  [q \in Quarters |-> IF q = quarter THEN "active"
                      ELSE IF qs[q] = "active" THEN "closed" ELSE qs[q]]

\* The quarters from the active one to that of the date are closed one after
\* the other, each followed by the next one, which is created if need be.
RolledTo(qs, quarter, date) ==
  [q \in Quarters |-> IF q \in quarter..(date - 1) THEN "closed"
                      ELSE IF q = date THEN "active" ELSE qs[q]]

RolledFrom(qs, quarter) == IF today > quarter THEN RolledTo(qs, quarter, today) ELSE qs

\* The quarters after ensureActiveQuarter.
Ensured ==
  LET present == {q \in Quarters : quarters[q] # "none"}
      newest  == Max(present)
  IN  IF ActiveIn(quarters) # {} THEN RolledFrom(quarters, Active)
      ELSE IF present = {} THEN [quarters EXCEPT ![InitialQuarter] = "active"]
      ELSE RolledFrom(Activated(quarters, newest), newest)

EnsuredQuarter == CHOOSE q \in Quarters : Ensured[q] = "active"

-----------------------------------------------------------------------------
(* Results.                                                                *)

IdleClient == [pc |-> "idle", refresh |-> FALSE, quarter |-> 0, target |-> 0,
               seen |-> 0, answer |-> 0, failed |-> FALSE, forecast |-> 0]

\* The newest result of a quarter, 0 if it has none.
NewestResult(quarter) ==
  Max({0} \union {i \in DOMAIN results : results[i].quarter = quarter})

\* Defects: only a missing result is refreshed; that of the newest forecast is
\* refreshed as well.
StaleIfMissing(answer) == answer = 0

StaleOrNewest(answer) == answer = 0 \/ results[answer].forecast <= Len(forecasts)

\* A result is stale unless it is that of the newest forecast.
Stale(answer) == answer = 0 \/ results[answer].forecast # Len(forecasts)

FscInit ==
  /\ FeedInit
  /\ today \in InitialQuarter..MaxQuarter
  /\ quarters = [q \in Quarters |-> "none"]
  /\ results = <<>>
  /\ client = [c \in Clients |-> IdleClient]
  /\ recomputing = NoClient

-----------------------------------------------------------------------------
(* Reading the result of a quarter.                                        *)

\* A request for the result of a quarter.  It remembers what it may expect:
\* the newest forecast, if the quarter is active.
Ask(c, quarter) ==
  /\ client[c].pc = "idle"
  /\ client' = [client EXCEPT ![c] =
       [IdleClient EXCEPT !.pc = "asked", !.quarter = quarter, !.refresh = TRUE,
          !.seen = IF quarters[quarter] = "active" THEN Len(forecasts) ELSE 0]]
  /\ UNCHANGED <<today, quarters, results, recomputing>>

\* A request for the result of the current quarter.
AskCurrent(c) ==
  /\ client[c].pc = "idle"
  /\ quarters' = Ensured
  /\ client' = [client EXCEPT ![c] =
       [IdleClient EXCEPT !.pc = "asked", !.quarter = EnsuredQuarter, !.refresh = TRUE,
          !.seen = Len(forecasts)]]
  /\ UNCHANGED <<today, results, recomputing>>

LookUp(c) ==
  /\ client[c].pc = "asked"
  /\ client' = [client EXCEPT ![c].pc = "looked", ![c].answer = NewestResult(client[c].quarter)]
  /\ UNCHANGED <<today, quarters, results, recomputing>>

\* Only the result of the active quarter is refreshed.
CheckActive(c) ==
  /\ client[c].pc = "looked"
  /\ client' = [client EXCEPT ![c].pc =
       IF quarters[client[c].quarter] = "active" THEN "active" ELSE "answered"]
  /\ UNCHANGED <<today, quarters, results, recomputing>>

CheckStale(c) ==
  /\ client[c].pc = "active"
  /\ client' = [client EXCEPT ![c].pc =
       IF forecasts # <<>> /\ Stale(client[c].answer) THEN "targeting" ELSE "answered"]
  /\ UNCHANGED <<today, quarters, results, recomputing>>

LookAgain(c) ==
  /\ client[c].pc = "recomputed"
  /\ client' = [client EXCEPT ![c].pc = "answered", ![c].answer = NewestResult(client[c].quarter)]
  /\ UNCHANGED <<today, quarters, results, recomputing>>

Answer(c) ==
  /\ client[c].pc = "answered"
  /\ client' = [client EXCEPT ![c] = IdleClient]
  /\ UNCHANGED <<today, quarters, results, recomputing>>

-----------------------------------------------------------------------------
(* Recomputing, for the active quarter or for one of the past.             *)

\* An admin asks for the result to be recomputed.
AskRecompute(c) ==
  /\ client[c].pc = "idle"
  /\ client' = [client EXCEPT ![c] = [IdleClient EXCEPT !.pc = "targeting"]]
  /\ UNCHANGED <<today, quarters, results, recomputing>>

\* Whatever quarter the request has looked at, the active one is recomputed.
Target(c) ==
  /\ client[c].pc = "targeting"
  /\ quarters' = Ensured
  /\ client' = [client EXCEPT ![c].pc = "waiting", ![c].target = EnsuredQuarter]
  /\ UNCHANGED <<today, results, recomputing>>

\* A defect: the recomputation does not take its lock.
RecomputeStartUnlocked(c) ==
  /\ client[c].pc = "waiting"
  /\ forecasts # <<>>
  /\ client' = [client EXCEPT ![c].pc = "computing", ![c].forecast = Len(forecasts)]
  /\ UNCHANGED <<today, quarters, results, recomputing>>

\* Under the lock it takes the newest forecast,
RecomputeStart(c) ==
  /\ client[c].pc = "waiting"
  /\ recomputing = NoClient
  /\ forecasts # <<>>
  /\ recomputing' = c
  /\ client' = [client EXCEPT ![c].pc = "computing", ![c].forecast = Len(forecasts)]
  /\ UNCHANGED <<today, quarters, results>>

Released(c) == IF recomputing = c THEN NoClient ELSE recomputing

\* ... then the prices that are under its snapshot, and commits the result.
RecomputeFinish(c) ==
  /\ client[c].pc = "computing"
  /\ Len(results) < MaxResults
  /\ LET source == forecasts[client[c].forecast]
     IN  results' = Append(results,
           [quarter |-> client[c].target, forecast |-> client[c].forecast,
            rows |-> PricesUnder(source.run, source.upto)])
  /\ recomputing' = Released(c)
  /\ client' = [client EXCEPT ![c] =
       IF @.refresh THEN [@ EXCEPT !.pc = "recomputed", !.target = 0, !.forecast = 0]
                    ELSE IdleClient]
  /\ UNCHANGED <<today, quarters>>

\* It fails without a forecast, without the price of a completed quarter,
\* or by its timeout.  A reader answers with what it had.
RecomputeFail(c) ==
  /\ client[c].pc \in {"targeting", "waiting", "computing"}
  /\ recomputing' = Released(c)
  /\ client' = [client EXCEPT ![c] =
       IF @.refresh THEN [@ EXCEPT !.pc = "answered", !.failed = TRUE, !.target = 0, !.forecast = 0]
                    ELSE IdleClient]
  /\ UNCHANGED <<today, quarters, results>>

\* A past quarter is backfilled: it is looked up,
FindPast(c, quarter) ==
  /\ client[c].pc = "idle"
  /\ client' = [client EXCEPT ![c] =
       [IdleClient EXCEPT !.pc = IF quarters[quarter] = "none" THEN "absent" ELSE "waiting",
          !.target = quarter]]
  /\ UNCHANGED <<today, quarters, results, recomputing>>

\* A defect: the quarter need not be before the active one.
CheckPastAny(c) ==
  /\ client[c].pc = "absent"
  /\ quarters' = Ensured
  /\ client' = [client EXCEPT ![c].pc = "past"]
  /\ UNCHANGED <<today, results, recomputing>>

\* ... must be before the active one when it does not exist,
CheckPast(c) ==
  /\ client[c].pc = "absent"
  /\ quarters' = Ensured
  /\ client' = [client EXCEPT ![c] =
       IF @.target < EnsuredQuarter THEN [@ EXCEPT !.pc = "past"] ELSE IdleClient]
  /\ UNCHANGED <<today, results, recomputing>>

\* A defect: the quarter is created as a draft, as those to come are.
CreatePastDraft(c) ==
  /\ client[c].pc = "past"
  /\ quarters[client[c].target] = "none"
  /\ quarters' = [quarters EXCEPT ![client[c].target] = "draft"]
  /\ client' = [client EXCEPT ![c].pc = "waiting"]
  /\ UNCHANGED <<today, results, recomputing>>

\* ... and is created, unless another request has created it meanwhile.
CreatePast(c) ==
  /\ client[c].pc = "past"
  /\ IF quarters[client[c].target] = "none"
       THEN /\ quarters' = [quarters EXCEPT ![client[c].target] = "closed"]
            /\ client' = [client EXCEPT ![c].pc = "waiting"]
       ELSE /\ client' = [client EXCEPT ![c] = IdleClient]
            /\ UNCHANGED quarters
  /\ UNCHANGED <<today, results, recomputing>>

Die(c) ==
  /\ client[c].pc # "idle"
  /\ recomputing' = Released(c)
  /\ client' = [client EXCEPT ![c] = IdleClient]
  /\ UNCHANGED <<today, quarters, results>>

-----------------------------------------------------------------------------
(* The admin's changes of the quarters.                                    *)

\* A rollover by force goes to the quarter after the active one.
Rollover(force) ==
  LET date == IF force THEN Active + 1 ELSE today
  IN  /\ ActiveIn(quarters) # {}
      /\ date > Active
      /\ date <= MaxQuarter
      /\ quarters' = RolledTo(quarters, Active, date)
      /\ UNCHANGED <<today, results, client, recomputing>>

Activate(quarter) ==
  /\ quarters[quarter] \notin {"none", "closed"}
  /\ quarters' = Activated(quarters, quarter)
  /\ UNCHANGED <<today, results, client, recomputing>>

Tick ==
  /\ today < MaxQuarter
  /\ today' = today + 1
  /\ UNCHANGED <<quarters, results, client, recomputing>>

Request(c) ==
  \/ \E q \in Quarters : Ask(c, q) \/ FindPast(c, q)
  \/ AskCurrent(c) \/ LookUp(c) \/ CheckActive(c) \/ CheckStale(c)
  \/ LookAgain(c) \/ Answer(c)
  \/ AskRecompute(c) \/ Target(c) \/ RecomputeStart(c) \/ RecomputeFinish(c)
  \/ RecomputeFail(c) \/ CheckPast(c) \/ CreatePast(c) \/ Die(c)

Serve ==
  \/ \E c \in Clients : Request(c)
  \/ \E force \in BOOLEAN : Rollover(force)
  \/ \E q \in Quarters : Activate(q)
  \/ Tick

FscNext ==
  \/ FeedNext /\ UNCHANGED fscVars
  \/ Serve /\ UNCHANGED feedVars

FscSpec == FscInit /\ [][FscNext]_<<feedVars, fscVars>>

-----------------------------------------------------------------------------
(* Properties.                                                             *)

ResultType == [quarter : Quarters, forecast : 1..MaxRuns, rows : SUBSET Captured]
ClientSteps == {"idle", "asked", "looked", "active", "targeting", "waiting", "computing",
                "recomputed", "absent", "past", "answered"}
ClientType == [pc : ClientSteps, refresh : BOOLEAN, quarter : 0..MaxQuarter,
               target : 0..MaxQuarter, seen : 0..MaxRuns, answer : 0..MaxResults,
               failed : BOOLEAN, forecast : 0..MaxRuns]

\* Every variable has the values the code can give it.
FscTypeOK ==
  /\ today \in Quarters
  /\ quarters \in [Quarters -> {"none", "active", "closed"}]
  /\ results \in Seq(ResultType) /\ Len(results) <= MaxResults
  /\ client \in [Clients -> ClientType]
  /\ recomputing \in Clients \union {NoClient}

\* Once there is a quarter, exactly one is active, and none is after it:
\* neither a rollover, a forced one, an activation nor a backfill that
\* checks the active quarter before it inserts leaves a newer one behind.
NewestIsActive ==
  (\E q \in Quarters : quarters[q] # "none") =>
    \E q \in Quarters :
      /\ ActiveIn(quarters) = {q}
      /\ \A p \in Quarters : quarters[p] # "none" => p <= q

\* A closed quarter is never opened again (the activate route refuses it).
ClosedStaysClosed ==
  [][\A q \in Quarters : quarters[q] = "closed" => quarters'[q] = "closed"]_quarters

\* The newest result of a quarter is from the newest forecast any of its
\* results is from, so whoever looks up the newest result never gets an
\* older forecast than somebody before.
ResultsFollowForecasts ==
  \A i, k \in DOMAIN results :
    (i <= k /\ results[i].quarter = results[k].quarter)
      => results[i].forecast <= results[k].forecast

\* A reader about to compute a result for the quarter it looked up finds one
\* from the same forecast there only if that was added after it had looked:
\* nobody checks again under the lock, so that two results of one quarter and
\* one forecast come from requests that overlap, and a reader that comes later
\* computes nothing anew.
DuplicatesOverlap ==
  \A c \in Clients :
    (client[c].pc = "computing" /\ client[c].refresh /\ client[c].target = client[c].quarter) =>
      \A i \in DOMAIN results :
        (results[i].quarter = client[c].target /\ results[i].forecast = client[c].forecast)
          => i > client[c].answer

\* A request that was not told of a failure and whose quarter has stayed
\* active answers with a result at least as new as the newest forecast it
\* could have known of when it came.
FreshAnswers ==
  \A c \in Clients :
    (/\ client[c].pc = "answered" /\ ~client[c].failed
     /\ client[c].seen > 0 /\ quarters[client[c].quarter] = "active")
      => /\ client[c].answer # 0
         /\ results[client[c].answer].forecast >= client[c].seen
=============================================================================
