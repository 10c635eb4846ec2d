------------------------------- MODULE SeriesCache -------------------------------
(***************************************************************************)
(* The price series Opinet publishes by day, week, month and quarter, kept *)
(* in one JSON file per kind, and the monthly and quarterly ones in the    *)
(* database too.  A refresh fetches all kinds, merges each into its file   *)
(* at the same time as the others, and then writes the database in one     *)
(* transaction.                                                            *)
(*                                                                         *)
(* A series maps a period to its price: 0 is none, a greater number is a   *)
(* later correction.  A file is opened, which empties it, and written: a   *)
(* process that dies in between leaves it Torn, as a reader sees it        *)
(* meanwhile.                                                              *)
(***************************************************************************)
EXTENDS Integers, FiniteSets, WorkerTasks

CONSTANTS
  Kinds,          \* kinds of series
  StoredKinds,    \* the kinds the database has: monthly and quarterly
  Periods,        \* periods of a kind, 1..n
  Reach,          \* periods a response reaches back
  MaxPrice,       \* bound on the corrections of a price
  Torn            \* a file that cannot be parsed

Prices == 0..MaxPrice
Series == [Periods -> Prices]
NoPrices == [p \in Periods |-> 0]

ASSUME CacheAssumption ==
  /\ StoredKinds \subseteq Kinds
  /\ Periods \subseteq Nat \ {0} /\ IsFiniteSet(Periods)
  /\ Reach \in Nat \ {0} /\ MaxPrice \in Nat \ {0}
  /\ Torn \notin Series

VARIABLES
  stats,      \* Opinet: the series as published
  file,       \* data/oil-price-*.json
  published,  \* opinetPublishedPrice, per kind
  refresh     \* per task: where its refresh is

cacheVars == <<stats, file, published, refresh>>

-----------------------------------------------------------------------------
\* A defect: the file is made from the response alone.
MergedOver(old, new) == new

\* What is fetched replaces the period it is for, the others stay.
Merged(old, new) == [p \in Periods |-> IF new[p] # 0 THEN new[p] ELSE old[p]]

\* The newest periods of a series, as far as a response reaches.
Recent(series) ==
  [p \in Periods |->
     IF Cardinality({q \in Periods : q > p /\ series[q] # 0}) < Reach THEN series[p] ELSE 0]

IdleRefresh == [pc |-> "idle", series |-> [k \in Kinds |-> NoPrices],
                save |-> [k \in Kinds |-> "none"], failed |-> FALSE]

Saving(t) == {k \in Kinds : refresh[t].save[k] \in {"due", "read", "open"}}

CacheInit ==
  /\ stats = [k \in Kinds |-> NoPrices]
  /\ file = [k \in Kinds |-> NoPrices]
  /\ published = [k \in StoredKinds |-> NoPrices]
  /\ refresh = [t \in Tasks |-> IdleRefresh]

-----------------------------------------------------------------------------
BeginRefresh(t) ==
  /\ refresh[t].pc = "idle"
  /\ refresh' = [refresh EXCEPT ![t].pc = "begin"]
  /\ UNCHANGED <<stats, file, published>>

\* All kinds are fetched before the first is saved.
FetchSeries(t) ==
  /\ refresh[t].pc = "begin"
  /\ refresh' = [refresh EXCEPT ![t].pc = "saving",
       ![t].series = [k \in Kinds |-> Recent(stats[k])],
       ![t].save = [k \in Kinds |-> "due"]]
  /\ UNCHANGED <<stats, file, published>>

\* A defect: a file that cannot be parsed counts as empty.
ReadAnyFile(t, k) ==
  /\ refresh[t].save[k] = "due"
  /\ refresh' = [refresh EXCEPT ![t].save[k] = "read",
       ![t].series[k] = Merged(IF file[k] = Torn THEN NoPrices ELSE file[k], @)]
  /\ UNCHANGED <<stats, file, published>>

\* A save reads its file; one that is missing is empty.
ReadFile(t, k) ==
  /\ refresh[t].save[k] = "due"
  /\ file[k] # Torn
  /\ refresh' = [refresh EXCEPT ![t].save[k] = "read",
                                ![t].series[k] = Merged(file[k], @)]
  /\ UNCHANGED <<stats, file, published>>

OpenFile(t, k) ==
  /\ refresh[t].save[k] = "read"
  /\ file' = [file EXCEPT ![k] = Torn]
  /\ refresh' = [refresh EXCEPT ![t].save[k] = "open"]
  /\ UNCHANGED <<stats, published>>

WriteFile(t, k) ==
  /\ refresh[t].save[k] = "open"
  /\ file' = [file EXCEPT ![k] = refresh[t].series[k]]
  /\ refresh' = [refresh EXCEPT ![t].save[k] = "saved"]
  /\ UNCHANGED <<stats, published>>

\* Any error of a save, a file that cannot be parsed among them; the refresh
\* has failed, and the other saves go on by themselves.
SaveFails(t, k) ==
  /\ k \in Saving(t)
  /\ refresh' = [refresh EXCEPT ![t].save[k] = "failed", ![t].failed = TRUE,
                                ![t].pc = "done"]
  /\ UNCHANGED <<stats, file, published>>

\* A defect: the database is written beside the files.
PublishEarly(t) ==
  /\ refresh[t].pc = "saving"
  /\ published' = [k \in StoredKinds |-> Merged(published[k], refresh[t].series[k])]
  /\ refresh' = [refresh EXCEPT ![t].pc = "done"]
  /\ UNCHANGED <<stats, file>>

\* With every file saved the database gets what the files hold.
PublishSaved(t) ==
  /\ refresh[t].pc = "saving"
  /\ \A k \in Kinds : refresh[t].save[k] = "saved"
  /\ published' = [k \in StoredKinds |-> Merged(published[k], refresh[t].series[k])]
  /\ refresh' = [refresh EXCEPT ![t].pc = "done"]
  /\ UNCHANGED <<stats, file>>

\* The fetch or the transaction fails.
RefreshFails(t) ==
  /\ \/ refresh[t].pc = "begin"
     \/ refresh[t].pc = "saving" /\ \A k \in Kinds : refresh[t].save[k] = "saved"
  /\ refresh' = [refresh EXCEPT ![t].pc = "done", ![t].failed = TRUE]
  /\ UNCHANGED <<stats, file, published>>

\* persist:opinet-published reads the files as they are, one at a time,
ReadForPublishing(t, k) ==
  /\ k \in StoredKinds
  /\ refresh[t].pc = "publishing" /\ refresh[t].save[k] = "none"
  /\ file[k] # Torn
  /\ refresh' = [refresh EXCEPT ![t].series[k] = file[k], ![t].save[k] = "loaded"]
  /\ UNCHANGED <<stats, file, published>>

BeginPublishing(t) ==
  /\ refresh[t].pc = "idle"
  /\ refresh' = [refresh EXCEPT ![t].pc = "publishing"]
  /\ UNCHANGED <<stats, file, published>>

\* ... and writes what they held to the database.
PublishLoaded(t) ==
  /\ refresh[t].pc = "publishing"
  /\ \A k \in StoredKinds : refresh[t].save[k] = "loaded"
  /\ published' = [k \in StoredKinds |-> Merged(published[k], refresh[t].series[k])]
  /\ refresh' = [refresh EXCEPT ![t].pc = "done"]
  /\ UNCHANGED <<stats, file>>

\* The task is over, or its process has died: a file it has opened stays torn.
EndRefresh(t) ==
  /\ refresh' = [refresh EXCEPT ![t] = IdleRefresh]
  /\ UNCHANGED <<stats, file, published>>

Save(t, k) ==
  ReadFile(t, k) \/ OpenFile(t, k) \/ WriteFile(t, k) \/ SaveFails(t, k)

RefreshStep(t) ==
  \/ FetchSeries(t) \/ PublishSaved(t) \/ RefreshFails(t) \/ PublishLoaded(t)
  \/ \E k \in Kinds : ReadForPublishing(t, k)

-----------------------------------------------------------------------------
(* Opinet, as the code uses it: of some kinds the next period is published *)
(* or the price of one is corrected.                                       *)

PublishStats(kinds) ==
  /\ \E p \in [kinds -> Periods] :
       /\ \A k \in kinds :
            /\ stats[k][p[k]] < MaxPrice
            /\ \A q \in Periods : q < p[k] => stats[k][q] # 0
       /\ stats' = [k \in Kinds |-> IF k \in kinds THEN [stats[k] EXCEPT ![p[k]] = @ + 1]
                                                   ELSE stats[k]]
  /\ UNCHANGED <<file, published, refresh>>

-----------------------------------------------------------------------------
CacheNext ==
  \/ \E w \in Workers : BeginRefresh(w)
  \/ \E s \in Scripts : BeginPublishing(s)
  \/ \E t \in Tasks : \/ RefreshStep(t) \/ EndRefresh(t)
                      \/ \E k \in Kinds : Save(t, k)
  \/ \E kinds \in SUBSET Kinds : PublishStats(kinds)

CacheSpec == CacheInit /\ [][CacheNext]_cacheVars

-----------------------------------------------------------------------------
Progressing == {"idle", "begin", "saving", "publishing", "done"}

SaveStates == {"none", "due", "read", "open", "saved", "failed", "loaded"}

RefreshType == [pc : Progressing, series : [Kinds -> Series], save : [Kinds -> SaveStates],
                failed : BOOLEAN]

CacheTypeOK ==
  /\ stats \in [Kinds -> Series]
  /\ file \in [Kinds -> Series \union {Torn}]
  /\ published \in [StoredKinds -> Series]
  /\ refresh \in [Tasks -> RefreshType]

Open(k) == \E t \in Tasks : refresh[t].save[k] = "open"

\* A save that is about to replace a file has every period the file has, at
\* least as new: it merges what it has fetched into what it has read.  With one
\* worker in the lane no other save of the kind can come between.
SavesKeepHistory ==
  \A t \in Tasks : \A k \in Kinds :
    refresh[t].save[k] = "read" /\ file[k] # Torn =>
      \A p \in Periods : file[k][p] <= refresh[t].series[k][p]

\* A file that cannot be parsed, and that nobody is writing, is left alone for
\* ever: it is never opened again, to be replaced by the few periods a response
\* reaches back.
UnreadableIsLeftAlone ==
  [][\A k \in Kinds : file[k] = Torn /\ ~Open(k) => ~Open(k)' /\ file'[k] = Torn]_cacheVars

\* The database never has a price of a month or a quarter that its file had
\* not before: a forecast or a result read from either is never built on a
\* figure that was not kept.
DatabaseFollowsFiles ==
  \A k \in StoredKinds : \A p \in Periods :
    file[k] # Torn => published[k][p] <= file[k][p]
=============================================================================
