----------------------------- MODULE Ingest_proofs -----------------------------
(***************************************************************************)
(* Theorems about Ingest and Backfill for any number of jobs and every     *)
(* value of the bounds: in or beside the lane, and what the lane gives     *)
(* when every job takes it and keeps it.                                   *)
(***************************************************************************)
EXTENDS Backfill, NumberLemmas, SequenceTheorems

-----------------------------------------------------------------------------
(* Types.                                                                  *)

\* What the types of the steps rest on, beyond Typed: a price exists from
\* its first publication on, a job works for a recorded run, dailyPriceCurrent
\* names a revision of the log, only a date with a price is under a snapshot
\* (a transaction that puts dates under one has their prices), and prices were
\* found up to the confirmed date.
PricePublished ==
  /\ source.recent <= source.average
  /\ \A d \in Dates : d <= source.average => source.price[d] >= 1

RunRecorded == \A j \in Jobs : job[j].pc # "idle" => job[j].run \in 1..Len(status)

CurrentLogged ==
  \A d \in Dates : current[d].run # 0 =>
    \E r \in log : r.run = current[d].run /\ r.date = d

TaggedHasPrice == \A d \in Dates : current[d].tag # 0 => current[d].run # 0

TagsHavePrice ==
  \A j \in Jobs : job[j].pc = "written" => \A t \in job[j].tags :
    t.date \in DatesOf(Changed(j)) \/ current[t.date].run # 0

PricedUpto == \A j \in Jobs : job[j].pc = "priced" => job[j].upto \in Dates

TypeInv ==
  /\ Typed /\ PricePublished /\ RunRecorded
  /\ CurrentLogged /\ TaggedHasPrice /\ TagsHavePrice /\ PricedUpto

\* The confirmed date of a set of revisions is a date or 0.
LEMMA ConfirmedType ==
  ASSUME NEW revisions \in SUBSET RevisionType
  PROVE  ConfirmedDate(revisions) \in 0..MaxDate
<1>1. MaxDate \in Nat
  BY IngestAssumption
<1>2. ASSUME NEW from  PROVE NewestFrom(revisions, from) \in 0..MaxDate
  <2> DEFINE T == {0} \union {r.date : r \in {x \in revisions : x.from = from}}
  <2>1. T \in SUBSET (0..MaxDate) /\ T # {}
    BY <1>1 DEF RevisionType, Dates
  <2>2. Max(T) \in T
    <3> HIDE DEF T
    <3> QED  BY <1>1, <2>1, GreatestOf
  <2> QED  BY <2>1, <2>2 DEF NewestFrom
<1> DEFINE a == NewestFrom(revisions, "average")
           b == NewestFrom(revisions, "recent")
<1>3. a \in 0..MaxDate /\ b \in 0..MaxDate
  BY <1>2
<1> HIDE DEF a, b
<1>4. Min({a, b}) \in 0..MaxDate
  BY <1>1, <1>3, LesserOf
<1>5. Max({a, b}) \in 0..MaxDate
  <2>1. Max({a, b}) \in {a, b}
    BY <1>1, <1>3, GreatestOf
  <2> QED  BY <1>3, <2>1
<1> QED  BY <1>4, <1>5 DEF ConfirmedDate, a, b

\* The revisions a job writes are revisions.
LEMMA RevisionsType ==
  ASSUME Typed, NEW j \in Jobs, job[j].run \in Runs
  PROVE  Revisions(j) \in SUBSET RevisionType
<1>1. Changed(j) \subseteq FetchedType /\ job[j].known \subseteq RevisionType
  BY DEF Changed, Typed, JobType
<1>2. ASSUME NEW d  PROVE Replaces(j, d) \in 0..MaxRuns
  <2>1. CASE \E k \in job[j].known : k.date = d
    <3>1. (CHOOSE k \in job[j].known : k.date = d) \in RevisionType
      BY <1>1, <2>1
    <3> QED  BY <2>1, <3>1 DEF Replaces, RevisionType, Runs
  <2>2. CASE ~ \E k \in job[j].known : k.date = d
    BY <2>2, IngestAssumption DEF Replaces
  <2> QED  BY <2>1, <2>2
<1>3. ASSUME NEW row \in Changed(j)
      PROVE  [run |-> job[j].run, date |-> row.date, price |-> row.price, from |-> row.from,
              replaces |-> Replaces(j, row.date)] \in RevisionType
  BY <1>1, <1>2 DEF RevisionType, FetchedType
<1> QED  BY <1>3 DEF Revisions

\* A row of a published date has the type of a fetched row.
LEMMA RowIsFetched ==
  ASSUME Typed, PricePublished, NEW d \in Dates, d <= source.average, NEW from \in Sources
  PROVE  Row(d, from) \in FetchedType
<1>1. source.price \in [Dates -> 0..MaxPrice] /\ MaxPrice \in Nat
  BY IngestAssumption DEF Typed
<1>2. source.price[d] >= 1
  BY DEF PricePublished
<1>3. source.price[d] \in 0..MaxPrice
  BY <1>1
<1>4. source.price[d] \in 1..MaxPrice
  BY <1>1, <1>2, <1>3
<1> QED  BY <1>4 DEF Row, FetchedType

\* The initial state has the types.
LEMMA TypeInit == Init => TypeInv
<1> SUFFICES ASSUME Init  PROVE TypeInv
  OBVIOUS
<1> USE IngestAssumption
<1>1. IdleJob \in JobType
  BY DEF IdleJob, JobType, Steps
<1>2. Typed
  BY <1>1 DEF Init, Typed, Dates, Statuses
<1>3. /\ PricePublished /\ RunRecorded /\ CurrentLogged
      /\ TaggedHasPrice /\ TagsHavePrice /\ PricedUpto
  BY DEF Init, IdleJob, PricePublished, RunRecorded, CurrentLogged, TaggedHasPrice,
         TagsHavePrice, PricedUpto, Dates
<1> QED  BY <1>2, <1>3 DEF TypeInv

\* A step that changes no more than one job, the lane and the status of the
\* job's run keeps the types when the new job has one.
LEMMA JobStepTyped ==
  ASSUME TypeInv, NEW j \in Jobs,
         NEW J \in JobType, job' = [job EXCEPT ![j] = J],
         J.pc # "idle" => J.run = job[j].run /\ job[j].pc # "idle",
         J.pc = "priced" => J.upto \in Dates,
         J.pc = "written" => \A t \in J.tags :
           t.date \in DatesOf(Changed(j)') \/ current[t.date].run # 0,
         \/ status' = status
         \/ \E x \in Statuses : status' = [status EXCEPT ![job[j].run] = x]
                               /\ job[j].pc # "idle",
         lane' \in LaneJobs \union {NoJob},
         UNCHANGED <<source, log, current, snapshots, forecasts>>
  PROVE  TypeInv'
<1>a. /\ Typed /\ PricePublished /\ RunRecorded
      /\ CurrentLogged /\ TaggedHasPrice /\ TagsHavePrice /\ PricedUpto
  BY DEF TypeInv
<1>b. /\ status \in Seq(Statuses) /\ DOMAIN status = 1..Len(status)
      /\ job \in [Jobs -> JobType]
  BY <1>a DEF Typed
<1>c. job[j].pc # "idle" => job[j].run \in 1..Len(status)
  BY <1>a DEF RunRecorded
<1>1. status' \in Seq(Statuses) /\ Len(status') = Len(status)
  <2>1. CASE status' = status
    BY <2>1, <1>b
  <2>2. ASSUME NEW x \in Statuses, status' = [status EXCEPT ![job[j].run] = x],
               job[j].pc # "idle"
        PROVE  status' \in Seq(Statuses) /\ Len(status') = Len(status)
    BY <2>2, <1>b, <1>c, ExceptSeq
  <2> QED  BY <2>1, <2>2
<1>2. job' \in [Jobs -> JobType]
  BY <1>b
<1>3. Typed'
  BY <1>a, <1>1, <1>2 DEF Typed
<1>4. RunRecorded'
  BY <1>a, <1>b, <1>c, <1>1 DEF RunRecorded
<1>5. PricedUpto'
  BY <1>a, <1>b DEF PricedUpto
<1>6. PricePublished' /\ CurrentLogged' /\ TaggedHasPrice'
  BY <1>a DEF PricePublished, CurrentLogged, TaggedHasPrice
<1>7. TagsHavePrice'
  <2> SUFFICES ASSUME NEW k \in Jobs, job'[k].pc = "written", NEW t \in job'[k].tags
               PROVE  t.date \in DatesOf(Changed(k)') \/ current'[t.date].run # 0
    BY DEF TagsHavePrice, DatesOf
  <2>1. CASE k = j
    BY <2>1, <1>b
  <2>2. CASE k # j
    <3>1. job'[k] = job[k]
      BY <2>2, <1>b
    <3>2. Changed(k)' = Changed(k)
      BY <3>1 DEF Changed
    <3> QED  BY <3>1, <3>2, <1>a DEF TagsHavePrice
  <2> QED  BY <2>1, <2>2
<1> QED  BY <1>3, <1>4, <1>5, <1>6, <1>7 DEF TypeInv

\* Every step of a job keeps the types.
LEMMA TypeWork ==
  ASSUME TypeInv, NEW j \in Jobs, Work(j)
  PROVE  TypeInv'
<1>a. /\ Typed /\ PricePublished /\ RunRecorded
      /\ CurrentLogged /\ TaggedHasPrice /\ TagsHavePrice /\ PricedUpto
  BY DEF TypeInv
<1>b. /\ log \subseteq RevisionType
      /\ current \in [Dates -> [run : 0..MaxRuns, tag : 0..MaxRuns]]
      /\ status \in Seq(Statuses) /\ Len(status) \in 0..MaxRuns
      /\ DOMAIN status = 1..Len(status)
      /\ snapshots \subseteq SnapshotType
      /\ forecasts \in Seq(ForecastType)
      /\ job \in [Jobs -> JobType]
      /\ lane \in LaneJobs \union {NoJob}
  BY <1>a DEF Typed
<1>c. MaxRuns \in Nat /\ MaxDate \in Nat
  BY IngestAssumption
<1>d. job[j].pc # "idle" => job[j].run \in Runs /\ job[j].run \in 1..Len(status)
  BY <1>a, <1>b, <1>c DEF RunRecorded, Runs
<1>e. job[j] \in JobType
  BY <1>b
\* A step that changes the job alone.
<1>f. ASSUME NEW J \in JobType, job' = [job EXCEPT ![j] = J],
             J.pc # "idle" => J.run = job[j].run /\ job[j].pc # "idle",
             J.pc = "priced" => J.upto \in Dates,
             J.pc = "written" => \A t \in J.tags :
               t.date \in DatesOf(Changed(j)') \/ current[t.date].run # 0,
             \/ status' = status
             \/ \E x \in Statuses : status' = [status EXCEPT ![job[j].run] = x]
                                   /\ job[j].pc # "idle",
             lane' \in LaneJobs \union {NoJob},
             UNCHANGED <<source, log, current, snapshots, forecasts>>
      PROVE  TypeInv'
  BY <1>f, JobStepTyped
<1>g. IdleJob \in JobType
  BY <1>c DEF IdleJob, JobType, Steps
<1>l. (IF lane = j THEN NoJob ELSE lane) \in LaneJobs \union {NoJob}
  BY <1>b
<1>1. ASSUME Enqueue(j)  PROVE TypeInv'
  <2>1. status' = Append(status, "queued") /\ Len(status) < MaxRuns
    BY <1>1 DEF Enqueue
  <2>2. status' \in Seq(Statuses) /\ Len(status') = Len(status) + 1
    BY <1>b, <2>1, AppendProperties DEF Statuses
  <2> DEFINE r == Len(status) + 1
             J == [job[j] EXCEPT !.pc = "queued", !.run = r]
  <2>a. r \in 0..MaxRuns
    BY <1>b, <1>c, <2>1
  <2> HIDE DEF r
  <2>b. J \in JobType /\ J.pc = "queued" /\ J.run = r
    BY <1>e, <2>a DEF JobType, Steps
  <2>3. J \in JobType /\ J.pc = "queued" /\ J.run = Len(status) + 1
    BY <2>b DEF r
  <2>4. job' = [job EXCEPT ![j] = J]
    BY <1>1 DEF Enqueue, r
  <2> HIDE DEF J
  <2>5. job' \in [Jobs -> JobType]
    BY <1>b, <2>3, <2>4
  <2>6. UNCHANGED <<source, log, current, snapshots, forecasts, lane>>
    BY <1>1 DEF Enqueue
  <2>7. Typed'
    BY <1>a, <1>b, <1>c, <2>1, <2>2, <2>5, <2>6 DEF Typed
  <2>8. RunRecorded'
    BY <1>a, <1>b, <2>2, <2>3, <2>4 DEF RunRecorded
  <2>9. PricedUpto'
    BY <1>a, <1>b, <2>3, <2>4 DEF PricedUpto
  <2>10. PricePublished' /\ CurrentLogged' /\ TaggedHasPrice'
    BY <1>a, <2>6 DEF PricePublished, CurrentLogged, TaggedHasPrice
  <2>11. TagsHavePrice'
    <3> SUFFICES ASSUME NEW k \in Jobs, job'[k].pc = "written", NEW t \in job'[k].tags
                 PROVE  t.date \in DatesOf(Changed(k)') \/ current'[t.date].run # 0
      BY DEF TagsHavePrice, DatesOf
    <3>1. k # j /\ job'[k] = job[k]
      BY <1>b, <2>3, <2>4
    <3>2. Changed(k)' = Changed(k)
      BY <3>1 DEF Changed
    <3> QED  BY <3>1, <3>2, <1>a, <2>6 DEF TagsHavePrice
  <2> QED  BY <2>7, <2>8, <2>9, <2>10, <2>11 DEF TypeInv
<1>2. ASSUME Start(j)  PROVE TypeInv'
  <2> DEFINE J == [job[j] EXCEPT !.pc = "started"]
  <2>1. J \in JobType /\ J.pc = "started" /\ J.run = job[j].run
    BY <1>e DEF JobType, Steps
  <2>2. job' = [job EXCEPT ![j] = J]
    BY <1>2 DEF Start
  <2> HIDE DEF J
  <2>3. lane' \in LaneJobs \union {NoJob}
    BY <1>2, <1>b DEF Start
  <2>4. /\ job[j].pc = "queued"
        /\ status' = [status EXCEPT ![job[j].run] = "running"] /\ "running" \in Statuses
        /\ UNCHANGED <<source, log, current, snapshots, forecasts>>
    BY <1>2 DEF Start, Statuses
  <2> QED  BY <1>f, <2>1, <2>2, <2>3, <2>4
<1>3. ASSUME FetchAverage(j)  PROVE TypeInv'
  <2> DEFINE rows == IF source.average = 0 THEN {} ELSE {Row(source.average, "average")}
             J == [job[j] EXCEPT !.pc = "average", !.rows = rows]
  <2>1. source.average \in 0..MaxDate
    BY <1>a DEF Typed
  <2>2. rows \subseteq FetchedType
    <3>1. CASE source.average = 0
      BY <3>1
    <3>2. CASE source.average # 0
      <4>1. source.average \in Dates
        BY <2>1, <3>2, <1>c DEF Dates
      <4>2. Row(source.average, "average") \in FetchedType
        BY <1>a, <1>c, <4>1, RowIsFetched DEF Sources, Feeds, Dates
      <4> QED  BY <4>2
    <3> QED  BY <3>1, <3>2
  <2>3. job' = [job EXCEPT ![j] = J]
    BY <1>3 DEF FetchAverage
  <2> HIDE DEF rows
  <2>4. J \in JobType /\ J.pc = "average" /\ J.run = job[j].run
    BY <1>e, <2>2 DEF JobType, Steps
  <2> HIDE DEF J
  <2>5. /\ job[j].pc = "started"
        /\ UNCHANGED <<source, log, current, status, snapshots, forecasts, lane>>
    BY <1>3 DEF FetchAverage
  <2> QED  BY <1>b, <1>f, <2>3, <2>4, <2>5
<1>4. ASSUME FetchRecent(j)  PROVE TypeInv'
  <2> DEFINE newest == {d \in Dates : d <= source.recent /\ d > source.recent - Window}
  <2>1. PICK dates \in {newest, {}} :
           job' = [job EXCEPT ![j].pc = "fetched",
             ![j].rows = @ \union {Row(d, "recent") : d \in dates \ DatesOf(@)}]
    BY <1>4 DEF FetchRecent
  <2> DEFINE rows == {Row(d, "recent") : d \in dates \ DatesOf(job[j].rows)}
             J == [job[j] EXCEPT !.pc = "fetched", !.rows = job[j].rows \union rows]
  <2>2. rows \subseteq FetchedType
    <3> SUFFICES ASSUME NEW d \in dates  PROVE Row(d, "recent") \in FetchedType
      OBVIOUS
    <3>1. d \in Dates /\ d <= source.recent
      BY <2>1
    <3>2. source.recent \in 0..MaxDate /\ source.average \in 0..MaxDate
      BY <1>a DEF Typed
    <3>3. d <= source.average
      BY <1>a, <1>c, <3>1, <3>2 DEF PricePublished, Dates
    <3> QED  BY <1>a, <3>1, <3>3, RowIsFetched DEF Sources, Feeds
  <2>3. job' = [job EXCEPT ![j] = J]
    BY <2>1, <1>b
  <2> HIDE DEF rows
  <2>4. J \in JobType /\ J.pc = "fetched" /\ J.run = job[j].run
    BY <1>e, <2>2 DEF JobType, Steps
  <2> HIDE DEF J
  <2>5. /\ job[j].pc = "average"
        /\ UNCHANGED <<source, log, current, status, snapshots, forecasts, lane>>
    BY <1>4 DEF FetchRecent
  <2> QED  BY <1>b, <1>f, <2>3, <2>4, <2>5
<1>5. ASSUME ReadCurrent(j)  PROVE TypeInv'
  <2> DEFINE known == {RevisionOf(current[d].run, d) :
                         d \in {x \in DatesOf(job[j].rows) : current[x].run # 0}}
             J == [job[j] EXCEPT !.pc = "read", !.known = known]
  <2>1. known \subseteq RevisionType
    <3> SUFFICES ASSUME NEW d \in DatesOf(job[j].rows), current[d].run # 0
                 PROVE  RevisionOf(current[d].run, d) \in RevisionType
      OBVIOUS
    <3>1. d \in Dates
      BY <1>e DEF JobType, FetchedType, DatesOf
    <3>2. RevisionOf(current[d].run, d) \in log
      BY <1>a, <3>1 DEF CurrentLogged, RevisionOf
    <3> QED  BY <1>b, <3>2
  <2>2. job' = [job EXCEPT ![j] = J]
    BY <1>5 DEF ReadCurrent
  <2> HIDE DEF known
  <2>3. J \in JobType /\ J.pc = "read" /\ J.run = job[j].run
    BY <1>e, <2>1 DEF JobType, Steps
  <2> HIDE DEF J
  <2>4. /\ job[j].pc = "fetched"
        /\ UNCHANGED <<source, log, current, status, snapshots, forecasts, lane>>
    BY <1>5 DEF ReadCurrent
  <2> QED  BY <1>b, <1>f, <2>2, <2>3, <2>4
<1>6. ASSUME WriteRevisions(j)  PROVE TypeInv'
  <2> DEFINE changed == DatesOf(Changed(j))
             present == {d \in Dates : current[d].run # 0} \union changed
             tags == {[date |-> d, run |-> IF d \in changed THEN job[j].run
                                           ELSE current[d].run] : d \in present}
             upto == ConfirmedDate(log \union Revisions(j))
             J == [job[j] EXCEPT !.pc = "written", !.tags = tags, !.upto = upto]
  <2>1. /\ job[j].pc = "read"
        /\ job' = [job EXCEPT ![j] = J]
        /\ UNCHANGED <<source, log, current, status, snapshots, forecasts, lane>>
    BY <1>6 DEF WriteRevisions
  <2>2. changed \subseteq Dates
    BY <1>e DEF DatesOf, Changed, JobType, FetchedType
  <2>3. tags \subseteq Captured
    <3> SUFFICES ASSUME NEW d \in present
                 PROVE  [date |-> d, run |-> IF d \in changed THEN job[j].run
                                             ELSE current[d].run] \in Captured
      OBVIOUS
    <3>1. d \in Dates
      BY <2>2
    <3>2. d \notin changed => current[d].run \in Runs
      BY <1>b, <1>c, <3>1 DEF Runs
    <3> HIDE DEF changed
    <3> QED  BY <1>d, <2>1, <3>1, <3>2 DEF Captured
  <2>4. upto \in 0..MaxDate
    BY <1>a, <1>b, <1>d, <2>1, RevisionsType, ConfirmedType
  <2>5. ASSUME NEW t \in tags  PROVE t.date \in changed \/ current[t.date].run # 0
    OBVIOUS
  <2> HIDE DEF tags, upto
  <2>6. J \in JobType /\ J.pc = "written" /\ J.run = job[j].run /\ J.tags = tags
    BY <1>e, <2>3, <2>4 DEF JobType, Steps
  <2>7. Changed(j)' = Changed(j)
    <3>1. job[j].rows = job'[j].rows /\ job[j].known = job'[j].known
      BY <1>b, <1>e, <2>1 DEF JobType
    <3> QED  BY <3>1 DEF Changed
  <2> HIDE DEF J
  <2> QED  BY <1>b, <1>f, <2>1, <2>5, <2>6, <2>7
<1>7. ASSUME CommitSnapshot(j)  PROVE TypeInv'
  <2> DEFINE J == [job[j] EXCEPT !.pc = "snapshot"]
             changed == DatesOf(Changed(j))
             tagged == DatesOf(job[j].tags)
             now(d) == [run |-> IF d \in changed THEN job[j].run ELSE current[d].run,
                        tag |-> IF d \in tagged THEN job[j].run ELSE current[d].tag]
  <2>1. /\ job[j].pc = "written"
        /\ job' = [job EXCEPT ![j] = J]
        /\ log' = log \union Revisions(j)
        /\ current' = [d \in Dates |-> now(d)]
        /\ snapshots' = snapshots \union {[run |-> job[j].run, rows |-> job[j].tags]}
        /\ UNCHANGED <<source, status, forecasts, lane>>
    BY <1>7 DEF CommitSnapshot
  <2>2. changed \subseteq Dates /\ tagged \subseteq Dates
    BY <1>e DEF DatesOf, Changed, JobType, FetchedType, Captured
  <2>3. Revisions(j) \subseteq RevisionType /\ job[j].run \in Runs
    BY <1>a, <1>d, <2>1, RevisionsType
  <2> HIDE DEF changed, tagged
  <2>4. J \in JobType /\ J.pc = "snapshot" /\ J.run = job[j].run
    BY <1>e DEF JobType, Steps
  <2> HIDE DEF J
  <2>5. job' \in [Jobs -> JobType]
    BY <1>b, <2>1, <2>4
  <2>6. job[j].run \in 0..MaxRuns
    BY <2>3, <1>c DEF Runs
  <2>7. current' \in [Dates -> [run : 0..MaxRuns, tag : 0..MaxRuns]]
    <3> SUFFICES ASSUME NEW d \in Dates
                 PROVE  now(d) \in [run : 0..MaxRuns, tag : 0..MaxRuns]
      BY <2>1
    <3>1. current[d].run \in 0..MaxRuns /\ current[d].tag \in 0..MaxRuns
      BY <1>b
    <3> QED  BY <2>6, <3>1
  <2>8. snapshots' \subseteq SnapshotType
    <3>1. job[j].tags \in SUBSET Captured
      BY <1>e DEF JobType
    <3> QED  BY <1>b, <2>1, <2>3, <3>1 DEF SnapshotType
  <2>9. Typed'
    BY <1>a, <2>1, <2>3, <2>5, <2>7, <2>8 DEF Typed
  <2>10. RunRecorded' /\ PricedUpto' /\ PricePublished'
    BY <1>a, <1>b, <1>d, <2>1, <2>4 DEF RunRecorded, PricedUpto, PricePublished
  <2>11. CurrentLogged'
    <3> SUFFICES ASSUME NEW d \in Dates, current'[d].run # 0
                 PROVE  \E r \in log' : r.run = current'[d].run /\ r.date = d
      BY DEF CurrentLogged
    <3>1. current'[d].run = IF d \in changed THEN job[j].run ELSE current[d].run
      BY <2>1
    <3>2. CASE d \in changed
      <4>1. PICK row \in Changed(j) : row.date = d
        BY <3>2 DEF changed, DatesOf
      <4> DEFINE new == [run |-> job[j].run, date |-> row.date, price |-> row.price,
                         from |-> row.from, replaces |-> Replaces(j, row.date)]
      <4>2. new \in log'
        BY <2>1 DEF Revisions
      <4> QED  BY <3>1, <3>2, <4>1, <4>2
    <3>3. CASE d \notin changed
      BY <1>a, <2>1, <3>1, <3>3 DEF CurrentLogged
    <3> QED  BY <3>2, <3>3
  <2>12. ASSUME NEW d \in Dates, current[d].run # 0 \/ d \in changed
         PROVE  current'[d].run # 0
    BY <2>1, <2>3, <2>12 DEF Runs
  <2>13. ASSUME NEW d \in tagged  PROVE current'[d].run # 0
    <3>1. PICK t \in job[j].tags : t.date = d
      BY DEF tagged, DatesOf
    <3>2. d \in Dates
      BY <2>2
    <3> QED  BY <1>a, <2>1, <2>12, <3>1, <3>2 DEF TagsHavePrice, changed
  <2>14. TaggedHasPrice'
    <3> SUFFICES ASSUME NEW d \in Dates, current'[d].tag # 0  PROVE current'[d].run # 0
      BY DEF TaggedHasPrice
    <3>1. CASE d \in tagged
      BY <2>13, <3>1
    <3>2. CASE d \notin tagged
      <4>1. current[d].tag # 0
        BY <2>1, <3>2
      <4> QED  BY <1>a, <2>12, <4>1 DEF TaggedHasPrice
    <3> QED  BY <3>1, <3>2
  <2>15. TagsHavePrice'
    <3> SUFFICES ASSUME NEW k \in Jobs, job'[k].pc = "written", NEW t \in job'[k].tags
                 PROVE  t.date \in DatesOf(Changed(k)') \/ current'[t.date].run # 0
      BY DEF TagsHavePrice, DatesOf
    <3>1. k # j /\ job'[k] = job[k]
      BY <1>b, <2>1, <2>4
    <3>2. Changed(k)' = Changed(k)
      BY <3>1 DEF Changed
    <3>3. t.date \in Dates
      BY <1>b, <3>1 DEF JobType, Captured
    <3> QED  BY <3>1, <3>2, <3>3, <1>a, <2>12 DEF TagsHavePrice
  <2> QED  BY <2>9, <2>10, <2>11, <2>14, <2>15 DEF TypeInv
<1>8. ASSUME ReadPrices(j)  PROVE TypeInv'
  <2>1. PICK upto \in job[j].upto..ConfirmedDate(log) :
          LET dates == {d \in Dates : current[d].tag = job[j].run /\ d <= upto}
          IN  /\ dates # {}
              /\ job' = [job EXCEPT ![j].pc = "priced", ![j].upto = upto,
                   ![j].prices = {[date |-> d, run |-> current[d].run] : d \in dates}]
    BY <1>8 DEF ReadPrices
  <2> DEFINE dates == {d \in Dates : current[d].tag = job[j].run /\ d <= upto}
             prices == {[date |-> d, run |-> current[d].run] : d \in dates}
             J == [job[j] EXCEPT !.pc = "priced", !.upto = upto, !.prices = prices]
  <2>2. /\ job[j].pc = "snapshot" /\ dates # {}
        /\ job' = [job EXCEPT ![j] = J]
        /\ UNCHANGED <<source, log, current, status, snapshots, forecasts, lane>>
    BY <1>8, <2>1 DEF ReadPrices
  <2>3. upto \in 0..MaxDate /\ upto \in Dates
    <3>1. ConfirmedDate(log) \in 0..MaxDate /\ job[j].upto \in 0..MaxDate
      BY <1>b, <1>e, ConfirmedType DEF JobType
    <3>2. upto \in 0..MaxDate
      BY <1>c, <2>1, <3>1
    <3> QED  BY <1>c, <2>2, <3>2 DEF Dates
  <2>4. prices \subseteq Captured
    <3> SUFFICES ASSUME NEW d \in dates
                 PROVE  [date |-> d, run |-> current[d].run] \in Captured
      OBVIOUS
    <3>1. current[d].tag # 0
      BY <1>c, <1>d, <2>2 DEF Runs
    <3>2. current[d].run \in Runs
      BY <1>a, <1>b, <1>c, <3>1 DEF TaggedHasPrice, Runs
    <3> QED  BY <3>2 DEF Captured
  <2> HIDE DEF prices, dates
  <2>5. J \in JobType /\ J.pc = "priced" /\ J.run = job[j].run /\ J.upto = upto
    BY <1>e, <2>3, <2>4 DEF JobType, Steps
  <2> HIDE DEF J
  <2> QED  BY <1>b, <1>f, <2>2, <2>3, <2>5
<1>9. ASSUME CommitForecast(j)  PROVE TypeInv'
  <2> DEFINE J == [job[j] EXCEPT !.pc = "forecast"]
             new == [run |-> job[j].run, rows |-> job[j].prices, upto |-> job[j].upto]
  <2>1. /\ job[j].pc = "priced"
        /\ job' = [job EXCEPT ![j] = J]
        /\ forecasts' = Append(forecasts, new)
        /\ UNCHANGED <<source, log, current, status, snapshots, lane>>
    BY <1>9 DEF CommitForecast
  <2>2. new \in ForecastType
    <3>1. job[j].upto \in Dates /\ job[j].prices \subseteq Captured /\ job[j].run \in Runs
      BY <1>a, <1>d, <1>e, <2>1 DEF PricedUpto, JobType
    <3> QED  BY <3>1 DEF ForecastType
  <2> HIDE DEF new
  <2>3. forecasts' \in Seq(ForecastType)
    BY <1>b, <2>1, <2>2, AppendProperties
  <2>4. J \in JobType /\ J.pc = "forecast" /\ J.run = job[j].run
    BY <1>e DEF JobType, Steps
  <2> HIDE DEF J
  <2>5. job' \in [Jobs -> JobType]
    BY <1>b, <2>1, <2>4
  <2>6. Typed'
    BY <1>a, <2>1, <2>3, <2>5 DEF Typed
  <2>7. RunRecorded' /\ PricedUpto' /\ PricePublished' /\ CurrentLogged' /\ TaggedHasPrice'
    BY <1>a, <1>b, <1>d, <2>1, <2>4 DEF RunRecorded, PricedUpto, PricePublished,
       CurrentLogged, TaggedHasPrice
  <2>8. TagsHavePrice'
    <3> SUFFICES ASSUME NEW k \in Jobs, job'[k].pc = "written", NEW t \in job'[k].tags
                 PROVE  t.date \in DatesOf(Changed(k)') \/ current'[t.date].run # 0
      BY DEF TagsHavePrice, DatesOf
    <3>1. k # j /\ job'[k] = job[k]
      BY <1>b, <2>1, <2>4
    <3>2. Changed(k)' = Changed(k)
      BY <3>1 DEF Changed
    <3> QED  BY <3>1, <3>2, <1>a, <2>1 DEF TagsHavePrice
  <2> QED  BY <2>6, <2>7, <2>8 DEF TypeInv
<1>10. ASSUME Succeed(j)  PROVE TypeInv'
  <2> DEFINE J == [job[j] EXCEPT !.pc = "done"]
  <2>1. J \in JobType /\ J.pc = "done" /\ J.run = job[j].run
    BY <1>e DEF JobType, Steps
  <2>2. /\ job[j].pc = "forecast"
        /\ job' = [job EXCEPT ![j] = J]
        /\ status' = [status EXCEPT ![job[j].run] = "succeeded"] /\ "succeeded" \in Statuses
        /\ UNCHANGED <<source, log, current, snapshots, forecasts, lane>>
    BY <1>10 DEF Succeed, Statuses
  <2> HIDE DEF J
  <2> QED  BY <1>b, <1>f, <2>1, <2>2
<1>11. ASSUME Return(j) \/ Fail(j) \/ Crash(j)  PROVE TypeInv'
  <2>1. /\ job[j].pc # "idle"
        /\ \/ status' = status
           \/ status' = [status EXCEPT ![job[j].run] = "failed"] /\ "failed" \in Statuses
        /\ job' = [job EXCEPT ![j] = IdleJob]
        /\ lane' \in LaneJobs \union {NoJob}
        /\ UNCHANGED <<source, log, current, snapshots, forecasts>>
    BY <1>11, <1>l DEF Return, Fail, Crash, Leave, Statuses
  <2>2. IdleJob.pc = "idle"
    BY DEF IdleJob
  <2> QED  BY <1>f, <1>g, <2>1, <2>2
<1> QED  BY <1>1, <1>2, <1>3, <1>4, <1>5, <1>6, <1>7, <1>8, <1>9, <1>10, <1>11 DEF Work

\* Every step keeps the types.
LEMMA TypeStep == TypeInv /\ [Next]_vars => TypeInv'
<1> SUFFICES ASSUME TypeInv, [Next]_vars  PROVE TypeInv'
  OBVIOUS
<1>a. /\ Typed /\ PricePublished /\ RunRecorded
      /\ CurrentLogged /\ TaggedHasPrice /\ TagsHavePrice /\ PricedUpto
  BY DEF TypeInv
<1>b. MaxDate \in Nat /\ MaxPrice \in Nat \ {0}
  BY IngestAssumption
\* Only the source and the lane change.
<1>c. ASSUME UNCHANGED <<log, current, status, snapshots, forecasts, job>>,
             lane' \in {lane, NoJob}, PricePublished',
             source' \in [average : 0..MaxDate, recent : 0..MaxDate,
                          price : [Dates -> 0..MaxPrice]]
      PROVE  TypeInv'
  <2>1. Typed'
    BY <1>a, <1>c DEF Typed
  <2>2. \A j \in Jobs : Changed(j)' = Changed(j)
    BY <1>c DEF Changed
  <2>3. TagsHavePrice'
    <3> SUFFICES ASSUME NEW k \in Jobs, job'[k].pc = "written", NEW t \in job'[k].tags
                 PROVE  t.date \in DatesOf(Changed(k)') \/ current'[t.date].run # 0
      BY DEF TagsHavePrice, DatesOf
    <3> QED  BY <1>a, <1>c, <2>2 DEF TagsHavePrice
  <2>4. RunRecorded' /\ CurrentLogged' /\ TaggedHasPrice' /\ PricedUpto'
    BY <1>a, <1>c DEF RunRecorded, CurrentLogged, TaggedHasPrice, PricedUpto
  <2> QED  BY <1>c, <2>1, <2>3, <2>4 DEF TypeInv
<1>d. source \in [average : 0..MaxDate, recent : 0..MaxDate, price : [Dates -> 0..MaxPrice]]
  BY <1>a DEF Typed
<1>1. ASSUME NEW j \in Jobs, Work(j)  PROVE TypeInv'
  BY <1>1, TypeWork
<1>2. ASSUME LaneExpire, Environment  PROVE TypeInv'
  <2>1. UNCHANGED <<source, log, current, status, snapshots, forecasts, job>> /\ lane' = NoJob
    BY <1>2 DEF Environment, LaneExpire
  <2>2. PricePublished'
    BY <1>a, <2>1 DEF PricePublished
  <2> QED  BY <1>c, <1>d, <2>1, <2>2
<1>3. ASSUME PublishAverage, Environment  PROVE TypeInv'
  <2> DEFINE next == source.average + 1
  <2>1. /\ source.average < MaxDate
        /\ source' = [source EXCEPT !.average = source.average + 1,
                                    !.price[source.average + 1] = 1]
        /\ UNCHANGED <<log, current, status, snapshots, forecasts, job, lane>>
    BY <1>3 DEF Environment, PublishAverage
  <2>a. next \in 1..MaxDate /\ next \in 0..MaxDate /\ 1 \in 0..MaxPrice
    BY <1>b, <1>d, <2>1
  <2>b. source' = [source EXCEPT !.average = next, !.price[next] = 1]
    BY <2>1
  <2> HIDE DEF next
  <2>2. source' \in [average : 0..MaxDate, recent : 0..MaxDate,
                     price : [Dates -> 0..MaxPrice]]
    BY <1>d, <2>a, <2>b
  <2>3. PricePublished'
    BY <1>a, <1>b, <1>d, <2>1 DEF PricePublished, Dates
  <2> QED  BY <1>c, <2>1, <2>2, <2>3
<1>4. ASSUME PublishRecent, Environment  PROVE TypeInv'
  <2>1. /\ source.recent < source.average
        /\ source' = [source EXCEPT !.recent = source.recent + 1]
        /\ UNCHANGED <<log, current, status, snapshots, forecasts, job, lane>>
    BY <1>4 DEF Environment, PublishRecent
  <2>2. source' \in [average : 0..MaxDate, recent : 0..MaxDate,
                     price : [Dates -> 0..MaxPrice]]
    BY <1>b, <1>d, <2>1
  <2>3. PricePublished'
    BY <1>a, <1>b, <1>d, <2>1 DEF PricePublished
  <2> QED  BY <1>c, <2>1, <2>2, <2>3
<1>5. ASSUME NEW d \in Dates, Correct(d), Environment  PROVE TypeInv'
  <2>1. /\ source.price[d] \in 1..(MaxPrice - 1)
        /\ source' = [source EXCEPT !.price[d] = source.price[d] + 1]
        /\ UNCHANGED <<log, current, status, snapshots, forecasts, job, lane>>
    BY <1>5 DEF Environment, Correct
  <2>2. source' \in [average : 0..MaxDate, recent : 0..MaxDate,
                     price : [Dates -> 0..MaxPrice]]
    BY <1>b, <1>d, <2>1
  <2>3. PricePublished'
    BY <1>a, <1>b, <1>d, <2>1 DEF PricePublished
  <2> QED  BY <1>c, <2>1, <2>2, <2>3
<1>6. ASSUME UNCHANGED vars  PROVE TypeInv'
  <2>1. UNCHANGED <<source, log, current, status, snapshots, forecasts, job, lane>>
    BY <1>6 DEF vars
  <2>2. PricePublished'
    BY <1>a, <2>1 DEF PricePublished
  <2> QED  BY <1>c, <1>d, <2>1, <2>2
<1>7. ASSUME Environment  PROVE TypeInv'
  BY <1>2, <1>3, <1>4, <1>5, <1>7 DEF Environment
<1> QED  BY <1>1, <1>6, <1>7 DEF Next

\* Without a backfill the prices come from the two daily feeds.
LEMMA FeedsStep ==
  ASSUME TypeInv, OnlyFeeds, [Next]_vars
  PROVE  OnlyFeeds'
<1>a. job \in [Jobs -> JobType] /\ CurrentLogged
  BY DEF TypeInv, Typed
<1>b. \A j \in Jobs : Changed(j) \subseteq job[j].rows
  BY DEF Changed
<1>c. ASSUME NEW j \in Jobs, NEW rows, NEW known, log' = log,
             \A k \in Jobs : k # j => job'[k] = job[k],
             job'[j].rows = rows, job'[j].known = known,
             \A row \in rows \union known : row.from \in Feeds
      PROVE  OnlyFeeds'
  BY <1>c DEF OnlyFeeds
<1>1. ASSUME NEW j \in Jobs, Work(j)  PROVE OnlyFeeds'
  <2>a. \A row \in job[j].rows \union job[j].known : row.from \in Feeds
    BY DEF OnlyFeeds
  <2>1. CASE Enqueue(j)
    <3>1. /\ \A k \in Jobs : k # j => job'[k] = job[k]
          /\ job'[j].rows = job[j].rows /\ job'[j].known = job[j].known /\ log' = log
      BY <1>a, <2>1 DEF Enqueue, JobType
    <3> QED  BY <1>c, <2>a, <3>1
  <2>2. CASE FetchAverage(j)
    <3> DEFINE rows == IF source.average = 0 THEN {} ELSE {Row(source.average, "average")}
    <3>1. \A row \in rows : row.from \in Feeds
      BY DEF Row, Feeds
    <3>2. job' = [job EXCEPT ![j].pc = "average", ![j].rows = rows] /\ log' = log
      BY <2>2 DEF FetchAverage
    <3> HIDE DEF rows
    <3>3. /\ \A k \in Jobs : k # j => job'[k] = job[k]
          /\ job'[j].rows = rows /\ job'[j].known = job[j].known
      BY <1>a, <3>2 DEF JobType
    <3> QED  BY <1>c, <2>a, <3>1, <3>2, <3>3
  <2>3. CASE FetchRecent(j)
    <3>1. PICK dates : job' = [job EXCEPT ![j].pc = "fetched",
            ![j].rows = @ \union {Row(d, "recent") : d \in dates \ DatesOf(@)}]
      BY <2>3 DEF FetchRecent
    <3> DEFINE rows == job[j].rows \union
                         {Row(d, "recent") : d \in dates \ DatesOf(job[j].rows)}
    <3>2. \A row \in rows : row.from \in Feeds
      BY <2>a DEF Row, Feeds
    <3>3. job' = [job EXCEPT ![j].pc = "fetched", ![j].rows = rows] /\ log' = log
      BY <1>a, <2>3, <3>1 DEF FetchRecent
    <3> HIDE DEF rows
    <3>4. /\ \A k \in Jobs : k # j => job'[k] = job[k]
          /\ job'[j].rows = rows /\ job'[j].known = job[j].known
      BY <1>a, <3>3 DEF JobType
    <3> QED  BY <1>c, <2>a, <3>2, <3>3, <3>4
  <2>4. CASE ReadCurrent(j)
    <3> DEFINE known == {RevisionOf(current[d].run, d) :
                           d \in {x \in DatesOf(job[j].rows) : current[x].run # 0}}
    <3>1. known \subseteq log
      <4> SUFFICES ASSUME NEW d \in DatesOf(job[j].rows), current[d].run # 0
                   PROVE  RevisionOf(current[d].run, d) \in log
        OBVIOUS
      <4>1. d \in Dates
        BY <1>a DEF JobType, FetchedType, DatesOf
      <4> QED  BY <1>a, <4>1 DEF CurrentLogged, RevisionOf
    <3>2. job' = [job EXCEPT ![j].pc = "read", ![j].known = known] /\ log' = log
      BY <2>4 DEF ReadCurrent
    <3> HIDE DEF known
    <3>3. /\ \A k \in Jobs : k # j => job'[k] = job[k]
          /\ job'[j].rows = job[j].rows /\ job'[j].known = known
      BY <1>a, <3>2 DEF JobType
    <3>4. \A row \in known : row.from \in Feeds
      BY <3>1 DEF OnlyFeeds
    <3> QED  BY <1>c, <2>a, <3>2, <3>3, <3>4
  <2>5. CASE CommitSnapshot(j)
    <3>1. /\ log' = log \union Revisions(j)
          /\ \A k \in Jobs : job'[k].rows = job[k].rows /\ job'[k].known = job[k].known
      BY <1>a, <2>5 DEF CommitSnapshot, JobType
    <3>2. \A r \in Revisions(j) : r.from \in Feeds
      BY <1>b, <2>a DEF Revisions
    <3> QED  BY <3>1, <3>2 DEF OnlyFeeds
  <2>6. CASE \/ Start(j) \/ WriteRevisions(j) \/ ReadPrices(j) \/ CommitForecast(j) \/ Succeed(j)
    <3>1. /\ \A k \in Jobs : k # j => job'[k] = job[k]
          /\ job'[j].rows = job[j].rows /\ job'[j].known = job[j].known /\ log' = log
      <4>1. CASE Start(j)
        BY <1>a, <4>1 DEF Start, JobType
      <4>2. CASE WriteRevisions(j)
        BY <1>a, <4>2 DEF WriteRevisions, JobType
      <4>3. CASE ReadPrices(j)
        BY <1>a, <4>3 DEF ReadPrices, JobType
      <4>4. CASE CommitForecast(j)
        BY <1>a, <4>4 DEF CommitForecast, JobType
      <4>5. CASE Succeed(j)
        BY <1>a, <4>5 DEF Succeed, JobType
      <4> QED  BY <2>6, <4>1, <4>2, <4>3, <4>4, <4>5
    <3> QED  BY <1>c, <2>a, <3>1
  <2>7. CASE Return(j) \/ Fail(j) \/ Crash(j)
    <3>1. /\ \A k \in Jobs : k # j => job'[k] = job[k]
          /\ job'[j].rows = {} /\ job'[j].known = {} /\ log' = log
      BY <1>a, <2>7 DEF Return, Fail, Crash, Leave, IdleJob
    <3> QED  BY <1>c, <3>1
  <2> QED  BY <1>1, <2>1, <2>2, <2>3, <2>4, <2>5, <2>6, <2>7 DEF Work
<1>2. CASE Environment \/ UNCHANGED vars
  BY <1>2 DEF Environment, vars, OnlyFeeds
<1> QED  BY <1>1, <1>2 DEF Next

\* Every variable has the values the code can give it, for any number of jobs
\* in or beside the lane, and without a backfill every price comes from one
\* of the two daily feeds.
THEOREM TypesHold == Spec => []TypeOK
<1>1. Init => OnlyFeeds
  BY DEF Init, OnlyFeeds, IdleJob
<1>2. TypeInv /\ OnlyFeeds /\ [Next]_vars => OnlyFeeds'
  BY FeedsStep
<1>3. TypeInv /\ OnlyFeeds => TypeOK
  BY DEF TypeInv, TypeOK
<1> QED  BY <1>1, <1>2, <1>3, TypeInit, TypeStep, PTL DEF Spec

-----------------------------------------------------------------------------
(* Recorded runs and logged prices.                                        *)

Snapped(run) == \E s \in snapshots : s.run = run

Forecasted(run) == \E i \in DOMAIN forecasts : forecasts[i].run = run

Logged(row) ==
  \E r \in log : r.date = row.date /\ r.price = row.price /\ r.from = row.from

\* What a job has behind it: its snapshot, what it fetched in the log, and in
\* the end its forecast; what it knows of a date is a revision of the log.
Stored(j) ==
  /\ job[j].pc \in {"snapshot", "priced", "forecast", "done"} =>
       Snapped(job[j].run) /\ \A row \in job[j].rows : Logged(row)
  /\ job[j].known \subseteq log

HasForecast(j) == job[j].pc \in {"forecast", "done"} => Forecasted(job[j].run)

BehindInv == SucceededHasForecast /\ \A j \in Jobs : Stored(j) /\ HasForecast(j)

\* No step loses a snapshot, a forecast or a revision.
LEMMA NothingLost ==
  ASSUME TypeInv, [Next]_vars
  PROVE  /\ snapshots \subseteq snapshots' /\ log \subseteq log'
         /\ \A run : Forecasted(run) => Forecasted(run)'
         /\ \A j \in Jobs : Snapped(job[j].run) => \E s \in snapshots' : s.run = job[j].run
<1>1. snapshots \subseteq snapshots' /\ log \subseteq log'
  BY DEF Next, Work, Enqueue, Start, FetchAverage, FetchRecent, ReadCurrent, WriteRevisions,
     CommitSnapshot, ReadPrices, CommitForecast, Succeed, Return, Fail, Crash, LaneExpire,
     PublishAverage, PublishRecent, Correct, Environment, vars
<1>2. ASSUME NEW run, Forecasted(run)  PROVE Forecasted(run)'
  <2>1. CASE forecasts' = forecasts
    BY <1>2, <2>1 DEF Forecasted
  <2>2. ASSUME NEW j \in Jobs, CommitForecast(j)  PROVE Forecasted(run)'
    <3> DEFINE new == [run |-> job[j].run, rows |-> job[j].prices, upto |-> job[j].upto]
    <3>1. forecasts' = Append(forecasts, new) /\ forecasts \in Seq(ForecastType)
      BY <2>2 DEF CommitForecast, TypeInv, Typed
    <3> HIDE DEF new
    <3>2. \A i \in DOMAIN forecasts : i \in DOMAIN forecasts' /\ forecasts'[i] = forecasts[i]
      BY <3>1
    <3> QED  BY <1>2, <3>2 DEF Forecasted
  <2> QED
    BY <2>1, <2>2 DEF Next, Work, Enqueue, Start, FetchAverage, FetchRecent, ReadCurrent,
       WriteRevisions, CommitSnapshot, ReadPrices, Succeed, Return, Fail, Crash, LaneExpire,
       PublishAverage, PublishRecent, Correct, Environment, vars
<1> QED  BY <1>1, <1>2 DEF Snapped

\* Only Succeed records a success.
LEMMA SuccessRecorded ==
  ASSUME TypeInv, [Next]_vars, NEW r \in DOMAIN status', status'[r] = "succeeded"
  PROVE  \/ r \in DOMAIN status /\ status[r] = "succeeded"
         \/ \E j \in Jobs : Succeed(j) /\ r = job[j].run
<1>1. status \in Seq(Statuses)
  BY DEF TypeInv, Typed
<1>2. ASSUME NEW j \in Jobs, Enqueue(j)  PROVE r \in DOMAIN status /\ status[r] = "succeeded"
  <2>1. status' = Append(status, "queued")
    BY <1>2 DEF Enqueue
  <2> QED  BY <1>1, <2>1
<1>3. ASSUME NEW run, NEW x \in {"running", "failed"}, status' = [status EXCEPT ![run] = x]
      PROVE  r \in DOMAIN status /\ status[r] = "succeeded"
  BY <1>1, <1>3
<1>4. ASSUME NEW j \in Jobs, Succeed(j)
      PROVE  \/ r \in DOMAIN status /\ status[r] = "succeeded"
             \/ r = job[j].run
  <2>1. status' = [status EXCEPT ![job[j].run] = "succeeded"]
    BY <1>4 DEF Succeed
  <2> QED  BY <1>1, <2>1
<1>5. ASSUME NEW j \in Jobs, Start(j) \/ Fail(j)
      PROVE  r \in DOMAIN status /\ status[r] = "succeeded"
  BY <1>3, <1>5 DEF Start, Fail
<1> QED
  BY <1>2, <1>4, <1>5 DEF Next, Work, FetchAverage, FetchRecent, ReadCurrent,
     WriteRevisions, CommitSnapshot, ReadPrices, CommitForecast, Return, Crash, LaneExpire,
     PublishAverage, PublishRecent, Correct, Environment, vars

\* A step that loses nothing and leaves a job alone keeps what the job has
\* behind it.
LEMMA StoredKept ==
  ASSUME snapshots \subseteq snapshots', log \subseteq log',
         NEW k \in Jobs, Stored(k), job'[k] = job[k]
  PROVE  Stored(k)'
<1>1. \A row : Logged(row) => \E r \in log' :
        r.date = row.date /\ r.price = row.price /\ r.from = row.from
  BY DEF Logged
<1> QED  BY <1>1 DEF Stored, Snapped, Logged

\* A step that loses no forecast and leaves a job alone keeps its forecast.
LEMMA ForecastKept ==
  ASSUME \A run : Forecasted(run) => Forecasted(run)',
         NEW k \in Jobs, HasForecast(k), job'[k] = job[k]
  PROVE  HasForecast(k)'
<1>1. Forecasted(job[k].run) => \E i \in DOMAIN forecasts' : forecasts'[i].run = job[k].run
  BY DEF Forecasted
<1> QED  BY <1>1 DEF HasForecast, Forecasted

\* The job that takes a step has stored what its new step needs.
LEMMA StoredWork ==
  ASSUME TypeInv, NEW j \in Jobs, Stored(j), Work(j)
  PROVE  Stored(j)'
<1>a. [Next]_vars
  BY DEF Next
<1>b. /\ Typed /\ CurrentLogged
      /\ job \in [Jobs -> JobType] /\ job[j] \in JobType
  BY DEF TypeInv, Typed
<1>c. log \subseteq log' /\ snapshots \subseteq snapshots'
  BY <1>a, NothingLost
<1>d. \A row : Logged(row) => \E r \in log' :
        r.date = row.date /\ r.price = row.price /\ r.from = row.from
  BY <1>c DEF Logged
\* A step that comes before the snapshot, or leaves the job.
<1>e. ASSUME job'[j].pc \notin {"snapshot", "priced", "forecast", "done"},
             job'[j].known \subseteq log'
      PROVE  Stored(j)'
  BY <1>e DEF Stored
\* A step behind the snapshot.
<1>f. ASSUME job[j].pc \in {"snapshot", "priced", "forecast", "done"},
             job'[j].run = job[j].run, job'[j].rows = job[j].rows,
             job'[j].known = job[j].known
      PROVE  Stored(j)'
  BY <1>b, <1>c, <1>d, <1>f DEF Stored, Snapped, Logged
<1>1. CASE Enqueue(j) \/ Start(j) \/ FetchAverage(j) \/ FetchRecent(j) \/ WriteRevisions(j)
  <2>1. /\ job'[j].pc \in {"queued", "started", "average", "fetched", "written"}
        /\ job'[j].known = job[j].known
    <3>1. CASE Enqueue(j)
      BY <1>b, <3>1 DEF Enqueue, JobType
    <3>2. CASE Start(j)
      BY <1>b, <3>2 DEF Start, JobType
    <3>3. CASE FetchAverage(j)
      BY <1>b, <3>3 DEF FetchAverage, JobType
    <3>4. CASE FetchRecent(j)
      BY <1>b, <3>4 DEF FetchRecent, JobType
    <3>5. CASE WriteRevisions(j)
      BY <1>b, <3>5 DEF WriteRevisions, JobType
    <3> QED  BY <1>1, <3>1, <3>2, <3>3, <3>4, <3>5
  <2>2. job'[j].known \subseteq log'
    BY <1>b, <1>c, <2>1 DEF Stored
  <2> QED  BY <1>e, <2>1, <2>2
<1>2. CASE ReadCurrent(j)
  <2> DEFINE known == {RevisionOf(current[d].run, d) :
                         d \in {x \in DatesOf(job[j].rows) : current[x].run # 0}}
  <2>1. known \subseteq log
    <3> SUFFICES ASSUME NEW d \in DatesOf(job[j].rows), current[d].run # 0
                 PROVE  RevisionOf(current[d].run, d) \in log
      OBVIOUS
    <3>1. d \in Dates
      BY <1>b DEF JobType, FetchedType, DatesOf
    <3> QED  BY <1>b, <3>1 DEF CurrentLogged, RevisionOf
  <2>2. job' = [job EXCEPT ![j].pc = "read", ![j].known = known]
    BY <1>2 DEF ReadCurrent
  <2> HIDE DEF known
  <2>3. job'[j].pc = "read" /\ job'[j].known = known
    BY <1>b, <2>2 DEF JobType
  <2> QED  BY <1>c, <1>e, <2>1, <2>3
<1>3. CASE CommitSnapshot(j)
  <2>1. /\ job' = [job EXCEPT ![j].pc = "snapshot"]
        /\ log' = log \union Revisions(j)
        /\ snapshots' = snapshots \union {[run |-> job[j].run, rows |-> job[j].tags]}
    BY <1>3 DEF CommitSnapshot
  <2>2. /\ job'[j].pc = "snapshot" /\ job'[j].run = job[j].run
        /\ job'[j].rows = job[j].rows /\ job'[j].known = job[j].known
    BY <1>b, <2>1 DEF JobType
  <2>3. Snapped(job[j].run)'
    <3> DEFINE new == [run |-> job[j].run, rows |-> job[j].tags]
    <3>1. new \in snapshots' /\ new.run = job'[j].run
      BY <2>1, <2>2
    <3> QED  BY <3>1 DEF Snapped
  <2>4. ASSUME NEW row \in job[j].rows  PROVE Logged(row)'
    <3>1. CASE row \in Changed(j)
      <4> DEFINE new == [run |-> job[j].run, date |-> row.date, price |-> row.price,
                         from |-> row.from, replaces |-> Replaces(j, row.date)]
      <4>1. new \in log'
        BY <2>1, <3>1 DEF Revisions
      <4> QED  BY <4>1 DEF Logged
    <3>2. CASE row \notin Changed(j)
      <4>1. PICK k \in job[j].known :
               k.date = row.date /\ k.price = row.price /\ k.from = row.from
        BY <3>2 DEF Changed
      <4>2. k \in log'
        BY <1>b, <1>c DEF Stored
      <4> QED  BY <4>1, <4>2 DEF Logged
    <3> QED  BY <3>1, <3>2
  <2>5. job'[j].known \subseteq log'
    BY <1>b, <1>c, <2>2 DEF Stored
  <2> QED  BY <2>2, <2>3, <2>4, <2>5 DEF Stored, Snapped, Logged
<1>4. CASE ReadPrices(j)
  <2>1. /\ job[j].pc = "snapshot" /\ job'[j].run = job[j].run
        /\ job'[j].rows = job[j].rows /\ job'[j].known = job[j].known
    BY <1>4, <1>b DEF ReadPrices, JobType
  <2> QED  BY <1>f, <2>1
<1>5. CASE CommitForecast(j)
  <2>1. /\ job[j].pc = "priced" /\ job'[j].run = job[j].run
        /\ job'[j].rows = job[j].rows /\ job'[j].known = job[j].known
    BY <1>5, <1>b DEF CommitForecast, JobType
  <2> QED  BY <1>f, <2>1
<1>6. CASE Succeed(j)
  <2>1. /\ job[j].pc = "forecast" /\ job'[j].run = job[j].run
        /\ job'[j].rows = job[j].rows /\ job'[j].known = job[j].known
    BY <1>6, <1>b DEF Succeed, JobType
  <2> QED  BY <1>f, <2>1
<1>7. CASE Return(j) \/ Fail(j) \/ Crash(j)
  <2>1. job'[j] = IdleJob
    BY <1>7, <1>b DEF Return, Fail, Crash, Leave
  <2> QED  BY <1>e, <2>1 DEF IdleJob
<1> QED  BY <1>1, <1>2, <1>3, <1>4, <1>5, <1>6, <1>7 DEF Work

\* A job has its forecast once it is past the commit of it.
LEMMA ForecastWork ==
  ASSUME TypeInv, NEW j \in Jobs, HasForecast(j), Work(j)
  PROVE  HasForecast(j)'
<1>b. job \in [Jobs -> JobType] /\ job[j] \in JobType /\ forecasts \in Seq(ForecastType)
  BY DEF TypeInv, Typed
<1>1. CASE CommitForecast(j)
  <2>1. job'[j].run = job[j].run
    BY <1>1, <1>b DEF CommitForecast, JobType
  <2> DEFINE new == [run |-> job[j].run, rows |-> job[j].prices, upto |-> job[j].upto]
  <2>2. forecasts' = Append(forecasts, new)
    BY <1>1 DEF CommitForecast
  <2>3. new.run = job[j].run
    OBVIOUS
  <2> HIDE DEF new
  <2>4. \E i \in DOMAIN forecasts' : forecasts'[i] = new
    <3>1. Len(forecasts) + 1 \in DOMAIN forecasts' /\ forecasts'[Len(forecasts) + 1] = new
      BY <1>b, <2>2
    <3> QED  BY <3>1
  <2> QED  BY <2>1, <2>3, <2>4 DEF HasForecast, Forecasted
<1>2. CASE Succeed(j)
  <2>1. job[j].pc = "forecast" /\ job'[j].run = job[j].run /\ forecasts' = forecasts
    BY <1>2, <1>b DEF Succeed, JobType
  <2> QED  BY <2>1 DEF HasForecast, Forecasted
<1>3. CASE Return(j) \/ Fail(j) \/ Crash(j)
  <2>1. job'[j].pc = "idle"
    BY <1>3, <1>b DEF Return, Fail, Crash, Leave, IdleJob
  <2> QED  BY <2>1 DEF HasForecast
<1>4. CASE \/ Enqueue(j) \/ Start(j) \/ FetchAverage(j) \/ FetchRecent(j) \/ ReadCurrent(j)
           \/ WriteRevisions(j) \/ CommitSnapshot(j) \/ ReadPrices(j)
  <2>1. job'[j].pc \notin {"forecast", "done"}
    <3>1. CASE Enqueue(j) \/ Start(j) \/ FetchAverage(j) \/ FetchRecent(j)
      BY <1>b, <3>1 DEF Enqueue, Start, FetchAverage, FetchRecent, JobType
    <3>2. CASE ReadCurrent(j)
      BY <1>b, <3>2 DEF ReadCurrent, JobType
    <3>3. CASE WriteRevisions(j)
      BY <1>b, <3>3 DEF WriteRevisions, JobType
    <3>4. CASE CommitSnapshot(j)
      BY <1>b, <3>4 DEF CommitSnapshot, JobType
    <3>5. CASE ReadPrices(j)
      BY <1>b, <3>5 DEF ReadPrices, JobType
    <3> QED  BY <1>4, <3>1, <3>2, <3>3, <3>4, <3>5
  <2> QED  BY <2>1 DEF HasForecast
<1> QED  BY <1>1, <1>2, <1>3, <1>4 DEF Work

\* A job changes its own record only.
LEMMA WorkIsOwn ==
  ASSUME TypeInv, NEW j \in Jobs, Work(j), NEW k \in Jobs, k # j
  PROVE  job'[k] = job[k]
<1>1. job \in [Jobs -> JobType]
  BY DEF TypeInv, Typed
<1>2. \E J : job' = [job EXCEPT ![j] = J]
  BY <1>1 DEF Work, Enqueue, Start, FetchAverage, FetchRecent, ReadCurrent,
     WriteRevisions, CommitSnapshot, ReadPrices, CommitForecast, Succeed, Return, Fail,
     Crash, Leave
<1> QED  BY <1>1, <1>2

\* Every step keeps what the jobs and the recorded runs have behind them.
LEMMA BehindStep ==
  ASSUME TypeInv, BehindInv, [Next]_vars
  PROVE  BehindInv'
<1>1. ASSUME NEW r \in DOMAIN status', status'[r] = "succeeded"
      PROVE  Snapped(r)' /\ Forecasted(r)'
  <2>1. CASE r \in DOMAIN status /\ status[r] = "succeeded"
    <3>1. Snapped(r) /\ Forecasted(r)
      BY <2>1 DEF BehindInv, SucceededHasForecast, Snapped, Forecasted
    <3> QED  BY <3>1, NothingLost DEF Snapped
  <2>2. ASSUME NEW j \in Jobs, Succeed(j), r = job[j].run
        PROVE  Snapped(r)' /\ Forecasted(r)'
    <3>1. Snapped(r) /\ Forecasted(r)
      BY <2>2 DEF BehindInv, Stored, HasForecast, Succeed
    <3> QED  BY <3>1, NothingLost DEF Snapped
  <2> QED  BY <1>1, <2>1, <2>2, SuccessRecorded
<1>2. SucceededHasForecast'
  BY <1>1 DEF SucceededHasForecast, Snapped, Forecasted
<1>3. ASSUME NEW k \in Jobs  PROVE Stored(k)' /\ HasForecast(k)'
  <2>1. Stored(k) /\ HasForecast(k)
    BY DEF BehindInv
  <2>2. CASE job'[k] = job[k]
    BY <2>1, <2>2, NothingLost, StoredKept, ForecastKept
  <2>3. CASE Work(k)
    BY <2>1, <2>3, StoredWork, ForecastWork
  <2>4. ASSUME NEW j \in Jobs \ {k}, Work(j)  PROVE job'[k] = job[k]
    BY <2>4, WorkIsOwn
  <2>5. ASSUME Environment \/ UNCHANGED vars  PROVE job'[k] = job[k]
    BY <2>5 DEF Environment, vars
  <2> QED  BY <2>2, <2>3, <2>4, <2>5 DEF Next
<1> QED  BY <1>2, <1>3 DEF BehindInv

\* At first nothing is recorded and no job has started.
LEMMA BehindInit == Init => BehindInv
<1> SUFFICES ASSUME Init  PROVE BehindInv
  OBVIOUS
<1>1. SucceededHasForecast
  BY DEF Init, SucceededHasForecast
<1>2. \A j \in Jobs : Stored(j) /\ HasForecast(j)
  BY DEF Init, IdleJob, Stored, HasForecast
<1> QED  BY <1>1, <1>2 DEF BehindInv

\* A run that is recorded as succeeded has its snapshot and its forecast, for
\* any number of jobs in or beside the lane, crashes and failures included.
THEOREM SucceededRunsHaveForecasts == Spec => []SucceededHasForecast
<1>1. BehindInv => SucceededHasForecast
  BY DEF BehindInv
<1> QED  BY <1>1, TypeInit, TypeStep, BehindInit, BehindStep, PTL DEF Spec

\* The prices a job has fetched are in the log once it has its snapshot, for
\* any number of jobs in or beside the lane.
THEOREM FetchedStaysLogged == Spec => []FetchedIsLogged
<1>1. BehindInv => FetchedIsLogged
  BY DEF BehindInv, Stored, Logged, FetchedIsLogged
<1> QED  BY <1>1, TypeInit, TypeStep, BehindInit, BehindStep, PTL DEF Spec

-----------------------------------------------------------------------------
(* The backfill beside the ingests.                                        *)

\* What a run recorded as succeeded has, a backfill not having a forecast.
RunsComplete ==
  \A r \in DOMAIN status : status[r] = "succeeded" =>
    Snapped(r) /\ (r \notin historical => Forecasted(r))

\* A backfill works for a run requested by the script, and what it holds
\* comes from the statistics.
BackfillsAreHistory ==
  \A j \in BackfillJobs :
    /\ job[j].pc # "idle" => job[j].run \in historical
    /\ \A row \in job[j].rows : row.from = "history"

\* A date that has a revision has a current one.
LoggedIsCurrent == \A r \in log : current[r.date].run # 0

BackfillInv ==
  /\ TypeInv
  /\ \A j \in Jobs : Stored(j)
  /\ \A j \in Jobs \ BackfillJobs : HasForecast(j)
  /\ RunsComplete /\ BackfillsAreHistory /\ LoggedIsCurrent

\* The two steps of a backfill that are no steps of an ingest.
OwnStep(j) == FetchRange(j) \/ SucceedBackfill(j)

\* A step of the system with backfills is a step of an ingest, a step of a
\* backfill that it shares with an ingest, one of its own, or a stutter.
LEMMA BackfillSteps ==
  ASSUME [BackfillNext]_backfillVars
  PROVE  \/ (\E j \in Jobs \ BackfillJobs : Work(j)) /\ historical' = historical
         \/ (Environment \/ UNCHANGED vars) /\ historical' = historical
         \/ \E j \in BackfillJobs : Enqueue(j) /\ historical' = historical \union {job'[j].run}
         \/ \E j \in BackfillJobs : Reconcile(j)
         \/ \E j \in BackfillJobs : OwnStep(j)
BY DEF BackfillNext, IngestStep, EnqueueBackfill, OwnStep, backfillVars, vars

\* So apart from the backfill's own steps it is a step of the ingest.
LEMMA BackfillIsIngest ==
  ASSUME [BackfillNext]_backfillVars
  PROVE  [Next]_vars \/ \E j \in BackfillJobs : OwnStep(j)
<1>1. BackfillJobs \subseteq Jobs
  BY BackfillAssumption DEF Jobs
<1> QED  BY <1>1, BackfillSteps DEF Next, Work, Reconcile

\* What a backfill's own step leaves alone, and what it does to its job.
LEMMA OwnStepDoes ==
  ASSUME TypeInv, NEW j \in BackfillJobs, OwnStep(j)
  PROVE  /\ UNCHANGED <<source, log, current, snapshots, forecasts, lane, historical>>
         /\ \A k \in Jobs \ {j} : job'[k] = job[k]
         /\ job[j].pc # "idle" /\ job'[j].pc \in {"fetched", "done"}
         /\ job'[j].run = job[j].run /\ job'[j].known = job[j].known
         /\ job'[j].pc = "done" => job[j].pc = "snapshot" /\ job'[j].rows = job[j].rows
         /\ \A row \in job'[j].rows \ job[j].rows : row.from = "history"
         /\ \/ status' = status
            \/ status' = [status EXCEPT ![job[j].run] = "succeeded"] /\ job[j].pc = "snapshot"
<1>1. job \in [Jobs -> JobType] /\ j \in Jobs
  BY BackfillAssumption DEF TypeInv, Typed, Jobs
<1>2. CASE FetchRange(j)
  <2>1. PICK range \in Ranges :
           job' = [job EXCEPT ![j].pc = "fetched", ![j].rows = HistoryRows(range)]
    BY <1>2 DEF FetchRange
  <2> DEFINE rows == HistoryRows(range)
  <2>2. \A row \in rows : row.from = "history"
    BY DEF HistoryRows, Row
  <2>3. job' = [job EXCEPT ![j].pc = "fetched", ![j].rows = rows]
    BY <2>1
  <2> HIDE DEF rows
  <2>4. /\ \A k \in Jobs \ {j} : job'[k] = job[k]
        /\ job'[j].pc = "fetched" /\ job'[j].rows = rows
        /\ job'[j].run = job[j].run /\ job'[j].known = job[j].known
    BY <1>1, <2>3 DEF JobType
  <2> QED  BY <1>2, <2>2, <2>4 DEF FetchRange
<1>3. CASE SucceedBackfill(j)
  <2>1. job' = [job EXCEPT ![j].pc = "done"]
    BY <1>3 DEF SucceedBackfill
  <2>2. /\ \A k \in Jobs \ {j} : job'[k] = job[k]
        /\ job'[j].pc = "done" /\ job'[j].rows = job[j].rows
        /\ job'[j].run = job[j].run /\ job'[j].known = job[j].known
    BY <1>1, <2>1 DEF JobType
  <2> QED  BY <1>3, <2>2 DEF SucceedBackfill
<1> QED  BY <1>2, <1>3 DEF OwnStep

\* A backfill's own step keeps the types.
LEMMA OwnStepTyped ==
  ASSUME TypeInv, NEW j \in BackfillJobs, OwnStep(j)
  PROVE  TypeInv'
<1>1. /\ Typed /\ PricePublished /\ job \in [Jobs -> JobType]
      /\ j \in Jobs /\ job[j] \in JobType /\ lane \in LaneJobs \union {NoJob}
  BY BackfillAssumption DEF TypeInv, Typed, Jobs
<1>2. CASE FetchRange(j)
  <2>1. PICK range \in Ranges :
           job' = [job EXCEPT ![j].pc = "fetched", ![j].rows = HistoryRows(range)]
    BY <1>2 DEF FetchRange
  <2> DEFINE rows == HistoryRows(range)
             J == [job[j] EXCEPT !.pc = "fetched", !.rows = rows]
  <2>2. rows \subseteq FetchedType
    <3> SUFFICES ASSUME NEW d \in range, d <= source.average
                 PROVE  Row(d, "history") \in FetchedType
      BY DEF HistoryRows
    <3>1. d \in Dates
      <4>1. MaxDate \in Nat
        BY IngestAssumption
      <4>2. PICK first \in Dates, last \in Dates : range = first..last
        BY <2>1 DEF Ranges
      <4> QED  BY <4>1, <4>2 DEF Dates
    <3> QED  BY <1>1, <3>1, RowIsFetched DEF Sources
  <2>3. job' = [job EXCEPT ![j] = J]
    BY <1>1, <2>1
  <2> HIDE DEF rows
  <2>4. J \in JobType /\ J.pc = "fetched" /\ J.run = job[j].run
    BY <1>1, <2>2 DEF JobType, Steps
  <2> HIDE DEF J
  <2>5. /\ job[j].pc = "started"
        /\ UNCHANGED <<source, log, current, status, snapshots, forecasts, lane>>
    BY <1>2 DEF FetchRange
  <2> QED  BY <1>1, <2>3, <2>4, <2>5, JobStepTyped
<1>3. CASE SucceedBackfill(j)
  <2> DEFINE J == [job[j] EXCEPT !.pc = "done"]
  <2>1. job' = [job EXCEPT ![j] = J]
    BY <1>1, <1>3 DEF SucceedBackfill
  <2>2. J \in JobType /\ J.pc = "done" /\ J.run = job[j].run
    BY <1>1 DEF JobType, Steps
  <2> HIDE DEF J
  <2>3. /\ job[j].pc = "snapshot" /\ "succeeded" \in Statuses
        /\ status' = [status EXCEPT ![job[j].run] = "succeeded"]
        /\ UNCHANGED <<source, log, current, snapshots, forecasts, lane>>
    BY <1>3 DEF SucceedBackfill, Statuses
  <2> QED  BY <1>1, <2>1, <2>2, <2>3, JobStepTyped
<1> QED  BY <1>2, <1>3 DEF OwnStep

\* A backfill is recorded as succeeded over its snapshot, without a forecast,
\* and every other run with both.
LEMMA RunsCompleteStep ==
  ASSUME BackfillInv, [BackfillNext]_backfillVars
  PROVE  RunsComplete'
<1>a. TypeInv /\ RunsComplete /\ status \in Seq(Statuses) /\ BackfillJobs \subseteq Jobs
  BY BackfillAssumption DEF BackfillInv, TypeInv, Typed, Jobs
<1>b. historical \subseteq historical'
  BY BackfillSteps DEF Reconcile, OwnStep, FetchRange, SucceedBackfill
<1> SUFFICES ASSUME NEW r \in DOMAIN status', status'[r] = "succeeded"
             PROVE  Snapped(r)' /\ (r \notin historical' => Forecasted(r)')
  BY DEF RunsComplete, Snapped, Forecasted
<1>1. CASE [Next]_vars
  <2>1. Snapped(r) => Snapped(r)'
    BY <1>1, <1>a, NothingLost DEF Snapped
  <2>2. Forecasted(r) => Forecasted(r)'
    BY <1>1, <1>a, NothingLost
  <2>3. CASE r \in DOMAIN status /\ status[r] = "succeeded"
    BY <1>a, <1>b, <2>1, <2>2, <2>3 DEF RunsComplete
  <2>4. ASSUME NEW j \in Jobs, Succeed(j), r = job[j].run
        PROVE  Snapped(r)' /\ (r \notin historical' => Forecasted(r)')
    <3>1. job[j].pc = "forecast"
      BY <2>4 DEF Succeed
    <3>2. Snapped(r)
      BY <2>4, <3>1 DEF BackfillInv, Stored
    <3>3. CASE j \notin BackfillJobs
      <4>1. Forecasted(r)
        BY <2>4, <3>1, <3>3 DEF BackfillInv, HasForecast
      <4> QED  BY <2>1, <2>2, <3>2, <4>1
    <3>4. CASE j \in BackfillJobs
      <4>1. r \in historical
        BY <2>4, <3>1, <3>4 DEF BackfillInv, BackfillsAreHistory
      <4> QED  BY <1>b, <2>1, <3>2, <4>1
    <3> QED  BY <3>3, <3>4
  <2> QED  BY <1>1, <1>a, <2>3, <2>4, SuccessRecorded
<1>2. ASSUME NEW j \in BackfillJobs, OwnStep(j)
      PROVE  Snapped(r)' /\ (r \notin historical' => Forecasted(r)')
  <2>1. snapshots' = snapshots /\ forecasts' = forecasts
    BY <1>2, <1>a, OwnStepDoes
  <2>2. CASE r \in DOMAIN status /\ status[r] = "succeeded"
    BY <1>a, <1>b, <2>1, <2>2 DEF RunsComplete, Snapped, Forecasted
  <2>3. CASE ~ (r \in DOMAIN status /\ status[r] = "succeeded")
    <3>1. /\ status' = [status EXCEPT ![job[j].run] = "succeeded"]
          /\ job[j].pc = "snapshot"
      BY <1>2, <1>a, <2>3, OwnStepDoes
    <3>2. r = job[j].run
      BY <1>a, <2>3, <3>1
    <3>3. Snapped(r) /\ r \in historical
      BY <1>a, <3>1, <3>2 DEF BackfillInv, Stored, BackfillsAreHistory
    <3> QED  BY <1>b, <2>1, <3>3 DEF Snapped
  <2> QED  BY <2>2, <2>3
<1> QED  BY <1>1, <1>2, BackfillIsIngest

\* Every job keeps what it has stored, and an ingest its forecast.
LEMMA BackfillStored ==
  ASSUME BackfillInv, [BackfillNext]_backfillVars, NEW k \in Jobs
  PROVE  Stored(k)' /\ (k \notin BackfillJobs => HasForecast(k)')
<1>a. /\ TypeInv /\ Stored(k) /\ (k \notin BackfillJobs => HasForecast(k))
      /\ BackfillJobs \subseteq Jobs
  BY BackfillAssumption DEF BackfillInv, Jobs
<1>1. CASE [Next]_vars
  <2>1. CASE job'[k] = job[k]
    BY <1>1, <1>a, <2>1, NothingLost, StoredKept, ForecastKept
  <2>2. CASE Work(k)
    BY <1>a, <2>2, StoredWork, ForecastWork
  <2>3. ASSUME NEW j \in Jobs \ {k}, Work(j)  PROVE job'[k] = job[k]
    BY <1>a, <2>3, WorkIsOwn
  <2>4. ASSUME Environment \/ UNCHANGED vars  PROVE job'[k] = job[k]
    BY <2>4 DEF Environment, vars
  <2> QED  BY <1>1, <2>1, <2>2, <2>3, <2>4 DEF Next
<1>2. ASSUME NEW j \in BackfillJobs, OwnStep(j)
      PROVE  Stored(k)' /\ (k \notin BackfillJobs => HasForecast(k)')
  <2>1. UNCHANGED <<log, snapshots, forecasts>>
    BY <1>2, <1>a, OwnStepDoes
  <2>2. CASE k # j
    <3>1. job'[k] = job[k]
      BY <1>2, <1>a, <2>2, OwnStepDoes
    <3> QED  BY <1>a, <2>1, <3>1 DEF Stored, HasForecast, Snapped, Forecasted, Logged
  <2>3. CASE k = j
    <3>1. /\ job'[k].pc \in {"fetched", "done"} /\ job'[k].known = job[k].known
          /\ job'[k].run = job[k].run
          /\ job'[k].pc = "done" => job[k].pc = "snapshot" /\ job'[k].rows = job[k].rows
      BY <1>2, <1>a, <2>3, OwnStepDoes
    <3>2. Stored(k)'
      BY <1>a, <2>1, <3>1 DEF Stored, Snapped, Logged
    <3> QED  BY <2>3, <3>2
  <2> QED  BY <2>2, <2>3
<1> QED  BY <1>1, <1>2, BackfillIsIngest

\* A step of an ingest and a step of the environment leave the backfills alone.
LEMMA BackfillsLeftAlone ==
  ASSUME TypeInv, NEW k \in BackfillJobs, k \in Jobs,
         (\E j \in Jobs \ BackfillJobs : Work(j)) \/ Environment \/ UNCHANGED vars
  PROVE  job'[k] = job[k]
<1>1. ASSUME NEW j \in Jobs \ BackfillJobs, Work(j)  PROVE job'[k] = job[k]
  BY <1>1, WorkIsOwn
<1>2. ASSUME Environment \/ UNCHANGED vars  PROVE job'[k] = job[k]
  BY <1>2 DEF Environment, vars
<1> QED  BY <1>1, <1>2

\* What a backfill holds goes on coming from the statistics.
LEMMA HistoryStep ==
  ASSUME BackfillInv, [BackfillNext]_backfillVars
  PROVE  BackfillsAreHistory'
<1>a. /\ TypeInv /\ BackfillsAreHistory /\ BackfillJobs \subseteq Jobs
      /\ job \in [Jobs -> JobType]
  BY BackfillAssumption DEF BackfillInv, TypeInv, Typed, Jobs
<1>b. historical \subseteq historical'
  BY BackfillSteps DEF Reconcile, OwnStep, FetchRange, SucceedBackfill
<1> SUFFICES ASSUME NEW k \in BackfillJobs
             PROVE  /\ job'[k].pc # "idle" => job'[k].run \in historical'
                    /\ \A row \in job'[k].rows : row.from = "history"
  BY DEF BackfillsAreHistory
<1>c. /\ k \in Jobs
      /\ job[k].pc # "idle" => job[k].run \in historical
      /\ \A row \in job[k].rows : row.from = "history"
  BY <1>a DEF BackfillsAreHistory
<1>d. ASSUME job'[k] = job[k]
      PROVE  /\ job'[k].pc # "idle" => job'[k].run \in historical'
             /\ \A row \in job'[k].rows : row.from = "history"
  BY <1>b, <1>c, <1>d
<1>1. CASE (\E j \in Jobs \ BackfillJobs : Work(j)) \/ Environment \/ UNCHANGED vars
  BY <1>1, <1>a, <1>c, <1>d, BackfillsLeftAlone
<1>2. ASSUME NEW j \in BackfillJobs, Enqueue(j), historical' = historical \union {job'[j].run}
      PROVE  /\ job'[k].pc # "idle" => job'[k].run \in historical'
             /\ \A row \in job'[k].rows : row.from = "history"
  <2>1. CASE j = k
    <3>1. job'[k].rows = job[k].rows
      BY <1>2, <1>a, <1>c, <2>1 DEF Enqueue, JobType
    <3> QED  BY <1>2, <1>c, <2>1, <3>1
  <2>2. CASE j # k
    <3>1. job'[k] = job[k]
      BY <1>2, <1>a, <1>c, <2>2, WorkIsOwn DEF Work
    <3> QED  BY <1>d, <3>1
  <2> QED  BY <2>1, <2>2
<1>3. ASSUME NEW j \in BackfillJobs, Reconcile(j)
      PROVE  /\ job'[k].pc # "idle" => job'[k].run \in historical'
             /\ \A row \in job'[k].rows : row.from = "history"
  <2>1. CASE j = k
    <3>1. CASE Start(k) \/ ReadCurrent(k) \/ WriteRevisions(k) \/ CommitSnapshot(k)
      <4>1. job[k].pc # "idle"
        BY <3>1 DEF Start, ReadCurrent, WriteRevisions, CommitSnapshot
      <4>2. job'[k].run = job[k].run /\ job'[k].rows = job[k].rows
        <5>1. CASE Start(k) \/ CommitSnapshot(k)
          BY <1>a, <1>c, <5>1 DEF Start, CommitSnapshot, JobType
        <5>2. CASE ReadCurrent(k)
          BY <1>a, <1>c, <5>2 DEF ReadCurrent, JobType
        <5>3. CASE WriteRevisions(k)
          BY <1>a, <1>c, <5>3 DEF WriteRevisions, JobType
        <5> QED  BY <3>1, <5>1, <5>2, <5>3
      <4> QED  BY <1>b, <1>c, <4>1, <4>2
    <3>2. CASE Return(k) \/ Fail(k) \/ Crash(k)
      <4>1. job'[k] = IdleJob
        BY <1>a, <1>c, <3>2 DEF Return, Fail, Crash, Leave
      <4> QED  BY <4>1 DEF IdleJob
    <3> QED  BY <1>3, <2>1, <3>1, <3>2 DEF Reconcile
  <2>2. CASE j # k
    <3>1. Work(j) /\ j \in Jobs
      BY <1>3, <1>a DEF Reconcile, Work
    <3>2. job'[k] = job[k]
      BY <1>a, <1>c, <2>2, <3>1, WorkIsOwn
    <3> QED  BY <1>d, <3>2
  <2> QED  BY <2>1, <2>2
<1>4. ASSUME NEW j \in BackfillJobs, OwnStep(j)
      PROVE  /\ job'[k].pc # "idle" => job'[k].run \in historical'
             /\ \A row \in job'[k].rows : row.from = "history"
  <2>1. CASE j = k
    <3>1. /\ job[k].pc # "idle" /\ job'[k].run = job[k].run
          /\ \A row \in job'[k].rows \ job[k].rows : row.from = "history"
      BY <1>4, <1>a, <2>1, OwnStepDoes
    <3> QED  BY <1>b, <1>c, <3>1
  <2>2. CASE j # k
    <3>1. job'[k] = job[k]
      BY <1>4, <1>a, <1>c, <2>2, OwnStepDoes
    <3> QED  BY <1>d, <3>1
  <2> QED  BY <2>1, <2>2
<1> QED  BY <1>1, <1>2, <1>3, <1>4, BackfillSteps

\* A date that has a revision keeps a current one.
LEMMA LoggedIsCurrentStep ==
  ASSUME TypeInv, LoggedIsCurrent, [Next]_vars
  PROVE  LoggedIsCurrent'
<1>1. ASSUME NEW j \in Jobs, CommitSnapshot(j)  PROVE LoggedIsCurrent'
  <2>1. /\ job[j].run # 0 /\ current \in [Dates -> [run : 0..MaxRuns, tag : 0..MaxRuns]]
        /\ Typed /\ job[j].run \in Runs /\ log \subseteq RevisionType
    <3>1. job[j].run \in 1..Len(status) /\ Len(status) \in Nat /\ Len(status) <= MaxRuns
      BY <1>1 DEF CommitSnapshot, TypeInv, RunRecorded, Typed
    <3> QED  BY <3>1, IngestAssumption DEF TypeInv, Typed, Runs
  <2> DEFINE changed == DatesOf(Changed(j))
  <2>2. \A d \in Dates : current'[d].run = IF d \in changed THEN job[j].run ELSE current[d].run
    BY <1>1 DEF CommitSnapshot
  <2>3. \A r \in Revisions(j) : r.date \in changed /\ r.date \in Dates
    <3>1. Revisions(j) \subseteq RevisionType
      BY <2>1, RevisionsType
    <3>2. \A r \in Revisions(j) : r.date \in changed
      BY DEF Revisions, DatesOf
    <3> QED  BY <3>1, <3>2 DEF RevisionType
  <2>4. \A r \in log : r.date \in Dates /\ current[r.date].run # 0
    BY <2>1 DEF LoggedIsCurrent, RevisionType
  <2>5. log' = log \union Revisions(j)
    BY <1>1 DEF CommitSnapshot
  <2> HIDE DEF changed
  <2> QED  BY <2>1, <2>2, <2>3, <2>4, <2>5 DEF LoggedIsCurrent
<1>2. CASE UNCHANGED <<log, current>>
  BY <1>2 DEF LoggedIsCurrent
<1> QED
  BY <1>1, <1>2 DEF Next, Work, Enqueue, Start, FetchAverage, FetchRecent, ReadCurrent,
     WriteRevisions, ReadPrices, CommitForecast, Succeed, Return, Fail, Crash, Environment, vars

\* The initial state, and every step, of the system with backfills.
LEMMA BackfillInvInit == BackfillInit => BackfillInv
<1> SUFFICES ASSUME BackfillInit  PROVE BackfillInv
  OBVIOUS
<1>1. BehindInv /\ TypeInv
  BY BehindInit, TypeInit DEF BackfillInit
<1>2. BackfillsAreHistory
  BY BackfillAssumption DEF BackfillInit, Init, IdleJob, BackfillsAreHistory, Jobs
<1>3. RunsComplete /\ LoggedIsCurrent
  BY DEF BackfillInit, Init, RunsComplete, LoggedIsCurrent
<1> QED  BY <1>1, <1>2, <1>3 DEF BackfillInv, BehindInv

LEMMA BackfillInvStep ==
  ASSUME BackfillInv, [BackfillNext]_backfillVars
  PROVE  BackfillInv'
<1>1. TypeInv'
  BY BackfillIsIngest, TypeStep, OwnStepTyped DEF BackfillInv
<1>2. LoggedIsCurrent'
  <2>1. ASSUME NEW j \in BackfillJobs, OwnStep(j)  PROVE LoggedIsCurrent'
    BY <2>1, OwnStepDoes DEF BackfillInv, LoggedIsCurrent
  <2> QED  BY <2>1, BackfillIsIngest, LoggedIsCurrentStep DEF BackfillInv
<1>3. \A k \in Jobs : Stored(k)'
  BY BackfillStored
<1>4. \A k \in Jobs \ BackfillJobs : HasForecast(k)'
  BY BackfillStored
<1> QED  BY <1>1, <1>2, <1>3, <1>4, RunsCompleteStep, HistoryStep DEF BackfillInv

\* A run that is recorded as succeeded has its snapshot and, unless it was a
\* backfill, its forecast, and a backfill that is done misses no date it has
\* fetched: for any number of ingests and backfills beside each other.
THEOREM BackfillsAreComplete == BackfillSpec => []SucceededIsComplete
<1>1. BackfillInv => SucceededIsComplete
  <2> SUFFICES ASSUME BackfillInv  PROVE SucceededIsComplete
    OBVIOUS
  <2>1. ASSUME NEW j \in BackfillJobs, job[j].pc = "done"  PROVE MissingDates(j) = {}
    <3>1. \A row \in job[j].rows : Logged(row)
      BY <2>1, BackfillAssumption DEF BackfillInv, Stored, Jobs
    <3> QED  BY <3>1 DEF BackfillInv, LoggedIsCurrent, Logged, MissingDates, DatesOf
  <2> QED  BY <2>1 DEF SucceededIsComplete, BackfillInv, RunsComplete, Snapped, Forecasted
<1> QED  BY <1>1, BackfillInvInit, BackfillInvStep, PTL DEF BackfillSpec

\* However many prices are filled in, and however far back, no step of a
\* backfill moves the public confirmed date, for any number of ingests beside it.
THEOREM ConfirmedDateIsTheFeeds == BackfillSpec => BackfillKeepsConfirmed
<1>1. ASSUME BackfillInv, [BackfillNext]_backfillVars,
             NEW k \in BackfillJobs, job'[k] # job[k]
      PROVE  ConfirmedDate(log') = ConfirmedDate(log)
  <2>a. TypeInv /\ BackfillsAreHistory /\ BackfillJobs \subseteq Jobs
    BY <1>1, BackfillAssumption DEF BackfillInv, Jobs
  <2>1. \/ log' = log
        \/ \E j \in BackfillJobs : CommitSnapshot(j)
    <3>1. ~ ((\E j \in Jobs \ BackfillJobs : Work(j)) \/ Environment \/ UNCHANGED vars)
      BY <1>1, <2>a, BackfillsLeftAlone
    <3>2. ASSUME NEW j \in BackfillJobs, Enqueue(j) \/ OwnStep(j)  PROVE log' = log
      BY <2>a, <3>2, OwnStepDoes DEF Enqueue
    <3>3. ASSUME NEW j \in BackfillJobs, Reconcile(j)
          PROVE  log' = log \/ CommitSnapshot(j)
      BY <3>3 DEF Reconcile, Start, ReadCurrent, WriteRevisions, Return, Fail, Crash
    <3> QED  BY <1>1, <3>1, <3>2, <3>3, BackfillSteps
  <2>2. ASSUME NEW j \in BackfillJobs, CommitSnapshot(j)
        PROVE  ConfirmedDate(log') = ConfirmedDate(log)
    <3>1. log' = log \union Revisions(j)
      BY <2>2 DEF CommitSnapshot
    <3>2. \A r \in Revisions(j) : r.from = "history"
      BY <2>a DEF Revisions, Changed, BackfillsAreHistory
    <3>3. ASSUME NEW feed \in Feeds  PROVE NewestFrom(log', feed) = NewestFrom(log, feed)
      <4>1. {x \in log' : x.from = feed} = {x \in log : x.from = feed}
        BY <3>1, <3>2 DEF Feeds
      <4> QED  BY <4>1 DEF NewestFrom
    <3> QED  BY <3>3 DEF ConfirmedDate, Feeds
  <2> QED  BY <2>1, <2>2
<1>2. BackfillInv /\ [BackfillNext]_backfillVars =>
        [(\E j \in BackfillJobs : job'[j] # job[j]) =>
           ConfirmedDate(log') = ConfirmedDate(log)]_backfillVars
  BY <1>1
<1> QED
  BY <1>2, BackfillInvInit, BackfillInvStep, PTL DEF BackfillSpec, BackfillKeepsConfirmed

-----------------------------------------------------------------------------
(* When every job takes the lane and keeps it: what the readers of an      *)
(* ingest rely on.                                                         *)

\* Nothing is ingested beside the lane, and the lane does not expire.
LaneOnly == FreeJobs = {} /\ ~LaneExpires

-----------------------------------------------------------------------------
(* The inductive invariant.                                                *)

\* Nothing bears the number of a run.
Unused(run) ==
  /\ \A r \in log : r.run # run
  /\ \A d \in Dates : current[d].run # run /\ current[d].tag # run
  /\ \A s \in snapshots : s.run # run /\ \A x \in s.rows : x.run # run
  /\ \A i \in DOMAIN forecasts : forecasts[i].run # run

\* The numbers of runs to come are unused.
NumbersInUse == \A run \in Nat : run > Len(status) => Unused(run)

\* A revision replaces one of the log, or none.
ReplacesLogged == \A r \in log : r.replaces = 0 \/ \E s \in log : s.run = r.replaces

\* The log is never ahead of its source.
LogPublished == \A r \in log : r.price <= source.price[r.date]

\* The snapshot of a forecast holds prices of both feeds.
BothFeeds(k) ==
  \E s \in snapshots :
    /\ s.run = forecasts[k].run
    /\ \A feed \in Feeds : \E r \in log : r.from = feed /\ [date |-> r.date, run |-> r.run] \in s.rows

\* The forecasts with prices of both feeds go no further than the confirmed date.
ForecastsConfirmed ==
  \A k \in DOMAIN forecasts : BothFeeds(k) => forecasts[k].upto <= ConfirmedDate(log)

DataInv ==
  /\ RevisionsFormChains /\ ReplacesLogged /\ NumbersInUse
  /\ ForecastCoversSnapshot /\ LogPublished /\ ForecastsConfirmed

\* The prices under a run, and the snapshot that has captured them.
Under(run) == {[date |-> d, run |-> current[d].run] : d \in {x \in Dates : current[x].tag = run}}

UnderUpto(run, upto) ==
  {[date |-> d, run |-> current[d].run] : d \in {x \in Dates : current[x].tag = run /\ x <= upto}}

InLane(j) == job[j].pc \notin {"idle", "queued"}

\* A job that has taken the lane has it.
Holds(j) == InLane(j) => lane = j

\* A job that has not committed has left nothing behind, and one that has a
\* snapshot no forecast.
Unspent(j) ==
  /\ job[j].pc \in {"queued", "started", "average", "fetched", "read", "written"} =>
       Unused(job[j].run)
  /\ job[j].pc \in {"snapshot", "priced"} =>
       \A i \in DOMAIN forecasts : forecasts[i].run # job[j].run

\* A job fetches a price per date, and none that is older than the log's.
RowsNew(j) ==
  job[j].pc \in {"average", "fetched", "read", "written"} =>
    /\ \A x, y \in job[j].rows : x.date = y.date => x = y
    /\ \A x \in job[j].rows : x.price <= source.price[x.date]
    /\ \A x \in job[j].rows : \A r \in log : r.date = x.date => r.price <= x.price
    /\ job[j].pc \in {"fetched", "read", "written"} => job[j].rows # {}

\* What a job has read is still so.
KnownCurrent(j) ==
  job[j].pc \in {"read", "written"} =>
    /\ \A k \in job[j].known : k.run = current[k.date].run
    /\ \A d \in DatesOf(job[j].rows) : current[d].run # 0 => \E k \in job[j].known : k.date = d

\* What a job captures are all the prices, its own among them.
CapturesAll(j) ==
  job[j].pc = "written" =>
    /\ job[j].tags =
         {[date |-> d, run |-> IF d \in DatesOf(Changed(j)) THEN job[j].run ELSE current[d].run] :
            d \in {x \in Dates : current[x].run # 0} \union DatesOf(Changed(j))}
    /\ job[j].upto = ConfirmedDate(log \union Revisions(j))

\* The snapshot of a job is what is under it, until its forecast is made.
SnapshotStands(j) ==
  /\ job[j].pc \in {"snapshot", "priced"} =>
       /\ \E s \in snapshots : s.run = job[j].run /\ s.rows = Under(job[j].run)
       /\ job[j].upto = ConfirmedDate(log)
  /\ job[j].pc = "priced" =>
       job[j].prices = UnderUpto(job[j].run, job[j].upto) /\ job[j].prices # {}

JobInv(j) ==
  Holds(j) /\ Unspent(j) /\ RowsNew(j) /\ KnownCurrent(j) /\ CapturesAll(j) /\ SnapshotStands(j)

RunsDiffer ==
  \A j, k \in Jobs : j # k /\ job[j].pc # "idle" /\ job[k].pc # "idle" => job[j].run # job[k].run

LaneInv == DataInv /\ RunsDiffer /\ \A j \in Jobs : JobInv(j)

-----------------------------------------------------------------------------
(* Facts.                                                                  *)

\* What the types say of the parts the steps look at.
LEMMA PartTypes ==
  ASSUME TypeInv, NEW j \in Jobs
  PROVE  /\ log \subseteq RevisionType /\ snapshots \subseteq SnapshotType
         /\ forecasts \in Seq(ForecastType)
         /\ current \in [Dates -> [run : 0..MaxRuns, tag : 0..MaxRuns]]
         /\ source \in [average : 0..MaxDate, recent : 0..MaxDate, price : [Dates -> 0..MaxPrice]]
         /\ status \in Seq(Statuses) /\ Len(status) \in Nat
         /\ job \in [Jobs -> JobType] /\ job[j] \in JobType
         /\ job[j].rows \subseteq FetchedType /\ job[j].known \subseteq RevisionType
         /\ job[j].pc # "idle" => job[j].run \in 1..Len(status)
         /\ MaxDate \in Nat /\ MaxPrice \in Nat /\ MaxRuns \in Nat
BY IngestAssumption DEF TypeInv, Typed, JobType, RunRecorded

\* Only one job is in the lane.
LEMMA OneHolder ==
  ASSUME LaneInv, NEW j \in Jobs, NEW k \in Jobs, InLane(j), InLane(k)
  PROVE  j = k
BY DEF LaneInv, JobInv, Holds

\* What a job writes follows from the job.
LEMMA SameWrites ==
  ASSUME NEW k \in Jobs, job'[k] = job[k]
  PROVE  Changed(k)' = Changed(k) /\ Revisions(k)' = Revisions(k)
<1>1. Changed(k)' = Changed(k)
  BY DEF Changed
<1>2. \A d : Replaces(k, d)' = Replaces(k, d)
  BY DEF Replaces
<1> QED  BY <1>1, <1>2 DEF Revisions

-----------------------------------------------------------------------------
(* Steps that leave the data alone.                                        *)

DataStands ==
  /\ UNCHANGED <<log, current, snapshots, forecasts>>
  /\ Len(status') \in Nat /\ Len(status) <= Len(status')
  /\ \A d \in Dates : source'.price[d] \in Nat /\ source.price[d] <= source'.price[d]

LEMMA UnusedStands ==
  ASSUME UNCHANGED <<log, current, snapshots, forecasts>>, NEW run, Unused(run)
  PROVE  Unused(run)'
BY DEF Unused

LEMMA DataFrame ==
  ASSUME TypeInv, DataInv, DataStands
  PROVE  DataInv'
<1>1. RevisionsFormChains' /\ ReplacesLogged' /\ ForecastCoversSnapshot'
  BY DEF DataInv, DataStands, RevisionsFormChains, ReplacesLogged, ForecastCoversSnapshot
<1>2. NumbersInUse'
  <2> SUFFICES ASSUME NEW run \in Nat, run > Len(status')  PROVE Unused(run)'
    BY DEF NumbersInUse
  <2>1. Len(status) \in Nat
    BY DEF TypeInv, Typed
  <2>2. run > Len(status)
    BY <2>1 DEF DataStands
  <2> QED  BY <2>2, UnusedStands DEF DataInv, NumbersInUse, DataStands
<1>3. LogPublished'
  <2> SUFFICES ASSUME NEW r \in log  PROVE r.price <= source'.price[r.date]
    BY DEF LogPublished, DataStands
  <2>1. r \in RevisionType /\ source.price \in [Dates -> 0..MaxPrice]
    BY DEF TypeInv, Typed
  <2>2. r.price \in Nat /\ r.date \in Dates /\ source.price[r.date] \in Nat
    BY <2>1, IngestAssumption DEF RevisionType
  <2>3. r.price <= source.price[r.date]
    BY DEF DataInv, LogPublished
  <2> QED  BY <2>2, <2>3 DEF DataStands
<1>4. ForecastsConfirmed'
  BY DEF DataInv, DataStands, ForecastsConfirmed, BothFeeds
<1> QED  BY <1>1, <1>2, <1>3, <1>4 DEF DataInv

\* The job, its part in the lane and the data being as they are, it stands.
LEMMA JobFrame ==
  ASSUME TypeInv, NEW k \in Jobs, JobInv(k), DataStands, job'[k] = job[k],
         InLane(k) => lane' = lane
  PROVE  JobInv(k)'
<1>1. Holds(k)'
  BY DEF JobInv, Holds, InLane
<1>2. Unspent(k)'
  BY DEF JobInv, Unspent, DataStands, Unused
<1>3. RowsNew(k)'
  <2>1. ASSUME job[k].pc \in {"average", "fetched", "read", "written"}, NEW x \in job[k].rows
        PROVE  x.price <= source'.price[x.date]
    <3>1. x \in FetchedType /\ source.price \in [Dates -> 0..MaxPrice]
      BY PartTypes
    <3>2. x.price \in Nat /\ x.date \in Dates /\ source.price[x.date] \in Nat
      BY <3>1, IngestAssumption DEF FetchedType
    <3>3. x.price <= source.price[x.date]
      BY <2>1 DEF JobInv, RowsNew
    <3> QED  BY <3>2, <3>3 DEF DataStands
  <2> QED  BY <2>1 DEF JobInv, RowsNew, DataStands
<1>4. KnownCurrent(k)'
  BY DEF JobInv, KnownCurrent, DataStands, DatesOf
<1>5. CapturesAll(k)'
  BY SameWrites DEF JobInv, CapturesAll, DataStands, DatesOf
<1>6. SnapshotStands(k)'
  BY DEF JobInv, SnapshotStands, DataStands, Under, UnderUpto
<1> QED  BY <1>1, <1>2, <1>3, <1>4, <1>5, <1>6 DEF JobInv

\* A step of a job that leaves the data alone: it is enough to look at the job.
LEMMA StepFrame ==
  ASSUME TypeInv, LaneInv, DataStands, NEW j \in Jobs, NEW J, job' = [job EXCEPT ![j] = J],
         lane' = lane \/ lane \in {j, NoJob},
         J.pc # "idle" => \/ J.run = job[j].run /\ job[j].pc # "idle"
                          \/ J.run = Len(status) + 1,
         JobInv(j)'
  PROVE  LaneInv'
<1>1. DataInv'
  BY DataFrame DEF LaneInv
<1>2. job'[j] = J /\ \A k \in Jobs \ {j} : job'[k] = job[k]
  BY PartTypes
<1>3. ASSUME NEW k \in Jobs  PROVE JobInv(k)'
  <2>1. CASE k = j
    BY <2>1
  <2>2. CASE k # j
    <3>1. InLane(k) => lane' = lane
      BY <2>2, IngestAssumption DEF LaneInv, JobInv, Holds
    <3>2. job'[k] = job[k]
      BY <1>2, <2>2
    <3> QED  BY <3>1, <3>2, JobFrame DEF LaneInv
  <2> QED  BY <2>1, <2>2
<1>4. RunsDiffer'
  <2>1. \A k \in Jobs : job[k].pc # "idle" => job[k].run \in 1..Len(status) /\ Len(status) \in Nat
    BY PartTypes
  <2>2. \A k \in Jobs : job[k].pc # "idle" => job[k].run # Len(status) + 1
    BY <2>1
  <2> QED  BY <1>2, <2>2 DEF LaneInv, RunsDiffer
<1> QED  BY <1>1, <1>3, <1>4 DEF LaneInv

-----------------------------------------------------------------------------
(* The steps of a job before it commits.                                   *)

\* A job that has not committed fetches nothing older than the log.
LEMMA FreshRow ==
  ASSUME TypeInv, DataInv, NEW d \in Dates, NEW from
  PROVE  /\ Row(d, from).date = d /\ Row(d, from).price <= source.price[d]
         /\ \A r \in log : r.date = d => r.price <= Row(d, from).price
<1>1. source.price[d] \in Nat
  BY IngestAssumption DEF TypeInv, Typed
<1> QED  BY <1>1 DEF Row, DataInv, LogPublished

LEMMA EnqueueStep ==
  ASSUME TypeInv, LaneInv, NEW j \in Jobs, Enqueue(j)
  PROVE  LaneInv'
<1> DEFINE J == [job[j] EXCEPT !.pc = "queued", !.run = Len(status) + 1]
<1>1. job' = [job EXCEPT ![j] = J] /\ job'[j] = J /\ J.pc = "queued" /\ J.run = Len(status) + 1
  BY PartTypes DEF Enqueue, JobType
<1>2. DataStands
  <2>1. Len(status') = Len(status) + 1 /\ Len(status) \in Nat
    BY PartTypes DEF Enqueue
  <2> QED  BY <2>1, PartTypes DEF Enqueue, DataStands
<1>3. Unused(Len(status) + 1)
  BY PartTypes DEF LaneInv, DataInv, NumbersInUse
<1> HIDE DEF J
<1>4. JobInv(j)'
  BY <1>1, <1>2, <1>3 DEF JobInv, Holds, InLane, Unspent, Unused, RowsNew, KnownCurrent, CapturesAll,
     SnapshotStands, DataStands
<1> QED  BY <1>1, <1>2, <1>4, StepFrame DEF Enqueue

LEMMA StatusLength ==
  ASSUME TypeInv, NEW run, NEW x, status' = [status EXCEPT ![run] = x]
  PROVE  Len(status') = Len(status) /\ Len(status) \in Nat
<1>1. status \in Seq(Statuses)
  BY DEF TypeInv, Typed
<1> QED  BY <1>1

LEMMA StartStep ==
  ASSUME LaneOnly, TypeInv, LaneInv, NEW j \in Jobs, Start(j)
  PROVE  LaneInv'
<1> DEFINE J == [job[j] EXCEPT !.pc = "started"]
<1>1. job' = [job EXCEPT ![j] = J] /\ job'[j] = J /\ J.pc = "started" /\ J.run = job[j].run
  BY PartTypes DEF Start, JobType
<1>2. DataStands
  <2>1. Len(status') = Len(status) /\ Len(status) \in Nat
    BY StatusLength DEF Start
  <2> QED  BY <2>1, PartTypes DEF Start, DataStands
<1>3. lane = NoJob /\ lane' = j /\ job[j].pc = "queued"
  BY DEF Start, LaneOnly, Jobs
<1> HIDE DEF J
<1>4. Unspent(j)' /\ Holds(j)'
  BY <1>1, <1>2, <1>3 DEF LaneInv, JobInv, Holds, Unspent, Unused, DataStands
<1>5. RowsNew(j)' /\ KnownCurrent(j)' /\ CapturesAll(j)' /\ SnapshotStands(j)'
  BY <1>1 DEF RowsNew, KnownCurrent, CapturesAll, SnapshotStands
<1>6. JobInv(j)'
  BY <1>4, <1>5 DEF JobInv
<1> QED  BY <1>1, <1>2, <1>3, <1>6, StepFrame

\* Up to its commit a job stays in the lane and unspent.
LEMMA StillUnspent ==
  ASSUME LaneInv, UNCHANGED <<log, current, snapshots, forecasts, lane>>, NEW j \in Jobs,
         job[j].pc \in {"started", "average", "fetched", "read", "written"},
         job'[j].pc \in {"started", "average", "fetched", "read", "written"},
         job'[j].run = job[j].run
  PROVE  Holds(j)' /\ Unspent(j)'
<1>1. lane = j /\ Unused(job[j].run)
  BY DEF LaneInv, JobInv, Holds, InLane, Unspent
<1>2. Holds(j)'
  BY <1>1 DEF Holds, InLane
<1>3. Unspent(j)'
  BY <1>1 DEF Unspent, Unused
<1> QED  BY <1>2, <1>3

LEMMA FetchAverageStep ==
  ASSUME TypeInv, LaneInv, NEW j \in Jobs, FetchAverage(j)
  PROVE  LaneInv'
<1> DEFINE rows == IF source.average = 0 THEN {} ELSE {Row(source.average, "average")}
           J == [job[j] EXCEPT !.pc = "average", !.rows = rows]
<1>1. /\ job' = [job EXCEPT ![j] = J] /\ job'[j] = J /\ J.pc = "average" /\ J.run = job[j].run
      /\ J.rows = rows
  BY PartTypes DEF FetchAverage, JobType
<1>2. DataStands
  BY PartTypes DEF FetchAverage, DataStands
<1>3. lane' = lane /\ job[j].pc = "started"
  BY DEF FetchAverage
<1>4. /\ \A x, y \in rows : x = y
      /\ \A x \in rows : x.price <= source.price[x.date]
      /\ \A x \in rows : \A r \in log : r.date = x.date => r.price <= x.price
  <2>1. source.average # 0 => source.average \in Dates
    BY PartTypes DEF Dates
  <2> QED  BY <2>1, FreshRow DEF LaneInv
<1> HIDE DEF J, rows
<1>5. Holds(j)' /\ Unspent(j)'
  BY <1>1, <1>3, StillUnspent DEF FetchAverage
<1>6. RowsNew(j)'
  BY <1>1, <1>4 DEF FetchAverage, RowsNew
<1>7. KnownCurrent(j)' /\ CapturesAll(j)' /\ SnapshotStands(j)'
  BY <1>1 DEF KnownCurrent, CapturesAll, SnapshotStands
<1>8. JobInv(j)'
  BY <1>5, <1>6, <1>7 DEF JobInv
<1> QED  BY <1>1, <1>2, <1>3, <1>8, StepFrame

LEMMA FetchRecentStep ==
  ASSUME TypeInv, LaneInv, NEW j \in Jobs, FetchRecent(j)
  PROVE  LaneInv'
<1>0. PICK dates \in SUBSET Dates :
        /\ job[j].rows # {} \/ dates # {}
        /\ job' = [job EXCEPT ![j].pc = "fetched",
             ![j].rows = job[j].rows \union {Row(d, "recent") : d \in dates \ DatesOf(job[j].rows)}]
  BY DEF FetchRecent
<1> DEFINE rows == job[j].rows \union {Row(d, "recent") : d \in dates \ DatesOf(job[j].rows)}
           J == [job[j] EXCEPT !.pc = "fetched", !.rows = rows]
<1>1. /\ job' = [job EXCEPT ![j] = J] /\ job'[j] = J /\ J.pc = "fetched" /\ J.run = job[j].run
      /\ J.rows = rows
  BY <1>0, PartTypes DEF JobType
<1>2. DataStands
  BY PartTypes DEF FetchRecent, DataStands
<1>3. lane' = lane /\ job[j].pc = "average"
  BY DEF FetchRecent
<1>4. RowsNew(j)
  BY DEF LaneInv, JobInv
<1>5. \A d \in dates : /\ Row(d, "recent").date = d
                       /\ Row(d, "recent").price <= source.price[d]
                       /\ \A r \in log : r.date = d => r.price <= Row(d, "recent").price
  BY FreshRow DEF LaneInv
<1>6. \A x, y \in rows : x.date = y.date => x = y
  <2> SUFFICES ASSUME NEW x \in rows, NEW y \in rows, x.date = y.date  PROVE x = y
    OBVIOUS
  <2>1. CASE x \in job[j].rows /\ y \in job[j].rows
    BY <1>3, <1>4, <2>1 DEF RowsNew
  <2>2. \A z \in rows : z \in job[j].rows \/ \E d \in dates \ DatesOf(job[j].rows) : z = Row(d, "recent")
    OBVIOUS
  <2>3. \A z \in job[j].rows : z.date \in DatesOf(job[j].rows)
    BY DEF DatesOf
  <2> HIDE DEF rows
  <2> QED  BY <1>5, <2>1, <2>2, <2>3
<1>7. \A x \in rows : /\ x.price <= source.price[x.date]
                      /\ \A r \in log : r.date = x.date => r.price <= x.price
  BY <1>3, <1>4, <1>5 DEF RowsNew
<1>8. rows # {}
  <2>1. CASE job[j].rows # {}
    BY <2>1
  <2>2. CASE job[j].rows = {}
    <3>1. DatesOf(job[j].rows) = {}
      BY <2>2 DEF DatesOf
    <3> QED  BY <1>0, <2>2, <3>1
  <2> QED  BY <2>1, <2>2
<1> HIDE DEF J, rows
<1>9. Holds(j)' /\ Unspent(j)'
  BY <1>1, <1>3, StillUnspent DEF FetchRecent
<1>10. RowsNew(j)'
  BY <1>1, <1>6, <1>7, <1>8 DEF FetchRecent, RowsNew
<1>11. KnownCurrent(j)' /\ CapturesAll(j)' /\ SnapshotStands(j)'
  BY <1>1 DEF KnownCurrent, CapturesAll, SnapshotStands
<1>12. JobInv(j)'
  BY <1>9, <1>10, <1>11 DEF JobInv
<1> QED  BY <1>1, <1>2, <1>3, <1>12, StepFrame

\* What is known of a date is the revision dailyPriceCurrent names.
LEMMA CurrentRevision ==
  ASSUME TypeInv, NEW d \in Dates, current[d].run # 0
  PROVE  /\ RevisionOf(current[d].run, d) \in log
         /\ RevisionOf(current[d].run, d).run = current[d].run
         /\ RevisionOf(current[d].run, d).date = d
BY DEF TypeInv, CurrentLogged, RevisionOf

LEMMA ReadCurrentStep ==
  ASSUME TypeInv, LaneInv, NEW j \in Jobs, ReadCurrent(j)
  PROVE  LaneInv'
<1> DEFINE known == {RevisionOf(current[d].run, d) : d \in {x \in DatesOf(job[j].rows) : current[x].run # 0}}
           J == [job[j] EXCEPT !.pc = "read", !.known = known]
<1>1. /\ job' = [job EXCEPT ![j] = J] /\ job'[j] = J /\ J.pc = "read" /\ J.run = job[j].run
      /\ J.rows = job[j].rows /\ J.known = known
  BY PartTypes DEF ReadCurrent, JobType
<1>2. DataStands
  BY PartTypes DEF ReadCurrent, DataStands
<1>3. lane' = lane /\ job[j].pc = "fetched"
  BY DEF ReadCurrent
<1>4. DatesOf(job[j].rows) \subseteq Dates
  BY PartTypes DEF DatesOf, FetchedType
<1>5. /\ \A k \in known : k.run = current[k.date].run
      /\ \A d \in DatesOf(job[j].rows) : current[d].run # 0 => \E k \in known : k.date = d
  BY <1>4, CurrentRevision
<1> HIDE DEF J, known
<1>6. Holds(j)' /\ Unspent(j)'
  BY <1>1, <1>3, StillUnspent DEF ReadCurrent
<1>7. RowsNew(j)'
  BY <1>1, <1>3 DEF ReadCurrent, RowsNew, LaneInv, JobInv
<1>8. KnownCurrent(j)'
  BY <1>1, <1>5 DEF ReadCurrent, KnownCurrent, DatesOf
<1>9. CapturesAll(j)' /\ SnapshotStands(j)'
  BY <1>1 DEF CapturesAll, SnapshotStands
<1>10. JobInv(j)'
  BY <1>6, <1>7, <1>8, <1>9 DEF JobInv
<1> QED  BY <1>1, <1>2, <1>3, <1>10, StepFrame

LEMMA WriteRevisionsStep ==
  ASSUME TypeInv, LaneInv, NEW j \in Jobs, WriteRevisions(j)
  PROVE  LaneInv'
<1> DEFINE changed == DatesOf(Changed(j))
           tags == {[date |-> d, run |-> IF d \in changed THEN job[j].run ELSE current[d].run] :
                      d \in {x \in Dates : current[x].run # 0} \union changed}
           upto == ConfirmedDate(log \union Revisions(j))
           J == [job[j] EXCEPT !.pc = "written", !.tags = tags, !.upto = upto]
<1>1. /\ job' = [job EXCEPT ![j] = J] /\ job'[j] = J /\ J.pc = "written" /\ J.run = job[j].run
      /\ J.rows = job[j].rows /\ J.known = job[j].known /\ J.tags = tags /\ J.upto = upto
  BY PartTypes DEF WriteRevisions, JobType
<1>2. DataStands
  <2>1. UNCHANGED <<source, log, current, status, snapshots, forecasts>>
    BY DEF WriteRevisions
  <2> QED  BY <2>1, PartTypes DEF DataStands
<1>3. lane' = lane /\ job[j].pc = "read" /\ UNCHANGED <<log, current, source>>
  BY DEF WriteRevisions
<1> HIDE DEF J
<1>4. Changed(j)' = Changed(j)
  BY <1>1 DEF Changed
<1>5. Revisions(j)' = Revisions(j)
  BY <1>1, <1>4 DEF Revisions, Replaces
<1>6. Holds(j)' /\ Unspent(j)'
  BY <1>1, <1>3, StillUnspent DEF WriteRevisions
<1>7. RowsNew(j)'
  BY <1>1, <1>3 DEF RowsNew, LaneInv, JobInv
<1>8. KnownCurrent(j)'
  BY <1>1, <1>3 DEF KnownCurrent, DatesOf, LaneInv, JobInv
<1>9. CapturesAll(j)'
  <2>1. job'[j].tags = {[date |-> d, run |-> IF d \in DatesOf(Changed(j)') THEN job'[j].run ELSE current'[d].run] :
                          d \in {x \in Dates : current'[x].run # 0} \union DatesOf(Changed(j)')}
    BY <1>1, <1>3, <1>4
  <2>2. job'[j].upto = ConfirmedDate(log' \union Revisions(j)')
    BY <1>1, <1>3, <1>5
  <2> QED  BY <2>1, <2>2 DEF CapturesAll, DatesOf
<1>10. SnapshotStands(j)'
  BY <1>1 DEF SnapshotStands
<1>11. JobInv(j)'
  BY <1>6, <1>7, <1>8, <1>9, <1>10 DEF JobInv
<1> QED  BY <1>1, <1>2, <1>3, <1>11, StepFrame

-----------------------------------------------------------------------------
(* The steps after the commit, and those that end a job.                   *)

LEMMA ReadPricesStep ==
  ASSUME TypeInv, LaneInv, NEW j \in Jobs, ReadPrices(j)
  PROVE  LaneInv'
<1>0. SnapshotStands(j) /\ Unspent(j) /\ Holds(j) /\ job[j].pc = "snapshot"
  BY DEF LaneInv, JobInv, ReadPrices
<1>1. ConfirmedDate(log) \in 0..MaxDate /\ job[j].upto = ConfirmedDate(log)
  BY <1>0, PartTypes, ConfirmedType DEF SnapshotStands
<1>2. PICK upto \in job[j].upto..ConfirmedDate(log) :
        LET dates == {d \in Dates : current[d].tag = job[j].run /\ d <= upto}
        IN  /\ dates # {}
            /\ job' = [job EXCEPT ![j].pc = "priced", ![j].upto = upto,
                 ![j].prices = {[date |-> d, run |-> current[d].run] : d \in dates}]
  BY DEF ReadPrices
<1>3. upto = job[j].upto
  BY <1>1, <1>2
<1> DEFINE J == [job[j] EXCEPT !.pc = "priced", !.upto = upto, !.prices = UnderUpto(job[j].run, upto)]
<1>4. /\ job' = [job EXCEPT ![j] = J] /\ job'[j] = J /\ J.pc = "priced" /\ J.run = job[j].run
      /\ J.upto = upto /\ J.prices = UnderUpto(job[j].run, upto)
  BY <1>2, PartTypes DEF UnderUpto, JobType
<1>5. UnderUpto(job[j].run, upto) # {}
  BY <1>2 DEF UnderUpto
<1>6. DataStands
  BY PartTypes DEF ReadPrices, DataStands
<1>7. UNCHANGED <<lane, log, current, snapshots, forecasts>>
  BY DEF ReadPrices
<1> HIDE DEF J
<1>8. Holds(j)' /\ Unspent(j)'
  BY <1>0, <1>4, <1>7 DEF Holds, InLane, Unspent
<1>9. SnapshotStands(j)'
  BY <1>0, <1>3, <1>4, <1>5, <1>7 DEF SnapshotStands, Under, UnderUpto
<1>10. RowsNew(j)' /\ KnownCurrent(j)' /\ CapturesAll(j)'
  BY <1>4 DEF RowsNew, KnownCurrent, CapturesAll
<1>11. JobInv(j)'
  BY <1>8, <1>9, <1>10 DEF JobInv
<1> QED  BY <1>0, <1>4, <1>6, <1>7, <1>11, StepFrame

LEMMA SucceedStep ==
  ASSUME TypeInv, LaneInv, NEW j \in Jobs, Succeed(j)
  PROVE  LaneInv'
<1> DEFINE J == [job[j] EXCEPT !.pc = "done"]
<1>1. job' = [job EXCEPT ![j] = J] /\ job'[j] = J /\ J.pc = "done" /\ J.run = job[j].run
  BY PartTypes DEF Succeed, JobType
<1>2. DataStands
  <2>1. Len(status') = Len(status) /\ Len(status) \in Nat
    BY StatusLength DEF Succeed
  <2> QED  BY <2>1, PartTypes DEF Succeed, DataStands
<1>3. lane' = lane /\ job[j].pc = "forecast"
  BY DEF Succeed
<1> HIDE DEF J
<1>4. JobInv(j)'
  BY <1>1, <1>3 DEF LaneInv, JobInv, Holds, InLane, Unspent, RowsNew, KnownCurrent, CapturesAll,
     SnapshotStands
<1> QED  BY <1>1, <1>2, <1>3, <1>4, StepFrame

\* A job that ends gives the lane back, if it has it.
LEMMA LeaveStep ==
  ASSUME TypeInv, LaneInv, NEW j \in Jobs, Leave(j), DataStands
  PROVE  LaneInv'
<1>1. job' = [job EXCEPT ![j] = IdleJob] /\ job'[j] = IdleJob /\ IdleJob.pc = "idle"
  BY PartTypes DEF Leave, IdleJob
<1>2. lane' = lane \/ lane = j
  BY DEF Leave
<1>3. JobInv(j)'
  BY <1>1 DEF JobInv, Holds, InLane, Unspent, RowsNew, KnownCurrent, CapturesAll, SnapshotStands
<1> QED  BY <1>1, <1>2, <1>3, StepFrame

LEMMA EndStep ==
  ASSUME TypeInv, LaneInv, NEW j \in Jobs, Return(j) \/ Fail(j) \/ Crash(j)
  PROVE  LaneInv'
<1>1. DataStands
  <2>1. Len(status') = Len(status) /\ Len(status) \in Nat
    BY StatusLength, PartTypes DEF Return, Fail, Crash
  <2> QED  BY <2>1, PartTypes DEF Return, Fail, Crash, DataStands
<1> QED  BY <1>1, LeaveStep DEF Return, Fail, Crash

-----------------------------------------------------------------------------
(* The confirmed date.                                                     *)

LEMMA NewestFromOf ==
  ASSUME NEW revisions \in SUBSET RevisionType, NEW from
  PROVE  /\ NewestFrom(revisions, from) \in 0..MaxDate
         /\ \A r \in revisions : r.from = from => r.date <= NewestFrom(revisions, from)
         /\ NewestFrom(revisions, from) # 0 =>
              \E r \in revisions : r.from = from /\ r.date = NewestFrom(revisions, from)
<1> DEFINE T == {0} \union {r.date : r \in {x \in revisions : x.from = from}}
<1>1. MaxDate \in Nat
  BY IngestAssumption
<1>2. T \in SUBSET (0..MaxDate) /\ T # {}
  BY <1>1 DEF RevisionType, Dates
<1>3. Max(T) \in T /\ \A k \in T : k <= Max(T)
  <2> HIDE DEF T
  <2> QED  BY <1>1, <1>2, GreatestOf
<1> QED  BY <1>2, <1>3 DEF NewestFrom

\* More revisions bring the newest date of a feed no further back.
LEMMA NewestGrows ==
  ASSUME NEW old \in SUBSET RevisionType, NEW new \in SUBSET RevisionType, old \subseteq new, NEW from
  PROVE  NewestFrom(old, from) <= NewestFrom(new, from)
<1>1. /\ NewestFrom(old, from) \in 0..MaxDate /\ NewestFrom(new, from) \in 0..MaxDate
      /\ MaxDate \in Nat
  BY NewestFromOf, IngestAssumption
<1>2. CASE NewestFrom(old, from) = 0
  BY <1>1, <1>2
<1>3. CASE NewestFrom(old, from) # 0
  BY <1>3, NewestFromOf
<1> QED  BY <1>2, <1>3

\* The lesser of two numbers, as Min has it.
LEMMA MinOfTwo ==
  ASSUME NEW a \in Int, NEW b \in Int
  PROVE  Min({a, b}) = IF a <= b THEN a ELSE b
<1>1. \A x \in {a, b} : (\A y \in {a, b} : x <= y) <=> x = IF a <= b THEN a ELSE b
  OBVIOUS
<1>2. (IF a <= b THEN a ELSE b) \in {a, b}
  OBVIOUS
<1> QED  BY <1>1, <1>2 DEF Min

\* Once there are revisions of both feeds, more of them bring the confirmed
\* date no further back.
LEMMA ConfirmedGrows ==
  ASSUME NEW old \in SUBSET RevisionType, NEW new \in SUBSET RevisionType, old \subseteq new,
         \A feed \in Feeds : \E r \in old : r.from = feed
  PROVE  ConfirmedDate(old) <= ConfirmedDate(new)
<1> DEFINE a == NewestFrom(old, "average")
           b == NewestFrom(old, "recent")
           c == NewestFrom(new, "average")
           d == NewestFrom(new, "recent")
<1>1. a \in Nat /\ b \in Nat /\ c \in Nat /\ d \in Nat
  BY NewestFromOf, IngestAssumption
<1>2. a <= c /\ b <= d
  BY NewestGrows
<1>3. a # 0 /\ b # 0
  <2>1. \A r \in old : r.date \in Nat \ {0}
    BY DEF RevisionType, Dates
  <2>2. PICK r \in old, s \in old : r.from = "average" /\ s.from = "recent"
    BY DEF Feeds
  <2>3. r.date <= a /\ s.date <= b
    BY <2>2, NewestFromOf
  <2> QED  BY <1>1, <2>1, <2>3
<1> HIDE DEF a, b, c, d
<1>4. c # 0 /\ d # 0
  BY <1>1, <1>2, <1>3
<1>5. Min({a, b}) <= Min({c, d})
  BY <1>1, <1>2, MinOfTwo
<1> QED  BY <1>3, <1>4, <1>5 DEF ConfirmedDate, a, b, c, d

-----------------------------------------------------------------------------
(* The commit of a snapshot.                                               *)

\* What a job that is about to commit writes: one revision per changed date,
\* which replaces the current one and is not older than it.
LEMMA WritesOf ==
  ASSUME TypeInv, LaneInv, NEW j \in Jobs, job[j].pc = "written"
  PROVE  /\ Revisions(j) \subseteq RevisionType
         /\ DatesOf(Changed(j)) \subseteq Dates
         /\ \A r \in Revisions(j) :
              /\ r.run = job[j].run /\ r.replaces = current[r.date].run
              /\ r.date \in DatesOf(Changed(j)) /\ r.price <= source.price[r.date]
              /\ \A s \in Revisions(j) : s.date = r.date => s = r
              /\ \A s \in log : s.date = r.date => s.price <= r.price
         /\ \A d \in DatesOf(Changed(j)) : \E r \in Revisions(j) : r.date = d
<1>1. /\ RowsNew(j) /\ KnownCurrent(j)
  BY DEF LaneInv, JobInv
<1>2. job[j].rows \subseteq FetchedType /\ Changed(j) \subseteq job[j].rows
  BY PartTypes DEF Changed
<1>3. Revisions(j) \subseteq RevisionType
  <2>1. job[j].run \in 1..Len(status) /\ Len(status) \in Nat /\ Len(status) <= MaxRuns
    BY PartTypes DEF TypeInv, Typed
  <2>2. job[j].run \in Runs
    BY <2>1, IngestAssumption DEF Runs
  <2> QED  BY <2>2, RevisionsType DEF TypeInv
<1>4. DatesOf(Changed(j)) \subseteq Dates
  BY <1>2 DEF DatesOf, FetchedType
<1>5. \A d \in DatesOf(Changed(j)) : Replaces(j, d) = current[d].run
  <2> SUFFICES ASSUME NEW d \in DatesOf(Changed(j))  PROVE Replaces(j, d) = current[d].run
    OBVIOUS
  <2>1. d \in DatesOf(job[j].rows)
    BY <1>2 DEF DatesOf
  <2>2. CASE \E k \in job[j].known : k.date = d
    BY <1>1, <2>2 DEF Replaces, KnownCurrent
  <2>3. CASE ~ \E k \in job[j].known : k.date = d
    BY <1>1, <2>1, <2>3 DEF Replaces, KnownCurrent
  <2> QED  BY <2>2, <2>3
<1>6. ASSUME NEW r \in Revisions(j)
      PROVE  \E row \in Changed(j) :
               r = [run |-> job[j].run, date |-> row.date, price |-> row.price, from |-> row.from,
                    replaces |-> Replaces(j, row.date)]
  BY DEF Revisions
<1>7. ASSUME NEW r \in Revisions(j)
      PROVE  /\ r.run = job[j].run /\ r.replaces = current[r.date].run
             /\ r.date \in DatesOf(Changed(j)) /\ r.price <= source.price[r.date]
             /\ \A s \in log : s.date = r.date => s.price <= r.price
  <2>1. PICK row \in Changed(j) :
          r = [run |-> job[j].run, date |-> row.date, price |-> row.price, from |-> row.from,
               replaces |-> Replaces(j, row.date)]
    BY <1>6
  <2>2. row.date \in DatesOf(Changed(j))
    BY DEF DatesOf
  <2>3. /\ row.price <= source.price[row.date]
        /\ \A s \in log : s.date = row.date => s.price <= row.price
    BY <1>1, <1>2 DEF RowsNew
  <2> QED  BY <1>5, <2>1, <2>2, <2>3
<1>8. ASSUME NEW r \in Revisions(j), NEW s \in Revisions(j), s.date = r.date  PROVE s = r
  <2>1. PICK x \in Changed(j) :
          r = [run |-> job[j].run, date |-> x.date, price |-> x.price, from |-> x.from,
               replaces |-> Replaces(j, x.date)]
    BY <1>6
  <2>2. PICK y \in Changed(j) :
          s = [run |-> job[j].run, date |-> y.date, price |-> y.price, from |-> y.from,
               replaces |-> Replaces(j, y.date)]
    BY <1>6
  <2>3. x = y
    BY <1>1, <1>2, <1>8, <2>1, <2>2 DEF RowsNew
  <2> QED  BY <2>1, <2>2, <2>3
<1>9. ASSUME NEW d \in DatesOf(Changed(j))  PROVE \E r \in Revisions(j) : r.date = d
  <2>1. PICK row \in Changed(j) : row.date = d
    BY DEF DatesOf
  <2> DEFINE r == [run |-> job[j].run, date |-> row.date, price |-> row.price, from |-> row.from,
                   replaces |-> Replaces(j, row.date)]
  <2>2. r \in Revisions(j)
    BY DEF Revisions
  <2>3. r.date = d
    BY <2>1
  <2> QED  BY <2>2, <2>3
<1> QED  BY <1>3, <1>4, <1>7, <1>8, <1>9

\* What the commit changes, in terms of the job that commits.
LEMMA CommitOf ==
  ASSUME TypeInv, LaneInv, NEW j \in Jobs, CommitSnapshot(j)
  PROVE  /\ job[j].pc = "written" /\ job[j].run \in Runs /\ job[j].run <= Len(status)
         /\ Unused(job[j].run)
         /\ DatesOf(job[j].tags) = {x \in Dates : current[x].run # 0} \union DatesOf(Changed(j))
         /\ \A t \in job[j].tags :
              /\ t.date \in Dates
              /\ t.run = IF t.date \in DatesOf(Changed(j)) THEN job[j].run ELSE current[t.date].run
         /\ \A d \in Dates :
              /\ current'[d].run = IF d \in DatesOf(Changed(j)) THEN job[j].run ELSE current[d].run
              /\ current'[d].tag = IF d \in DatesOf(job[j].tags) THEN job[j].run ELSE current[d].tag
         /\ job'[j].pc = "snapshot" /\ job'[j].run = job[j].run /\ job'[j].upto = job[j].upto
         /\ \A k \in Jobs \ {j} : job'[k] = job[k] /\ job[k].pc \in {"idle", "queued"}
<1>1. job[j].pc = "written" /\ Unspent(j) /\ CapturesAll(j)
  BY DEF CommitSnapshot, LaneInv, JobInv
<1>2. job[j].run \in 1..Len(status) /\ Len(status) \in Nat /\ Len(status) <= MaxRuns
  BY <1>1, PartTypes DEF TypeInv, Typed
<1>3. job[j].run \in Runs /\ job[j].run <= Len(status) /\ Unused(job[j].run)
  BY <1>1, <1>2, IngestAssumption DEF Runs, Unspent
<1> DEFINE present == {x \in Dates : current[x].run # 0} \union DatesOf(Changed(j))
           run(d) == IF d \in DatesOf(Changed(j)) THEN job[j].run ELSE current[d].run
<1>4. present \subseteq Dates
  BY <1>1, WritesOf
<1>5. job[j].tags = {[date |-> d, run |-> run(d)] : d \in present}
  BY <1>1 DEF CapturesAll
<1>6. DatesOf(job[j].tags) = present
  <2> HIDE DEF present, run
  <2>1. \A d \in present : [date |-> d, run |-> run(d)] \in job[j].tags
    BY <1>5
  <2>2. \A t \in job[j].tags : t.date \in present
    BY <1>5
  <2>3. \A d \in present : d \in DatesOf(job[j].tags)
    <3> SUFFICES ASSUME NEW d \in present  PROVE d \in DatesOf(job[j].tags)
      OBVIOUS
    <3> DEFINE t == [date |-> d, run |-> run(d)]
    <3>1. t \in job[j].tags /\ t.date = d
      BY <2>1
    <3> QED  BY <3>1 DEF DatesOf
  <2> QED  BY <2>2, <2>3 DEF DatesOf
<1>7. \A t \in job[j].tags : t.date \in Dates /\ t.run = run(t.date)
  <2> HIDE DEF present, run
  <2> QED  BY <1>4, <1>5
<1>8. \A d \in Dates :
        /\ current'[d].run = run(d)
        /\ current'[d].tag = IF d \in DatesOf(job[j].tags) THEN job[j].run ELSE current[d].tag
  BY DEF CommitSnapshot
<1>9. job'[j].pc = "snapshot" /\ job'[j].run = job[j].run /\ job'[j].upto = job[j].upto
  BY PartTypes DEF CommitSnapshot, JobType
<1>10. \A k \in Jobs \ {j} : job'[k] = job[k] /\ job[k].pc \in {"idle", "queued"}
  <2>1. \A k \in Jobs \ {j} : ~InLane(k)
    BY <1>1, OneHolder DEF InLane
  <2> QED  BY <2>1, PartTypes DEF CommitSnapshot, InLane
<1> QED  BY <1>1, <1>3, <1>6, <1>7, <1>8, <1>9, <1>10

\* The numbers of the other runs stay unused.
LEMMA CommitUnused ==
  ASSUME TypeInv, LaneInv, NEW j \in Jobs, CommitSnapshot(j),
         NEW run, run # job[j].run, Unused(run)
  PROVE  Unused(run)'
<1>1. UNCHANGED forecasts /\ log' = log \union Revisions(j)
      /\ snapshots' = snapshots \union {[run |-> job[j].run, rows |-> job[j].tags]}
  BY DEF CommitSnapshot
<1>2. \A r \in log' : r.run # run
  BY <1>1, CommitOf, WritesOf DEF Unused
<1>3. \A d \in Dates : current'[d].run # run /\ current'[d].tag # run
  BY CommitOf DEF Unused
<1>4. \A t \in job[j].tags : t.run # run
  BY CommitOf DEF Unused
<1>5. \A s \in snapshots' : s.run # run /\ \A x \in s.rows : x.run # run
  <2> SUFFICES ASSUME NEW s \in snapshots'  PROVE s.run # run /\ \A x \in s.rows : x.run # run
    OBVIOUS
  <2>1. CASE s \in snapshots
    BY <2>1 DEF Unused
  <2>2. CASE s = [run |-> job[j].run, rows |-> job[j].tags]
    BY <1>4, <2>2
  <2> QED  BY <1>1, <2>1, <2>2
<1> QED  BY <1>1, <1>2, <1>3, <1>5 DEF Unused

\* The revisions go on forming chains: a new one replaces the current one of
\* its date, which no other has replaced.
LEMMA CommitChains ==
  ASSUME TypeInv, LaneInv, NEW j \in Jobs, CommitSnapshot(j)
  PROVE  RevisionsFormChains' /\ ReplacesLogged'
<1>0. /\ RevisionsFormChains /\ ReplacesLogged /\ CurrentLogged
      /\ log \subseteq RevisionType /\ job[j].run # 0
  BY CommitOf, PartTypes DEF LaneInv, DataInv, TypeInv, Runs
<1>1. log' = log \union Revisions(j)
  BY DEF CommitSnapshot
<1>2. \A r \in Revisions(j) :
        /\ r.run = job[j].run /\ r.replaces = current[r.date].run /\ r.date \in Dates
        /\ r.date \in DatesOf(Changed(j))
        /\ \A s \in Revisions(j) : s.date = r.date => s = r
  BY CommitOf, WritesOf
<1>3. \A r \in log : r.date \in Dates /\ r.replaces # job[j].run /\ current[r.date].run # r.replaces
  BY <1>0, CommitOf DEF RevisionsFormChains, ReplacesLogged, Unused, RevisionType
<1>4. \A r, s \in log' : (r.date = s.date /\ r.replaces = s.replaces) => r = s
  <2> SUFFICES ASSUME NEW r \in log', NEW s \in log', r.date = s.date, r.replaces = s.replaces
               PROVE  r = s
    OBVIOUS
  <2>1. CASE r \in log /\ s \in log
    BY <1>0, <2>1 DEF RevisionsFormChains
  <2>2. CASE r \in Revisions(j) /\ s \in Revisions(j)
    BY <1>2, <2>2
  <2>3. CASE r \in log /\ s \in Revisions(j)
    BY <1>2, <1>3, <2>3
  <2>4. CASE r \in Revisions(j) /\ s \in log
    BY <1>2, <1>3, <2>4
  <2> QED  BY <1>1, <2>1, <2>2, <2>3, <2>4
<1>5. \A r \in log' : current'[r.date].run # r.replaces
  <2>1. ASSUME NEW r \in log  PROVE current'[r.date].run # r.replaces
    BY <1>3, CommitOf
  <2>2. ASSUME NEW r \in Revisions(j)  PROVE current'[r.date].run # r.replaces
    <3>1. current'[r.date].run = job[j].run
      BY <1>2, CommitOf
    <3>2. current[r.date].run # job[j].run
      BY <1>2, CommitOf DEF Unused
    <3> QED  BY <1>2, <3>1, <3>2
  <2> QED  BY <1>1, <2>1, <2>2
<1>6. \A r \in log' : r.replaces = 0 \/ \E s \in log' : s.run = r.replaces
  <2>1. ASSUME NEW r \in log  PROVE r.replaces = 0 \/ \E s \in log : s.run = r.replaces
    BY <1>0 DEF ReplacesLogged
  <2>2. ASSUME NEW r \in Revisions(j)  PROVE r.replaces = 0 \/ \E s \in log : s.run = r.replaces
    BY <1>0, <1>2 DEF CurrentLogged
  <2> QED  BY <1>1, <2>1, <2>2
<1> QED  BY <1>4, <1>5, <1>6 DEF RevisionsFormChains, ReplacesLogged

\* The forecasts there are go no further than the confirmed date after it.
LEMMA CommitConfirmed ==
  ASSUME TypeInv, LaneInv, NEW j \in Jobs, CommitSnapshot(j)
  PROVE  ForecastsConfirmed'
<1>1. /\ UNCHANGED forecasts /\ log' = log \union Revisions(j)
      /\ snapshots' = snapshots \union {[run |-> job[j].run, rows |-> job[j].tags]}
  BY DEF CommitSnapshot
<1>2. Unused(job[j].run) /\ \A r \in Revisions(j) : r.run = job[j].run
  BY CommitOf, WritesOf
<1>3. log \in SUBSET RevisionType /\ log' \in SUBSET RevisionType
  BY <1>1, CommitOf, WritesOf, PartTypes
<1> SUFFICES ASSUME NEW k \in DOMAIN forecasts, BothFeeds(k)'
             PROVE  forecasts[k].upto <= ConfirmedDate(log')
  BY <1>1 DEF ForecastsConfirmed
<1>4. PICK s \in snapshots' :
        /\ s.run = forecasts[k].run
        /\ \A feed \in Feeds : \E r \in log' : r.from = feed /\ [date |-> r.date, run |-> r.run] \in s.rows
  BY <1>1 DEF BothFeeds
<1>5. s \in snapshots
  BY <1>1, <1>2, <1>4 DEF Unused
<1>6. \A feed \in Feeds : \E r \in log : r.from = feed /\ [date |-> r.date, run |-> r.run] \in s.rows
  <2> SUFFICES ASSUME NEW feed \in Feeds
               PROVE  \E r \in log : r.from = feed /\ [date |-> r.date, run |-> r.run] \in s.rows
    OBVIOUS
  <2>1. PICK r \in log' : r.from = feed /\ [date |-> r.date, run |-> r.run] \in s.rows
    BY <1>4
  <2> DEFINE x == [date |-> r.date, run |-> r.run]
  <2>2. x \in s.rows /\ x.run = r.run
    BY <2>1
  <2>3. r.run # job[j].run
    BY <1>2, <1>5, <2>2 DEF Unused
  <2> QED  BY <1>1, <1>2, <2>1, <2>3
<1>7. BothFeeds(k)
  BY <1>4, <1>5, <1>6 DEF BothFeeds
<1>8. forecasts[k].upto <= ConfirmedDate(log)
  BY <1>7 DEF LaneInv, DataInv, ForecastsConfirmed
<1>9. ConfirmedDate(log) <= ConfirmedDate(log')
  BY <1>1, <1>3, <1>6, ConfirmedGrows
<1>10. ConfirmedDate(log) \in Int /\ ConfirmedDate(log') \in Int
  BY <1>3, ConfirmedType, IngestAssumption
<1>11. forecasts[k].upto \in Int
  <2>1. forecasts[k] \in ForecastType
    BY PartTypes
  <2> QED  BY <2>1 DEF ForecastType, Dates
<1> QED  BY <1>8, <1>9, <1>10, <1>11

\* The others are idle or wait for the lane, with numbers of their own.
LEMMA OthersStand ==
  ASSUME TypeInv, LaneInv, NEW j \in Jobs, job[j].pc # "idle",
         \A k \in Jobs \ {j} : job'[k] = job[k] /\ job[k].pc \in {"idle", "queued"},
         \A run : run # job[j].run /\ Unused(run) => Unused(run)',
         NEW k \in Jobs \ {j}
  PROVE  JobInv(k)'
<1>1. job'[k] = job[k] /\ job[k].pc \in {"idle", "queued"}
  OBVIOUS
<1>2. ASSUME job[k].pc = "queued"  PROVE Unused(job[k].run)'
  <2>1. job[k].run # job[j].run
    BY <1>2 DEF LaneInv, RunsDiffer
  <2>2. Unused(job[k].run)
    BY <1>2 DEF LaneInv, JobInv, Unspent
  <2>3. PICK run : run = job[k].run
    OBVIOUS
  <2>4. Unused(run)'
    BY <2>1, <2>2, <2>3
  <2>5. job'[k].run = run
    BY <1>1, <2>3
  <2> QED  BY <2>4, <2>5 DEF Unused
<1>3. Unspent(k)'
  BY <1>1, <1>2 DEF Unspent
<1>4. /\ Holds(k)' /\ RowsNew(k)' /\ KnownCurrent(k)' /\ CapturesAll(k)' /\ SnapshotStands(k)'
  BY <1>1 DEF Holds, InLane, RowsNew, KnownCurrent, CapturesAll, SnapshotStands
<1> QED  BY <1>3, <1>4 DEF JobInv

LEMMA CommitSnapshotStep ==
  ASSUME TypeInv, LaneInv, NEW j \in Jobs, CommitSnapshot(j)
  PROVE  LaneInv'
<1>1. /\ UNCHANGED <<source, status, forecasts, lane>> /\ log' = log \union Revisions(j)
      /\ snapshots' = snapshots \union {[run |-> job[j].run, rows |-> job[j].tags]}
  BY DEF CommitSnapshot
<1>2. NumbersInUse'
  <2> SUFFICES ASSUME NEW run \in Nat, run > Len(status')  PROVE Unused(run)'
    BY DEF NumbersInUse
  <2>1. run > Len(status) /\ run # job[j].run
    BY <1>1, CommitOf, PartTypes DEF Runs
  <2>2. Unused(run)
    BY <2>1 DEF LaneInv, DataInv, NumbersInUse
  <2> QED  BY <2>1, <2>2, CommitUnused
<1>3. ForecastCoversSnapshot'
  BY <1>1 DEF LaneInv, DataInv, ForecastCoversSnapshot
<1>4. LogPublished'
  BY <1>1, CommitOf, WritesOf DEF LaneInv, DataInv, LogPublished
<1>5. DataInv'
  BY <1>2, <1>3, <1>4, CommitChains, CommitConfirmed DEF DataInv
<1>6. RunsDiffer'
  BY CommitOf DEF LaneInv, RunsDiffer
<1>7. Holds(j)' /\ Unspent(j)'
  BY <1>1, CommitOf DEF LaneInv, JobInv, Holds, InLane, Unspent, Unused
<1>8. SnapshotStands(j)'
  <2>1. job[j].tags = Under(job[j].run)'
    <3> DEFINE run(d) == IF d \in DatesOf(Changed(j)) THEN job[j].run ELSE current[d].run
               present == {x \in Dates : current[x].run # 0} \union DatesOf(Changed(j))
    <3>1. job[j].tags = {[date |-> d, run |-> run(d)] : d \in present}
      BY CommitOf DEF LaneInv, JobInv, CapturesAll
    <3>2. \A d \in Dates : /\ current'[d].run = run(d)
                           /\ current'[d].tag = IF d \in present THEN job[j].run ELSE current[d].tag
      BY CommitOf
    <3>3. \A d \in Dates : current'[d].tag = job[j].run <=> d \in present
      BY <3>2, CommitOf DEF Unused
    <3>4. present \subseteq Dates
      BY CommitOf, WritesOf
    <3> HIDE DEF run, present
    <3>5. present = {x \in Dates : current'[x].tag = job[j].run}
      BY <3>3, <3>4
    <3>6. {[date |-> d, run |-> run(d)] : d \in present} = {[date |-> d, run |-> current'[d].run] : d \in present}
      BY <3>2, <3>4
    <3> QED  BY <3>1, <3>5, <3>6, CommitOf DEF Under
  <2>2. job[j].upto = ConfirmedDate(log \union Revisions(j))
    BY CommitOf DEF LaneInv, JobInv, CapturesAll
  <2>3. job'[j].upto = ConfirmedDate(log')
    BY <1>1, <2>2, CommitOf
  <2>4. \E s \in snapshots' : s.run = job'[j].run /\ s.rows = job[j].tags
    <3> DEFINE s == [run |-> job[j].run, rows |-> job[j].tags]
    <3>1. s \in snapshots' /\ s.run = job'[j].run /\ s.rows = job[j].tags
      BY <1>1, CommitOf
    <3> QED  BY <3>1
  <2> QED  BY <2>1, <2>3, <2>4, CommitOf DEF SnapshotStands
<1>9. RowsNew(j)' /\ KnownCurrent(j)' /\ CapturesAll(j)'
  BY CommitOf DEF RowsNew, KnownCurrent, CapturesAll
<1>10. JobInv(j)'
  BY <1>7, <1>8, <1>9 DEF JobInv
<1>11. \A k \in Jobs \ {j} : JobInv(k)'
  BY CommitOf, CommitUnused, OthersStand
<1> QED  BY <1>5, <1>6, <1>10, <1>11 DEF LaneInv

-----------------------------------------------------------------------------
(* The commit of a forecast.                                               *)

\* What the commit changes.
LEMMA ForecastOf ==
  ASSUME TypeInv, LaneInv, NEW j \in Jobs, CommitForecast(j)
  PROVE  /\ job[j].pc = "priced" /\ job[j].run \in Nat /\ job[j].run <= Len(status)
         /\ DOMAIN forecasts = 1..Len(forecasts) /\ Len(forecasts) \in Nat
         /\ DOMAIN forecasts' = 1..(Len(forecasts) + 1)
         /\ \A i \in DOMAIN forecasts : forecasts'[i] = forecasts[i]
         /\ forecasts'[Len(forecasts) + 1] =
              [run |-> job[j].run, rows |-> job[j].prices, upto |-> job[j].upto]
         /\ job'[j].pc = "forecast" /\ job'[j].run = job[j].run
         /\ \A k \in Jobs \ {j} : job'[k] = job[k] /\ job[k].pc \in {"idle", "queued"}
<1>1. job[j].pc = "priced"
  BY DEF CommitForecast
<1>2. job[j].run \in 1..Len(status) /\ Len(status) \in Nat /\ Len(status) <= MaxRuns
  BY <1>1, PartTypes DEF TypeInv, Typed
<1>3. job[j].run \in Nat /\ job[j].run <= Len(status)
  BY <1>2
<1> DEFINE f == [run |-> job[j].run, rows |-> job[j].prices, upto |-> job[j].upto]
<1>4. forecasts' = Append(forecasts, f) /\ forecasts \in Seq(ForecastType)
  BY PartTypes DEF CommitForecast
<1>5. /\ DOMAIN forecasts = 1..Len(forecasts) /\ Len(forecasts) \in Nat
      /\ DOMAIN forecasts' = 1..(Len(forecasts) + 1)
      /\ \A i \in DOMAIN forecasts : forecasts'[i] = forecasts[i]
      /\ forecasts'[Len(forecasts) + 1] = f
  <2> HIDE DEF f
  <2> QED  BY <1>4
<1>6. job'[j].pc = "forecast" /\ job'[j].run = job[j].run
  BY PartTypes DEF CommitForecast, JobType
<1>7. \A k \in Jobs \ {j} : job'[k] = job[k] /\ job[k].pc \in {"idle", "queued"}
  <2>1. \A k \in Jobs \ {j} : ~InLane(k)
    BY <1>1, OneHolder DEF InLane
  <2> QED  BY <2>1, PartTypes DEF CommitForecast, InLane
<1> QED  BY <1>1, <1>3, <1>5, <1>6, <1>7

LEMMA CommitForecastStep ==
  ASSUME TypeInv, LaneInv, NEW j \in Jobs, CommitForecast(j)
  PROVE  LaneInv'
<1>1. UNCHANGED <<source, log, current, status, snapshots, lane>>
  BY DEF CommitForecast
<1>2. SnapshotStands(j) /\ Holds(j) /\ job[j].pc = "priced"
  BY ForecastOf DEF LaneInv, JobInv
<1>a. /\ job[j].run \in Nat /\ job[j].run <= Len(status) /\ Len(status) \in Nat
      /\ job'[j].pc = "forecast" /\ job'[j].run = job[j].run
      /\ \A k \in Jobs \ {j} : job'[k] = job[k]
  <2>1. Len(status) \in Nat
    BY PartTypes
  <2> QED  BY <2>1, ForecastOf
<1>3. ASSUME NEW i \in DOMAIN forecasts'
      PROVE  \/ i \in DOMAIN forecasts /\ forecasts'[i] = forecasts[i]
             \/ forecasts'[i] = [run |-> job[j].run, rows |-> job[j].prices, upto |-> job[j].upto]
  <2>0. i \in 1..(Len(forecasts) + 1) /\ Len(forecasts) \in Nat /\ DOMAIN forecasts = 1..Len(forecasts)
    BY ForecastOf
  <2>1. CASE i \in DOMAIN forecasts
    BY <2>1, ForecastOf
  <2>2. CASE i = Len(forecasts) + 1
    BY <2>2, ForecastOf
  <2>3. i \in DOMAIN forecasts \/ i = Len(forecasts) + 1
    BY <2>0
  <2> QED  BY <2>1, <2>2, <2>3
<1>4. ASSUME NEW run, run # job[j].run, Unused(run)  PROVE Unused(run)'
  BY <1>1, <1>3, <1>4 DEF Unused
<1>5. NumbersInUse'
  <2> SUFFICES ASSUME NEW run \in Nat, run > Len(status')  PROVE Unused(run)'
    BY DEF NumbersInUse
  <2>1. run > Len(status) /\ run # job[j].run
    BY <1>1, <1>a
  <2>2. Unused(run)
    BY <2>1 DEF LaneInv, DataInv, NumbersInUse
  <2> QED  BY <1>4, <2>1, <2>2
<1>6. ForecastCoversSnapshot'
  <2> SUFFICES ASSUME NEW i \in DOMAIN forecasts'
               PROVE  \E s \in snapshots : /\ s.run = forecasts'[i].run
                                           /\ forecasts'[i].rows = {x \in s.rows : x.date <= forecasts'[i].upto}
    BY <1>1 DEF ForecastCoversSnapshot
  <2>1. CASE i \in DOMAIN forecasts /\ forecasts'[i] = forecasts[i]
    BY <2>1 DEF LaneInv, DataInv, ForecastCoversSnapshot
  <2>2. CASE forecasts'[i] = [run |-> job[j].run, rows |-> job[j].prices, upto |-> job[j].upto]
    <3>1. PICK s \in snapshots : s.run = job[j].run /\ s.rows = Under(job[j].run)
      BY <1>2 DEF SnapshotStands
    <3>2. job[j].prices = UnderUpto(job[j].run, job[j].upto)
      BY <1>2 DEF SnapshotStands
    <3>3. UnderUpto(job[j].run, job[j].upto) = {x \in Under(job[j].run) : x.date <= job[j].upto}
      BY DEF Under, UnderUpto
    <3> QED  BY <2>2, <3>1, <3>2, <3>3
  <2> QED  BY <1>3, <2>1, <2>2
<1>7. ForecastsConfirmed'
  <2> SUFFICES ASSUME NEW i \in DOMAIN forecasts', BothFeeds(i)'
               PROVE  forecasts'[i].upto <= ConfirmedDate(log)
    BY <1>1 DEF ForecastsConfirmed
  <2>1. CASE i \in DOMAIN forecasts /\ forecasts'[i] = forecasts[i]
    <3>1. BothFeeds(i)
      BY <1>1, <2>1 DEF BothFeeds
    <3> QED  BY <2>1, <3>1 DEF LaneInv, DataInv, ForecastsConfirmed
  <2>2. CASE forecasts'[i] = [run |-> job[j].run, rows |-> job[j].prices, upto |-> job[j].upto]
    <3>1. job[j].upto = ConfirmedDate(log) /\ ConfirmedDate(log) \in Int
      BY <1>2, PartTypes, ConfirmedType DEF SnapshotStands
    <3> QED  BY <2>2, <3>1
  <2> QED  BY <1>3, <2>1, <2>2
<1>8. DataInv'
  BY <1>1, <1>5, <1>6, <1>7
     DEF LaneInv, DataInv, RevisionsFormChains, ReplacesLogged, LogPublished
<1>9. RunsDiffer'
  BY <1>2, <1>a DEF LaneInv, RunsDiffer
<1>10. JobInv(j)'
  BY <1>1, <1>2, ForecastOf DEF JobInv, Holds, InLane, Unspent, RowsNew, KnownCurrent,
     CapturesAll, SnapshotStands
<1>11. \A k \in Jobs \ {j} : JobInv(k)'
  BY <1>4, ForecastOf, OthersStand
<1> QED  BY <1>8, <1>9, <1>10, <1>11 DEF LaneInv

-----------------------------------------------------------------------------
(* Opinet, and the invariant as a whole.                                   *)

\* A price that is not out yet has no number.
PriceOncePublished == \A d \in Dates : d > source.average => source.price[d] = 0

LEMMA SourceStep ==
  ASSUME TypeInv, PriceOncePublished, [Next]_vars
  PROVE  /\ PriceOncePublished'
         /\ \A d \in Dates : source'.price[d] \in Nat /\ source.price[d] <= source'.price[d]
<1>1. /\ source \in [average : 0..MaxDate, recent : 0..MaxDate, price : [Dates -> 0..MaxPrice]]
      /\ MaxDate \in Nat /\ MaxPrice \in Nat
  BY IngestAssumption DEF TypeInv, Typed
<1>2. \A d \in Dates : source.price[d] \in Nat /\ d \in Nat
  BY <1>1 DEF Dates
<1>3. CASE source' = source
  BY <1>2, <1>3 DEF PriceOncePublished
<1>4. CASE PublishAverage
  <2>1. /\ source'.average = source.average + 1
        /\ source'.price = [source.price EXCEPT ![source.average + 1] = 1]
    BY <1>1, <1>4 DEF PublishAverage
  <2>2. source.average + 1 \in Dates /\ source.average \in Nat
    BY <1>1, <1>4 DEF PublishAverage, Dates
  <2>3. source.price[source.average + 1] = 0
    BY <2>2 DEF PriceOncePublished
  <2>4. \A d \in Dates : source'.price[d] = IF d = source.average + 1 THEN 1 ELSE source.price[d]
    BY <1>1, <2>1
  <2>5. \A d \in Dates : source'.price[d] \in Nat /\ source.price[d] <= source'.price[d]
    BY <1>2, <2>3, <2>4
  <2>6. PriceOncePublished'
    <3> SUFFICES ASSUME NEW d \in Dates, d > source'.average  PROVE source'.price[d] = 0
      BY DEF PriceOncePublished
    <3>1. d > source.average /\ d # source.average + 1
      BY <1>2, <2>1, <2>2
    <3> QED  BY <2>4, <3>1 DEF PriceOncePublished
  <2> QED  BY <2>5, <2>6
<1>5. CASE PublishRecent
  <2>1. source'.average = source.average /\ source'.price = source.price
    BY <1>1, <1>5 DEF PublishRecent
  <2> QED  BY <1>2, <2>1 DEF PriceOncePublished
<1>6. ASSUME NEW d \in Dates, Correct(d)
      PROVE  /\ PriceOncePublished'
             /\ \A x \in Dates : source'.price[x] \in Nat /\ source.price[x] <= source'.price[x]
  <2>1. /\ source.price[d] # 0 /\ source'.average = source.average
        /\ source'.price = [source.price EXCEPT ![d] = source.price[d] + 1]
    BY <1>1, <1>6 DEF Correct
  <2>2. \A x \in Dates : source'.price[x] = IF x = d THEN source.price[d] + 1 ELSE source.price[x]
    BY <1>1, <2>1
  <2> QED  BY <1>2, <2>1, <2>2 DEF PriceOncePublished
<1>7. ASSUME NEW j \in Jobs, Work(j)  PROVE source' = source
  BY <1>7 DEF Work, Enqueue, Start, FetchAverage, FetchRecent, ReadCurrent, WriteRevisions,
     CommitSnapshot, ReadPrices, CommitForecast, Succeed, Return, Fail, Crash
<1>8. ASSUME LaneExpire \/ UNCHANGED vars  PROVE source' = source
  BY <1>8 DEF LaneExpire, vars
<1> QED  BY <1>3, <1>4, <1>5, <1>6, <1>7, <1>8 DEF Next, Environment

LEMMA LaneInit ==
  ASSUME Init
  PROVE  LaneInv /\ PriceOncePublished
<1>1. NumbersInUse
  BY DEF Init, NumbersInUse, Unused
<1>2. RevisionsFormChains /\ ReplacesLogged /\ ForecastCoversSnapshot /\ LogPublished
      /\ ForecastsConfirmed
  BY DEF Init, RevisionsFormChains, ReplacesLogged, ForecastCoversSnapshot, LogPublished,
     ForecastsConfirmed
<1>3. \A j \in Jobs : job[j].pc = "idle"
  BY DEF Init, IdleJob
<1>4. RunsDiffer /\ \A j \in Jobs : JobInv(j)
  BY <1>3 DEF RunsDiffer, JobInv, Holds, InLane, Unspent, RowsNew, KnownCurrent, CapturesAll,
     SnapshotStands
<1>5. PriceOncePublished
  BY DEF Init, PriceOncePublished
<1> QED  BY <1>1, <1>2, <1>4, <1>5 DEF LaneInv, DataInv

LEMMA LaneStep ==
  ASSUME LaneOnly, TypeInv, PriceOncePublished, LaneInv, [Next]_vars
  PROVE  LaneInv'
<1>1. ASSUME NEW j \in Jobs, Work(j)  PROVE LaneInv'
  BY <1>1, EnqueueStep, StartStep, FetchAverageStep, FetchRecentStep, ReadCurrentStep,
     WriteRevisionsStep, CommitSnapshotStep, ReadPricesStep, CommitForecastStep, SucceedStep,
     EndStep DEF Work
<1>2. CASE Environment \/ UNCHANGED vars
  <2>1. UNCHANGED <<log, current, status, snapshots, forecasts, job, lane>>
    BY <1>2 DEF Environment, LaneExpire, LaneOnly, PublishAverage, PublishRecent, Correct, vars
  <2>2. DataStands
    BY <2>1, SourceStep, PartTypes DEF DataStands, TypeInv, Typed
  <2>3. \A k \in Jobs : JobInv(k)'
    BY <2>1, <2>2, JobFrame DEF LaneInv
  <2>4. RunsDiffer'
    BY <2>1 DEF LaneInv, RunsDiffer
  <2> QED  BY <2>2, <2>3, <2>4, DataFrame DEF LaneInv
<1> QED  BY <1>1, <1>2 DEF Next

LEMMA LaneHolds ==
  ASSUME LaneOnly
  PROVE  Spec => [](TypeInv /\ PriceOncePublished /\ LaneInv)
<1>1. TypeInv /\ PriceOncePublished /\ LaneInv /\ [Next]_vars => PriceOncePublished' /\ LaneInv'
  BY SourceStep, LaneStep
<1>2. Init => PriceOncePublished /\ LaneInv
  BY LaneInit
<1> QED  BY <1>1, <1>2, TypeInit, TypeStep, PTL DEF Spec

-----------------------------------------------------------------------------
(* What the readers rely on.                                               *)

\* While nothing is ingested beside the lane, the revisions of every date form
\* one chain that ends in the current one, whatever fails or crashes.
THEOREM LogFormsChains ==
  ASSUME LaneOnly
  PROVE  Spec => []RevisionsFormChains
<1>1. LaneInv => RevisionsFormChains
  BY DEF LaneInv, DataInv
<1> QED  BY <1>1, LaneHolds, PTL

\* Under the same condition every forecast is built from exactly the revisions
\* its snapshot has captured, up to its confirmed date.
THEOREM ForecastsFollowSnapshots ==
  ASSUME LaneOnly
  PROVE  Spec => []ForecastCoversSnapshot
<1>1. LaneInv => ForecastCoversSnapshot
  BY DEF LaneInv, DataInv
<1> QED  BY <1>1, LaneHolds, PTL

\* Only the two commits change what the readers see.
LEMMA OnlyCommits ==
  ASSUME [Next]_vars
  PROVE  \/ UNCHANGED <<log, current, forecasts>>
         \/ \E j \in Jobs : CommitSnapshot(j) /\ UNCHANGED forecasts
         \/ \E j \in Jobs : CommitForecast(j) /\ UNCHANGED <<log, current>>
<1>1. ASSUME NEW j \in Jobs, CommitSnapshot(j)  PROVE UNCHANGED forecasts
  BY <1>1 DEF CommitSnapshot
<1>2. ASSUME NEW j \in Jobs, CommitForecast(j)  PROVE UNCHANGED <<log, current>>
  BY <1>2 DEF CommitForecast
<1>3. ASSUME NEW j \in Jobs, Enqueue(j) \/ Start(j) \/ FetchAverage(j) \/ FetchRecent(j) \/ ReadCurrent(j)
      PROVE  UNCHANGED <<log, current, forecasts>>
  BY <1>3 DEF Enqueue, Start, FetchAverage, FetchRecent, ReadCurrent
<1>4. ASSUME NEW j \in Jobs, WriteRevisions(j) \/ ReadPrices(j) \/ Succeed(j) \/ Return(j) \/ Fail(j) \/ Crash(j)
      PROVE  UNCHANGED <<log, current, forecasts>>
  BY <1>4 DEF WriteRevisions, ReadPrices, Succeed, Return, Fail, Crash
<1>5. ASSUME Environment \/ UNCHANGED vars  PROVE UNCHANGED <<log, current, forecasts>>
  BY <1>5 DEF Environment, vars
<1> QED  BY <1>1, <1>2, <1>3, <1>4, <1>5 DEF Next, Work

\* A price that is replaced is replaced by one that is not older.
LEMMA PriceAdvances ==
  ASSUME TypeInv, LaneInv, NEW j \in Jobs, CommitSnapshot(j), NEW d \in Dates,
         current[d].run # 0, current'[d].run # current[d].run
  PROVE  \E new \in log' \ log :
           /\ new.date = d /\ new.run = current'[d].run
           /\ new.price >= RevisionOf(current[d].run, d).price
<1>1. d \in DatesOf(Changed(j)) /\ current'[d].run = job[j].run
  BY CommitOf
<1>2. PICK new \in Revisions(j) : new.date = d
  BY <1>1, CommitOf, WritesOf
<1> DEFINE old == RevisionOf(current[d].run, d)
<1>3. old \in log /\ old.date = d
  BY CurrentRevision
<1>4. new.run = job[j].run /\ old.price <= new.price
  <2>1. job[j].pc = "written"
    BY DEF CommitSnapshot
  <2>2. new.run = job[j].run /\ \A s \in log : s.date = new.date => s.price <= new.price
    BY <2>1, WritesOf
  <2> HIDE DEF old
  <2> QED  BY <1>2, <1>3, <2>2
<1>5. new \in log' \ log
  <2>1. log' = log \union Revisions(j)
    BY DEF CommitSnapshot
  <2>2. \A r \in log : r.run # job[j].run
    BY CommitOf DEF Unused
  <2> QED  BY <1>4, <2>1, <2>2
<1>6. new.price \in Int /\ old.price \in Int
  <2>1. new \in RevisionType /\ old \in RevisionType
    BY <1>3, CommitOf, WritesOf, PartTypes
  <2> QED  BY <2>1, IngestAssumption DEF RevisionType
<1> HIDE DEF old
<1>7. new.price >= old.price
  BY <1>4, <1>6
<1> QED  BY <1>1, <1>2, <1>4, <1>5, <1>7 DEF old

\* Under the same condition the current price of a date never returns to one
\* that its source had already corrected when a later one was taken up.
THEOREM PricesOnlyAdvance ==
  ASSUME LaneOnly
  PROVE  Spec => PricesNeverRegress
<1>1. TypeInv /\ LaneInv /\ [Next]_vars =>
        [\A d \in Dates :
           (current[d].run # 0 /\ current'[d].run # current[d].run) =>
             \E new \in log' \ log :
               /\ new.date = d /\ new.run = current'[d].run
               /\ new.price >= RevisionOf(current[d].run, d).price]_vars
  BY OnlyCommits, PriceAdvances
<1> QED  BY <1>1, LaneHolds, PTL DEF Spec, PricesNeverRegress

\* A new forecast goes as far as those with prices of both feeds.
LEMMA ForecastAdvances ==
  ASSUME TypeInv, LaneInv, NEW j \in Jobs, CommitForecast(j),
         NEW i \in DOMAIN forecasts' \ DOMAIN forecasts, NEW k \in DOMAIN forecasts, BothFeeds(k)
  PROVE  forecasts[k].upto <= forecasts'[i].upto
<1>1. i = Len(forecasts) + 1
  <2>1. /\ i \in 1..(Len(forecasts) + 1) /\ i \notin 1..Len(forecasts) /\ Len(forecasts) \in Nat
    BY ForecastOf
  <2> QED  BY <2>1
<1>2. forecasts'[i].upto = job[j].upto /\ forecasts'[k] = forecasts[k]
  <2>1. /\ forecasts'[Len(forecasts) + 1] =
             [run |-> job[j].run, rows |-> job[j].prices, upto |-> job[j].upto]
        /\ forecasts'[k] = forecasts[k]
    BY ForecastOf
  <2>2. forecasts'[i] = [run |-> job[j].run, rows |-> job[j].prices, upto |-> job[j].upto]
    BY <1>1, <2>1
  <2> QED  BY <2>1, <2>2
<1>3. job[j].upto = ConfirmedDate(log)
  BY ForecastOf DEF LaneInv, JobInv, SnapshotStands
<1> QED  BY <1>2, <1>3 DEF LaneInv, DataInv, ForecastsConfirmed

\* Under the same condition the confirmed date of the forecasts never goes
\* back once a snapshot holds prices of both feeds.
THEOREM ConfirmedDateAdvances ==
  ASSUME LaneOnly
  PROVE  Spec => ConfirmedNeverRetreats
<1>1. TypeInv /\ LaneInv /\ [Next]_vars =>
        [\A i \in DOMAIN forecasts' \ DOMAIN forecasts : \A k \in DOMAIN forecasts :
           (\E s \in snapshots : /\ s.run = forecasts[k].run
                                /\ \A feed \in Feeds : \E r \in log :
                                     r.from = feed /\ [date |-> r.date, run |-> r.run] \in s.rows)
             => forecasts[k].upto <= forecasts'[i].upto]_vars
  BY OnlyCommits, ForecastAdvances DEF BothFeeds
<1> QED  BY <1>1, LaneHolds, PTL DEF Spec, ConfirmedNeverRetreats

-----------------------------------------------------------------------------
(* The refinement of the abstract feed.                                    *)

\* A snapshot has prices: what is fetched is new or known already.
LEMMA SnapshotHasPrices ==
  ASSUME TypeInv, LaneInv, NEW j \in Jobs, CommitSnapshot(j)
  PROVE  DatesOf(job[j].tags) # {}
<1>1. job[j].pc = "written" /\ RowsNew(j) /\ KnownCurrent(j)
  BY CommitOf DEF LaneInv, JobInv
<1>2. PICK row \in job[j].rows : TRUE
  BY <1>1 DEF RowsNew
<1>3. CASE row \in Changed(j)
  <2>1. row.date \in DatesOf(Changed(j))
    BY <1>3 DEF DatesOf
  <2> QED  BY <2>1, CommitOf
<1>4. CASE row \notin Changed(j)
  <2>1. PICK k \in job[j].known : k.date = row.date
    BY <1>4 DEF Changed
  <2>2. k.run = current[k.date].run
    BY <1>1 DEF KnownCurrent
  <2>3. k.run # 0 /\ k.date \in Dates
    <3>1. k \in RevisionType
      BY PartTypes
    <3> QED  BY <3>1 DEF RevisionType, Runs
  <2>4. k.date \in {x \in Dates : current[x].run # 0}
    BY <2>2, <2>3
  <2> QED  BY <2>4, CommitOf
<1> QED  BY <1>3, <1>4

LEMMA SnapshotIsTaken ==
  ASSUME TypeInv, LaneInv, NEW j \in Jobs, CommitSnapshot(j)
  PROVE  Feed!TakeSnapshot(job[j].run)
<1>1. Feed!Dates = Dates /\ Feed!Priced = {x \in Dates : current[x].run # 0}
  BY DEF Feed!Dates, Dates, Feed!Priced
<1>2. /\ \A d \in Dates : current[d].run # job[j].run /\ current[d].tag # job[j].run
      /\ \A i \in DOMAIN forecasts : forecasts[i].run # job[j].run
  BY CommitOf DEF Unused
<1> DEFINE changed == DatesOf(Changed(j))
<1>3. changed \in SUBSET Dates
  BY CommitOf, WritesOf
<1>4. changed \union Feed!Priced = DatesOf(job[j].tags)
  BY <1>1, CommitOf
<1>5. changed \union Feed!Priced # {}
  BY <1>4, SnapshotHasPrices
<1>6. current' = [d \in Dates |->
        [run |-> IF d \in changed THEN job[j].run ELSE current[d].run,
         tag |-> IF d \in changed \union Feed!Priced THEN job[j].run ELSE current[d].tag]]
  BY <1>4 DEF CommitSnapshot
<1>7. UNCHANGED forecasts
  BY DEF CommitSnapshot
<1> HIDE DEF changed
<1> QED  BY <1>1, <1>2, <1>3, <1>5, <1>6, <1>7 DEF Feed!TakeSnapshot

LEMMA ForecastIsMade ==
  ASSUME TypeInv, LaneInv, NEW j \in Jobs, CommitForecast(j)
  PROVE  Feed!MakeForecast(job[j].run)
<1>1. SnapshotStands(j) /\ Unspent(j) /\ job[j].pc = "priced"
  BY ForecastOf DEF LaneInv, JobInv
<1> DEFINE run == job[j].run
           upto == job[j].upto
<1>2. upto \in Dates
  BY <1>1 DEF TypeInv, PricedUpto
<1>3. job[j].prices = UnderUpto(run, upto) /\ UnderUpto(run, upto) # {}
  BY <1>1 DEF SnapshotStands
<1>4. Feed!PricesUnder(run, upto) = UnderUpto(run, upto)
  BY DEF Feed!PricesUnder, UnderUpto, Feed!Dates, Dates
<1>5. \E d \in Dates : current[d].tag = run
  BY <1>3 DEF UnderUpto
<1>6. \A i \in DOMAIN forecasts : forecasts[i].run # run
  BY <1>1 DEF Unspent
<1>7. forecasts' = Append(forecasts, [run |-> run, rows |-> job[j].prices, upto |-> upto])
      /\ UNCHANGED current
  BY DEF CommitForecast
<1>8. Feed!Dates = Dates
  BY DEF Feed!Dates, Dates
<1> HIDE DEF run, upto
<1>9. Feed!MakeForecast(run)
  BY <1>2, <1>3, <1>4, <1>5, <1>6, <1>7, <1>8 DEF Feed!MakeForecast
<1> QED  BY <1>9 DEF run

LEMMA FeedFollows ==
  ASSUME TypeInv, LaneInv, [Next]_vars
  PROVE  [Feed!FeedNext]_Feed!feedVars
<1>1. ASSUME NEW j \in Jobs, CommitSnapshot(j) \/ CommitForecast(j)
      PROVE  job[j].run \in Feed!Runs
  <2>1. job[j].run \in 1..Len(status) /\ Len(status) \in Nat /\ Len(status) <= MaxRuns
    BY <1>1, PartTypes DEF CommitSnapshot, CommitForecast, TypeInv, Typed
  <2> QED  BY <2>1, IngestAssumption DEF Feed!Runs
<1>2. ASSUME NEW j \in Jobs, CommitSnapshot(j)  PROVE Feed!FeedNext
  BY <1>1, <1>2, SnapshotIsTaken DEF Feed!FeedNext
<1>3. ASSUME NEW j \in Jobs, CommitForecast(j)  PROVE Feed!FeedNext
  BY <1>1, <1>3, ForecastIsMade DEF Feed!FeedNext
<1> QED  BY <1>2, <1>3, OnlyCommits DEF Feed!feedVars

\* Under the same condition the ingest implements the abstract feed: to those
\* who read prices and forecasts a snapshot is one step over all the prices,
\* and a forecast covers the newest snapshot.
THEOREM IngestImplementsFeed ==
  ASSUME LaneOnly
  PROVE  Spec => ImplementsFeed
<1>1. Init => Feed!FeedInit
  BY DEF Init, Feed!FeedInit, Feed!Dates, Dates
<1>2. TypeInv /\ LaneInv /\ [Next]_vars => [Feed!FeedNext]_Feed!feedVars
  BY FeedFollows
<1> QED  BY <1>1, <1>2, LaneHolds, PTL DEF Spec, ImplementsFeed, Feed!FeedSpec
=============================================================================
