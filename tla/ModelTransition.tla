---------------------------- MODULE ModelTransition ----------------------------
(***************************************************************************)
(* How the operating model setting of the forecast changes.  Forecast      *)
(* pipelines read the latest succeeded run and the approved change that is *)
(* pending, decide by the rules of ModelRules and commit the next run in   *)
(* one database transaction.  Administrators approve a change, approve a   *)
(* rollback or cancel in requests that take several separate statements.   *)
(*                                                                         *)
(* A pipeline transaction runs at READ COMMITTED: its reads are steps of   *)
(* their own, and its writes become visible together when it commits.      *)
(***************************************************************************)
EXTENDS ModelRules, Sequences

CONSTANTS
  FallbackParams,  \* the setting before the first run
  GridParams,      \* the settings the automatic selection evaluates
  LaneRunners,     \* pipelines that hold the dataset lane (the worker)
  FreeRunners,     \* pipelines started beside the lane (npm run ingest:opinet)
  Admins,          \* concurrent admin requests
  SessionIds,      \* identities of shadow sessions, reused when unreferenced
  NoRunner,        \* nobody holds the lane
  MaxWeek,         \* bound on the weeks
  MaxTransitions,  \* bound on the approvals
  MaxVersion,      \* bound on the deployed model versions
  LaneExpires      \* may the lane transaction time out under its job?

Runners == LaneRunners \union FreeRunners
Groups == {"web", "worker"}

ASSUME TransitionAssumption ==
  /\ FallbackParams \in Params
  /\ GridParams \subseteq Params
  /\ LaneRunners \intersect FreeRunners = {}
  /\ NoRunner \notin Runners
  /\ SessionIds \subseteq Nat \ {0}
  /\ MaxWeek \in Nat \ {0} /\ MaxTransitions \in Nat /\ MaxVersion \in Nat \ {0}
  /\ LaneExpires \in BOOLEAN

VARIABLES
  latest,       \* the latest succeeded run: its model metadata
  transitions,  \* the rows of forecastModelTransition, in insertion order
  pipe,         \* per runner: what its pipeline has read so far
  admin,        \* per admin: where its request is and what it has read
  lane,         \* the runner that holds the advisory lock of the dataset
  now,          \* the current week
  confirmed,    \* the last week whose prices are confirmed
  ver           \* the model version each process group runs

vars == <<latest, transitions, pipe, admin, lane, now, confirmed, ver>>

-----------------------------------------------------------------------------
FirstRun == [params |-> FallbackParams, promotedAt |-> Never,
             version |-> 0, applied |-> 0, promoted |-> FALSE,
             persistence |-> NoPersistence, session |-> NoSession,
             monitoring |-> NoMonitoring]

IdlePipe == [pc |-> "idle", prev |-> FirstRun, pending |-> 0]
IdleAdmin == [pc |-> "idle", kind |-> "none", run |-> FirstRun]

InFlight == \/ \E r \in Runners : pipe[r].pc # "idle"
            \/ \E a \in Admins : admin[a].pc # "idle"

PendingRows == {i \in DOMAIN transitions : transitions[i].status = "approved_pending"}

RowAt(i) == IF i \in DOMAIN transitions THEN transitions[i] ELSE NoTransition

\* The session identities something still refers to.
UsedIds ==
  {latest.session.sid}
    \union {pipe[r].prev.session.sid : r \in Runners}
    \union {admin[a].run.session.sid : a \in Admins}
    \union {transitions[i].sid : i \in DOMAIN transitions}

Init ==
  /\ latest = FirstRun
  /\ transitions = <<>>
  /\ pipe = [r \in Runners |-> IdlePipe]
  /\ admin = [a \in Admins |-> IdleAdmin]
  /\ lane = NoRunner
  /\ now = 1
  /\ confirmed = 1
  /\ ver = [g \in Groups |-> 1]

-----------------------------------------------------------------------------
(* The forecast pipeline, runForecastPipeline.                             *)

\* A defect: the worker takes no lock.
PipeBeginUnlocked(r) ==
  /\ pipe[r].pc = "idle"
  /\ lane' = lane
  /\ pipe' = [pipe EXCEPT ![r] = [pc |-> "run", prev |-> latest, pending |-> 0]]
  /\ UNCHANGED <<latest, transitions, admin, now, confirmed, ver>>

\* The lane runners take the advisory lock of the dataset; the others start
\* at any time.  A pipeline starts by reading the latest succeeded run.
PipeBegin(r) ==
  /\ pipe[r].pc = "idle"
  /\ IF r \in LaneRunners THEN lane = NoRunner /\ lane' = r ELSE lane' = lane
  /\ pipe' = [pipe EXCEPT ![r] = [pc |-> "run", prev |-> latest, pending |-> 0]]
  /\ UNCHANGED <<latest, transitions, admin, now, confirmed, ver>>

\* ... and the approved change that waits, 0 if there is none.
PipeReadPending(r) ==
  /\ pipe[r].pc = "run"
  /\ pipe' = [pipe EXCEPT ![r].pc = "pending",
                          ![r].pending = IF PendingRows = {} THEN 0
                                         ELSE CHOOSE i \in PendingRows : TRUE]
  /\ UNCHANGED <<latest, transitions, admin, lane, now, confirmed, ver>>

Release(r) == lane' = IF lane = r THEN NoRunner ELSE lane

\* The automatic selection keeps the setting it is given or, once the
\* cooldown is over, promotes another one of its grid.
Selections(current, promotedAt) ==
  {current} \union (IF CooldownElapsed(promotedAt, now) THEN GridParams ELSE {})

\* The candidates of the sensitivity analysis a run may track: none while it
\* applies a change or a rollback is under review.
TrackedCandidates(applied, monitoring, selected) ==
  {NoParams} \union
    (IF applied.kind = "none" /\ monitoring.status # "rollback_reviewable"
       THEN Params \ {selected} ELSE {})

\* The run a pipeline creates from the run it read and the change it
\* applies (tid, 0 if none): `selected' and `cand' are chosen by the
\* backtests, `better' and `worse' are the verdicts of the observations.
BuildRun(sid, prev, tid, selected, cand, better, worse) ==
  LET applied     == IF tid = 0 THEN NoTransition ELSE transitions[tid]
      version     == ver["worker"]
      effective   == IF tid = 0 THEN prev.params ELSE applied.cand
      promoted    == selected # effective
      monitoring  == ResolveMonitoring(prev.monitoring, applied, tid, selected, version)
      persistence == ResolvePersistence(prev.persistence, cand, version, confirmed)
      entry       == IF EntryConfirmed(persistence, cand, version) THEN cand ELSE NoParams
      session     == ResolveSession(prev.session, version, selected, entry, sid)
  IN  [params |-> selected,
       promotedAt |-> IF tid # 0 \/ promoted THEN now ELSE prev.promotedAt,
       version |-> version, applied |-> tid, promoted |-> promoted,
       persistence |-> persistence,
       session |-> RecordSession(session, confirmed, better),
       monitoring |-> RecordMonitoring(monitoring, confirmed, worse)]

\* What the pipeline decides about the row it has read.  The row was read as
\* approved_pending; whatever happened to its status since is not read again.
Decision(r) ==
  IF pipe[r].pending = 0 THEN "skip"
  ELSE ResolvePending([transitions[pipe[r].pending] EXCEPT !.status = "approved_pending"],
                      pipe[r].prev.params, ver["worker"])

\* The transaction commits: the run, and the row it cancels or applies by
\* its id.
PipeCommit(r) ==
  /\ pipe[r].pc = "pending"
  /\ SessionIds \ UsedIds # {}
  /\ LET prev == pipe[r].prev
         row  == pipe[r].pending
         tid  == IF Decision(r) = "apply" THEN row ELSE 0
         eff  == IF tid = 0 THEN prev.params ELSE transitions[tid].cand
         at   == IF tid = 0 THEN prev.promotedAt ELSE now
         sid  == CHOOSE i \in SessionIds \ UsedIds : TRUE
     IN  /\ \E selected \in Selections(eff, at), better, worse \in BOOLEAN :
            \E cand \in TrackedCandidates(
                          RowAt(tid),
                          ResolveMonitoring(prev.monitoring, RowAt(tid), tid, selected, ver["worker"]),
                          selected) :
              latest' = BuildRun(sid, prev, tid, selected, cand, better, worse)
         /\ transitions' =
              CASE Decision(r) = "apply"  -> [transitions EXCEPT ![row].status = "applied"]
                [] Decision(r) = "cancel" -> [transitions EXCEPT ![row].status = "cancelled"]
                [] Decision(r) = "skip"   -> transitions
  /\ pipe' = [pipe EXCEPT ![r] = IdlePipe]
  /\ Release(r)
  /\ UNCHANGED <<admin, now, confirmed, ver>>

\* Any error, a lost database connection or the 30 s transaction timeout
\* rolls everything back.
PipeFail(r) ==
  /\ pipe[r].pc # "idle"
  /\ pipe' = [pipe EXCEPT ![r] = IdlePipe]
  /\ Release(r)
  /\ UNCHANGED <<latest, transitions, admin, now, confirmed, ver>>

\* The lane lock lives in a transaction of its own with a 600 s limit; when
\* that ends first the job goes on without the lock.
LaneExpire ==
  /\ LaneExpires
  /\ lane # NoRunner
  /\ lane' = NoRunner
  /\ UNCHANGED <<latest, transitions, pipe, admin, now, confirmed, ver>>

-----------------------------------------------------------------------------
(* The admin requests.                                                     *)

\* A request with the latest run on its page reads that run.  (A page of an
\* older run is answered STALE_REQUEST and changes nothing.)
ApproveReadRun(a) ==
  /\ admin[a].pc = "idle"
  /\ latest.session.status # "none"
  /\ admin' = [admin EXCEPT ![a] = [pc |-> "pending", kind |-> "shadow",
                                    run |-> latest]]
  /\ UNCHANGED <<latest, transitions, pipe, lane, now, confirmed, ver>>

\* A rollback request reads the run; without a monitoring it is stale.
RollbackReadRun(a) ==
  /\ admin[a].pc = "idle"
  /\ latest.monitoring.status # "none"
  /\ admin' = [admin EXCEPT ![a] = [pc |-> "source", kind |-> "rollback",
                                    run |-> latest]]
  /\ UNCHANGED <<latest, transitions, pipe, lane, now, confirmed, ver>>

\* ... then the transition it would undo, which must be applied and must
\* have replaced the setting the monitoring compares with.
RollbackReadSource(a) ==
  /\ admin[a].pc = "source"
  /\ LET row == RowAt(admin[a].run.monitoring.source)
     IN  admin' = [admin EXCEPT ![a] =
           IF row.status = "applied" /\ row.base = admin[a].run.monitoring.roll
             THEN [admin[a] EXCEPT !.pc = "pending"]
             ELSE IdleAdmin]
  /\ UNCHANGED <<latest, transitions, pipe, lane, now, confirmed, ver>>

Eligible(a, guardrailBroken) ==
  IF admin[a].kind = "shadow"
    THEN TransitionEligible(admin[a].run, ver["web"], PendingRows # {}, guardrailBroken, now)
    ELSE RollbackEligible(admin[a].run, ver["web"], PendingRows # {}, guardrailBroken, now)

\* ... then whether a change is pending already, and evaluates the gate.
AdminEvaluate(a) ==
  /\ admin[a].pc = "pending"
  /\ \E guardrailBroken \in BOOLEAN :
       admin' = [admin EXCEPT ![a] =
                   IF Eligible(a, guardrailBroken) THEN [admin[a] EXCEPT !.pc = "insert"]
                   ELSE IdleAdmin]
  /\ UNCHANGED <<latest, transitions, pipe, lane, now, confirmed, ver>>

\* The row a request inserts.
ApprovedRow(a) ==
  LET run == admin[a].run
  IN  IF admin[a].kind = "shadow"
        THEN [kind |-> "shadow", sid |-> run.session.sid, parent |-> 0,
              status |-> "approved_pending", version |-> ver["web"],
              base |-> run.session.base, cand |-> run.session.cand]
        ELSE [kind |-> "rollback", sid |-> 0, parent |-> run.monitoring.source,
              status |-> "approved_pending", version |-> ver["web"],
              base |-> run.monitoring.cur, cand |-> run.monitoring.roll]

\* The two unique indexes of the table: one pending row per dataset, and one
\* row ever per shadow session or rolled back transition.
Conflicts(row) ==
  \/ PendingRows # {}
  \/ \E i \in DOMAIN transitions :
       /\ transitions[i].kind = row.kind
       /\ transitions[i].sid = row.sid
       /\ transitions[i].parent = row.parent

\* ... then inserts; a unique violation is answered ALREADY_APPROVED.
AdminInsert(a) ==
  /\ admin[a].pc = "insert"
  /\ IF Conflicts(ApprovedRow(a))
       THEN UNCHANGED transitions
       ELSE /\ Len(transitions) < MaxTransitions
            /\ transitions' = Append(transitions, ApprovedRow(a))
  /\ admin' = [admin EXCEPT ![a] = IdleAdmin]
  /\ UNCHANGED <<latest, pipe, lane, now, confirmed, ver>>

\* One UPDATE cancels whatever is pending.
AdminCancel(a) ==
  /\ admin[a].pc = "idle"
  /\ transitions' = [i \in DOMAIN transitions |->
       IF i \in PendingRows THEN [transitions[i] EXCEPT !.status = "cancelled"]
                            ELSE transitions[i]]
  /\ admin' = [admin EXCEPT ![a] = IdleAdmin]
  /\ UNCHANGED <<latest, pipe, lane, now, confirmed, ver>>

\* A request whose process or connection dies has changed nothing.
AdminFail(a) ==
  /\ admin[a].pc # "idle"
  /\ admin' = [admin EXCEPT ![a] = IdleAdmin]
  /\ UNCHANGED <<latest, transitions, pipe, lane, now, confirmed, ver>>

-----------------------------------------------------------------------------
(* The environment.                                                        *)

\* A week passes; its prices may be confirmed late.  Transactions (30 s) and
\* requests are short against a week.
WeekPasses ==
  /\ now < MaxWeek
  /\ ~InFlight
  /\ now' = now + 1
  /\ confirmed' \in {confirmed, now'}
  /\ UNCHANGED <<latest, transitions, pipe, admin, lane, ver>>

\* Web and worker are deployed separately.
Deploy(g) ==
  /\ ver[g] < MaxVersion
  /\ IF g = "web" THEN \A a \in Admins : admin[a].pc = "idle"
                  ELSE \A r \in Runners : pipe[r].pc = "idle"
  /\ ver' = [ver EXCEPT ![g] = @ + 1]
  /\ UNCHANGED <<latest, transitions, pipe, admin, lane, now, confirmed>>

Pipeline(r) == PipeBegin(r) \/ PipeReadPending(r) \/ PipeCommit(r) \/ PipeFail(r)

Request(a) ==
  \/ ApproveReadRun(a) \/ RollbackReadRun(a) \/ RollbackReadSource(a)
  \/ AdminEvaluate(a) \/ AdminInsert(a) \/ AdminCancel(a) \/ AdminFail(a)

Next ==
  \/ \E r \in Runners : Pipeline(r)
  \/ \E a \in Admins : Request(a)
  \/ LaneExpire
  \/ WeekPasses
  \/ \E g \in Groups : Deploy(g)

Spec == Init /\ [][Next]_vars

\* The schedule retries the worker every 15 minutes: some pipeline of the
\* lane keeps being started, and one that is retried for ever succeeds once.
Fairness ==
  \A r \in LaneRunners :
    /\ SF_vars(PipeBegin(r))
    /\ SF_vars(PipeReadPending(r))
    /\ SF_vars(PipeCommit(r))

FairSpec == Spec /\ Fairness

-----------------------------------------------------------------------------
(* Types.                                                                  *)

Weeks == 1..MaxWeek
Targets == 1..(MaxWeek + 1)
Versions == 0..MaxVersion
Ids == SessionIds \union {0}
Rows == 0..MaxTransitions
ParamsOrNone == Params \union {NoParams}

PersistenceType == [cand : ParamsOrNone, version : Versions,
                    count : 0..Confirmations, week : Weeks \union {0}]

OpenedSession ==
  [status : {"validating", "reviewable", "failed", "stopped"},
   sid : Ids, version : Versions, base : Params, cand : Params,
   done : SUBSET Targets, open : SUBSET Targets]

SessionType == {NoSession} \union OpenedSession

StartedMonitoring ==
  [status : ActiveStatuses \union {"rolled_back", "stopped"},
   source : Rows, version : Versions, cur : Params, roll : Params,
   done : SUBSET Targets, open : SUBSET Targets]

MonitoringType == {NoMonitoring} \union StartedMonitoring

RunType == [params : Params, promotedAt : Weeks \union {Never},
            version : Versions, applied : Rows, promoted : BOOLEAN,
            persistence : PersistenceType, session : SessionType,
            monitoring : MonitoringType]

RowType == [kind : {"shadow", "rollback"}, sid : Ids, parent : Rows,
            status : {"approved_pending", "applied", "cancelled"},
            version : Versions, base : Params, cand : Params]

\* Every variable has the values the code can give it, and a request in
\* flight has a session or a monitoring to decide about.
TypeOK ==
  /\ latest \in RunType
  /\ transitions \in Seq(RowType) /\ Len(transitions) <= MaxTransitions
  /\ pipe \in [Runners -> [pc : {"idle", "run", "pending"}, prev : RunType, pending : Rows]]
  /\ \A r \in Runners : pipe[r].pending \in DOMAIN transitions \union {0}
  /\ admin \in [Admins -> [pc : {"idle", "source", "pending", "insert"},
                           kind : {"none", "shadow", "rollback"},
                           run : RunType]]
  /\ \A a \in Admins : admin[a].pc # "idle" =>
       \/ admin[a].kind = "shadow" /\ admin[a].run.session.status # "none"
       \/ admin[a].kind = "rollback" /\ admin[a].run.monitoring.status # "none"
  /\ lane \in LaneRunners \union {NoRunner}
  /\ now \in Weeks /\ confirmed \in Weeks
  /\ ver \in [Groups -> 1..MaxVersion]

-----------------------------------------------------------------------------
(* Safety.                                                                 *)

\* The operating setting of a run is the setting of the run before it unless
\* a decision changed it: an approval made for exactly the setting it
\* replaces under the model version that runs, or the automatic promotion.
\* No run loses the change of another.
SettingChangesAreDecided ==
  [][latest'.params # latest.params =>
       \/ /\ latest'.applied # 0
          /\ transitions'[latest'.applied].base = latest.params
          /\ transitions'[latest'.applied].cand = latest'.params
          /\ transitions'[latest'.applied].version = latest'.version
       \/ latest'.promoted]_vars

\* Two changes of the operating setting are at least a cooldown apart, for
\* approvals too, whose cooldown was checked when they were approved.
ChangesKeepCooldown ==
  [][latest'.params # latest.params => CooldownElapsed(latest.promotedAt, now)]_vars

\* A monitoring that is active observes the operating setting and model
\* version, against the setting the transition it names really replaced.
MonitoringFollowsSetting ==
  MonitoringActive(latest.monitoring) =>
    LET row == RowAt(latest.monitoring.source)
    IN  /\ latest.monitoring.cur = latest.params
        /\ latest.monitoring.version = latest.version
        /\ row.status = "applied"
        /\ row.cand = latest.monitoring.cur
        /\ row.base = latest.monitoring.roll

\* A shadow session that is still validating compares with the operating
\* setting and the model version of the run that carries it.
SessionFollowsSetting ==
  latest.session.status = "validating" =>
    /\ latest.session.base = latest.params
    /\ latest.session.version = latest.version
    /\ latest.session.cand # latest.params

\* A shadow session is opened only for a candidate that the run before
\* tracked too, and that was seen in as many distinct weeks as required.
ShadowEntryNeedsWeeks ==
  [][latest'.session.sid # latest.session.sid =>
       LET p == latest.persistence
       IN  /\ p.cand = latest'.session.cand
           /\ p.version = latest'.version
           /\ p.count + (IF p.week < latest'.persistence.week THEN 1 ELSE 0)
                >= Confirmations]_vars

\* The run that applies a rollback takes back the change of the parent
\* transition, and closes the monitoring of that change, not of another.
RollbackUndoesParent ==
  [][(/\ latest'.applied # 0 /\ latest' # latest
      /\ RowAt(latest'.applied).kind = "rollback") =>
       LET row    == transitions[latest'.applied]
           parent == transitions[row.parent]
       IN  /\ parent.status = "applied" /\ parent.kind = "shadow"
           /\ latest.params = parent.cand
           /\ latest'.params = parent.base
           /\ latest'.monitoring.source = row.parent
           /\ latest'.monitoring.status = "rolled_back"]_vars

\* A transition that was applied stays applied, and is applied by one run.
AppliedIsFinal ==
  [][/\ \A i \in DOMAIN transitions :
          transitions[i].status = "applied" => transitions'[i].status = "applied"
     /\ (latest' # latest /\ latest'.applied # 0) =>
          transitions[latest'.applied].status # "applied"]_vars

-----------------------------------------------------------------------------
(* A claim of the repository that the code does not keep.                  *)

\* A cancelled approval is never applied (the cancel route answers that the
\* approval was cancelled, the admin page that it is not applied yet).
CancelIsHonoured ==
  [][\A i \in DOMAIN transitions :
       transitions[i].status = "cancelled" => transitions'[i].status = "cancelled"]_vars

-----------------------------------------------------------------------------
(* Liveness.                                                               *)

\* An approval does not wait for ever: some run applies it or cancels it.
ApprovalsAreResolved ==
  \A i \in 1..MaxTransitions :
    (RowAt(i).status = "approved_pending") ~> (RowAt(i).status # "approved_pending")
=============================================================================
