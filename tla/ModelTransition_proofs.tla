------------------------ MODULE ModelTransition_proofs ------------------------
(***************************************************************************)
(* Theorems about ModelTransition, and about what the admin page shows of  *)
(* it (AdminViews), for every set of settings, runners and administrators  *)
(* and for every value of the bounds.                                      *)
(***************************************************************************)
EXTENDS AdminViews, NumberLemmas, SequenceTheorems, FiniteSetTheorems, TLAPS

USE DEF Never, Ids, Rows, Versions, ParamsOrNone

\* The assumptions on the constants in the form the steps use.
LEMMA Constants ==
  /\ NoParams \notin Params /\ FallbackParams \in Params /\ GridParams \subseteq Params
  /\ Required \in Nat /\ Required > 0 /\ Confirmations \in Nat /\ Confirmations > 0
  /\ Cooldown \in Nat /\ Cooldown > 0
  /\ MaxWeek \in Nat /\ MaxTransitions \in Nat /\ MaxVersion \in Nat /\ MaxVersion > 0
  /\ SessionIds \subseteq Nat \ {0} /\ NoRunner \notin Runners
  /\ LaneRunners \subseteq Runners /\ MaxWeek > 0
BY RulesAssumption, TransitionAssumption DEF Runners

-----------------------------------------------------------------------------
(* The rules keep the types of what they are given.                        *)

\* The confirmation of a candidate (resolveCandidatePersistence) stays a
\* candidate, a week and a count that never passes the required weeks.
LEMMA PersistenceTyped ==
  ASSUME NEW p \in PersistenceType, NEW cand \in ParamsOrNone,
         NEW version \in Versions, NEW week \in Weeks
  PROVE  ResolvePersistence(p, cand, version, week) \in PersistenceType
<1>1. NoPersistence \in PersistenceType
  BY Constants DEF NoPersistence, PersistenceType
<1>2. [cand |-> cand, version |-> version, count |-> 1, week |-> week] \in PersistenceType
  BY Constants DEF PersistenceType
<1>3. ASSUME NEW n \in 0..Confirmations
      PROVE  [p EXCEPT !.count = n, !.week = week] \in PersistenceType
  BY DEF PersistenceType
<1>4. (IF p.count < Confirmations THEN p.count + 1 ELSE p.count) \in 0..Confirmations
  BY Constants DEF PersistenceType
<1> QED  BY <1>1, <1>2, <1>3, <1>4 DEF ResolvePersistence

\* Resolving a shadow session gives a session, opened with real settings.
LEMMA SessionTyped ==
  ASSUME NEW s \in SessionType, NEW version \in Versions, NEW base \in Params,
         NEW cand \in ParamsOrNone, NEW sid \in Ids
  PROVE  ResolveSession(s, version, base, cand, sid) \in SessionType
<1>1. ASSUME s.status = "validating"
      PROVE  [s EXCEPT !.status = "stopped"] \in SessionType
  BY <1>1 DEF SessionType, OpenedSession, NoSession
<1>2. ASSUME cand \in Params
      PROVE  [status |-> "validating", sid |-> sid, version |-> version, base |-> base,
              cand |-> cand, done |-> {}, open |-> {}] \in SessionType
  BY <1>2 DEF SessionType, OpenedSession
<1> QED  BY <1>1, <1>2 DEF ResolveSession

\* One cycle of paired observations stays within the target weeks.
LEMMA CycleTyped ==
  ASSUME NEW obs, obs.done \in SUBSET Targets, obs.open \in SUBSET Targets,
         NEW week \in Weeks
  PROVE  /\ FillActuals(obs, week) \in SUBSET Targets
         /\ IssueNext(obs, week) \in SUBSET Targets
BY Constants DEF FillActuals, IssueNext, Targets, Weeks

\* Recording a cycle of a shadow session gives a session.
LEMMA RecordSessionTyped ==
  ASSUME NEW s \in SessionType, NEW week \in Weeks, NEW better \in BOOLEAN
  PROVE  RecordSession(s, week, better) \in SessionType
<1>1. s.done \in SUBSET Targets /\ s.open \in SUBSET Targets
  BY DEF SessionType, OpenedSession, NoSession
<1>2. /\ FillActuals(s, week) \in SUBSET Targets
      /\ IssueNext(s, week) \in SUBSET Targets
  BY <1>1, CycleTyped
<1> DEFINE done == FillActuals(s, week)
           status == IF Cardinality(done) < Required THEN "validating"
                     ELSE IF better THEN "reviewable" ELSE "failed"
<1>3. CASE s.status # "validating"
  BY <1>3 DEF RecordSession
<1>4. CASE s.status = "validating"
  <2>1. RecordSession(s, week, better) =
          [s EXCEPT !.done = done, !.open = IssueNext(s, week), !.status = status]
    BY <1>4 DEF RecordSession
  <2>2. status \in {"validating", "reviewable", "failed", "stopped"}
    OBVIOUS
  <2> HIDE DEF done, status
  <2>3. done \in SUBSET Targets
    BY <1>2 DEF done
  <2>4. s \in OpenedSession
    BY <1>4 DEF SessionType, OpenedSession, NoSession
  <2>5. RecordSession(s, week, better) \in OpenedSession
    BY <1>2, <2>1, <2>2, <2>3, <2>4 DEF OpenedSession
  <2> QED  BY <2>5 DEF SessionType
<1> QED  BY <1>3, <1>4

\* Resolving the monitoring gives a monitoring, or none before and after.
LEMMA MonitoringTyped ==
  ASSUME NEW m \in MonitoringType, NEW row \in RowType \union {NoTransition},
         NEW tid \in Rows, NEW current \in Params, NEW version \in Versions
  PROVE  ResolveMonitoring(m, row, tid, current, version) \in MonitoringType
<1>1. ASSUME m.status # "none", NEW status \in {"rolled_back", "stopped"}
      PROVE  [m EXCEPT !.status = status] \in MonitoringType
  BY <1>1 DEF MonitoringType, StartedMonitoring, NoMonitoring
<1>2. ASSUME row.kind = "shadow"
      PROVE  [status |-> "monitoring", source |-> tid, version |-> version,
              cur |-> row.cand, roll |-> row.base, done |-> {}, open |-> {}]
                \in MonitoringType
  BY <1>2 DEF MonitoringType, StartedMonitoring, ActiveStatuses, RowType, NoTransition
<1> QED  BY <1>1, <1>2 DEF ResolveMonitoring, MonitoringActive, ActiveStatuses

\* Recording a cycle of the monitoring gives a monitoring.
LEMMA RecordMonitoringTyped ==
  ASSUME NEW m \in MonitoringType, NEW week \in Weeks, NEW worse \in BOOLEAN
  PROVE  RecordMonitoring(m, week, worse) \in MonitoringType
<1> DEFINE filled == FillActuals(m, week)
           m2     == [m EXCEPT !.done = filled]
           kept   == NewestOf(filled, KeptSamples)
<1>1. m.done \in SUBSET Targets /\ m.open \in SUBSET Targets
  BY DEF MonitoringType, StartedMonitoring, NoMonitoring
<1>2. filled \in SUBSET Targets
  BY <1>1, CycleTyped
<1>3. m2.done \in SUBSET Targets /\ m2.open \in SUBSET Targets
  BY <1>1, <1>2 DEF MonitoringType, StartedMonitoring, NoMonitoring
<1>4. IssueNext(m2, week) \in SUBSET Targets
  BY <1>3, CycleTyped
<1>5. kept \in SUBSET Targets
  BY <1>2 DEF NewestOf
<1> DEFINE status == IF Cardinality(kept) < Required THEN "monitoring"
                     ELSE IF filled = m.done THEN m.status
                     ELSE IF worse THEN "rollback_reviewable" ELSE "stable"
<1>6. CASE ~MonitoringActive(m)
  BY <1>6 DEF RecordMonitoring
<1>7. CASE MonitoringActive(m)
  <2>1. RecordMonitoring(m, week, worse) =
          [m EXCEPT !.done = kept, !.open = IssueNext(m2, week), !.status = status]
    BY <1>7 DEF RecordMonitoring
  <2>2. status \in ActiveStatuses
    BY <1>7 DEF MonitoringActive, ActiveStatuses
  <2> HIDE DEF filled, m2, kept, status
  <2>3. m \in StartedMonitoring
    BY <1>7 DEF MonitoringType, StartedMonitoring, NoMonitoring, MonitoringActive, ActiveStatuses
  <2>4. RecordMonitoring(m, week, worse) \in StartedMonitoring
    BY <1>4, <1>5, <2>1, <2>2, <2>3 DEF StartedMonitoring
  <2> QED  BY <2>4 DEF MonitoringType
<1> QED  BY <1>6, <1>7

-----------------------------------------------------------------------------
(* The state keeps its types.                                              *)

\* The state before any run (resolveForecastModelState of null) is a run.
LEMMA FirstRunTyped == FirstRun \in RunType
BY Constants DEF FirstRun, RunType, NoPersistence, PersistenceType, NoSession,
   SessionType, NoMonitoring, MonitoringType

\* The run a pipeline builds is a run, whatever it has read and chosen.
LEMMA BuildRunTyped ==
  ASSUME TypeOK, NEW sid \in Ids, NEW prev \in RunType,
         NEW tid \in DOMAIN transitions \union {0}, NEW selected \in Params,
         NEW cand \in ParamsOrNone, NEW better \in BOOLEAN, NEW worse \in BOOLEAN
  PROVE  BuildRun(sid, prev, tid, selected, cand, better, worse) \in RunType
<1> DEFINE applied     == IF tid = 0 THEN NoTransition ELSE transitions[tid]
           version     == ver["worker"]
           effective   == IF tid = 0 THEN prev.params ELSE applied.cand
           monitoring  == ResolveMonitoring(prev.monitoring, applied, tid, selected, version)
           persistence == ResolvePersistence(prev.persistence, cand, version, confirmed)
           entry       == IF EntryConfirmed(persistence, cand, version) THEN cand ELSE NoParams
           session     == ResolveSession(prev.session, version, selected, entry, sid)
<1>1. version \in Versions /\ confirmed \in Weeks /\ now \in Weeks
  BY Constants DEF TypeOK, Groups
<1>2. tid \in Rows /\ applied \in RowType \union {NoTransition}
  BY Constants DEF TypeOK
<1>3. /\ prev.monitoring \in MonitoringType /\ prev.session \in SessionType
      /\ prev.persistence \in PersistenceType /\ prev.promotedAt \in Weeks \union {Never}
  BY DEF RunType
<1>4. monitoring \in MonitoringType
  BY <1>1, <1>2, <1>3, MonitoringTyped
<1>5. persistence \in PersistenceType
  BY <1>1, <1>3, PersistenceTyped
<1>6. session \in SessionType
  BY <1>1, <1>3, SessionTyped
<1>7. RecordSession(session, confirmed, better) \in SessionType
  BY <1>1, <1>6, RecordSessionTyped
<1>8. RecordMonitoring(monitoring, confirmed, worse) \in MonitoringType
  BY <1>1, <1>4, RecordMonitoringTyped
<1>9. BuildRun(sid, prev, tid, selected, cand, better, worse) =
        [params |-> selected,
         promotedAt |-> IF tid # 0 \/ selected # effective THEN now ELSE prev.promotedAt,
         version |-> version, applied |-> tid, promoted |-> selected # effective,
         persistence |-> persistence,
         session |-> RecordSession(session, confirmed, better),
         monitoring |-> RecordMonitoring(monitoring, confirmed, worse)]
  BY DEF BuildRun
<1> HIDE DEF applied, version, effective, monitoring, persistence, entry, session
<1> QED  BY <1>1, <1>2, <1>3, <1>5, <1>7, <1>8, <1>9 DEF RunType

\* A change of the status keeps a row a row, and the rows a sequence.
LEMMA StatusTyped ==
  ASSUME TypeOK, NEW i \in DOMAIN transitions, NEW status \in {"applied", "cancelled"}
  PROVE  LET new == [transitions EXCEPT ![i].status = status]
         IN  /\ new \in Seq(RowType) /\ Len(new) = Len(transitions)
             /\ DOMAIN new = DOMAIN transitions
<1>1. transitions \in Seq(RowType) /\ transitions[i] \in RowType
  BY DEF TypeOK
<1>2. [transitions[i] EXCEPT !.status = status] \in RowType
  BY <1>1 DEF RowType
<1> QED  BY <1>1, <1>2

\* Every step of a pipeline keeps the types.
LEMMA PipelineTyped ==
  ASSUME TypeOK, NEW r \in Runners, Pipeline(r)
  PROVE  TypeOK'
<1> DEFINE PipeState == [pc : {"idle", "run", "pending"}, prev : RunType, pending : Rows]
<1>1. pipe[r] \in PipeState /\ pipe \in [Runners -> PipeState]
  BY DEF TypeOK
<1>2. IdlePipe \in PipeState /\ IdlePipe.pending = 0
  BY FirstRunTyped, Constants DEF IdlePipe
<1>3. CASE PipeBegin(r)
  <2>1. [pc |-> "run", prev |-> latest, pending |-> 0] \in PipeState
    BY Constants DEF TypeOK
  <2>2. lane' \in LaneRunners \union {NoRunner}
    BY <1>3 DEF PipeBegin, TypeOK
  <2> QED  BY <1>1, <1>3, <2>1, <2>2 DEF PipeBegin, TypeOK
<1>4. CASE PipeReadPending(r)
  <2>1. (IF PendingRows = {} THEN 0 ELSE CHOOSE i \in PendingRows : TRUE)
          \in DOMAIN transitions \union {0}
    BY DEF PendingRows
  <2>2. DOMAIN transitions \union {0} \subseteq Rows
    BY Constants DEF TypeOK
  <2> QED  BY <1>1, <1>4, <2>1, <2>2 DEF PipeReadPending, TypeOK
<1>5. CASE PipeCommit(r)
  <2> DEFINE row == pipe[r].pending
             tid == IF Decision(r) = "apply" THEN row ELSE 0
             eff == IF tid = 0 THEN pipe[r].prev.params ELSE transitions[tid].cand
             at  == IF tid = 0 THEN pipe[r].prev.promotedAt ELSE now
             sid == CHOOSE i \in SessionIds \ UsedIds : TRUE
  <2>1. row \in DOMAIN transitions \union {0} /\ pipe[r].prev \in RunType
    BY <1>1 DEF TypeOK
  <2>2. sid \in Ids
    BY <1>5 DEF PipeCommit
  <2>3. eff \in Params
    <3>1. tid \in DOMAIN transitions => transitions[tid] \in RowType
      BY DEF TypeOK
    <3>2. pipe[r].prev.params \in Params
      BY <2>1 DEF RunType
    <3> QED  BY <2>1, <3>1, <3>2 DEF RowType
  <2>4. latest' \in RunType
    <3>1. PICK selected \in Selections(eff, at), better \in BOOLEAN, worse \in BOOLEAN :
            \E cand \in TrackedCandidates(RowAt(tid),
                          ResolveMonitoring(pipe[r].prev.monitoring, RowAt(tid), tid,
                                            selected, ver["worker"]), selected) :
              latest' = BuildRun(sid, pipe[r].prev, tid, selected, cand, better, worse)
      BY <1>5 DEF PipeCommit
    <3>2. PICK cand \in ParamsOrNone :
            latest' = BuildRun(sid, pipe[r].prev, tid, selected, cand, better, worse)
      BY <3>1 DEF TrackedCandidates
    <3>3. selected \in Params
      BY <2>3, Constants DEF Selections
    <3>4. tid \in DOMAIN transitions \union {0}
      BY <2>1
    <3> QED  BY <2>1, <2>2, <3>2, <3>3, <3>4, BuildRunTyped
  <2>5. Decision(r) \in {"apply", "cancel", "skip"} /\ (row = 0 => Decision(r) = "skip")
    BY DEF Decision, ResolvePending
  <2>6. /\ transitions' \in Seq(RowType) /\ Len(transitions') = Len(transitions)
        /\ DOMAIN transitions' = DOMAIN transitions
    <3>1. CASE Decision(r) = "skip"
      BY <1>5, <3>1 DEF PipeCommit, TypeOK
    <3>2. CASE Decision(r) = "apply"
      <4>1. row \in DOMAIN transitions
        BY <2>1, <2>5, <3>2
      <4>2. transitions' = [transitions EXCEPT ![row].status = "applied"]
        BY <1>5, <3>2 DEF PipeCommit
      <4> QED  BY <4>1, <4>2, StatusTyped
    <3>3. CASE Decision(r) = "cancel"
      <4>1. row \in DOMAIN transitions
        BY <2>1, <2>5, <3>3
      <4>2. transitions' = [transitions EXCEPT ![row].status = "cancelled"]
        BY <1>5, <3>3 DEF PipeCommit
      <4> QED  BY <4>1, <4>2, StatusTyped
    <3> QED  BY <2>5, <3>1, <3>2, <3>3
  <2>7. /\ pipe' = [pipe EXCEPT ![r] = IdlePipe]
        /\ lane' \in LaneRunners \union {NoRunner}
        /\ UNCHANGED <<admin, now, confirmed, ver>>
    BY <1>5 DEF PipeCommit, Release, TypeOK
  <2>8. /\ pipe' \in [Runners -> PipeState]
        /\ \A q \in Runners : pipe'[q].pending \in DOMAIN transitions' \union {0}
    BY <1>1, <1>2, <2>6, <2>7 DEF TypeOK
  <2> QED  BY <2>4, <2>6, <2>7, <2>8 DEF TypeOK
<1>6. CASE PipeFail(r)
  <2>1. lane' \in LaneRunners \union {NoRunner}
    BY <1>6 DEF PipeFail, Release, TypeOK
  <2> QED  BY <1>1, <1>2, <1>6, <2>1 DEF PipeFail, TypeOK
<1> QED  BY <1>3, <1>4, <1>5, <1>6 DEF Pipeline

\* Every step of an admin request keeps the types.
LEMMA RequestTyped ==
  ASSUME TypeOK, NEW a \in Admins, Request(a)
  PROVE  TypeOK'
<1> DEFINE AdminState == [pc : {"idle", "source", "pending", "insert"},
                          kind : {"none", "shadow", "rollback"},
                          run : RunType]
<1>1. admin \in [Admins -> AdminState] /\ admin[a] \in AdminState
  BY DEF TypeOK
<1>2. IdleAdmin \in AdminState /\ IdleAdmin.pc = "idle"
  BY FirstRunTyped DEF IdleAdmin
<1>3. CASE ApproveReadRun(a)
  BY <1>1, <1>3 DEF ApproveReadRun, TypeOK
<1>4. CASE RollbackReadRun(a)
  BY <1>1, <1>4 DEF RollbackReadRun, TypeOK
<1>5. CASE RollbackReadSource(a)
  <2>1. [admin[a] EXCEPT !.pc = "pending"] \in AdminState
    BY <1>1
  <2> QED  BY <1>1, <1>2, <1>5, <2>1 DEF RollbackReadSource, TypeOK
<1>6. CASE AdminEvaluate(a)
  <2>1. [admin[a] EXCEPT !.pc = "insert"] \in AdminState
    BY <1>1
  <2> QED  BY <1>1, <1>2, <1>6, <2>1 DEF AdminEvaluate, TypeOK
<1>7. CASE AdminInsert(a)
  <2>1. admin' \in [Admins -> AdminState]
    BY <1>1, <1>2, <1>7 DEF AdminInsert
  <2>2. ApprovedRow(a) \in RowType
    <3>1. admin[a].run.session \in SessionType /\ admin[a].run.monitoring \in MonitoringType
      BY <1>1 DEF RunType
    <3>2. ver["web"] \in Versions
      BY Constants DEF TypeOK, Groups
    <3>3. CASE admin[a].kind = "shadow"
      <4>1. admin[a].run.session.status # "none"
        BY <1>7, <3>3 DEF AdminInsert, TypeOK
      <4> QED  BY <3>1, <3>2, <3>3, <4>1, Constants
               DEF ApprovedRow, RowType, SessionType, OpenedSession, NoSession
    <3>4. CASE admin[a].kind # "shadow"
      <4>1. admin[a].run.monitoring.status # "none"
        BY <1>7, <3>4 DEF AdminInsert, TypeOK
      <4> QED  BY <3>1, <3>2, <3>4, <4>1, Constants
               DEF ApprovedRow, RowType, MonitoringType, StartedMonitoring, NoMonitoring
    <3> QED  BY <3>3, <3>4
  <2>3. transitions' \in Seq(RowType) /\ Len(transitions') <= MaxTransitions
        /\ DOMAIN transitions \subseteq DOMAIN transitions'
    <3>1. transitions \in Seq(RowType) /\ Len(transitions) <= MaxTransitions
      BY DEF TypeOK
    <3>2. CASE UNCHANGED transitions
      BY <3>1, <3>2
    <3>3. CASE Len(transitions) < MaxTransitions
               /\ transitions' = Append(transitions, ApprovedRow(a))
      BY <3>1, <3>3, <2>2, Constants
    <3> QED  BY <1>7, <3>2, <3>3 DEF AdminInsert
  <2>4. UNCHANGED <<latest, pipe, lane, now, confirmed, ver>>
    BY <1>7 DEF AdminInsert
  <2>5. \A b \in Admins : admin'[b].pc # "idle" => b # a /\ admin'[b] = admin[b]
    BY <1>1, <1>7 DEF AdminInsert, IdleAdmin
  <2> QED  BY <2>1, <2>3, <2>4, <2>5 DEF TypeOK
<1>8. CASE AdminCancel(a)
  <2>1. \A i \in DOMAIN transitions :
          [transitions[i] EXCEPT !.status = "cancelled"] \in RowType /\ transitions[i] \in RowType
    <3> SUFFICES ASSUME NEW i \in DOMAIN transitions
                 PROVE  /\ [transitions[i] EXCEPT !.status = "cancelled"] \in RowType
                        /\ transitions[i] \in RowType
      OBVIOUS
    <3>1. transitions[i] \in RowType
      BY DEF TypeOK
    <3> QED  BY <3>1 DEF RowType
  <2>2. transitions' \in Seq(RowType) /\ Len(transitions') = Len(transitions)
        /\ DOMAIN transitions' = DOMAIN transitions
    <3>1. transitions \in Seq(RowType) /\ DOMAIN transitions = 1..Len(transitions)
          /\ Len(transitions) \in Nat
      BY DEF TypeOK
    <3>2. transitions' \in [1..Len(transitions) -> RowType]
      BY <1>8, <2>1, <3>1 DEF AdminCancel
    <3> QED  BY <3>1, <3>2, SeqDef
  <2>3. \A b \in Admins : admin'[b].pc # "idle" => b # a /\ admin'[b] = admin[b]
    BY <1>1, <1>8 DEF AdminCancel, IdleAdmin
  <2>4. admin' \in [Admins -> AdminState] /\ UNCHANGED <<latest, pipe, lane, now, confirmed, ver>>
    BY <1>1, <1>2, <1>8 DEF AdminCancel
  <2> QED  BY <2>2, <2>3, <2>4 DEF TypeOK
<1>9. CASE AdminFail(a)
  BY <1>1, <1>2, <1>9 DEF AdminFail, TypeOK
<1> QED  BY <1>3, <1>4, <1>5, <1>6, <1>7, <1>8, <1>9 DEF Request

\* The initial states have the types.
LEMMA InitTyped ==
  ASSUME Init
  PROVE  TypeOK
<1>1. IdlePipe \in [pc : {"idle", "run", "pending"}, prev : RunType, pending : Rows]
      /\ IdlePipe.pending = 0
  BY FirstRunTyped, Constants DEF IdlePipe
<1>2. IdleAdmin \in [pc : {"idle", "source", "pending", "insert"},
                     kind : {"none", "shadow", "rollback"}, run : RunType]
      /\ IdleAdmin.pc = "idle"
  BY FirstRunTyped DEF IdleAdmin
<1>3. transitions \in Seq(RowType) /\ Len(transitions) <= MaxTransitions
  BY Constants DEF Init
<1> QED  BY <1>1, <1>2, <1>3, FirstRunTyped, Constants DEF Init, TypeOK, Weeks

\* Every step of the system keeps the types.
LEMMA NextTyped ==
  ASSUME TypeOK, [Next]_vars
  PROVE  TypeOK'
<1>1. CASE \E r \in Runners : Pipeline(r)
  BY <1>1, PipelineTyped
<1>2. CASE \E a \in Admins : Request(a)
  BY <1>2, RequestTyped
<1>3. CASE LaneExpire
  BY <1>3 DEF LaneExpire, TypeOK
<1>4. CASE WeekPasses
  <2>1. now' \in Weeks /\ confirmed' \in Weeks
    BY <1>4, Constants DEF WeekPasses, TypeOK, Weeks
  <2> QED  BY <1>4, <2>1 DEF WeekPasses, TypeOK
<1>5. CASE \E g \in Groups : Deploy(g)
  <2>1. PICK g \in Groups : Deploy(g)
    BY <1>5
  <2>2. ver' \in [Groups -> 1..MaxVersion]
    BY <2>1, Constants DEF Deploy, TypeOK
  <2> QED  BY <2>1, <2>2 DEF Deploy, TypeOK
<1>6. CASE UNCHANGED vars
  BY <1>6 DEF vars, TypeOK
<1> QED  BY <1>1, <1>2, <1>3, <1>4, <1>5, <1>6 DEF Next

\* Every variable keeps its type, and no request ever decides about a shadow
\* session or a monitoring that its run does not have: the approve and the
\* rollback route never insert a row without parameters.
THEOREM TypesHold == Spec => []TypeOK
<1>1. Init => TypeOK
  BY InitTyped
<1>2. TypeOK /\ [Next]_vars => TypeOK'
  BY NextTyped
<1> QED  BY <1>1, <1>2, PTL DEF Spec

-----------------------------------------------------------------------------
(* A validating shadow session compares with the setting of its own run,   *)
(* however many pipelines run at once: the run a pipeline builds is sound  *)
(* if the run it has read is, and pipelines only read committed runs.      *)

SessionSound(run) ==
  run.session.status = "validating" =>
    /\ run.session.base = run.params
    /\ run.session.version = run.version
    /\ run.session.cand # run.params

SessionInv == SessionSound(latest) /\ \A r \in Runners : SessionSound(pipe[r].prev)

\* A session that is validating in the run a pipeline builds compares with
\* the setting and the version of that run, whatever the run has read.
LEMMA BuildRunSessionSound ==
  ASSUME NEW sid, NEW prev, NEW tid, NEW selected, NEW cand, NEW better, NEW worse,
         SessionSound(prev)
  PROVE  SessionSound(BuildRun(sid, prev, tid, selected, cand, better, worse))
<1> DEFINE version     == ver["worker"]
           persistence == ResolvePersistence(prev.persistence, cand, version, confirmed)
           entry       == IF EntryConfirmed(persistence, cand, version) THEN cand ELSE NoParams
           session     == ResolveSession(prev.session, version, selected, entry, sid)
           recorded    == RecordSession(session, confirmed, better)
           run         == BuildRun(sid, prev, tid, selected, cand, better, worse)
<1>1. run.session = recorded /\ run.params = selected /\ run.version = version
  BY DEF BuildRun
<1> HIDE DEF version, persistence, entry, run
<1>2. recorded.status = "validating" => session.status = "validating"
  BY DEF RecordSession
<1>3. session.status = "validating" =>
        /\ recorded.base = session.base
        /\ recorded.version = session.version
        /\ recorded.cand = session.cand
  BY DEF RecordSession, ResolveSession
<1>4. session.status = "validating" =>
        session.base = selected /\ session.version = version /\ session.cand # selected
  BY DEF ResolveSession, SessionSound
<1> HIDE DEF session, recorded
<1> QED  BY <1>1, <1>2, <1>3, <1>4 DEF SessionSound, run

\* A commit writes a run built from what its pipeline read.
LEMMA CommitBuilds ==
  ASSUME NEW r \in Runners, PipeCommit(r)
  PROVE  \E sid, tid, selected, cand, better, worse :
           latest' = BuildRun(sid, pipe[r].prev, tid, selected, cand, better, worse)
BY DEF PipeCommit

\* Every step keeps the session of the latest run on its setting.
LEMMA SessionStep ==
  ASSUME TypeOK, SessionInv, [Next]_vars
  PROVE  SessionInv'
<1>0. pipe \in [Runners -> [pc : {"idle", "run", "pending"}, prev : RunType, pending : Rows]]
  BY DEF TypeOK
<1>1. SessionSound(IdlePipe.prev)
  BY DEF SessionSound, IdlePipe, FirstRun, NoSession
<1>2. ASSUME NEW r \in Runners, Pipeline(r)
      PROVE  SessionInv'
  <2>1. CASE PipeBegin(r)
    <3>1. latest' = latest /\ \A q \in Runners : pipe'[q].prev \in {latest, pipe[q].prev}
      BY <1>0, <2>1 DEF PipeBegin
    <3> QED  BY <3>1 DEF SessionInv, SessionSound
  <2>2. CASE PipeReadPending(r)
    <3>1. latest' = latest /\ \A q \in Runners : pipe'[q].prev = pipe[q].prev
      BY <1>0, <2>2 DEF PipeReadPending
    <3> QED  BY <3>1 DEF SessionInv, SessionSound
  <2>3. CASE PipeCommit(r)
    <3>1. SessionSound(latest')
      <4>1. SessionSound(pipe[r].prev)
        BY DEF SessionInv
      <4>2. PICK sid, tid, selected, cand, better, worse :
              latest' = BuildRun(sid, pipe[r].prev, tid, selected, cand, better, worse)
        BY <2>3, CommitBuilds
      <4> QED  BY <4>1, <4>2, BuildRunSessionSound
    <3>2. \A q \in Runners : pipe'[q].prev \in {IdlePipe.prev, pipe[q].prev}
      BY <1>0, <2>3 DEF PipeCommit
    <3> QED  BY <1>1, <3>1, <3>2 DEF SessionInv, SessionSound
  <2>4. CASE PipeFail(r)
    <3>1. latest' = latest /\ \A q \in Runners : pipe'[q].prev \in {IdlePipe.prev, pipe[q].prev}
      BY <1>0, <2>4 DEF PipeFail
    <3> QED  BY <1>1, <3>1 DEF SessionInv, SessionSound
  <2> QED  BY <1>2, <2>1, <2>2, <2>3, <2>4 DEF Pipeline
<1>3. CASE UNCHANGED <<latest, pipe>>
  BY <1>3 DEF SessionInv, SessionSound
<1>4. (\E a \in Admins : Request(a)) \/ LaneExpire \/ WeekPasses
        \/ (\E g \in Groups : Deploy(g)) \/ UNCHANGED vars
        => UNCHANGED <<latest, pipe>>
  BY DEF Request, ApproveReadRun, RollbackReadRun, RollbackReadSource, AdminEvaluate,
         AdminInsert, AdminCancel, AdminFail, LaneExpire, WeekPasses, Deploy, vars
<1> QED  BY <1>2, <1>3, <1>4 DEF Next

\* A shadow session that is validating compares with the operating setting
\* and the model version of the run that carries it, with any number of
\* pipelines in or beside the lane, whichever of them overwrites the other.
THEOREM SessionsFollowSetting == Spec => []SessionFollowsSetting
<1>1. Init => SessionInv
  BY DEF Init, SessionInv, SessionSound, IdlePipe, FirstRun, NoSession
<1>2. TypeOK /\ SessionInv /\ [Next]_vars => SessionInv'
  BY SessionStep
<1>3. SessionInv => SessionFollowsSetting
  BY DEF SessionInv, SessionSound, SessionFollowsSetting
<1> QED  BY <1>1, <1>2, <1>3, TypesHold, PTL DEF Spec

-----------------------------------------------------------------------------
(* Pipelines of the lane alone, under a lane that does not expire or that  *)
(* one task uses only: the pipeline that runs has read the latest run, and *)
(* a change that nobody applied.                                           *)

OneRunner == \A q, r \in Runners : q = r

LaneOnly == FreeRunners = {} /\ (LaneExpires => OneRunner)

SerialInv ==
  /\ \A r \in Runners : pipe[r].pc # "idle" =>
       (lane = r \/ OneRunner) /\ pipe[r].prev = latest
  /\ \A r \in Runners : pipe[r].pending # 0 =>
       pipe[r].pc = "pending" /\ transitions[pipe[r].pending].status # "applied"

\* What the commit of a pipeline does, with its choices named.
LEMMA CommitShape ==
  ASSUME TypeOK, NEW r \in Runners, PipeCommit(r)
  PROVE  LET prev == pipe[r].prev
             tid  == IF Decision(r) = "apply" THEN pipe[r].pending ELSE 0
             eff  == IF tid = 0 THEN prev.params ELSE transitions[tid].cand
             at   == IF tid = 0 THEN prev.promotedAt ELSE now
         IN  \E sid \in Ids, selected \in Selections(eff, at), cand \in ParamsOrNone,
                better \in BOOLEAN, worse \in BOOLEAN :
               latest' = BuildRun(sid, prev, tid, selected, cand, better, worse)
<1> DEFINE tid == IF Decision(r) = "apply" THEN pipe[r].pending ELSE 0
           eff == IF tid = 0 THEN pipe[r].prev.params ELSE transitions[tid].cand
           at  == IF tid = 0 THEN pipe[r].prev.promotedAt ELSE now
           sid == CHOOSE i \in SessionIds \ UsedIds : TRUE
<1>1. sid \in Ids
  BY DEF PipeCommit
<1>2. PICK selected \in Selections(eff, at), better \in BOOLEAN, worse \in BOOLEAN :
        \E cand \in TrackedCandidates(RowAt(tid),
                      ResolveMonitoring(pipe[r].prev.monitoring, RowAt(tid), tid,
                                        selected, ver["worker"]), selected) :
          latest' = BuildRun(sid, pipe[r].prev, tid, selected, cand, better, worse)
  BY DEF PipeCommit
<1>3. PICK cand \in ParamsOrNone :
        latest' = BuildRun(sid, pipe[r].prev, tid, selected, cand, better, worse)
  BY <1>2 DEF TrackedCandidates
<1> HIDE DEF tid, eff, at, sid
<1>4. \E s \in Ids, t \in Selections(eff, at), c \in ParamsOrNone, x \in BOOLEAN, y \in BOOLEAN :
        latest' = BuildRun(s, pipe[r].prev, tid, t, c, x, y)
  BY <1>1, <1>2, <1>3
<1> QED  BY <1>4 DEF tid, eff, at

\* The row a pipeline decides about, and what the commit makes of it.
LEMMA CommitRows ==
  ASSUME TypeOK, NEW r \in Runners, PipeCommit(r)
  PROVE  LET row == pipe[r].pending
         IN  /\ Decision(r) = "skip" => row = 0 /\ transitions' = transitions
             /\ Decision(r) \in {"apply", "cancel", "skip"}
             /\ Decision(r) # "skip" => row \in DOMAIN transitions
             /\ Decision(r) = "apply" =>
                  /\ transitions' = [transitions EXCEPT ![row].status = "applied"]
                  /\ transitions[row].base = pipe[r].prev.params
                  /\ transitions[row].version = ver["worker"]
             /\ Decision(r) = "cancel" =>
                  transitions' = [transitions EXCEPT ![row].status = "cancelled"]
<1> DEFINE row == pipe[r].pending
<1>1. row \in DOMAIN transitions \union {0} /\ 0 \notin DOMAIN transitions
  BY DEF TypeOK
<1>2. row = 0 => Decision(r) = "skip"
  BY DEF Decision
<1>3. ASSUME row # 0
      PROVE  /\ Decision(r) \in {"apply", "cancel"}
             /\ Decision(r) = "apply" => /\ transitions[row].base = pipe[r].prev.params
                                         /\ transitions[row].version = ver["worker"]
  <2> DEFINE t == [transitions[row] EXCEPT !.status = "approved_pending"]
  <2>1. transitions[row] \in RowType
    BY <1>1, <1>3 DEF TypeOK
  <2>2. /\ t.status = "approved_pending"
        /\ t.base = transitions[row].base /\ t.version = transitions[row].version
    BY <2>1 DEF RowType
  <2>3. Decision(r) = ResolvePending(t, pipe[r].prev.params, ver["worker"])
    BY <1>3 DEF Decision
  <2> HIDE DEF t
  <2> QED  BY <2>2, <2>3 DEF ResolvePending
<1>4. /\ Decision(r) = "apply" => transitions' = [transitions EXCEPT ![row].status = "applied"]
      /\ Decision(r) = "cancel" => transitions' = [transitions EXCEPT ![row].status = "cancelled"]
      /\ Decision(r) = "skip" => transitions' = transitions
  BY DEF PipeCommit
<1> QED  BY <1>1, <1>2, <1>3, <1>4

SameButStatus(new, old) ==
  /\ new.kind = old.kind /\ new.sid = old.sid /\ new.parent = old.parent
  /\ new.version = old.version /\ new.base = old.base /\ new.cand = old.cand

\* Rows keep their place and their contents beside the status, and a row
\* that is not pending keeps that too unless a pipeline has read it.
LEMMA RowsKept ==
  ASSUME TypeOK, [Next]_vars, NEW i \in DOMAIN transitions
  PROVE  /\ i \in DOMAIN transitions'
         /\ SameButStatus(transitions'[i], transitions[i])
         /\ \/ transitions'[i] = transitions[i]
            \/ i \in PendingRows
            \/ \E r \in Runners : PipeCommit(r) /\ pipe[r].pending = i
<1>1. transitions \in Seq(RowType) /\ transitions[i] \in RowType
  BY DEF TypeOK
<1>2. ASSUME NEW status
      PROVE  SameButStatus([transitions[i] EXCEPT !.status = status], transitions[i])
  BY <1>1 DEF RowType, SameButStatus
<1>3. SameButStatus(transitions[i], transitions[i])
  BY DEF SameButStatus
<1>4. CASE UNCHANGED transitions
  BY <1>3, <1>4
<1>5. CASE \E a \in Admins : AdminInsert(a)
  <2>1. PICK a \in Admins : AdminInsert(a)
    BY <1>5
  <2>2. transitions' = transitions \/ transitions' = Append(transitions, ApprovedRow(a))
    BY <2>1 DEF AdminInsert
  <2>3. i \in DOMAIN transitions' /\ transitions'[i] = transitions[i]
    BY <1>1, <2>2
  <2> QED  BY <1>3, <2>3
<1>6. CASE \E a \in Admins : AdminCancel(a)
  <2>1. /\ i \in DOMAIN transitions'
        /\ transitions'[i] = IF i \in PendingRows
                               THEN [transitions[i] EXCEPT !.status = "cancelled"]
                               ELSE transitions[i]
    BY <1>6 DEF AdminCancel
  <2>2. CASE i \in PendingRows
    <3>1. transitions'[i] = [transitions[i] EXCEPT !.status = "cancelled"]
      BY <2>1, <2>2
    <3> QED  BY <1>2, <2>1, <2>2, <3>1
  <2>3. CASE i \notin PendingRows
    BY <1>3, <2>1, <2>3
  <2> QED  BY <2>2, <2>3
<1>7. CASE \E r \in Runners : PipeCommit(r)
  <2>1. PICK r \in Runners : PipeCommit(r)
    BY <1>7
  <2> DEFINE row == pipe[r].pending
  <2>2. ASSUME NEW status, row \in DOMAIN transitions,
               transitions' = [transitions EXCEPT ![row].status = status]
        PROVE  /\ i \in DOMAIN transitions'
               /\ SameButStatus(transitions'[i], transitions[i])
               /\ transitions'[i] = transitions[i] \/ row = i
    <3>1. DOMAIN transitions' = DOMAIN transitions
      BY <2>2
    <3>2. CASE row = i
      <4>1. transitions'[i] = [transitions[i] EXCEPT !.status = status]
        BY <2>2, <3>2
      <4> QED  BY <1>2, <3>1, <3>2, <4>1
    <3>3. CASE row # i
      BY <1>3, <2>2, <3>1, <3>3
    <3> QED  BY <3>2, <3>3
  <2>3. CASE Decision(r) = "apply"
    BY <2>1, <2>2, <2>3, CommitRows
  <2>4. CASE Decision(r) = "cancel"
    BY <2>1, <2>2, <2>4, CommitRows
  <2>5. CASE Decision(r) = "skip"
    BY <1>4, <2>1, <2>5, CommitRows
  <2> QED  BY <2>1, <2>3, <2>4, <2>5, CommitRows
<1>8. \/ UNCHANGED transitions
      \/ \E a \in Admins : AdminInsert(a)
      \/ \E a \in Admins : AdminCancel(a)
      \/ \E r \in Runners : PipeCommit(r)
  BY DEF Next, Pipeline, Request, PipeBegin, PipeReadPending, PipeFail, ApproveReadRun,
         RollbackReadRun, RollbackReadSource, AdminEvaluate, AdminFail, LaneExpire,
         WeekPasses, Deploy, vars
<1> QED  BY <1>4, <1>5, <1>6, <1>7, <1>8

\* Only the commit of a pipeline creates a run.
LEMMA OnlyCommitWrites ==
  ASSUME [Next]_vars, latest' # latest
  PROVE  \E r \in Runners : PipeCommit(r)
BY DEF Next, Pipeline, Request, PipeBegin, PipeReadPending, PipeFail, ApproveReadRun,
       RollbackReadRun, RollbackReadSource, AdminEvaluate, AdminInsert, AdminCancel,
       AdminFail, LaneExpire, WeekPasses, Deploy, vars

\* The lane keeps the pipelines apart.
LEMMA SerialStep ==
  ASSUME LaneOnly, TypeOK, SerialInv, [Next]_vars
  PROVE  SerialInv'
<1>0. /\ pipe \in [Runners -> [pc : {"idle", "run", "pending"}, prev : RunType, pending : Rows]]
      /\ NoRunner \notin Runners /\ Runners = LaneRunners
  BY Constants DEF TypeOK, LaneOnly, Runners
<1>1. IdlePipe.pc = "idle" /\ IdlePipe.pending = 0
  BY DEF IdlePipe
<1>2. \A i \in DOMAIN transitions :
        (transitions[i].status # "applied" /\ ~\E r \in Runners : PipeCommit(r))
          => transitions'[i].status # "applied"
  <2> SUFFICES ASSUME NEW i \in DOMAIN transitions, transitions[i].status # "applied",
                      ~\E r \in Runners : PipeCommit(r)
               PROVE  transitions'[i].status # "applied"
    OBVIOUS
  <2>1. CASE transitions'[i] = transitions[i]
    BY <2>1
  <2>2. CASE transitions'[i] # transitions[i]
    <3>1. i \in PendingRows /\ transitions' # transitions
      BY <2>2, RowsKept
    <3>2. transitions[i] \in RowType
      BY DEF TypeOK
    <3>3. PICK a \in Admins : AdminInsert(a) \/ AdminCancel(a)
      BY <3>1 DEF Next, Pipeline, Request, PipeBegin, PipeReadPending, PipeFail,
         ApproveReadRun, RollbackReadRun, RollbackReadSource, AdminEvaluate, AdminFail,
         LaneExpire, WeekPasses, Deploy, vars
    <3>4. ~AdminInsert(a)
      <4>1. AdminInsert(a) => \/ transitions' = transitions
                              \/ transitions' = Append(transitions, ApprovedRow(a))
        BY DEF AdminInsert
      <4>2. transitions \in Seq(RowType)
        BY DEF TypeOK
      <4>3. AdminInsert(a) => transitions'[i] = transitions[i]
        BY <4>1, <4>2
      <4> QED  BY <2>2, <4>3
    <3>5. transitions'[i] = [transitions[i] EXCEPT !.status = "cancelled"]
      BY <3>1, <3>3, <3>4 DEF AdminCancel
    <3> QED  BY <3>2, <3>5 DEF RowType
  <2> QED  BY <2>1, <2>2
<1>3. CASE \E r \in Runners : PipeCommit(r) \/ PipeFail(r)
  <2>1. PICK r \in Runners : PipeCommit(r) \/ PipeFail(r)
    BY <1>3
  <2>2. /\ pipe[r].pc # "idle" /\ pipe' = [pipe EXCEPT ![r] = IdlePipe]
    BY <2>1 DEF PipeCommit, PipeFail
  <2>3. \A q \in Runners : pipe'[q].pc = "idle" /\ pipe'[q].pending = 0
    BY <1>0, <1>1, <2>2 DEF SerialInv, OneRunner
  <2> QED  BY <2>3 DEF SerialInv
<1>4. ASSUME ~\E r \in Runners : PipeCommit(r) \/ PipeFail(r)
      PROVE  SerialInv'
  <2>1. latest' = latest
    BY <1>4, OnlyCommitWrites
  <2>2. ASSUME NEW i \in DOMAIN transitions, transitions[i].status # "applied"
        PROVE  transitions'[i].status # "applied"
    BY <1>2, <1>4, <2>2
  <2>3. \A q \in Runners : pipe[q].pending \in DOMAIN transitions \union {0}
    BY DEF TypeOK
  <2>4. CASE \E r \in Runners : PipeBegin(r)
    <3>1. PICK r \in Runners : PipeBegin(r)
      BY <2>4
    <3>2. \A q \in Runners : pipe[q].pc = "idle"
      BY <1>0, <3>1 DEF SerialInv, PipeBegin, OneRunner
    <3>3. lane' = r /\ transitions' = transitions
      BY <1>0, <3>1 DEF PipeBegin
    <3>4. \A q \in Runners : pipe'[q] = IF q = r THEN [pc |-> "run", prev |-> latest, pending |-> 0]
                                                ELSE pipe[q]
      BY <1>0, <3>1 DEF PipeBegin
    <3> QED  BY <2>1, <3>2, <3>3, <3>4 DEF SerialInv
  <2>5. CASE \E r \in Runners : PipeReadPending(r)
    <3>1. PICK r \in Runners : PipeReadPending(r)
      BY <2>5
    <3>2. lane' = lane /\ transitions' = transitions /\ pipe[r].pc = "run"
      BY <3>1 DEF PipeReadPending
    <3> DEFINE row == IF PendingRows = {} THEN 0 ELSE CHOOSE i \in PendingRows : TRUE
    <3>3. row # 0 => transitions[row].status # "applied"
      BY DEF PendingRows
    <3>4. \A q \in Runners :
            /\ pipe'[q].pc = IF q = r THEN "pending" ELSE pipe[q].pc
            /\ pipe'[q].prev = pipe[q].prev
            /\ pipe'[q].pending = IF q = r THEN row ELSE pipe[q].pending
      BY <1>0, <3>1 DEF PipeReadPending
    <3> HIDE DEF row
    <3> QED  BY <2>1, <3>2, <3>3, <3>4 DEF SerialInv
  <2>6. CASE UNCHANGED <<pipe, lane>>
    BY <2>1, <2>2, <2>3, <2>6 DEF SerialInv
  <2>7. CASE LaneExpire
    <3>1. OneRunner /\ UNCHANGED <<latest, transitions, pipe>>
      BY <2>7 DEF LaneOnly, LaneExpire
    <3> QED  BY <3>1 DEF SerialInv, OneRunner
  <2>8. \/ \E r \in Runners : PipeBegin(r) \/ PipeReadPending(r)
        \/ LaneExpire \/ UNCHANGED <<pipe, lane>>
    BY <1>4 DEF Next, Pipeline, Request, ApproveReadRun, RollbackReadRun,
       RollbackReadSource, AdminEvaluate, AdminInsert, AdminCancel, AdminFail,
       WeekPasses, Deploy, vars
  <2> QED  BY <2>4, <2>5, <2>6, <2>7, <2>8
<1> QED  BY <1>3, <1>4

\* Initially no pipeline runs.
LEMMA SerialInit ==
  ASSUME Init
  PROVE  SerialInv
BY DEF Init, SerialInv, IdlePipe

\* What a commit under the lane does to the setting: it keeps the setting
\* the run before had, promotes another one after the cooldown, or applies
\* the row it has read, which was made for exactly that setting.
LEMMA SettingStep ==
  ASSUME TypeOK, SerialInv, NEW r \in Runners, PipeCommit(r)
  PROVE  LET row == pipe[r].pending
         IN  /\ pipe[r].prev = latest
             /\ latest'.version = ver["worker"]
             /\ \/ /\ latest'.applied = 0
                   /\ Decision(r) # "apply"
                   /\ \/ /\ latest'.params = latest.params
                         /\ latest'.promotedAt = latest.promotedAt
                      \/ /\ latest'.params # latest.params
                         /\ latest'.promotedAt = now
                         /\ latest'.promoted
                         /\ CooldownElapsed(latest.promotedAt, now)
                \/ /\ latest'.applied = row
                   /\ Decision(r) = "apply"
                   /\ latest'.promotedAt = now
                   /\ row \in DOMAIN transitions
                   /\ transitions[row].base = latest.params
                   /\ transitions[row].version = ver["worker"]
                   /\ latest'.params = transitions[row].cand
<1> DEFINE row == pipe[r].pending
           tid == IF Decision(r) = "apply" THEN row ELSE 0
           eff == IF tid = 0 THEN pipe[r].prev.params ELSE transitions[tid].cand
           at  == IF tid = 0 THEN pipe[r].prev.promotedAt ELSE now
<1>1. pipe[r].prev = latest
  BY DEF SerialInv, PipeCommit
<1>2. PICK sid \in Ids, selected \in Selections(eff, at), cand \in ParamsOrNone,
           better \in BOOLEAN, worse \in BOOLEAN :
        latest' = BuildRun(sid, pipe[r].prev, tid, selected, cand, better, worse)
  BY CommitShape
<1>3. /\ latest'.params = selected
      /\ latest'.promotedAt = IF tid # 0 \/ latest'.promoted THEN now ELSE pipe[r].prev.promotedAt
      /\ latest'.version = ver["worker"]
      /\ latest'.applied = tid
      /\ latest'.promoted = (selected # eff)
  BY <1>2 DEF BuildRun
<1>4. row \in DOMAIN transitions \union {0} /\ 0 \notin DOMAIN transitions /\ now \in Nat
  BY DEF TypeOK, Weeks
<1>5. CASE Decision(r) # "apply"
  <2>1. tid = 0 /\ eff = latest.params /\ at = latest.promotedAt
    BY <1>1, <1>5
  <2>2. selected = eff \/ CooldownElapsed(at, now)
    BY <1>2 DEF Selections
  <2> HIDE DEF tid, eff, at
  <2> QED  BY <1>1, <1>3, <1>5, <2>1, <2>2
<1>6. CASE Decision(r) = "apply"
  <2>1. row \in DOMAIN transitions /\ row # 0
    BY <1>4, <1>6, CommitRows
  <2>2. tid = row /\ eff = transitions[row].cand /\ at = now
    BY <1>6, <2>1
  <2>3. ~CooldownElapsed(now, now)
    BY <1>4, Constants DEF CooldownElapsed
  <2>4. selected = eff
    BY <1>2, <2>2, <2>3 DEF Selections
  <2>5. transitions[row].base = latest.params /\ transitions[row].version = ver["worker"]
    BY <1>1, <1>6, CommitRows
  <2> HIDE DEF tid, eff, at
  <2> QED  BY <1>1, <1>3, <1>6, <2>1, <2>2, <2>4, <2>5
<1> QED  BY <1>5, <1>6

\* Every step that changes the setting follows a decision about it.
LEMMA DecidedStep ==
  ASSUME TypeOK, SerialInv, [Next]_vars, latest'.params # latest.params
  PROVE  \/ /\ latest'.applied # 0
            /\ transitions'[latest'.applied].base = latest.params
            /\ transitions'[latest'.applied].cand = latest'.params
            /\ transitions'[latest'.applied].version = latest'.version
         \/ latest'.promoted
<1>1. PICK r \in Runners : PipeCommit(r)
  BY OnlyCommitWrites
<1>2. CASE latest'.applied = 0
  <2>1. 0 \notin DOMAIN transitions
    BY DEF TypeOK
  <2>2. latest'.params # latest.params => latest'.promoted
    BY <1>1, <1>2, <2>1, SettingStep
  <2> QED  BY <2>2
<1>3. CASE latest'.applied # 0
  <2> DEFINE row == latest'.applied
  <2>1. /\ row \in DOMAIN transitions
        /\ transitions[row].base = latest.params
        /\ transitions[row].cand = latest'.params
        /\ transitions[row].version = latest'.version
    BY <1>1, <1>3, SettingStep
  <2>2. SameButStatus(transitions'[row], transitions[row])
    BY <2>1, RowsKept
  <2> QED  BY <1>3, <2>1, <2>2 DEF SameButStatus
<1> QED  BY <1>2, <1>3

\* No step takes back a row that was applied, or applies it again.
LEMMA FinalStep ==
  ASSUME TypeOK, SerialInv, [Next]_vars
  PROVE  /\ \A i \in DOMAIN transitions :
              transitions[i].status = "applied" => transitions'[i].status = "applied"
         /\ (latest' # latest /\ latest'.applied # 0) =>
              transitions[latest'.applied].status # "applied"
<1>1. ASSUME NEW i \in DOMAIN transitions, transitions[i].status = "applied"
      PROVE  transitions'[i].status = "applied"
  <2>1. i \notin PendingRows /\ i # 0
    BY <1>1 DEF PendingRows, TypeOK
  <2>2. \A r \in Runners : pipe[r].pending # i
    BY <1>1, <2>1 DEF SerialInv
  <2> QED  BY <1>1, <2>1, <2>2, RowsKept
<1>2. ASSUME latest' # latest, latest'.applied # 0
      PROVE  transitions[latest'.applied].status # "applied"
  <2>1. PICK r \in Runners : PipeCommit(r)
    BY <1>2, OnlyCommitWrites
  <2>2. latest'.applied = pipe[r].pending
    BY <1>2, <2>1, SettingStep
  <2> QED  BY <1>2, <2>2 DEF SerialInv
<1> QED  BY <1>1, <1>2

\* While only pipelines of the lane run, one task alone or under a lane that
\* does not expire, every change of the operating setting is the automatic
\* promotion or an approval made for exactly the setting it replaces, under
\* the model version that applies it: no run loses the change of another.
THEOREM ChangesAreDecided ==
  ASSUME LaneOnly
  PROVE  Spec => SettingChangesAreDecided
<1>1. Init => SerialInv
  BY SerialInit
<1>2. TypeOK /\ SerialInv /\ [Next]_vars => SerialInv'
  BY SerialStep
<1>3. TypeOK /\ SerialInv /\ [Next]_vars =>
        [latest'.params # latest.params =>
           \/ /\ latest'.applied # 0
              /\ transitions'[latest'.applied].base = latest.params
              /\ transitions'[latest'.applied].cand = latest'.params
              /\ transitions'[latest'.applied].version = latest'.version
           \/ latest'.promoted]_vars
  BY DecidedStep
<1> QED  BY <1>1, <1>2, <1>3, TypesHold, PTL DEF Spec, SettingChangesAreDecided

\* Under the same condition a transition that was applied stays applied and
\* no second run applies it, whatever the administrators cancel meanwhile.
THEOREM AppliedStaysApplied ==
  ASSUME LaneOnly
  PROVE  Spec => AppliedIsFinal
<1>1. Init => SerialInv
  BY SerialInit
<1>2. TypeOK /\ SerialInv /\ [Next]_vars => SerialInv'
  BY SerialStep
<1>3. TypeOK /\ SerialInv /\ [Next]_vars =>
        [/\ \A i \in DOMAIN transitions :
              transitions[i].status = "applied" => transitions'[i].status = "applied"
         /\ (latest' # latest /\ latest'.applied # 0) =>
              transitions[latest'.applied].status # "applied"]_vars
  BY FinalStep
<1> QED  BY <1>1, <1>2, <1>3, TypesHold, PTL DEF Spec, AppliedIsFinal

-----------------------------------------------------------------------------
(* The monitoring of an applied change.                                    *)

\* The monitoring of a run the pipeline builds: one that is active is new
\* and observes the row that is applied, or is the one of the run before.
LEMMA MonitoringBuilt ==
  ASSUME NEW sid, NEW prev, NEW tid, NEW selected, NEW cand, NEW better, NEW worse,
         MonitoringActive(BuildRun(sid, prev, tid, selected, cand, better, worse).monitoring)
  PROVE  LET m == BuildRun(sid, prev, tid, selected, cand, better, worse).monitoring
         IN  /\ m.version = ver["worker"]
             /\ \/ /\ tid # 0
                   /\ m.source = tid
                   /\ m.cur = transitions[tid].cand
                   /\ m.roll = transitions[tid].base
                \/ /\ tid = 0 \/ transitions[tid].kind \notin {"shadow", "rollback"}
                   /\ MonitoringActive(prev.monitoring)
                   /\ m.cur = selected
                   /\ m.source = prev.monitoring.source
                   /\ m.cur = prev.monitoring.cur
                   /\ m.roll = prev.monitoring.roll
<1> DEFINE applied  == IF tid = 0 THEN NoTransition ELSE transitions[tid]
           version  == ver["worker"]
           resolved == ResolveMonitoring(prev.monitoring, applied, tid, selected, version)
           recorded == RecordMonitoring(resolved, confirmed, worse)
<1>1. BuildRun(sid, prev, tid, selected, cand, better, worse).monitoring = recorded
  BY DEF BuildRun
<1>2. MonitoringActive(resolved)
  BY <1>1 DEF RecordMonitoring
<1>3. /\ recorded.version = resolved.version /\ recorded.source = resolved.source
      /\ recorded.cur = resolved.cur /\ recorded.roll = resolved.roll
  <2> HIDE DEF resolved
  <2>1. \A done, open, status :
          LET m == [resolved EXCEPT !.done = done, !.open = open, !.status = status]
          IN  /\ m.version = resolved.version /\ m.source = resolved.source
              /\ m.cur = resolved.cur /\ m.roll = resolved.roll
    OBVIOUS
  <2> QED  BY <1>2, <2>1 DEF RecordMonitoring
<1>4. CASE applied.kind = "rollback"
  BY <1>2, <1>4 DEF ResolveMonitoring, MonitoringActive, ActiveStatuses
<1>5. CASE applied.kind = "shadow"
  <2>1. tid # 0 /\ applied = transitions[tid]
    BY <1>5 DEF NoTransition
  <2>2. /\ resolved.version = version /\ resolved.source = tid
        /\ resolved.cur = applied.cand /\ resolved.roll = applied.base
    BY <1>5 DEF ResolveMonitoring
  <2> HIDE DEF applied, resolved, recorded
  <2> QED  BY <1>1, <1>3, <2>1, <2>2
<1>6. CASE applied.kind \notin {"shadow", "rollback"}
  <2>1. /\ resolved = prev.monitoring /\ MonitoringActive(prev.monitoring)
        /\ resolved.version = version /\ resolved.cur = selected
    BY <1>2, <1>6 DEF ResolveMonitoring, MonitoringActive, ActiveStatuses
  <2>2. tid = 0 \/ transitions[tid].kind \notin {"shadow", "rollback"}
    BY <1>6
  <2> HIDE DEF applied, resolved, recorded
  <2> QED  BY <1>1, <1>3, <2>1, <2>2
<1> QED  BY <1>4, <1>5, <1>6

\* Every step keeps the monitoring on the setting its row has installed.
LEMMA MonitoringStep ==
  ASSUME TypeOK, SerialInv, MonitoringFollowsSetting, [Next]_vars
  PROVE  MonitoringFollowsSetting'
<1> DEFINE m == latest.monitoring
<1> SUFFICES ASSUME MonitoringActive(latest'.monitoring)
             PROVE  LET i == latest'.monitoring.source
                    IN  /\ latest'.monitoring.cur = latest'.params
                        /\ latest'.monitoring.version = latest'.version
                        /\ i \in DOMAIN transitions'
                        /\ transitions'[i].status = "applied"
                        /\ transitions'[i].cand = latest'.monitoring.cur
                        /\ transitions'[i].base = latest'.monitoring.roll
  BY DEF MonitoringFollowsSetting, MonitoringActive, RowAt
\* The row an active monitoring names stays as it is.
<1>1. ASSUME MonitoringActive(m)
      PROVE  /\ m.source \in DOMAIN transitions /\ m.source \in DOMAIN transitions'
             /\ transitions'[m.source].status = "applied"
             /\ transitions'[m.source].cand = m.cur
             /\ transitions'[m.source].base = m.roll
             /\ m.cur = latest.params /\ m.version = latest.version
  <2>1. /\ m.source \in DOMAIN transitions
        /\ transitions[m.source].status = "applied"
        /\ transitions[m.source].cand = m.cur
        /\ transitions[m.source].base = m.roll
        /\ m.cur = latest.params /\ m.version = latest.version
    BY <1>1 DEF MonitoringFollowsSetting, RowAt, NoTransition
  <2>2. transitions'[m.source].status = "applied"
    BY <2>1, FinalStep
  <2>3. /\ SameButStatus(transitions'[m.source], transitions[m.source])
        /\ m.source \in DOMAIN transitions'
    BY <2>1, RowsKept
  <2> QED  BY <2>1, <2>2, <2>3 DEF SameButStatus
<1>2. CASE latest' = latest
  BY <1>1, <1>2
<1>3. CASE latest' # latest
  <2>1. PICK r \in Runners : PipeCommit(r)
    BY <1>3, OnlyCommitWrites
  <2> DEFINE tid == IF Decision(r) = "apply" THEN pipe[r].pending ELSE 0
             eff == IF tid = 0 THEN pipe[r].prev.params ELSE transitions[tid].cand
             at  == IF tid = 0 THEN pipe[r].prev.promotedAt ELSE now
  <2>2. PICK sid \in Ids, selected \in Selections(eff, at), cand \in ParamsOrNone,
             better \in BOOLEAN, worse \in BOOLEAN :
          latest' = BuildRun(sid, pipe[r].prev, tid, selected, cand, better, worse)
    BY <2>1, CommitShape
  <2>3. /\ latest'.params = selected /\ latest'.version = ver["worker"]
        /\ latest'.applied = tid /\ pipe[r].prev = latest
    BY <2>1, <2>2, SettingStep DEF BuildRun
  <2> HIDE DEF tid
  <2>4. \/ /\ tid # 0
           /\ latest'.monitoring.source = tid
           /\ latest'.monitoring.cur = transitions[tid].cand
           /\ latest'.monitoring.roll = transitions[tid].base
        \/ /\ MonitoringActive(m)
           /\ latest'.monitoring.source = m.source
           /\ latest'.monitoring.cur = m.cur
           /\ latest'.monitoring.cur = selected
           /\ latest'.monitoring.roll = m.roll
    BY <2>2, <2>3, MonitoringBuilt
  <2>5. latest'.monitoring.version = latest'.version
    BY <2>2, <2>3, MonitoringBuilt
  <2>6. CASE /\ MonitoringActive(m)
             /\ latest'.monitoring.source = m.source
             /\ latest'.monitoring.cur = m.cur
             /\ latest'.monitoring.cur = selected
             /\ latest'.monitoring.roll = m.roll
    BY <1>1, <2>3, <2>5, <2>6
  <2>7. CASE /\ tid # 0
             /\ latest'.monitoring.source = tid
             /\ latest'.monitoring.cur = transitions[tid].cand
             /\ latest'.monitoring.roll = transitions[tid].base
    <3>1. /\ Decision(r) = "apply" /\ tid = pipe[r].pending /\ tid \in DOMAIN transitions
          /\ latest'.params = transitions[tid].cand
      BY <2>1, <2>3, <2>7, SettingStep DEF tid
    <3>2. transitions' = [transitions EXCEPT ![tid].status = "applied"]
      BY <2>1, <3>1, CommitRows
    <3>3. transitions[tid] \in RowType
      BY <3>1 DEF TypeOK
    <3>4. tid \in DOMAIN transitions' /\ transitions'[tid].status = "applied"
      BY <3>1, <3>2, <3>3 DEF RowType
    <3>5. SameButStatus(transitions'[tid], transitions[tid])
      BY <3>1, RowsKept
    <3> QED  BY <2>3, <2>5, <2>7, <3>1, <3>4, <3>5 DEF SameButStatus
  <2> QED  BY <2>4, <2>6, <2>7
<1> QED  BY <1>2, <1>3

\* With pipelines of the lane alone an active monitoring observes the
\* operating setting and names the applied transition that replaced the
\* setting it would roll back to: a rollback can never restore another one.
THEOREM MonitoringsFollowSetting ==
  ASSUME LaneOnly
  PROVE  Spec => []MonitoringFollowsSetting
<1>1. Init => SerialInv
  BY SerialInit
<1>2. TypeOK /\ SerialInv /\ [Next]_vars => SerialInv'
  BY SerialStep
<1>3. Init => MonitoringFollowsSetting
  BY DEF Init, FirstRun, NoMonitoring, MonitoringFollowsSetting, MonitoringActive, ActiveStatuses
<1>4. TypeOK /\ SerialInv /\ MonitoringFollowsSetting /\ [Next]_vars => MonitoringFollowsSetting'
  BY MonitoringStep
<1> QED  BY <1>1, <1>2, <1>3, <1>4, TypesHold, PTL DEF Spec

-----------------------------------------------------------------------------
(* Approvals under the lane.  What an administrator approves was decided   *)
(* over a run that may be the latest no more.  It does no harm because a   *)
(* change of the setting starts a cooldown: until a week has passed, and   *)
(* with it every request and pipeline in flight, no second change is       *)
(* possible, and the next pipeline resolves what was approved meanwhile.   *)

\* A monitoring names an applied shadow transition and its two settings.
MonitoringGrounded(run) ==
  run.monitoring.status # "none" =>
    LET i == run.monitoring.source
    IN  /\ i \in DOMAIN transitions
        /\ transitions[i].status = "applied" /\ transitions[i].kind = "shadow"
        /\ transitions[i].cand = run.monitoring.cur
        /\ transitions[i].base = run.monitoring.roll

\* A row changes the setting, and a rollback reverses its parent.
RowGrounded(i) ==
  /\ transitions[i].base # transitions[i].cand
  /\ transitions[i].kind = "rollback" =>
       LET p == transitions[i].parent
       IN  /\ p \in DOMAIN transitions
           /\ transitions[p].status = "applied" /\ transitions[p].kind = "shadow"
           /\ transitions[p].cand = transitions[i].base
           /\ transitions[p].base = transitions[i].cand

\* The run a request has read is as good as the latest one, or the setting
\* was changed this week.
RunFresh(run) ==
  IF run.params = latest.params
    THEN /\ run.promotedAt = latest.promotedAt
         /\ run.monitoring.status # "none" =>
              /\ latest.monitoring.status # "none"
              /\ latest.monitoring.source = run.monitoring.source
    ELSE latest.promotedAt = now

Live(i) == i \in PendingRows \/ \E r \in Runners : pipe[r].pending = i

\* A row that still fits the setting could be applied right now.
RowFits(i) ==
  transitions[i].base = latest.params =>
    /\ CooldownElapsed(latest.promotedAt, now)
    /\ transitions[i].kind = "rollback" =>
         /\ latest.monitoring.status # "none"
         /\ latest.monitoring.source = transitions[i].parent

\* A pending row that does not fit will be met by the pipeline that runs,
\* or the setting was changed this week.
RowIsMet(i) ==
  transitions[i].base # latest.params =>
    \/ latest.promotedAt = now
    \/ \A r \in Runners : pipe[r].pc = "pending" => pipe[r].pending = i

GateHeld(a) ==
  /\ CooldownElapsed(admin[a].run.promotedAt, now)
  /\ ApprovedRow(a).base = admin[a].run.params
  /\ ApprovedRow(a).cand # admin[a].run.params

RequestInv ==
  /\ MonitoringGrounded(latest)
  /\ \A i \in DOMAIN transitions : RowGrounded(i) /\ (Live(i) => RowFits(i))
  /\ \A i \in PendingRows : RowIsMet(i)
  /\ \A i, j \in PendingRows : i = j
  /\ \A a \in Admins : admin[a].pc # "idle" =>
       RunFresh(admin[a].run) /\ MonitoringGrounded(admin[a].run)
  /\ \A a \in Admins : admin[a].pc = "insert" => GateHeld(a)

\* What a row that was applied contains stays.
LEMMA AppliedKept ==
  ASSUME TypeOK, SerialInv, [Next]_vars, NEW i \in DOMAIN transitions,
         transitions[i].status = "applied"
  PROVE  /\ i \in DOMAIN transitions'
         /\ transitions'[i].status = "applied"
         /\ SameButStatus(transitions'[i], transitions[i])
BY FinalStep, RowsKept

\* One cycle of a monitoring changes neither what it observes nor whether
\* there is one, and it does nothing to one that has ended.
LEMMA RecordKeeps ==
  ASSUME NEW m, NEW week, NEW worse
  PROVE  LET new == RecordMonitoring(m, week, worse)
         IN  /\ ~MonitoringActive(m) => new = m
             /\ m.status # "none" => new.status # "none"
             /\ m.status = "none" => new.status = "none"
             /\ new.source = m.source /\ new.cur = m.cur /\ new.roll = m.roll
<1>1. CASE ~MonitoringActive(m)
  BY <1>1 DEF RecordMonitoring
<1>2. CASE MonitoringActive(m)
  <2> DEFINE filled == FillActuals(m, week)
             kept   == NewestOf(filled, KeptSamples)
             open   == IssueNext([m EXCEPT !.done = filled], week)
             status == IF Cardinality(kept) < Required THEN "monitoring"
                       ELSE IF filled = m.done THEN m.status
                       ELSE IF worse THEN "rollback_reviewable" ELSE "stable"
  <2>1. RecordMonitoring(m, week, worse) = [m EXCEPT !.done = kept, !.open = open, !.status = status]
    BY <1>2 DEF RecordMonitoring
  <2>2. m.status # "none" /\ status # "none"
    BY <1>2 DEF MonitoringActive, ActiveStatuses
  <2>3. \A x, y, z : LET new == [m EXCEPT !.done = x, !.open = y, !.status = z]
                     IN  /\ new.source = m.source /\ new.cur = m.cur /\ new.roll = m.roll
                         /\ new.status \in {z, m.status}
    OBVIOUS
  <2> HIDE DEF filled, kept, open, status
  <2> QED  BY <1>2, <2>1, <2>2, <2>3
<1> QED  BY <1>1, <1>2

\* Where the monitoring of a run comes from.
LEMMA MonitoringLineage ==
  ASSUME TypeOK, NEW sid, NEW prev, prev.monitoring \in MonitoringType,
         NEW tid \in DOMAIN transitions \union {0},
         NEW selected, NEW cand, NEW better, NEW worse
  PROVE  LET old == prev.monitoring
             new == BuildRun(sid, prev, tid, selected, cand, better, worse).monitoring
         IN  IF tid # 0 /\ transitions[tid].kind = "shadow"
               THEN /\ new.source = tid
                    /\ new.cur = transitions[tid].cand /\ new.roll = transitions[tid].base
               ELSE /\ new.status # "none" <=> old.status # "none"
                    /\ new.source = old.source /\ new.cur = old.cur /\ new.roll = old.roll
                    /\ (tid # 0 /\ old.status # "none") => new.status = "rolled_back"
<1> DEFINE applied  == IF tid = 0 THEN NoTransition ELSE transitions[tid]
           old      == prev.monitoring
           resolved == ResolveMonitoring(old, applied, tid, selected, ver["worker"])
           new      == RecordMonitoring(resolved, confirmed, worse)
<1>1. BuildRun(sid, prev, tid, selected, cand, better, worse).monitoring = new
  BY DEF BuildRun
<1>2. /\ ~MonitoringActive(resolved) => new = resolved
      /\ new.status # "none" <=> resolved.status # "none"
      /\ new.source = resolved.source /\ new.cur = resolved.cur /\ new.roll = resolved.roll
  BY RecordKeeps
<1>3. tid # 0 => transitions[tid].kind \in {"shadow", "rollback"}
  <2>1. tid # 0 => transitions[tid] \in RowType
    BY DEF TypeOK
  <2> QED  BY <2>1 DEF RowType
<1>4. ASSUME NEW status \in {"rolled_back", "stopped"}, old.status # "none"
      PROVE  LET m == [old EXCEPT !.status = status]
             IN  m.status = status /\ m.source = old.source /\ m.cur = old.cur /\ m.roll = old.roll
  <2>1. old \in StartedMonitoring
    BY <1>4 DEF MonitoringType, NoMonitoring
  <2> QED  BY <2>1 DEF StartedMonitoring
<1>5. CASE tid # 0 /\ transitions[tid].kind = "shadow"
  <2>1. /\ resolved.source = tid /\ resolved.cur = transitions[tid].cand
        /\ resolved.roll = transitions[tid].base
    BY <1>5 DEF ResolveMonitoring
  <2> HIDE DEF resolved, new
  <2> QED  BY <1>1, <1>2, <1>5, <2>1
<1>6. CASE tid # 0 /\ transitions[tid].kind = "rollback"
  <2>1. resolved = IF old.status = "none" THEN old ELSE [old EXCEPT !.status = "rolled_back"]
    BY <1>6 DEF ResolveMonitoring
  <2>2. CASE old.status = "none"
    <3> HIDE DEF resolved, new
    <3> QED  BY <1>1, <1>2, <1>6, <2>1, <2>2
  <2>3. CASE old.status # "none"
    <3> DEFINE m == [old EXCEPT !.status = "rolled_back"]
    <3>0. resolved = m
      BY <2>1, <2>3
    <3>1. /\ resolved.status = "rolled_back" /\ resolved.source = old.source
          /\ resolved.cur = old.cur /\ resolved.roll = old.roll
      <4>1. /\ m.status = "rolled_back" /\ m.source = old.source
            /\ m.cur = old.cur /\ m.roll = old.roll
        BY <1>4, <2>3
      <4> HIDE DEF resolved, m
      <4> QED  BY <3>0, <4>1
    <3>2. ~MonitoringActive(resolved)
      BY <3>1 DEF MonitoringActive, ActiveStatuses
    <3> HIDE DEF resolved, new
    <3> QED  BY <1>1, <1>2, <1>6, <2>3, <3>1, <3>2
  <2> QED  BY <2>2, <2>3
<1>7. CASE tid = 0
  <2>1. resolved = old \/ (MonitoringActive(old) /\ resolved = [old EXCEPT !.status = "stopped"])
    BY <1>7 DEF ResolveMonitoring, NoTransition
  <2>2. /\ resolved.status # "none" <=> old.status # "none"
        /\ resolved.source = old.source /\ resolved.cur = old.cur /\ resolved.roll = old.roll
    <3> DEFINE m == [old EXCEPT !.status = "stopped"]
    <3>1. CASE resolved = old
      <4> HIDE DEF resolved
      <4> QED  BY <3>1
    <3>2. CASE MonitoringActive(old) /\ resolved = m
      <4>1. old.status # "none"
        BY <3>2 DEF MonitoringActive, ActiveStatuses
      <4>2. /\ m.status = "stopped" /\ m.source = old.source
            /\ m.cur = old.cur /\ m.roll = old.roll
        BY <1>4, <4>1
      <4> HIDE DEF resolved, m
      <4> QED  BY <3>2, <4>1, <4>2
    <3> QED  BY <2>1, <3>1, <3>2
  <2> HIDE DEF resolved, new
  <2> QED  BY <1>1, <1>2, <1>7, <2>2
<1> QED  BY <1>3, <1>5, <1>6, <1>7

\* The same for the commit of a pipeline of the lane.
LEMMA CommitMonitoring ==
  ASSUME TypeOK, SerialInv, NEW r \in Runners, PipeCommit(r)
  PROVE  LET tid == latest'.applied
             old == latest.monitoring
             new == latest'.monitoring
         IN  IF tid # 0 /\ transitions[tid].kind = "shadow"
               THEN /\ new.source = tid
                    /\ new.cur = transitions[tid].cand /\ new.roll = transitions[tid].base
               ELSE /\ new.status # "none" <=> old.status # "none"
                    /\ new.source = old.source /\ new.cur = old.cur /\ new.roll = old.roll
                    /\ (tid # 0 /\ old.status # "none") => new.status = "rolled_back"
<1> DEFINE tid == IF Decision(r) = "apply" THEN pipe[r].pending ELSE 0
           eff == IF tid = 0 THEN pipe[r].prev.params ELSE transitions[tid].cand
           at  == IF tid = 0 THEN pipe[r].prev.promotedAt ELSE now
<1>1. PICK sid \in Ids, selected \in Selections(eff, at), cand \in ParamsOrNone,
           better \in BOOLEAN, worse \in BOOLEAN :
        latest' = BuildRun(sid, pipe[r].prev, tid, selected, cand, better, worse)
  BY CommitShape
<1>2. latest'.applied = tid
  BY <1>1 DEF BuildRun
<1>3. pipe[r].prev = latest /\ latest.monitoring \in MonitoringType
  BY DEF SerialInv, PipeCommit, TypeOK, RunType
<1>4. tid \in DOMAIN transitions \union {0}
  BY DEF TypeOK
<1> HIDE DEF tid, eff, at
<1> QED  BY <1>1, <1>2, <1>3, <1>4, MonitoringLineage

\* Rows that are there stay grounded.
LEMMA GroundedKept ==
  ASSUME TypeOK, SerialInv, [Next]_vars, NEW i \in DOMAIN transitions, RowGrounded(i)
  PROVE  RowGrounded(i)'
<1>1. SameButStatus(transitions'[i], transitions[i])
  BY RowsKept
<1>2. ASSUME transitions[i].kind = "rollback"
      PROVE  LET p == transitions[i].parent
             IN  /\ p \in DOMAIN transitions'
                 /\ transitions'[p].status = "applied" /\ transitions'[p].kind = "shadow"
                 /\ transitions'[p].cand = transitions[i].base
                 /\ transitions'[p].base = transitions[i].cand
  <2> DEFINE p == transitions[i].parent
  <2>1. /\ p \in DOMAIN transitions
        /\ transitions[p].status = "applied" /\ transitions[p].kind = "shadow"
        /\ transitions[p].cand = transitions[i].base
        /\ transitions[p].base = transitions[i].cand
    BY <1>2 DEF RowGrounded
  <2>2. /\ p \in DOMAIN transitions' /\ transitions'[p].status = "applied"
        /\ SameButStatus(transitions'[p], transitions[p])
    BY <2>1, AppliedKept
  <2> HIDE DEF p
  <2> QED  BY <2>1, <2>2 DEF SameButStatus, p
<1> QED  BY <1>1, <1>2 DEF RowGrounded, SameButStatus

\* The monitoring of a run that was grounded stays so.
LEMMA MonitoringKept ==
  ASSUME TypeOK, SerialInv, [Next]_vars, NEW run, MonitoringGrounded(run),
         run.monitoring.status # "none"
  PROVE  LET i == run.monitoring.source
         IN  /\ i \in DOMAIN transitions'
             /\ transitions'[i].status = "applied" /\ transitions'[i].kind = "shadow"
             /\ transitions'[i].cand = run.monitoring.cur
             /\ transitions'[i].base = run.monitoring.roll
<1> DEFINE i == run.monitoring.source
<1>1. /\ i \in DOMAIN transitions
      /\ transitions[i].status = "applied" /\ transitions[i].kind = "shadow"
      /\ transitions[i].cand = run.monitoring.cur
      /\ transitions[i].base = run.monitoring.roll
  BY DEF MonitoringGrounded
<1>2. /\ i \in DOMAIN transitions' /\ transitions'[i].status = "applied"
      /\ SameButStatus(transitions'[i], transitions[i])
  BY <1>1, AppliedKept
<1> HIDE DEF i
<1> QED  BY <1>1, <1>2 DEF SameButStatus, i

\* Committing keeps or changes the setting; it changes it only if a change
\* was possible, so not in the week of another change.
LEMMA CommitKeepsCooldown ==
  ASSUME TypeOK, SerialInv, RequestInv, NEW r \in Runners, PipeCommit(r)
  PROVE  \/ /\ latest'.applied = 0
            /\ latest'.params = latest.params
            /\ latest'.promotedAt = latest.promotedAt
         \/ /\ latest'.params # latest.params
            /\ latest'.promotedAt = now
            /\ CooldownElapsed(latest.promotedAt, now)
            /\ latest.promotedAt # now
<1>1. now \in Nat /\ Never # now
  BY DEF TypeOK, Weeks
<1>2. CooldownElapsed(latest.promotedAt, now) => latest.promotedAt # now
  BY <1>1, Constants DEF CooldownElapsed
<1>3. CASE latest'.applied # 0 /\ Decision(r) = "apply"
  <2> DEFINE row == pipe[r].pending
  <2>1. /\ row \in DOMAIN transitions /\ transitions[row].base = latest.params
        /\ latest'.params = transitions[row].cand /\ latest'.promotedAt = now
    BY <1>3, SettingStep
  <2>2. RowGrounded(row) /\ RowFits(row)
    BY <2>1 DEF RequestInv, Live
  <2>3. CooldownElapsed(latest.promotedAt, now) /\ latest'.params # latest.params
    BY <2>1, <2>2 DEF RowGrounded, RowFits
  <2> QED  BY <1>2, <2>1, <2>3
<1>4. CASE ~(latest'.applied # 0 /\ Decision(r) = "apply")
  <2>1. 0 \notin DOMAIN transitions
    BY DEF TypeOK
  <2> QED  BY <1>2, <1>4, <2>1, SettingStep
<1> QED  BY <1>3, <1>4

\* The commit of a pipeline keeps what requests and rows rest on.
LEMMA RequestCommit ==
  ASSUME TypeOK, SerialInv, RequestInv, [Next]_vars, NEW r \in Runners, PipeCommit(r)
  PROVE  RequestInv'
<1> DEFINE row == pipe[r].pending
<1>1. /\ UNCHANGED <<admin, now, ver>>
      /\ \A q \in Runners : pipe'[q].pc = "idle" /\ pipe'[q].pending = 0
  BY DEF PipeCommit, SerialInv, OneRunner, TypeOK, IdlePipe
<1>2. DOMAIN transitions' = DOMAIN transitions /\ 0 \notin DOMAIN transitions
  <2>1. \A status : DOMAIN [transitions EXCEPT ![row].status = status] = DOMAIN transitions
    OBVIOUS
  <2>2. 0 \notin DOMAIN transitions
    BY DEF TypeOK
  <2> QED  BY <2>1, <2>2, CommitRows
\* What is pending afterwards was pending before, and the pipeline had read
\* another row or none.
<1>3. ASSUME NEW i \in PendingRows'
      PROVE  /\ i \in DOMAIN transitions /\ i \in PendingRows /\ i # row
             /\ SameButStatus(transitions'[i], transitions[i])
  <2>1. i \in DOMAIN transitions /\ transitions'[i].status = "approved_pending"
    BY <1>2, <1>3 DEF PendingRows
  <2>2. transitions[i] \in RowType
    BY <2>1 DEF TypeOK
  <2>3. i # row
    <3>1. CASE Decision(r) = "apply"
      <4>1. i = row => transitions'[i].status = "applied"
        BY <2>1, <2>2, <3>1, CommitRows DEF RowType
      <4> QED  BY <2>1, <4>1
    <3>2. CASE Decision(r) = "cancel"
      <4>1. i = row => transitions'[i].status = "cancelled"
        BY <2>1, <2>2, <3>2, CommitRows DEF RowType
      <4> QED  BY <2>1, <4>1
    <3>3. CASE Decision(r) = "skip"
      BY <1>2, <2>1, <3>3, CommitRows
    <3> QED  BY <3>1, <3>2, <3>3, CommitRows
  <2>4. transitions'[i] = transitions[i]
    BY <2>1, <2>3, CommitRows
  <2> QED  BY <2>1, <2>3, <2>4, RowsKept DEF PendingRows
<1>4. MonitoringGrounded(latest)'
  <2>1. CASE latest'.applied # 0 /\ transitions[latest'.applied].kind = "shadow"
    <3> DEFINE i == latest'.applied
    <3>1. /\ latest'.monitoring.source = i
          /\ latest'.monitoring.cur = transitions[i].cand
          /\ latest'.monitoring.roll = transitions[i].base
      BY <2>1, CommitMonitoring
    <3>2. Decision(r) = "apply" /\ i = row /\ i \in DOMAIN transitions
      BY <2>1, SettingStep
    <3>3. transitions' = [transitions EXCEPT ![i].status = "applied"]
      BY <3>2, CommitRows
    <3>4. transitions[i] \in RowType
      BY <3>2 DEF TypeOK
    <3>5. transitions'[i].status = "applied"
      BY <3>2, <3>3, <3>4 DEF RowType
    <3>6. SameButStatus(transitions'[i], transitions[i])
      BY <3>2, RowsKept
    <3> HIDE DEF i
    <3> QED  BY <1>2, <2>1, <3>1, <3>2, <3>5, <3>6 DEF MonitoringGrounded, SameButStatus, i
  <2>2. CASE ~(latest'.applied # 0 /\ transitions[latest'.applied].kind = "shadow")
    <3>1. /\ latest'.monitoring.status # "none" <=> latest.monitoring.status # "none"
          /\ latest'.monitoring.source = latest.monitoring.source
          /\ latest'.monitoring.cur = latest.monitoring.cur
          /\ latest'.monitoring.roll = latest.monitoring.roll
      BY <2>2, CommitMonitoring
    <3>2. MonitoringGrounded(latest)
      BY DEF RequestInv
    <3> QED  BY <3>1, <3>2, MonitoringKept DEF MonitoringGrounded
  <2> QED  BY <2>1, <2>2
<1>5. \A i \in DOMAIN transitions' : RowGrounded(i)'
  BY <1>2, GroundedKept DEF RequestInv
<1>6. \A i \in DOMAIN transitions' : Live(i)' => RowFits(i)'
  <2> SUFFICES ASSUME NEW i \in PendingRows', transitions'[i].base = latest'.params
               PROVE  /\ CooldownElapsed(latest'.promotedAt, now')
                      /\ transitions'[i].kind = "rollback" =>
                           /\ latest'.monitoring.status # "none"
                           /\ latest'.monitoring.source = transitions'[i].parent
    BY <1>1, <1>2 DEF Live, RowFits, CooldownElapsed
  <2>1. /\ i \in DOMAIN transitions /\ i \in PendingRows /\ i # row
        /\ SameButStatus(transitions'[i], transitions[i])
    BY <1>3
  <2>2. CASE latest'.params = latest.params
    <3>1. latest'.applied = 0 /\ latest'.promotedAt = latest.promotedAt
      BY <2>2, CommitKeepsCooldown
    <3>2. RowFits(i) /\ transitions[i].base = latest.params
      BY <2>1, <2>2 DEF RequestInv, Live, SameButStatus
    <3>3. /\ latest'.monitoring.status # "none" <=> latest.monitoring.status # "none"
          /\ latest'.monitoring.source = latest.monitoring.source
      BY <3>1, CommitMonitoring
    <3> QED  BY <1>1, <2>1, <3>1, <3>2, <3>3 DEF RowFits, SameButStatus
  <2>3. CASE latest'.params # latest.params
    <3>1. latest.promotedAt # now
      BY <2>3, CommitKeepsCooldown
    <3>2. RowIsMet(i) /\ transitions[i].base # latest.params
      BY <2>1, <2>3 DEF RequestInv, SameButStatus
    <3>3. pipe[r].pending = i
      BY <3>1, <3>2 DEF RowIsMet, PipeCommit
    <3> QED  BY <2>1, <3>3
  <2> QED  BY <2>2, <2>3
<1>7. \A i \in PendingRows' : RowIsMet(i)'
  BY <1>1 DEF RowIsMet
<1>8. \A i, j \in PendingRows' : i = j
  BY <1>3 DEF RequestInv
<1>9. \A a \in Admins : admin'[a].pc # "idle" =>
        RunFresh(admin[a].run)' /\ MonitoringGrounded(admin[a].run)'
  <2> SUFFICES ASSUME NEW a \in Admins, admin[a].pc # "idle"
               PROVE  RunFresh(admin[a].run)' /\ MonitoringGrounded(admin[a].run)'
    BY <1>1
  <2>1. RunFresh(admin[a].run) /\ MonitoringGrounded(admin[a].run)
    BY DEF RequestInv
  <2>2. MonitoringGrounded(admin[a].run)'
    BY <1>1, <2>1, MonitoringKept DEF MonitoringGrounded
  <2>3. CASE latest'.params = latest.params
    <3>1. latest'.applied = 0 /\ latest'.promotedAt = latest.promotedAt
      BY <2>3, CommitKeepsCooldown
    <3>2. /\ latest'.monitoring.status # "none" <=> latest.monitoring.status # "none"
          /\ latest'.monitoring.source = latest.monitoring.source
      BY <3>1, CommitMonitoring
    <3> QED  BY <1>1, <2>1, <2>2, <2>3, <3>1, <3>2 DEF RunFresh
  <2>4. CASE latest'.params # latest.params
    <3>1. latest'.promotedAt = now /\ latest.promotedAt # now
      BY <2>4, CommitKeepsCooldown
    <3>2. admin[a].run.params = latest.params
      BY <2>1, <3>1 DEF RunFresh
    <3> QED  BY <1>1, <2>2, <2>4, <3>1, <3>2 DEF RunFresh
  <2> QED  BY <2>3, <2>4
<1>10. \A a \in Admins : admin'[a].pc = "insert" => GateHeld(a)'
  BY <1>1 DEF RequestInv, GateHeld, ApprovedRow, CooldownElapsed
<1> QED  BY <1>4, <1>5, <1>6, <1>7, <1>8, <1>9, <1>10 DEF RequestInv

\* The steps of an administrator: only the insertion adds a row.
LEMMA RequestAdmin ==
  ASSUME TypeOK, SerialInv, RequestInv, [Next]_vars, NEW a \in Admins, Request(a)
  PROVE  RequestInv'
<1> DEFINE AdminState == [pc : {"idle", "source", "pending", "insert"},
                          kind : {"none", "shadow", "rollback"},
                          run : RunType]
<1>1. UNCHANGED <<latest, pipe, lane, now, confirmed, ver>>
  BY DEF Request, ApproveReadRun, RollbackReadRun, RollbackReadSource, AdminEvaluate,
         AdminInsert, AdminCancel, AdminFail
<1>2. admin \in [Admins -> AdminState]
  BY DEF TypeOK
<1>3. IdleAdmin.pc = "idle"
  BY DEF IdleAdmin
<1>4. \A b \in Admins : b # a => admin'[b] = admin[b]
  BY <1>2 DEF Request, ApproveReadRun, RollbackReadRun, RollbackReadSource, AdminEvaluate,
         AdminInsert, AdminCancel, AdminFail
<1>5. MonitoringGrounded(latest) /\ RunFresh(latest)
  BY DEF RequestInv, RunFresh
\* What the request holds after the step it had read before, or is the latest run.
<1>6. admin'[a].pc # "idle" =>
        \/ admin'[a].run = latest /\ admin'[a].pc # "insert"
        \/ /\ admin'[a].run = admin[a].run /\ admin'[a].kind = admin[a].kind
           /\ admin[a].pc # "idle"
           /\ admin'[a].pc = "insert" => AdminEvaluate(a)
  <2>1. ASSUME NEW pc
        PROVE  LET s == [admin[a] EXCEPT !.pc = pc]
               IN  s.pc = pc /\ s.run = admin[a].run /\ s.kind = admin[a].kind
    BY <1>2
  <2>2. CASE ApproveReadRun(a)
    BY <1>2, <2>2 DEF ApproveReadRun
  <2>3. CASE RollbackReadRun(a)
    BY <1>2, <2>3 DEF RollbackReadRun
  <2>4. CASE RollbackReadSource(a)
    <3> DEFINE s == [admin[a] EXCEPT !.pc = "pending"]
    <3>1. admin'[a] = s \/ admin'[a] = IdleAdmin
      BY <1>2, <2>4 DEF RollbackReadSource
    <3>2. admin[a].pc # "idle"
      BY <2>4 DEF RollbackReadSource
    <3>3. s.pc = "pending" /\ s.run = admin[a].run /\ s.kind = admin[a].kind
      BY <2>1
    <3> HIDE DEF s
    <3> QED  BY <1>3, <2>4, <3>1, <3>2, <3>3
  <2>5. CASE AdminEvaluate(a)
    <3> DEFINE s == [admin[a] EXCEPT !.pc = "insert"]
    <3>1. admin'[a] = s \/ admin'[a] = IdleAdmin
      BY <1>2, <2>5 DEF AdminEvaluate
    <3>2. admin[a].pc # "idle"
      BY <2>5 DEF AdminEvaluate
    <3>3. s.pc = "insert" /\ s.run = admin[a].run /\ s.kind = admin[a].kind
      BY <2>1
    <3> HIDE DEF s
    <3> QED  BY <1>3, <2>5, <3>1, <3>2, <3>3
  <2>6. CASE AdminInsert(a)
    BY <1>2, <1>3, <2>6 DEF AdminInsert
  <2>7. CASE AdminCancel(a)
    BY <1>2, <1>3, <2>7 DEF AdminCancel
  <2>8. CASE AdminFail(a)
    BY <1>2, <1>3, <2>8 DEF AdminFail
  <2> QED  BY <2>2, <2>3, <2>4, <2>5, <2>6, <2>7, <2>8 DEF Request
<1>7. \A b \in Admins : admin'[b].pc # "idle" =>
        RunFresh(admin[b].run)' /\ MonitoringGrounded(admin[b].run)'
  <2> SUFFICES ASSUME NEW b \in Admins, admin'[b].pc # "idle"
               PROVE  RunFresh(admin[b].run)' /\ MonitoringGrounded(admin[b].run)'
    OBVIOUS
  <2>1. RunFresh(admin'[b].run) /\ MonitoringGrounded(admin'[b].run)
    BY <1>4, <1>5, <1>6 DEF RequestInv
  <2>2. RunFresh(admin[b].run)'
    BY <1>1, <2>1 DEF RunFresh
  <2>3. MonitoringGrounded(admin[b].run)'
    BY <2>1, MonitoringKept DEF MonitoringGrounded
  <2> QED  BY <2>2, <2>3
<1>8. \A b \in Admins : admin'[b].pc = "insert" => GateHeld(b)'
  <2> SUFFICES ASSUME NEW b \in Admins, admin'[b].pc = "insert"
               PROVE  GateHeld(b)'
    OBVIOUS
  <2>1. CASE b # a
    BY <1>1, <1>4, <2>1 DEF RequestInv, GateHeld, ApprovedRow, CooldownElapsed
  <2>2. CASE b = a
    <3>1. /\ AdminEvaluate(a) /\ admin'[a].run = admin[a].run /\ admin'[a].kind = admin[a].kind
          /\ admin[a].pc # "idle"
      BY <1>6, <2>2
    <3>2. PICK broken \in BOOLEAN : Eligible(a, broken)
      BY <1>2, <1>3, <2>2, <3>1 DEF AdminEvaluate
    <3>3. CASE admin[a].kind = "shadow"
      <4>1. /\ admin[a].run.session.base = admin[a].run.params
            /\ admin[a].run.session.cand # admin[a].run.params
            /\ CooldownElapsed(admin[a].run.promotedAt, now)
        BY <3>2, <3>3 DEF Eligible, TransitionEligible
      <4> QED  BY <1>1, <2>2, <3>1, <3>3, <4>1 DEF GateHeld, ApprovedRow, CooldownElapsed
    <3>4. CASE admin[a].kind # "shadow"
      <4>1. /\ admin[a].run.monitoring.cur = admin[a].run.params
            /\ CooldownElapsed(admin[a].run.promotedAt, now)
            /\ admin[a].run.monitoring.status # "none"
        BY <3>2, <3>4 DEF Eligible, RollbackEligible
      <4>2. admin[a].run.monitoring.roll # admin[a].run.monitoring.cur
        BY <3>1, <4>1 DEF RequestInv, MonitoringGrounded, RowGrounded
      <4> QED  BY <1>1, <2>2, <3>1, <3>4, <4>1, <4>2 DEF GateHeld, ApprovedRow, CooldownElapsed
    <3> QED  BY <3>3, <3>4
  <2> QED  BY <2>1, <2>2
<1>9. CASE PendingRows' \subseteq PendingRows /\ DOMAIN transitions' = DOMAIN transitions
  <2>1. \A i \in DOMAIN transitions' : RowGrounded(i)' /\ (Live(i)' => RowFits(i)')
    <3> SUFFICES ASSUME NEW i \in DOMAIN transitions
                 PROVE  RowGrounded(i)' /\ (Live(i)' => RowFits(i)')
      BY <1>9
    <3>1. SameButStatus(transitions'[i], transitions[i])
      BY RowsKept
    <3>2. Live(i)' => Live(i)
      BY <1>1, <1>9 DEF Live
    <3>3. RowFits(i) => RowFits(i)'
      BY <1>1, <3>1 DEF RowFits, SameButStatus, CooldownElapsed
    <3> QED  BY <3>2, <3>3, GroundedKept DEF RequestInv
  <2>2. \A i \in PendingRows' : RowIsMet(i)'
    <3> SUFFICES ASSUME NEW i \in PendingRows'
                 PROVE  RowIsMet(i)'
      OBVIOUS
    <3>1. i \in PendingRows /\ i \in DOMAIN transitions
      BY <1>9 DEF PendingRows
    <3>2. SameButStatus(transitions'[i], transitions[i]) /\ RowIsMet(i)
      BY <3>1, RowsKept DEF RequestInv
    <3> QED  BY <1>1, <3>2 DEF RowIsMet, SameButStatus
  <2>3. \A i, j \in PendingRows' : i = j
    BY <1>9 DEF RequestInv
  <2>4. MonitoringGrounded(latest)'
    BY <1>1, <1>5, MonitoringKept DEF MonitoringGrounded
  <2> QED  BY <1>7, <1>8, <2>1, <2>2, <2>3, <2>4 DEF RequestInv
<1>10. CASE AdminInsert(a) /\ ~Conflicts(ApprovedRow(a))
  <2> DEFINE row == ApprovedRow(a)
  <2>0. PICK n : n = Len(transitions) + 1
    OBVIOUS
  <2>1. /\ transitions \in Seq(RowType)
        /\ transitions' = Append(transitions, row)
        /\ PendingRows = {}
    BY <1>10 DEF AdminInsert, Conflicts, TypeOK
  <2>2. /\ DOMAIN transitions' = DOMAIN transitions \union {n}
        /\ transitions'[n] = row /\ n \notin DOMAIN transitions
        /\ \A i \in DOMAIN transitions : transitions'[i] = transitions[i]
    BY <2>0, <2>1
  <2>3. PendingRows' \subseteq {n}
    BY <2>1, <2>2 DEF PendingRows
  <2>4. /\ row.base = admin[a].run.params /\ row.cand # row.base
        /\ CooldownElapsed(admin[a].run.promotedAt, now)
        /\ RunFresh(admin[a].run) /\ MonitoringGrounded(admin[a].run)
        /\ admin[a].pc = "insert"
    BY <1>10 DEF AdminInsert, RequestInv, GateHeld
  <2>5. row.kind = "rollback" =>
          /\ admin[a].run.monitoring.status # "none"
          /\ row.parent = admin[a].run.monitoring.source
          /\ row.base = admin[a].run.monitoring.cur
          /\ row.cand = admin[a].run.monitoring.roll
    BY <2>4 DEF ApprovedRow, TypeOK
  <2> HIDE DEF row
  <2>6. RowGrounded(n)'
    BY <2>2, <2>4, <2>5 DEF RowGrounded, MonitoringGrounded
  <2>7. RowFits(n)'
    BY <1>1, <2>2, <2>4, <2>5 DEF RowFits, RunFresh, CooldownElapsed
  <2>8. RowIsMet(n)'
    BY <1>1, <2>2, <2>4 DEF RowIsMet, RunFresh
  <2>9. \A i \in DOMAIN transitions : RowGrounded(i)' /\ (Live(i)' => RowFits(i)')
    <3> SUFFICES ASSUME NEW i \in DOMAIN transitions
                 PROVE  RowGrounded(i)' /\ (Live(i)' => RowFits(i)')
      OBVIOUS
    <3>1. Live(i)' => Live(i)
      BY <1>1, <2>2, <2>3 DEF Live
    <3>2. RowFits(i) => RowFits(i)'
      BY <1>1, <2>2 DEF RowFits, CooldownElapsed
    <3> QED  BY <3>1, <3>2, GroundedKept DEF RequestInv
  <2>10. MonitoringGrounded(latest)'
    BY <1>1, <1>5, MonitoringKept DEF MonitoringGrounded
  <2> QED  BY <1>7, <1>8, <2>2, <2>3, <2>6, <2>7, <2>8, <2>9, <2>10 DEF RequestInv
<1>11. \/ PendingRows' \subseteq PendingRows /\ DOMAIN transitions' = DOMAIN transitions
       \/ AdminInsert(a) /\ ~Conflicts(ApprovedRow(a))
  <2>1. CASE UNCHANGED transitions
    BY <2>1 DEF PendingRows
  <2>2. CASE AdminCancel(a)
    <3>1. DOMAIN transitions' = DOMAIN transitions
      BY <2>2 DEF AdminCancel
    <3>2. PendingRows' \subseteq PendingRows
      BY <2>2, <3>1 DEF AdminCancel, PendingRows
    <3> QED  BY <3>1, <3>2
  <2> QED  BY <2>1, <2>2 DEF Request, ApproveReadRun, RollbackReadRun, RollbackReadSource,
              AdminEvaluate, AdminInsert, AdminFail
<1> QED  BY <1>9, <1>10, <1>11

\* Steps that leave the runs, the rows and the requests alone.
LEMMA RequestElsewhere ==
  ASSUME TypeOK, SerialInv, RequestInv,
         UNCHANGED <<latest, transitions, admin>>,
         CooldownElapsed(latest.promotedAt, now) => CooldownElapsed(latest.promotedAt, now'),
         \A i \in DOMAIN transitions : Live(i)' => Live(i),
         \A i \in PendingRows : RowIsMet(i) => RowIsMet(i)',
         \A a \in Admins : admin[a].pc # "idle" => now' = now /\ ver' = ver
  PROVE  RequestInv'
<1>1. PendingRows' = PendingRows
  BY DEF PendingRows
<1>2. MonitoringGrounded(latest)'
  BY DEF RequestInv, MonitoringGrounded
<1>3. \A i \in DOMAIN transitions' : RowGrounded(i)' /\ (Live(i)' => RowFits(i)')
  <2> SUFFICES ASSUME NEW i \in DOMAIN transitions
               PROVE  RowGrounded(i)' /\ (Live(i)' => RowFits(i)')
    OBVIOUS
  <2>1. RowGrounded(i)'
    BY DEF RequestInv, RowGrounded
  <2>2. RowFits(i) => RowFits(i)'
    BY DEF RowFits
  <2> QED  BY <2>1, <2>2 DEF RequestInv
<1>4. \A i \in PendingRows' : RowIsMet(i)'
  BY <1>1 DEF RequestInv
<1>5. \A i, j \in PendingRows' : i = j
  BY <1>1 DEF RequestInv
<1>6. \A a \in Admins : admin'[a].pc # "idle" =>
        RunFresh(admin[a].run)' /\ MonitoringGrounded(admin[a].run)'
  <2> SUFFICES ASSUME NEW a \in Admins, admin[a].pc # "idle"
               PROVE  RunFresh(admin[a].run)' /\ MonitoringGrounded(admin[a].run)'
    OBVIOUS
  <2>1. RunFresh(admin[a].run) /\ MonitoringGrounded(admin[a].run) /\ now' = now
    BY DEF RequestInv
  <2> QED  BY <2>1 DEF RunFresh, MonitoringGrounded
<1>7. \A a \in Admins : admin'[a].pc = "insert" => GateHeld(a)'
  BY DEF RequestInv, GateHeld, ApprovedRow, CooldownElapsed
<1> QED  BY <1>2, <1>3, <1>4, <1>5, <1>6, <1>7 DEF RequestInv

\* Every step keeps what requests and rows rest on.
LEMMA RequestStep ==
  ASSUME LaneOnly, TypeOK, SerialInv, RequestInv, [Next]_vars
  PROVE  RequestInv'
<1>0. /\ pipe \in [Runners -> [pc : {"idle", "run", "pending"}, prev : RunType, pending : Rows]]
      /\ 0 \notin DOMAIN transitions /\ now \in Nat
      /\ latest.promotedAt \in Nat \union {Never}
  BY DEF TypeOK, RunType, Weeks
<1>1. ASSUME NEW r \in Runners, Pipeline(r)
      PROVE  RequestInv'
  <2>1. CASE PipeBegin(r)
    <3>1. \A q \in Runners : /\ pipe'[q].pending \in {pipe[q].pending, 0}
                             /\ pipe'[q].pc = "pending" => pipe'[q] = pipe[q]
      BY <1>0, <2>1 DEF PipeBegin
    <3>2. UNCHANGED <<latest, transitions, admin, now, ver>> /\ PendingRows' = PendingRows
      BY <2>1 DEF PipeBegin, PendingRows
    <3>3. \A i \in DOMAIN transitions : Live(i)' => Live(i)
      BY <1>0, <3>1, <3>2 DEF Live
    <3>4. \A i \in PendingRows : RowIsMet(i) => RowIsMet(i)'
      BY <3>1, <3>2 DEF RowIsMet
    <3> QED  BY <3>2, <3>3, <3>4, RequestElsewhere
  <2>2. CASE PipeReadPending(r)
    <3> DEFINE row == IF PendingRows = {} THEN 0 ELSE CHOOSE i \in PendingRows : TRUE
    <3>1. UNCHANGED <<latest, transitions, admin, now, ver>> /\ PendingRows' = PendingRows
      BY <2>2 DEF PipeReadPending, PendingRows
    <3>2. \A q \in Runners : q # r => pipe'[q] = pipe[q] /\ pipe[q].pc = "idle"
      BY <1>0, <2>2 DEF PipeReadPending, SerialInv, OneRunner
    <3>3. pipe'[r].pending = row
      BY <1>0, <2>2 DEF PipeReadPending
    <3>4. row \in PendingRows \union {0} /\ \A i \in PendingRows : row = i
      BY DEF RequestInv
    <3> HIDE DEF row
    <3>5. \A i \in DOMAIN transitions : Live(i)' => Live(i)
      BY <1>0, <3>1, <3>2, <3>3, <3>4 DEF Live
    <3>6. \A i \in PendingRows : RowIsMet(i)'
      BY <3>1, <3>2, <3>3, <3>4 DEF RowIsMet
    <3> QED  BY <3>1, <3>5, <3>6, RequestElsewhere
  <2>3. CASE PipeCommit(r)
    BY <2>3, RequestCommit
  <2>4. CASE PipeFail(r)
    <3>1. \A q \in Runners : /\ pipe'[q].pending \in {pipe[q].pending, 0}
                             /\ pipe'[q].pc = "pending" => pipe'[q] = pipe[q]
      BY <1>0, <2>4 DEF PipeFail, IdlePipe
    <3>2. UNCHANGED <<latest, transitions, admin, now, ver>> /\ PendingRows' = PendingRows
      BY <2>4 DEF PipeFail, PendingRows
    <3>3. \A i \in DOMAIN transitions : Live(i)' => Live(i)
      BY <1>0, <3>1, <3>2 DEF Live
    <3>4. \A i \in PendingRows : RowIsMet(i) => RowIsMet(i)'
      BY <3>1, <3>2 DEF RowIsMet
    <3> QED  BY <3>2, <3>3, <3>4, RequestElsewhere
  <2> QED  BY <1>1, <2>1, <2>2, <2>3, <2>4 DEF Pipeline
<1>2. CASE \E a \in Admins : Request(a)
  BY <1>2, RequestAdmin
<1>3. CASE WeekPasses
  <2>1. /\ UNCHANGED <<latest, transitions, pipe, admin, ver>> /\ now' = now + 1
        /\ \A r \in Runners : pipe[r].pc = "idle"
        /\ \A a \in Admins : admin[a].pc = "idle"
    BY <1>3 DEF WeekPasses, InFlight
  <2>2. CooldownElapsed(latest.promotedAt, now) => CooldownElapsed(latest.promotedAt, now')
    BY <1>0, <2>1, Constants DEF CooldownElapsed
  <2>3. \A i \in DOMAIN transitions : Live(i)' => Live(i)
    BY <2>1 DEF Live, PendingRows
  <2>4. \A i \in PendingRows : RowIsMet(i)'
    BY <2>1 DEF RowIsMet
  <2> QED  BY <2>1, <2>2, <2>3, <2>4, RequestElsewhere
<1>4. CASE \E g \in Groups : Deploy(g)
  <2>1. PICK g \in Groups : Deploy(g)
    BY <1>4
  <2>2. UNCHANGED <<latest, transitions, pipe, admin, now>>
    BY <2>1 DEF Deploy
  <2>3. \A i \in DOMAIN transitions : Live(i)' => Live(i)
    BY <2>2 DEF Live, PendingRows
  <2>4. \A i \in PendingRows : RowIsMet(i) => RowIsMet(i)'
    BY <2>2 DEF RowIsMet
  <2>5. CASE g = "web"
    <3>1. \A a \in Admins : admin[a].pc = "idle"
      BY <2>1, <2>5 DEF Deploy
    <3> QED  BY <2>2, <2>3, <2>4, <3>1, RequestElsewhere
  <2>6. CASE g = "worker"
    <3>1. ver'["web"] = ver["web"]
      BY <2>1, <2>6 DEF Deploy, TypeOK, Groups
    <3>2. \A a \in Admins : GateHeld(a) => GateHeld(a)'
      BY <2>2, <3>1 DEF GateHeld, ApprovedRow, CooldownElapsed
    <3> QED  BY <2>2, <2>3, <2>4, <3>2 DEF RequestInv, MonitoringGrounded, RowGrounded,
                RowFits, RunFresh, PendingRows, CooldownElapsed
  <2> QED  BY <2>5, <2>6 DEF Groups
<1>5. CASE LaneExpire
  <2>1. UNCHANGED <<latest, transitions, pipe, admin, now, ver>>
    BY <1>5 DEF LaneExpire
  <2>2. \A i \in DOMAIN transitions : Live(i)' => Live(i)
    BY <2>1 DEF Live, PendingRows
  <2>3. \A i \in PendingRows : RowIsMet(i) => RowIsMet(i)'
    BY <2>1 DEF RowIsMet
  <2> QED  BY <2>1, <2>2, <2>3, RequestElsewhere
<1>6. CASE UNCHANGED vars
  <2>1. UNCHANGED <<latest, transitions, pipe, admin, now, ver>>
    BY <1>6 DEF vars
  <2>2. \A i \in DOMAIN transitions : Live(i)' => Live(i)
    BY <2>1 DEF Live, PendingRows
  <2>3. \A i \in PendingRows : RowIsMet(i) => RowIsMet(i)'
    BY <2>1 DEF RowIsMet
  <2> QED  BY <2>1, <2>2, <2>3, RequestElsewhere
<1> QED  BY <1>1, <1>2, <1>3, <1>4, <1>5, <1>6 DEF Next

\* Initially there are no requests and no rows.
LEMMA RequestInit ==
  ASSUME Init
  PROVE  RequestInv
<1>1. DOMAIN transitions = {} /\ PendingRows = {}
  BY DEF Init, PendingRows
<1>2. latest.monitoring.status = "none" /\ \A a \in Admins : admin[a].pc = "idle"
  BY DEF Init, FirstRun, NoMonitoring, IdleAdmin
<1> QED  BY <1>1, <1>2 DEF RequestInv, MonitoringGrounded

\* The run that applies a rollback takes back what its parent changed.
LEMMA RollbackStep ==
  ASSUME TypeOK, SerialInv, RequestInv, [Next]_vars,
         latest'.applied # 0, latest' # latest,
         RowAt(latest'.applied).kind = "rollback"
  PROVE  LET row    == transitions[latest'.applied]
             parent == transitions[row.parent]
         IN  /\ parent.status = "applied" /\ parent.kind = "shadow"
             /\ latest.params = parent.cand
             /\ latest'.params = parent.base
             /\ latest'.monitoring.source = row.parent
             /\ latest'.monitoring.status = "rolled_back"
<1> DEFINE i == latest'.applied
<1>1. PICK r \in Runners : PipeCommit(r)
  BY OnlyCommitWrites
<1>2. /\ i = pipe[r].pending /\ i \in DOMAIN transitions
      /\ transitions[i].base = latest.params /\ latest'.params = transitions[i].cand
  BY <1>1, SettingStep
<1>3. RowGrounded(i) /\ RowFits(i) /\ transitions[i].kind = "rollback"
  BY <1>2 DEF RequestInv, Live, RowAt
<1>4. /\ latest'.monitoring.source = latest.monitoring.source
      /\ latest.monitoring.status # "none" => latest'.monitoring.status = "rolled_back"
  BY <1>1, <1>3, CommitMonitoring
<1> HIDE DEF i
<1> QED  BY <1>2, <1>3, <1>4 DEF RowGrounded, RowFits, i

\* While only pipelines of the lane run, one task alone or under a lane that
\* does not expire, two changes of the operating setting are a cooldown
\* apart, whatever was approved or cancelled between the steps of a pipeline:
\* the cooldown that was checked at the approval still holds when it is
\* applied.
THEOREM ChangesAreApart ==
  ASSUME LaneOnly
  PROVE  Spec => ChangesKeepCooldown
<1>1. Init => SerialInv /\ RequestInv
  BY SerialInit, RequestInit
<1>2. TypeOK /\ SerialInv /\ RequestInv /\ [Next]_vars => SerialInv' /\ RequestInv'
  BY SerialStep, RequestStep
<1>3. TypeOK /\ SerialInv /\ RequestInv /\ [Next]_vars =>
        [latest'.params # latest.params => CooldownElapsed(latest.promotedAt, now)]_vars
  BY OnlyCommitWrites, CommitKeepsCooldown
<1> QED  BY <1>1, <1>2, <1>3, TypesHold, PTL DEF Spec, ChangesKeepCooldown

\* Under the same condition the run that applies a rollback restores exactly
\* the setting that the transition under review had replaced, and closes the
\* monitoring of that transition and of no other.
THEOREM RollbacksUndoParent ==
  ASSUME LaneOnly
  PROVE  Spec => RollbackUndoesParent
<1>1. Init => SerialInv /\ RequestInv
  BY SerialInit, RequestInit
<1>2. TypeOK /\ SerialInv /\ RequestInv /\ [Next]_vars => SerialInv' /\ RequestInv'
  BY SerialStep, RequestStep
<1>3. TypeOK /\ SerialInv /\ RequestInv /\ [Next]_vars =>
        [(/\ latest'.applied # 0 /\ latest' # latest
          /\ RowAt(latest'.applied).kind = "rollback") =>
           LET row    == transitions[latest'.applied]
               parent == transitions[row.parent]
           IN  /\ parent.status = "applied" /\ parent.kind = "shadow"
               /\ latest.params = parent.cand
               /\ latest'.params = parent.base
               /\ latest'.monitoring.source = row.parent
               /\ latest'.monitoring.status = "rolled_back"]_vars
  BY RollbackStep
<1> QED  BY <1>1, <1>2, <1>3, TypesHold, PTL DEF Spec, RollbackUndoesParent

-----------------------------------------------------------------------------
(* The pending change is the newest row.                                   *)

PendingIsNewest == \A i \in PendingRows : i = Len(transitions)

\* A row is inserted only when none is pending, and a status never becomes
\* pending again.
LEMMA PendingStep ==
  ASSUME TypeOK, PendingIsNewest, [Next]_vars
  PROVE  PendingIsNewest'
<1>1. transitions \in Seq(RowType) /\ Len(transitions) \in Nat
      /\ DOMAIN transitions = 1..Len(transitions)
  BY DEF TypeOK
<1>2. CASE UNCHANGED transitions
  BY <1>2 DEF PendingIsNewest, PendingRows
<1>3. CASE \E a \in Admins : AdminInsert(a)
  <2>1. PICK a \in Admins : AdminInsert(a)
    BY <1>3
  <2>2. CASE UNCHANGED transitions
    BY <1>2, <2>2
  <2>3. CASE PendingRows = {} /\ transitions' = Append(transitions, ApprovedRow(a))
    <3>1. /\ Len(transitions') = Len(transitions) + 1
          /\ DOMAIN transitions' = 1..(Len(transitions) + 1)
          /\ \A i \in 1..Len(transitions) : transitions'[i] = transitions[i]
      BY <1>1, <2>3
    <3>2. SUFFICES ASSUME NEW i \in PendingRows'  PROVE i = Len(transitions')
      BY DEF PendingIsNewest
    <3>3. i \notin 1..Len(transitions)
      BY <1>1, <2>3, <3>1 DEF PendingRows
    <3> QED  BY <1>1, <3>1, <3>3 DEF PendingRows
  <2> QED  BY <2>1, <2>2, <2>3 DEF AdminInsert, Conflicts
<1>4. CASE /\ DOMAIN transitions' = DOMAIN transitions /\ Len(transitions') = Len(transitions)
           /\ PendingRows' \subseteq PendingRows
  BY <1>4 DEF PendingIsNewest
<1>5. CASE \E a \in Admins : AdminCancel(a)
  <2>1. transitions' = [i \in DOMAIN transitions |->
           IF i \in PendingRows THEN [transitions[i] EXCEPT !.status = "cancelled"]
                                ELSE transitions[i]]
    BY <1>5 DEF AdminCancel
  <2>2. PendingRows' \subseteq PendingRows
    BY <2>1 DEF PendingRows
  <2>3. DOMAIN transitions' = DOMAIN transitions /\ Len(transitions') = Len(transitions)
    BY <1>1, <2>1
  <2> QED  BY <1>4, <2>2, <2>3
<1>6. CASE \E r \in Runners : PipeCommit(r)
  <2>1. PICK r \in Runners : PipeCommit(r)
    BY <1>6
  <2> DEFINE row == pipe[r].pending
  <2>2. ASSUME NEW status \in {"applied", "cancelled"}, row \in DOMAIN transitions,
               transitions' = [transitions EXCEPT ![row].status = status]
        PROVE  PendingIsNewest'
    <3>1. DOMAIN transitions' = DOMAIN transitions /\ Len(transitions') = Len(transitions)
      BY <1>1, <2>2
    <3>2. transitions[row] \in RowType
      BY <1>1, <2>2
    <3>3. transitions'[row].status = status
      BY <2>2, <3>2 DEF RowType
    <3>4. PendingRows' \subseteq PendingRows
      BY <2>2, <3>1, <3>3 DEF PendingRows
    <3> QED  BY <1>4, <3>1, <3>4
  <2> HIDE DEF row
  <2>3. CASE Decision(r) = "apply"
    BY <2>1, <2>2, <2>3, CommitRows DEF row
  <2>4. CASE Decision(r) = "cancel"
    BY <2>1, <2>2, <2>4, CommitRows DEF row
  <2>5. CASE Decision(r) = "skip"
    BY <1>2, <2>1, <2>5, CommitRows
  <2> QED  BY <2>1, <2>3, <2>4, <2>5, CommitRows
<1>7. \/ UNCHANGED transitions
      \/ \E a \in Admins : AdminInsert(a)
      \/ \E a \in Admins : AdminCancel(a)
      \/ \E r \in Runners : PipeCommit(r)
  BY DEF Next, Pipeline, Request, PipeBegin, PipeReadPending, PipeFail, ApproveReadRun,
         RollbackReadRun, RollbackReadSource, AdminEvaluate, AdminFail, LaneExpire,
         WeekPasses, Deploy, vars
<1> QED  BY <1>2, <1>3, <1>5, <1>6, <1>7

\* The few rows a page loads contain the one that is pending.
LEMMA ShownIsPending ==
  ASSUME TypeOK, PendingIsNewest
  PROVE  ShownPending <=> PendingRows # {}
<1>1. Len(transitions) \in Nat /\ DOMAIN transitions = 1..Len(transitions)
  BY DEF TypeOK
<1>2. HistoryLimit \in Nat /\ HistoryLimit > 0
  BY ViewsAssumption
<1>3. ASSUME NEW i \in PendingRows  PROVE i \in ShownRows
  BY <1>1, <1>2 DEF PendingIsNewest, PendingRows, ShownRows
<1> QED  BY <1>3 DEF ShownPending, PendingRows, ShownRows

-----------------------------------------------------------------------------
(* The item the status center puts first.                                  *)

Severities == {"action-required", "attention", "watch"}
Sources == {"input-quality", "rollback", "transition", "performance-drift", "shadow",
            "tuning", "signal-review", "prediction-interval", "horizon"}
ItemType == [severity : Severities, source : Sources]

\* Every source has its place in the order, and the first three places are
\* those of the input data, the rollback and the transition.
LEMMA PlacesAreFound ==
  /\ \A source \in Sources : PlaceOf(source) \in 1..9 /\ SourceOrder[PlaceOf(source)] = source
  /\ PlaceOf("rollback") = 2 /\ PlaceOf("transition") = 3
<1>1. DOMAIN SourceOrder = 1..9
  BY DEF SourceOrder
<1>2. \A source \in Sources : \E i \in DOMAIN SourceOrder : SourceOrder[i] = source
  <2>1. /\ SourceOrder[1] = "input-quality" /\ SourceOrder[2] = "rollback"
        /\ SourceOrder[3] = "transition" /\ SourceOrder[4] = "performance-drift"
        /\ SourceOrder[5] = "shadow" /\ SourceOrder[6] = "tuning"
        /\ SourceOrder[7] = "signal-review" /\ SourceOrder[8] = "prediction-interval"
        /\ SourceOrder[9] = "horizon"
    BY DEF SourceOrder
  <2> QED  BY <1>1, <2>1 DEF Sources
<1>3. \A source \in Sources : PlaceOf(source) \in 1..9 /\ SourceOrder[PlaceOf(source)] = source
  BY <1>1, <1>2 DEF PlaceOf
<1>4. \A i \in 1..9 : /\ SourceOrder[i] = "rollback" => i = 2
                      /\ SourceOrder[i] = "transition" => i = 3
  BY DEF SourceOrder
<1> QED  BY <1>3, <1>4 DEF Sources

\* The primary action is one of the items that ask for something, and none
\* of them comes before it.
LEMMA PrimaryIsFirst ==
  ASSUME NEW items \in SUBSET ItemType, NEW first \in items, first.severity = "action-required"
  PROVE  LET primary == PrimaryAction(items)
         IN  /\ primary.severity = "action-required"
             /\ primary.source \in Sources
             /\ PlaceOf(primary.source) <= PlaceOf(first.source)
<1> DEFINE actionable == {i \in items : i.severity # "watch"}
           Rank(i) == 9 * SeverityRank[i.severity] + PlaceOf(i.source)
           ranks == {Rank(i) : i \in actionable}
<1>1. /\ SeverityRank["action-required"] = 0 /\ SeverityRank["attention"] = 1
      /\ SeverityRank["watch"] = 2
  BY DEF SeverityRank
<1>2. \A i \in items : /\ i.severity \in Severities /\ i.source \in Sources
                       /\ SeverityRank[i.severity] \in 0..2 /\ PlaceOf(i.source) \in 1..9
  <2> SUFFICES ASSUME NEW i \in items
               PROVE  /\ i.severity \in Severities /\ i.source \in Sources
                      /\ SeverityRank[i.severity] \in 0..2 /\ PlaceOf(i.source) \in 1..9
    OBVIOUS
  <2>1. i.severity \in Severities /\ i.source \in Sources
    BY DEF ItemType
  <2>2. SeverityRank[i.severity] \in 0..2
    BY <1>1, <2>1 DEF Severities
  <2> QED  BY <2>1, <2>2, PlacesAreFound
<1>3. first \in actionable
  OBVIOUS
<1>4. ranks \in SUBSET Nat /\ ranks # {}
  BY <1>2, <1>3
<1>5. PICK least \in ranks : \A k \in ranks : least <= k
  <2> HIDE DEF ranks
  <2> QED  BY <1>4, LeastOf
<1>6. PICK best \in actionable : \A j \in actionable : Rank(best) <= Rank(j)
  BY <1>5
<1>7. ASSUME NEW j \in actionable  PROVE Before(best, j)
  <2>1. Rank(best) <= Rank(j)
    BY <1>6
  <2>2. /\ best.severity \in Severities /\ j.severity \in Severities
        /\ SeverityRank[best.severity] \in 0..2 /\ SeverityRank[j.severity] \in 0..2
        /\ PlaceOf(best.source) \in 1..9 /\ PlaceOf(j.source) \in 1..9
    BY <1>2
  <2>3. CASE SeverityRank[best.severity] < SeverityRank[j.severity]
    BY <2>3 DEF Before
  <2>4. CASE SeverityRank[best.severity] = SeverityRank[j.severity]
    <3>1. best.severity = j.severity
      BY <1>1, <2>2, <2>4 DEF Severities
    <3>2. PlaceOf(best.source) <= PlaceOf(j.source)
      BY <2>1, <2>2, <2>4
    <3> QED  BY <3>1, <3>2 DEF Before
  <2>5. ~(SeverityRank[j.severity] < SeverityRank[best.severity])
    BY <2>1, <2>2
  <2> QED  BY <2>2, <2>3, <2>4, <2>5
<1> DEFINE primary == PrimaryAction(items)
<1>8. primary \in actionable /\ \A j \in actionable : Before(primary, j)
  <2>1. primary = CHOOSE i \in actionable : \A j \in actionable : Before(i, j)
    BY <1>3 DEF PrimaryAction
  <2> HIDE DEF primary, actionable
  <2> QED  BY <1>7, <2>1
<1>9. Before(primary, first) /\ primary \in items
  BY <1>3, <1>8
<1> HIDE DEF primary
<1>10. SeverityRank[primary.severity] \in 0..2 /\ primary.source \in Sources
  BY <1>2, <1>9
<1> QED  BY <1>1, <1>9, <1>10 DEF Before, primary

\* Every item of the status center has one of the severities and sources.
LEMMA ItemsTyped ==
  ASSUME NEW run, NEW transition, NEW rollback \in BOOLEAN, NEW diag \in Diagnostics
  PROVE  Items(run, transition, rollback, diag) \in SUBSET ItemType
<1>1. diag.input \in {"ok", "attention", "action-required"} /\ diag.drift \in {"alert", "stable"}
  BY DEF Diagnostics
<1>2. ASSUME NEW shown \in BOOLEAN, NEW severity, NEW source \in Sources,
             shown => severity \in Severities
      PROVE  Item(shown, severity, source) \subseteq ItemType
  BY <1>2 DEF Item, ItemType
<1>3. SUFFICES ASSUME NEW i \in Items(run, transition, rollback, diag)
               PROVE  i.severity \in Severities /\ i.source \in Sources
                      /\ i = [severity |-> i.severity, source |-> i.source]
  BY DEF ItemType
<1> QED  BY <1>1, <1>3 DEF Items, Item, Severities, Sources

\* What the status center puts first when a change or a rollback can be
\* approved.
LEMMA PrimaryOfItems ==
  ASSUME NEW run, NEW transition, NEW rollback \in BOOLEAN, NEW diag \in Diagnostics,
         NEW source \in {"rollback", "transition"},
         source = "rollback" => rollback, source = "transition" => transition = "approvable"
  PROVE  LET primary == PrimaryAction(Items(run, transition, rollback, diag))
         IN  /\ primary.severity = "action-required"
             /\ primary.source \in {"input-quality", "rollback", source}
<1> DEFINE items == Items(run, transition, rollback, diag)
           first == [severity |-> "action-required", source |-> source]
           primary == PrimaryAction(items)
<1>1. items \in SUBSET ItemType
  BY ItemsTyped
<1>2. first \in items
  BY DEF Items, Item
<1>3. first.severity = "action-required" /\ first.source = source
  OBVIOUS
<1> HIDE DEF items, first
<1>4. /\ primary.severity = "action-required" /\ primary.source \in Sources
      /\ PlaceOf(primary.source) <= PlaceOf(source)
  BY <1>1, <1>2, <1>3, PrimaryIsFirst
<1> HIDE DEF primary
<1>5. PlaceOf(source) <= 3 /\ (source = "rollback" => PlaceOf(source) <= 2)
  BY PlacesAreFound
<1>6. PlaceOf(primary.source) \in 1..9 /\ SourceOrder[PlaceOf(primary.source)] = primary.source
  BY <1>4, PlacesAreFound
<1>7. \/ PlaceOf(primary.source) \in {1, 2}
      \/ PlaceOf(primary.source) = 3 /\ source = "transition"
  BY <1>4, <1>5, <1>6, PlacesAreFound
<1>8. /\ SourceOrder[1] = "input-quality" /\ SourceOrder[2] = "rollback"
      /\ SourceOrder[3] = "transition"
  BY DEF SourceOrder
<1>9. primary.source \in {"input-quality", "rollback", source}
  BY <1>6, <1>7, <1>8
<1> QED  BY <1>4, <1>9 DEF primary, items

-----------------------------------------------------------------------------
(* The page and the gates.                                                 *)

\* The completed weeks of a session are so many.
LEMMA SessionCounted ==
  ASSUME NEW s \in SessionType
  PROVE  Cardinality(s.done) \in Nat
<1>1. s.done \subseteq 1..(MaxWeek + 1)
  BY DEF SessionType, OpenedSession, NoSession, Targets
<1>2. 1 \in Int /\ MaxWeek + 1 \in Int
  BY Constants
<1>3. IsFiniteSet(1..(MaxWeek + 1))
  BY <1>2, FS_Interval
<1> QED  BY <1>1, <1>3, FS_Subset, FS_CardinalityType

\* What the page loads agrees with what the gates would decide.
LEMMA ViewAgrees ==
  ASSUME TypeOK, PendingIsNewest
  PROVE  ViewAgreesWithGates
<1> SUFFICES ASSUME NEW broken \in BOOLEAN
             PROVE
    LET version    == ver["web"]
        hasPending == PendingRows # {}
        status     == TransitionStatus(latest, version, broken, now)
        rollback   == RollbackApprovable(latest, version, broken, now)
        canApprove == /\ latest.session.status # "none"
                      /\ TransitionEligible(latest, version, hasPending, broken, now)
        canRollback == /\ latest.monitoring.status # "none"
                       /\ RollbackEligible(latest, version, hasPending, broken, now)
    IN  /\ status = "approved-pending" <=> hasPending
        /\ status = "approvable" <=> canApprove
        /\ rollback <=> canRollback
        /\ Cardinality(CurrentStages(latest, status)) <= 1
        /\ canApprove =>
             /\ NextStep(latest, status) \in {"approve transition", "review rollback"}
             /\ \A diag \in Diagnostics :
                  PrimaryAction(Items(latest, status, rollback, diag)).source
                    \in {"input-quality", "rollback", "transition"}
        /\ canRollback =>
             /\ NextStep(latest, status) = "review rollback"
             /\ \A diag \in Diagnostics :
                  LET primary == PrimaryAction(Items(latest, status, rollback, diag))
                  IN  /\ primary.severity = "action-required"
                      /\ primary.source \in {"input-quality", "rollback"}
  BY DEF ViewAgreesWithGates
<1> DEFINE version    == ver["web"]
           hasPending == PendingRows # {}
           status     == TransitionStatus(latest, version, broken, now)
           rollback   == RollbackApprovable(latest, version, broken, now)
           canApprove == /\ latest.session.status # "none"
                         /\ TransitionEligible(latest, version, hasPending, broken, now)
           canRollback == /\ latest.monitoring.status # "none"
                          /\ RollbackEligible(latest, version, hasPending, broken, now)
<1>1. ShownPending <=> hasPending
  BY ShownIsPending
<1>2. rollback <=> canRollback
  BY <1>1 DEF RollbackApprovable, RollbackEligible
<1>3. canApprove => ~NotReady(latest, version) /\ ~hasPending
  <2>1. latest.session \in SessionType
    BY DEF TypeOK, RunType
  <2>2. ASSUME canApprove  PROVE ~(Cardinality(latest.session.done) < Required)
    <3>1. Cardinality(latest.session.done) \in Nat
      BY <2>1, SessionCounted
    <3>2. Cardinality(latest.session.done) >= Required
      BY <2>2 DEF TransitionEligible
    <3> QED  BY <3>1, <3>2, Constants
  <2> QED  BY <2>2 DEF NotReady, TransitionEligible
<1>4. TransitionEligible(latest, version, FALSE, broken, now) /\ ~hasPending
        <=> TransitionEligible(latest, version, hasPending, broken, now)
  BY DEF TransitionEligible
<1>5. hasPending => status = "approved-pending"
  BY <1>1 DEF TransitionStatus
<1>6. ~hasPending /\ NotReady(latest, version) => status \in {"applied", "not-ready"}
  BY <1>1 DEF TransitionStatus
<1>7. ~hasPending /\ ~NotReady(latest, version) =>
        status = IF TransitionEligible(latest, version, FALSE, broken, now)
                   THEN "approvable" ELSE "blocked"
  BY <1>1 DEF TransitionStatus
<1>8. ~NotReady(latest, version) => latest.session.status # "none"
  BY DEF NotReady
<1> HIDE DEF status
<1>9. status = "approved-pending" <=> hasPending
  BY <1>5, <1>6, <1>7
<1>10. status = "approvable" <=> canApprove
  BY <1>3, <1>4, <1>5, <1>6, <1>7, <1>8
<1>11. Cardinality(CurrentStages(latest, status)) <= 1
  <2>1. status = "approvable" => latest.session.status = "reviewable"
    BY <1>10 DEF TransitionEligible
  <2>2. CurrentStages(latest, status) \in {{}, {"shadow"}, {"transition"}, {"candidate"}}
    BY <2>1 DEF CurrentStages
  <2>3. Cardinality({}) = 0
    BY FS_EmptySet
  <2>4. \A x : Cardinality({x}) = 1
    BY FS_Singleton
  <2> QED  BY <2>2, <2>3, <2>4
<1>12. rollback \in BOOLEAN
  BY DEF RollbackApprovable, RollbackEligible
<1>13. ASSUME canApprove
       PROVE  /\ NextStep(latest, status) \in {"approve transition", "review rollback"}
              /\ \A diag \in Diagnostics :
                   PrimaryAction(Items(latest, status, rollback, diag)).source
                     \in {"input-quality", "rollback", "transition"}
  <2>1. status = "approvable"
    BY <1>10, <1>13
  <2>2. NextStep(latest, status) \in {"approve transition", "review rollback"}
    BY <2>1 DEF NextStep
  <2> HIDE DEF rollback
  <2> QED  BY <1>12, <2>1, <2>2, PrimaryOfItems
<1>14. ASSUME canRollback
       PROVE  /\ NextStep(latest, status) = "review rollback"
              /\ \A diag \in Diagnostics :
                   LET primary == PrimaryAction(Items(latest, status, rollback, diag))
                   IN  /\ primary.severity = "action-required"
                       /\ primary.source \in {"input-quality", "rollback"}
  <2>1. rollback
    BY <1>2, <1>14
  <2>2. latest.monitoring.status = "rollback_reviewable"
    BY <1>14 DEF RollbackEligible
  <2>3. NextStep(latest, status) = "review rollback"
    BY <2>2 DEF NextStep
  <2> HIDE DEF rollback
  <2> QED  BY <1>12, <2>1, <2>3, PrimaryOfItems
<1> HIDE DEF rollback, canApprove, canRollback, hasPending
<1> QED  BY <1>2, <1>9, <1>10, <1>11, <1>13, <1>14
         DEF status, rollback, canApprove, canRollback, hasPending

\* In every state, with any number of pipelines and requests under way, what
\* the admin page offers is what the gates would accept, and it comes first;
\* the few rows the page loads never hide the change that is pending, since
\* a row is inserted only when none is pending.
THEOREM ViewsAgreeWithGates == Spec => []ViewAgreesWithGates
<1>1. Init => PendingIsNewest
  BY DEF Init, PendingIsNewest, PendingRows
<1>2. TypeOK /\ PendingIsNewest /\ [Next]_vars => PendingIsNewest'
  BY PendingStep
<1>3. TypeOK /\ PendingIsNewest => ViewAgreesWithGates
  BY ViewAgrees
<1> QED  BY <1>1, <1>2, <1>3, TypesHold, PTL DEF Spec

-----------------------------------------------------------------------------
(* What a run under the lane makes of the candidate and of the session of  *)
(* the run before.                                                         *)

\* Nobody has seen a week that is not confirmed yet.
WeeksSeen ==
  /\ confirmed <= now
  /\ latest.persistence.week <= confirmed
  /\ \A r \in Runners : pipe[r].prev.persistence.week <= confirmed

\* The run a commit under the lane writes is built from the latest run.
LEMMA CommitFollows ==
  ASSUME TypeOK, SerialInv, NEW r \in Runners, PipeCommit(r)
  PROVE  \E sid \in Ids, better \in BOOLEAN : \E tid, selected, cand, worse :
           latest' = BuildRun(sid, latest, tid, selected, cand, better, worse)
<1> DEFINE tid == IF Decision(r) = "apply" THEN pipe[r].pending ELSE 0
           eff == IF tid = 0 THEN pipe[r].prev.params ELSE transitions[tid].cand
           at  == IF tid = 0 THEN pipe[r].prev.promotedAt ELSE now
<1>1. pipe[r].prev = latest
  BY DEF SerialInv, PipeCommit
<1>2. PICK sid \in Ids, selected \in Selections(eff, at), cand \in ParamsOrNone,
           better \in BOOLEAN, worse \in BOOLEAN :
        latest' = BuildRun(sid, pipe[r].prev, tid, selected, cand, better, worse)
  BY CommitShape
<1> HIDE DEF tid, eff, at
<1>3. latest' = BuildRun(sid, latest, tid, selected, cand, better, worse)
  BY <1>1, <1>2
<1> QED  BY <1>3

\* The candidate of a run: none, or the one the run before tracked under the
\* same version, counted once more only for a new week, or one just found.
LEMMA PersistenceBuilt ==
  ASSUME NEW sid, NEW prev, NEW tid, NEW selected, NEW cand, NEW better, NEW worse
  PROVE  BuildRun(sid, prev, tid, selected, cand, better, worse).persistence
           = ResolvePersistence(prev.persistence, cand, ver["worker"], confirmed)
BY DEF BuildRun

\* The week of a candidate is the week confirmed now unless it is the same
\* candidate seen in the same week, or none.
LEMMA PersistenceWeek ==
  ASSUME NEW p \in PersistenceType, NEW cand, NEW version, NEW week \in Weeks,
         p.week <= week
  PROVE  LET q == ResolvePersistence(p, cand, version, week)
         IN  /\ q.week <= week
             /\ q # p /\ q.cand # NoParams /\ q.cand = p.cand /\ q.version = p.version
                  => q.week > p.week
<1> DEFINE n == IF p.count < Confirmations THEN p.count + 1 ELSE p.count
           q == ResolvePersistence(p, cand, version, week)
<1>1. week \in Nat /\ week > 0 /\ p.week \in Nat
  BY Constants DEF PersistenceType, Weeks
<1>2. CASE cand = NoParams
  BY <1>1, <1>2 DEF ResolvePersistence, NoPersistence
<1>3. CASE cand # NoParams /\ (p.cand # cand \/ p.version # version)
  BY <1>1, <1>3 DEF ResolvePersistence
<1>4. CASE cand # NoParams /\ p.cand = cand /\ p.version = version /\ p.week = week
  BY <1>1, <1>4 DEF ResolvePersistence
<1>5. CASE cand # NoParams /\ p.cand = cand /\ p.version = version /\ p.week # week
  <2>1. q = [p EXCEPT !.count = n, !.week = week]
    BY <1>5 DEF ResolvePersistence
  <2>2. q.week = week
    BY <2>1 DEF PersistenceType
  <2> HIDE DEF q
  <2> QED  BY <1>1, <1>5, <2>2 DEF q
<1> QED  BY <1>2, <1>3, <1>4, <1>5

\* Every step keeps the weeks of the candidates behind the confirmed week.
LEMMA WeeksSeenStep ==
  ASSUME TypeOK, WeeksSeen, [Next]_vars
  PROVE  WeeksSeen'
<1>0. /\ pipe \in [Runners -> [pc : {"idle", "run", "pending"}, prev : RunType, pending : Rows]]
      /\ now \in Nat /\ confirmed \in Weeks /\ confirmed \in Nat /\ confirmed > 0
  BY DEF TypeOK, Weeks
<1>1. \A run \in RunType : run.persistence \in PersistenceType /\ run.persistence.week \in Nat
  BY Constants DEF RunType, PersistenceType, Weeks
<1>2. IdlePipe.prev.persistence.week = 0
  BY DEF IdlePipe, FirstRun, NoPersistence
<1>3. ASSUME NEW r \in Runners, Pipeline(r)
      PROVE  WeeksSeen'
  <2>1. UNCHANGED <<now, confirmed>>
    BY <1>3 DEF Pipeline, PipeBegin, PipeReadPending, PipeCommit, PipeFail
  <2>2. CASE PipeCommit(r)
    <3>1. PICK sid, tid, selected, cand, better, worse :
            latest' = BuildRun(sid, pipe[r].prev, tid, selected, cand, better, worse)
      BY <2>2, CommitBuilds
    <3>2. latest'.persistence =
            ResolvePersistence(pipe[r].prev.persistence, cand, ver["worker"], confirmed)
      BY <3>1, PersistenceBuilt
    <3>3. pipe[r].prev.persistence \in PersistenceType /\ pipe[r].prev.persistence.week <= confirmed
      BY <1>0, <1>1 DEF WeeksSeen
    <3>4. latest'.persistence.week <= confirmed
      BY <1>0, <3>2, <3>3, PersistenceWeek
    <3>5. \A q \in Runners : pipe'[q].prev \in {IdlePipe.prev, pipe[q].prev}
      BY <1>0, <2>2 DEF PipeCommit
    <3> QED  BY <1>0, <1>2, <2>1, <3>4, <3>5 DEF WeeksSeen
  <2>3. CASE ~PipeCommit(r)
    <3>1. /\ latest' = latest
          /\ \A q \in Runners : pipe'[q].prev \in {IdlePipe.prev, pipe[q].prev, latest}
      BY <1>0, <1>3, <2>3 DEF Pipeline, PipeBegin, PipeReadPending, PipeFail
    <3> QED  BY <1>0, <1>2, <2>1, <3>1 DEF WeeksSeen
  <2> QED  BY <2>2, <2>3
<1>4. CASE WeekPasses
  <2>1. /\ latest' = latest /\ pipe' = pipe /\ confirmed <= confirmed' /\ confirmed' <= now'
        /\ confirmed' \in Nat
    BY <1>0, <1>4 DEF WeekPasses, WeeksSeen
  <2>2. latest.persistence.week \in Nat
        /\ \A r \in Runners : pipe[r].prev.persistence.week \in Nat
    BY <1>0, <1>1 DEF TypeOK
  <2> QED  BY <1>0, <2>1, <2>2 DEF WeeksSeen
<1>5. CASE UNCHANGED <<latest, pipe, now, confirmed>>
  BY <1>5 DEF WeeksSeen
<1>6. (\E a \in Admins : Request(a)) \/ LaneExpire
        \/ (\E g \in Groups : Deploy(g)) \/ UNCHANGED vars
        => UNCHANGED <<latest, pipe, now, confirmed>>
  BY DEF Request, ApproveReadRun, RollbackReadRun, RollbackReadSource, AdminEvaluate,
         AdminInsert, AdminCancel, AdminFail, LaneExpire, Deploy, vars
<1> QED  BY <1>3, <1>4, <1>5, <1>6 DEF Next

\* The session of a run built from the run before it: it is the same one,
\* which was validating if its status or its weeks changed and which comes
\* to a verdict only over the weeks required, or it has just been opened.
LEMMA SessionBuilt ==
  ASSUME NEW sid \in Ids, NEW prev \in RunType, NEW tid, NEW selected, NEW cand,
         NEW better \in BOOLEAN, NEW worse
  PROVE  LET run == BuildRun(sid, prev, tid, selected, cand, better, worse)
         IN  \/ /\ run.session.sid = prev.session.sid
                /\ run.session.status # prev.session.status => prev.session.status = "validating"
                /\ run.session.status = "reviewable" /\ prev.session.status # "reviewable"
                     => ~(Cardinality(run.session.done) < Required)
             \/ /\ run.session.status = "validating"
                /\ run.session.cand = cand
                /\ EntryConfirmed(run.persistence, cand, ver["worker"])
<1> DEFINE version     == ver["worker"]
           persistence == ResolvePersistence(prev.persistence, cand, version, confirmed)
           entry       == IF EntryConfirmed(persistence, cand, version) THEN cand ELSE NoParams
           session     == ResolveSession(prev.session, version, selected, entry, sid)
           recorded    == RecordSession(session, confirmed, better)
           run         == BuildRun(sid, prev, tid, selected, cand, better, worse)
<1>1. run.session = recorded /\ run.persistence = persistence
  BY DEF BuildRun
<1>2. prev.session \in SessionType
  BY DEF RunType
<1>3. ASSUME NEW s \in SessionType, NEW x
      PROVE  [s EXCEPT !.status = x].sid = s.sid /\ [s EXCEPT !.status = x].status = x
  BY DEF SessionType, OpenedSession, NoSession
<1> HIDE DEF version, persistence, entry, run
<1>4. CASE session = prev.session
  <2>1. CASE prev.session.status # "validating"
    <3>1. recorded = prev.session
      BY <1>4, <2>1 DEF RecordSession
    <3> QED  BY <1>1, <3>1 DEF run
  <2>2. CASE prev.session.status = "validating"
    <3> DEFINE done == FillActuals(session, confirmed)
               status == IF Cardinality(done) < Required THEN "validating"
                         ELSE IF better THEN "reviewable" ELSE "failed"
    <3>1. recorded = [session EXCEPT !.done = done, !.open = IssueNext(session, confirmed),
                                     !.status = status]
      BY <1>4, <2>2 DEF RecordSession
    <3>2. status = "reviewable" => ~(Cardinality(done) < Required)
      OBVIOUS
    <3> HIDE DEF done, status
    <3>3. session \in OpenedSession
      BY <1>2, <1>4, <2>2 DEF SessionType, NoSession
    <3> HIDE DEF session
    <3>4. recorded.sid = session.sid /\ recorded.status = status /\ recorded.done = done
      BY <3>1, <3>3 DEF OpenedSession
    <3> HIDE DEF recorded
    <3> QED  BY <1>1, <1>4, <2>2, <3>2, <3>4 DEF run
  <2> QED  BY <2>1, <2>2
<1>5. CASE prev.session.status = "validating" /\ session = [prev.session EXCEPT !.status = "stopped"]
  <2>1. session.status = "stopped" /\ session.sid = prev.session.sid
    BY <1>2, <1>3, <1>5
  <2>2. recorded = session
    BY <2>1 DEF RecordSession
  <2> HIDE DEF session, recorded
  <2> QED  BY <1>1, <1>5, <2>1, <2>2 DEF run
<1>6. CASE /\ entry # NoParams
           /\ session = [status |-> "validating", sid |-> sid, version |-> version,
                         base |-> selected, cand |-> entry, done |-> {}, open |-> {}]
  <2>1. entry = cand /\ EntryConfirmed(persistence, cand, version)
    BY <1>6 DEF entry
  <2>2. FillActuals(session, confirmed) = {}
    BY <1>6 DEF FillActuals
  <2>3. Cardinality({}) < Required
    BY FS_EmptySet, Constants
  <2>4. recorded.status = "validating" /\ recorded.cand = cand
    BY <1>6, <2>1, <2>2, <2>3 DEF RecordSession
  <2> HIDE DEF session, recorded
  <2> QED  BY <1>1, <2>1, <2>4 DEF run, version
<1>7. \/ session = prev.session
      \/ prev.session.status = "validating" /\ session = [prev.session EXCEPT !.status = "stopped"]
      \/ /\ entry # NoParams
         /\ session = [status |-> "validating", sid |-> sid, version |-> version,
                       base |-> selected, cand |-> entry, done |-> {}, open |-> {}]
  BY DEF ResolveSession
<1> QED  BY <1>4, <1>5, <1>6, <1>7

\* What the timeline tells of a run under the lane is what that run did.
LEMMA TimelineStep ==
  ASSUME TypeOK, TypeOK', SerialInv, WeeksSeen, [Next]_vars, latest' # latest
  PROVE  LET told == RunEvents(latest, latest')
         IN  /\ "candidate-confirmed" \in told =>
                  latest'.persistence.week > latest.persistence.week
             /\ told \intersect {"shadow-completed", "shadow-stopped"} # {} =>
                  /\ latest.session.status = "validating"
                  /\ latest.session.sid = latest'.session.sid
             /\ "shadow-completed" \in told =>
                  Cardinality(latest'.session.done) >= Required
<1> DEFINE told == RunEvents(latest, latest')
           of == CandidateEvents(latest.persistence, latest'.persistence)
           on == ShadowEvents(latest.session, latest'.session)
<1>1. PICK r \in Runners : PipeCommit(r)
  BY OnlyCommitWrites
<1>2. /\ latest \in RunType /\ latest'.session \in SessionType /\ confirmed \in Weeks
      /\ pipe[r].prev = latest
  BY <1>1 DEF TypeOK, RunType, SerialInv, PipeCommit
<1>3. PICK sid \in Ids, better \in BOOLEAN :
        \E tid, selected, cand, worse :
          latest' = BuildRun(sid, latest, tid, selected, cand, better, worse)
  BY <1>1, CommitFollows
<1>4. PICK tid, selected, cand, worse :
         latest' = BuildRun(sid, latest, tid, selected, cand, better, worse)
  BY <1>3
<1>5. "candidate-confirmed" \in told => latest'.persistence.week > latest.persistence.week
  <2>1. latest'.persistence =
          ResolvePersistence(latest.persistence, cand, ver["worker"], confirmed)
    BY <1>4, PersistenceBuilt
  <2>2. latest.persistence \in PersistenceType /\ latest.persistence.week <= confirmed
    BY <1>2 DEF RunType, WeeksSeen
  <2>3. "candidate-confirmed" \notin on
    BY DEF ShadowEvents
  <2>4. "candidate-confirmed" \in of =>
          /\ latest'.persistence # latest.persistence /\ latest'.persistence.cand # NoParams
          /\ latest'.persistence.cand = latest.persistence.cand
          /\ latest'.persistence.version = latest.persistence.version
    BY DEF CandidateEvents
  <2> QED  BY <1>2, <2>1, <2>2, <2>3, <2>4, PersistenceWeek DEF RunEvents
<1>6. told \intersect {"shadow-completed", "shadow-stopped"} # {} =>
        /\ latest'.session.status # latest.session.status
        /\ latest'.session.status \in {"reviewable", "failed", "stopped"}
        /\ "shadow-completed" \in told => latest'.session.status = "reviewable"
  <2>1. of \intersect {"shadow-completed", "shadow-stopped"} = {}
    BY DEF CandidateEvents
  <2>2. on \intersect {"shadow-completed", "shadow-stopped"} # {} =>
          /\ latest'.session.status # latest.session.status
          /\ latest'.session.status \in {"reviewable", "failed", "stopped"}
          /\ "shadow-completed" \in on => latest'.session.status = "reviewable"
    BY DEF ShadowEvents
  <2>3. told = of \union on
    BY DEF RunEvents
  <2> HIDE DEF told, of, on
  <2> QED  BY <2>1, <2>2, <2>3
<1>7. \/ /\ latest'.session.sid = latest.session.sid
         /\ latest'.session.status # latest.session.status => latest.session.status = "validating"
         /\ latest'.session.status = "reviewable" /\ latest.session.status # "reviewable"
              => ~(Cardinality(latest'.session.done) < Required)
      \/ latest'.session.status = "validating"
  BY <1>2, <1>4, SessionBuilt
<1>8. Cardinality(latest'.session.done) \in Nat
  BY <1>2, SessionCounted
<1> HIDE DEF told
<1>9. "shadow-completed" \in told => told \intersect {"shadow-completed", "shadow-stopped"} # {}
  OBVIOUS
<1> QED  BY <1>5, <1>6, <1>7, <1>8, <1>9, Constants DEF told

\* A session is opened for a candidate that the run before tracked too, if
\* more than one week has to confirm it.
LEMMA EntryStep ==
  ASSUME Confirmations > 1, TypeOK, TypeOK', SerialInv, WeeksSeen, [Next]_vars,
         latest'.session.sid # latest.session.sid
  PROVE  LET p == latest.persistence
         IN  /\ p.cand = latest'.session.cand
             /\ p.version = latest'.version
             /\ p.count + (IF p.week < latest'.persistence.week THEN 1 ELSE 0)
                  >= Confirmations
<1> DEFINE p == latest.persistence
           q == latest'.persistence
<1>1. PICK r \in Runners : PipeCommit(r)
  BY OnlyCommitWrites
<1>2. /\ latest \in RunType /\ confirmed \in Weeks /\ pipe[r].prev = latest
      /\ p \in PersistenceType
  BY <1>1 DEF TypeOK, RunType, SerialInv, PipeCommit
<1>3. PICK sid \in Ids, better \in BOOLEAN :
        \E tid, selected, cand, worse :
          latest' = BuildRun(sid, latest, tid, selected, cand, better, worse)
  BY <1>1, CommitFollows
<1>4. PICK tid, selected, cand, worse :
         latest' = BuildRun(sid, latest, tid, selected, cand, better, worse)
  BY <1>3
<1>5. latest'.session.cand = cand /\ EntryConfirmed(q, cand, ver["worker"])
  BY <1>2, <1>4, SessionBuilt
<1>6. q = ResolvePersistence(p, cand, ver["worker"], confirmed)
  BY <1>4, PersistenceBuilt
<1>7. latest'.version = ver["worker"]
  BY <1>4 DEF BuildRun
<1>8. p.count \in Nat /\ p.week \in Nat /\ confirmed \in Nat /\ p.week <= confirmed
  BY <1>2, Constants DEF PersistenceType, Weeks, WeeksSeen
<1> HIDE DEF p, q
<1>9. cand # NoParams /\ q.count >= Confirmations
  BY <1>5 DEF EntryConfirmed
<1>10. p.cand = cand /\ p.version = ver["worker"]
  <2> SUFFICES ASSUME p.cand # cand \/ p.version # ver["worker"]  PROVE FALSE
    OBVIOUS
  <2>1. q.count = 1
    BY <1>6, <1>9 DEF ResolvePersistence
  <2> QED  BY <1>9, <2>1, Constants
<1>11. CASE p.week = confirmed
  <2>1. q = p
    BY <1>6, <1>9, <1>10, <1>11 DEF ResolvePersistence
  <2> QED  BY <1>5, <1>7, <1>8, <1>9, <1>10, <2>1, Constants DEF p, q
<1>12. CASE p.week # confirmed
  <2> DEFINE n == IF p.count < Confirmations THEN p.count + 1 ELSE p.count
  <2>1. q = [p EXCEPT !.count = n, !.week = confirmed]
    BY <1>6, <1>9, <1>10, <1>12 DEF ResolvePersistence
  <2>2. q.count = n /\ q.week = confirmed
    BY <1>2, <2>1 DEF PersistenceType
  <2> QED  BY <1>5, <1>7, <1>8, <1>9, <1>10, <1>12, <2>2, Constants DEF p, q
<1> QED  BY <1>11, <1>12

\* While pipelines of the lane run one after the other, the tuning timeline
\* tells what happened: a candidate is told as confirmed only for a later
\* week than the run before had seen, and an end of a shadow session only in
\* a run after the one that opened it, a completed one over all the weeks
\* required.
THEOREM TimelineTellsTruth ==
  ASSUME LaneOnly
  PROVE  Spec => TimelineIsTrue
<1>1. Init => SerialInv /\ WeeksSeen
  BY SerialInit DEF Init, WeeksSeen, IdlePipe, FirstRun, NoPersistence
<1>2. TypeOK /\ SerialInv /\ WeeksSeen /\ [Next]_vars => SerialInv' /\ WeeksSeen'
  BY SerialStep, WeeksSeenStep
<1>3. TypeOK /\ TypeOK' /\ SerialInv /\ WeeksSeen /\ [Next]_vars =>
        [latest' # latest =>
           LET told == RunEvents(latest, latest')
           IN  /\ "candidate-confirmed" \in told =>
                    latest'.persistence.week > latest.persistence.week
               /\ told \intersect {"shadow-completed", "shadow-stopped"} # {} =>
                    /\ latest.session.status = "validating"
                    /\ latest.session.sid = latest'.session.sid
               /\ "shadow-completed" \in told =>
                    Cardinality(latest'.session.done) >= Required]_vars
  BY TimelineStep
<1> QED  BY <1>1, <1>2, <1>3, TypesHold, PTL DEF Spec, TimelineIsTrue

\* Under the same condition, and with more than one week to confirm a
\* candidate (the code asks for two), a shadow session is opened only for a
\* candidate that the run before tracked too, under the same model version,
\* and that all the weeks required have confirmed.
THEOREM EntriesNeedWeeks ==
  ASSUME LaneOnly, Confirmations > 1
  PROVE  Spec => ShadowEntryNeedsWeeks
<1>1. Init => SerialInv /\ WeeksSeen
  BY SerialInit DEF Init, WeeksSeen, IdlePipe, FirstRun, NoPersistence
<1>2. TypeOK /\ SerialInv /\ WeeksSeen /\ [Next]_vars => SerialInv' /\ WeeksSeen'
  BY SerialStep, WeeksSeenStep
<1>3. TypeOK /\ TypeOK' /\ SerialInv /\ WeeksSeen /\ [Next]_vars =>
        [latest'.session.sid # latest.session.sid =>
           LET p == latest.persistence
           IN  /\ p.cand = latest'.session.cand
               /\ p.version = latest'.version
               /\ p.count + (IF p.week < latest'.persistence.week THEN 1 ELSE 0)
                    >= Confirmations]_vars
  BY EntryStep
<1> QED  BY <1>1, <1>2, <1>3, TypesHold, PTL DEF Spec, ShadowEntryNeedsWeeks
=============================================================================
