------------------------------ MODULE ModelRules ------------------------------
(***************************************************************************)
(* The rules by which one forecast run decides about the operating model   *)
(* setting: what happens to an approved change, which candidate is being   *)
(* tracked, what becomes of the shadow session and of the monitoring that  *)
(* follows an applied change.  Each rule is a pure function of what the    *)
(* run has read; ModelTransition composes them into the pipeline and the   *)
(* admin requests.                                                         *)
(*                                                                         *)
(* A setting (ForecastModelParams) is an element of Params and a week is   *)
(* its number.  Where the code compares fingerprints, which join the model *)
(* version and the setting, the rules compare both.                        *)
(***************************************************************************)
EXTENDS Integers, FiniteSets

CONSTANTS
  Params,          \* the model settings
  NoParams,        \* the absence of a setting (null)
  Required,        \* completed weeks a verdict needs (13)
  Confirmations,   \* distinct weeks that confirm a candidate (2)
  Cooldown,        \* weeks between two changes of the setting (14 days)
  KeptSamples      \* completed weeks the monitoring keeps (26)

ASSUME RulesAssumption ==
  /\ NoParams \notin Params
  /\ Required \in Nat \ {0}
  /\ Confirmations \in Nat \ {0}
  /\ Cooldown \in Nat \ {0}
  /\ KeptSamples \in Nat /\ KeptSamples >= Required

\* A promotedAt that is null.
Never == -1

\* The cooldown both the automatic promotion and the admin gates apply.
CooldownElapsed(promotedAt, at) ==
  promotedAt = Never \/ at - promotedAt >= Cooldown

-----------------------------------------------------------------------------
(* Paired observations, shared by the shadow session and the monitoring:   *)
(* a set of completed target weeks and the set of those still open.        *)

\* Fill every open week that is confirmed by now, then issue a prediction
\* for the week after the last confirmed one unless it is known already.
FillActuals(obs, confirmed) ==
  obs.done \union {w \in obs.open : w <= confirmed}

IssueNext(obs, confirmed) ==
  LET stillOpen == {w \in obs.open : w > confirmed}
  IN  IF confirmed + 1 \in obs.done THEN stillOpen
      ELSE stillOpen \union {confirmed + 1}

\* The most recent completed weeks; the monitoring drops the older ones.
NewestOf(done, count) ==
  {w \in done : Cardinality({v \in done : v > w}) < count}

-----------------------------------------------------------------------------
(* The candidate that is being confirmed week by week.                     *)

NoPersistence == [cand |-> NoParams, version |-> 0, count |-> 0, week |-> 0]

\* Defects: the count is not capped; the same week is counted again.
ResolvePersistenceUncapped(previous, cand, version, week) ==
  IF cand = NoParams THEN NoPersistence
  ELSE IF previous.cand # cand \/ previous.version # version
    THEN [cand |-> cand, version |-> version, count |-> 1, week |-> week]
  ELSE IF previous.week = week THEN previous
  ELSE [previous EXCEPT !.count = @ + 1, !.week = week]

ResolvePersistenceAnyWeek(previous, cand, version, week) ==
  IF cand = NoParams THEN NoPersistence
  ELSE IF previous.cand # cand \/ previous.version # version
    THEN [cand |-> cand, version |-> version, count |-> 1, week |-> week]
  ELSE [previous EXCEPT !.count = IF @ < Confirmations THEN @ + 1 ELSE @,
                        !.week = week]

\* A lost candidate forgets its weeks, another one starts at one week, a
\* rerun over the same week counts nothing.
ResolvePersistence(previous, cand, version, week) ==
  IF cand = NoParams THEN NoPersistence
  ELSE IF previous.cand # cand \/ previous.version # version
    THEN [cand |-> cand, version |-> version, count |-> 1, week |-> week]
  ELSE IF previous.week = week THEN previous
  ELSE [previous EXCEPT !.count = IF @ < Confirmations THEN @ + 1 ELSE @,
                        !.week = week]

EntryConfirmed(persistence, cand, version) ==
  /\ cand # NoParams
  /\ persistence.count >= Confirmations
  /\ persistence.cand = cand
  /\ persistence.version = version

-----------------------------------------------------------------------------
(* The shadow session.  Status "none" is the absence of a session.         *)

NoSession == [status |-> "none", sid |-> 0, version |-> 0, base |-> NoParams,
              cand |-> NoParams, done |-> {}, open |-> {}]

\* A defect: a running session survives a change of the setting.
ResolveSessionAnyBase(previous, version, base, confirmedCand, sid) ==
  IF previous.status = "validating" THEN
    IF previous.version = version THEN previous
    ELSE [previous EXCEPT !.status = "stopped"]
  ELSE IF \/ confirmedCand \in {NoParams, base}
          \/ previous.cand = confirmedCand /\ previous.version = version
    THEN previous
  ELSE [status |-> "validating", sid |-> sid, version |-> version, base |-> base,
        cand |-> confirmedCand, done |-> {}, open |-> {}]

\* A running session is continued or stopped, never given another
\* candidate.  Without one, a confirmed candidate opens a new session unless
\* it is the operating setting or the candidate of the session before.
ResolveSession(previous, version, base, confirmedCand, sid) ==
  IF previous.status = "validating" THEN
    IF previous.version = version /\ previous.base = base THEN previous
    ELSE [previous EXCEPT !.status = "stopped"]
  ELSE IF \/ confirmedCand \in {NoParams, base}
          \/ previous.cand = confirmedCand /\ previous.version = version
    THEN previous
  ELSE [status |-> "validating", sid |-> sid, version |-> version, base |-> base,
        cand |-> confirmedCand, done |-> {}, open |-> {}]

\* One cycle of a running session: `better' says whether the candidate
\* passes all checks over the completed weeks.
RecordSession(session, confirmed, better) ==
  IF session.status # "validating" THEN session
  ELSE LET done == FillActuals(session, confirmed)
       IN  [session EXCEPT
              !.done = done,
              !.open = IssueNext(session, confirmed),
              !.status = IF Cardinality(done) < Required THEN "validating"
                         ELSE IF better THEN "reviewable" ELSE "failed"]

-----------------------------------------------------------------------------
(* The monitoring of an applied change.  Status "none" is its absence.     *)

NoMonitoring == [status |-> "none", source |-> 0, version |-> 0,
                 cur |-> NoParams, roll |-> NoParams, done |-> {}, open |-> {}]

ActiveStatuses == {"monitoring", "stable", "rollback_reviewable"}

MonitoringActive(monitoring) == monitoring.status \in ActiveStatuses

\* `applied' is the transition this run applies, NoTransition if none;
\* `current' is the setting the run selected.
NoTransition == [kind |-> "none", sid |-> 0, parent |-> 0, status |-> "none",
                 version |-> 0, base |-> NoParams, cand |-> NoParams]

\* A defect: an active monitoring survives a change of the setting.
ResolveMonitoringAnySetting(previous, applied, tid, current, version) ==
  IF applied.kind = "rollback" THEN [previous EXCEPT !.status = "rolled_back"]
  ELSE IF applied.kind = "shadow" THEN
    [status |-> "monitoring", source |-> tid, version |-> version,
     cur |-> applied.cand, roll |-> applied.base, done |-> {}, open |-> {}]
  ELSE IF MonitoringActive(previous) /\ previous.version # version
    THEN [previous EXCEPT !.status = "stopped"]
  ELSE previous

\* A rollback closes the monitoring it came from, an approved candidate
\* starts a new one, and any other change of what is observed stops it.
ResolveMonitoring(previous, applied, tid, current, version) ==
  IF applied.kind = "rollback" THEN
    IF previous.status = "none" THEN previous
    ELSE [previous EXCEPT !.status = "rolled_back"]
  ELSE IF applied.kind = "shadow" THEN
    [status |-> "monitoring", source |-> tid, version |-> version,
     cur |-> applied.cand, roll |-> applied.base, done |-> {}, open |-> {}]
  ELSE IF MonitoringActive(previous)
          /\ (previous.version # version \/ previous.cur # current)
    THEN [previous EXCEPT !.status = "stopped"]
  ELSE previous

\* One cycle of an active monitoring.  The verdict is a function of the
\* completed weeks, so it can change only when one was completed.
RecordMonitoring(monitoring, confirmed, worse) ==
  IF ~MonitoringActive(monitoring) THEN monitoring
  ELSE LET filled == FillActuals(monitoring, confirmed)
           done == NewestOf(filled, KeptSamples)
       IN  [monitoring EXCEPT
              !.done = done,
              !.open = IssueNext([monitoring EXCEPT !.done = filled], confirmed),
              !.status = IF Cardinality(done) < Required THEN "monitoring"
                         ELSE IF filled = monitoring.done THEN @
                         ELSE IF worse THEN "rollback_reviewable"
                         ELSE "stable"]

-----------------------------------------------------------------------------
(* What a run does with the approved change it has read.                   *)

\* Defects: the setting the approval was made for is not compared; nor is its
\* model version; an approval that does not fit is left as it is.
ResolvePendingAnyBase(transition, current, version) ==
  IF transition.status # "approved_pending" THEN "skip"
  ELSE IF transition.version # version THEN "cancel"
  ELSE "apply"

ResolvePendingAnyVersion(transition, current, version) ==
  IF transition.status # "approved_pending" THEN "skip"
  ELSE IF transition.base # current THEN "cancel"
  ELSE "apply"

ResolvePendingNoCancel(transition, current, version) ==
  IF transition.status # "approved_pending" THEN "skip"
  ELSE IF transition.version # version \/ transition.base # current THEN "skip"
  ELSE "apply"

\* It is applied, cancelled when the setting or the model version it was
\* made for has changed, or there is none.
ResolvePending(transition, current, version) ==
  IF transition.status # "approved_pending" THEN "skip"
  ELSE IF transition.version # version THEN "cancel"
  ELSE IF transition.base # current THEN "cancel"
  ELSE "apply"

\* A defect: approvals do not wait for the cooldown.
TransitionEligibleNoCooldown(run, version, hasPending, guardrailBroken, now) ==
  /\ run.session.version = version
  /\ run.session.base = run.params
  /\ run.session.cand # run.params
  /\ Cardinality(run.session.done) >= Required
  /\ run.session.status = "reviewable"
  /\ ~guardrailBroken
  /\ ~hasPending

\* The admin gate of a shadow candidate over the run the request read.
TransitionEligible(run, version, hasPending, guardrailBroken, now) ==
  /\ run.session.version = version
  /\ run.session.base = run.params
  /\ run.session.cand # run.params
  /\ Cardinality(run.session.done) >= Required
  /\ run.session.status = "reviewable"
  /\ ~guardrailBroken
  /\ ~hasPending
  /\ CooldownElapsed(run.promotedAt, now)

\* The admin gate of a rollback.
RollbackEligible(run, version, hasPending, guardrailBroken, now) ==
  /\ run.monitoring.version = version
  /\ run.monitoring.cur = run.params
  /\ Cardinality(run.monitoring.done) >= Required
  /\ run.monitoring.status = "rollback_reviewable"
  /\ ~guardrailBroken
  /\ ~hasPending
  /\ CooldownElapsed(run.promotedAt, now)
=============================================================================
