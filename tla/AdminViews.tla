------------------------------ MODULE AdminViews ------------------------------
(***************************************************************************)
(* What the admin page tells about the operating setting: the status of    *)
(* the transition and of the rollback, the one next step, the status       *)
(* center with its primary action and stages, and the lines of the tuning  *)
(* timeline.  The page computes nothing of its own; it reads the latest    *)
(* run, a few rows of the transitions and stored diagnostics, and has to   *)
(* agree with the gates that decide about a request.                       *)
(*                                                                         *)
(* One load of the page reads one committed state.                         *)
(***************************************************************************)
EXTENDS ModelTransition

CONSTANTS
  HistoryLimit,  \* transition rows a page loads (10)
  MinObserved    \* weeks before a session can be called degraded (4)

ASSUME ViewsAssumption ==
  /\ HistoryLimit \in Nat \ {0}
  /\ MinObserved \in Nat \ {0}

-----------------------------------------------------------------------------
(* The section of the transition, loadAdminTransitionSection.              *)

\* A defect: the rows are ordered by the first approval.
OldestRows == {i \in DOMAIN transitions : i <= HistoryLimit}

\* The rows of the last approvals.
ShownRows == {i \in DOMAIN transitions : i > Len(transitions) - HistoryLimit}

ShownPending == \E i \in ShownRows : transitions[i].status = "approved_pending"

AppliedShown ==
  \E i \in ShownRows : transitions[i].status = "applied" /\ transitions[i].kind = "shadow"

\* The gate blocks for a reason that is not yet one: the session compares
\* with the operating setting but has not come to a verdict for it.
NotReady(run, version) ==
  \/ run.session.status = "none"
  \/ /\ run.session.version = version
     /\ run.session.base = run.params
     /\ \/ run.session.cand = run.params
        \/ Cardinality(run.session.done) < Required
        \/ run.session.status # "reviewable"

\* The status of the transition.  "applied" is told of the last transition
\* when nothing newer is there to tell and the run carries a monitoring.
TransitionStatus(run, version, guardrailBroken, at) ==
  CASE ShownPending -> "approved-pending"
    [] ~ShownPending /\ NotReady(run, version) ->
         IF AppliedShown /\ run.monitoring.status # "none" THEN "applied" ELSE "not-ready"
    [] OTHER ->
         IF TransitionEligible(run, version, FALSE, guardrailBroken, at)
           THEN "approvable" ELSE "blocked"

RollbackApprovable(run, version, guardrailBroken, at) ==
  /\ run.monitoring.status # "none"
  /\ RollbackEligible(run, version, ShownPending, guardrailBroken, at)

-----------------------------------------------------------------------------
(* The status center, buildOperationsStatusCenter.                         *)

\* The diagnostics of a run that the model of the setting does not keep:
\* the level of its input data, the drift, the signals and intervals, and
\* the numbers of completed weeks at which the candidate's error is worse.
\* Either all of them raise an item beside that of the input data or none.
Diagnostics ==
  {[input |-> level, drift |-> IF loud THEN "alert" ELSE "stable", review |-> loud,
    narrow |-> loud, validating |-> loud, longTerm |-> loud,
    degraded |-> IF loud THEN 1..Required ELSE {}] :
      level \in {"ok", "attention", "action-required"}, loud \in BOOLEAN}

\* How many of the newest numbers of weeks are degraded in a row, at most 2.
DegradedInARow(session, degraded) ==
  LET n == Cardinality(session.done)
      bad(k) == k >= MinObserved /\ k \in degraded
  IN  IF ~bad(n) THEN 0 ELSE IF bad(n - 1) THEN 2 ELSE 1

Item(shown, severity, source) ==
  IF shown THEN {[severity |-> severity, source |-> source]} ELSE {}

Items(run, transition, rollback, diag) ==
  LET row == DegradedInARow(run.session, diag.degraded)
  IN  UNION {
        Item(diag.input # "ok", diag.input, "input-quality"),
        Item(rollback, "action-required", "rollback"),
        Item(transition = "approvable", "action-required", "transition"),
        Item(transition = "approved-pending", "watch", "transition"),
        Item(diag.drift # "stable",
             IF diag.drift = "alert" THEN "attention" ELSE "watch", "performance-drift"),
        Item(run.session.status \in {"validating", "failed", "stopped"}, "watch", "shadow"),
        Item(run.session.status = "reviewable", "action-required", "shadow"),
        Item(row > 0, IF row = 2 THEN "attention" ELSE "watch", "shadow"),
        Item(run.persistence.cand # NoParams, "watch", "tuning"),
        Item(diag.review, "attention", "signal-review"),
        Item(diag.narrow, "attention", "prediction-interval"),
        Item(diag.validating, "watch", "prediction-interval"),
        Item(diag.longTerm, "watch", "horizon")}

SeverityRank == [severity \in {"action-required", "attention", "watch"} |->
  CASE severity = "action-required" -> 0 [] severity = "attention" -> 1
    [] severity = "watch" -> 2]

SourceOrder == <<"input-quality", "rollback", "transition", "performance-drift", "shadow",
                 "tuning", "signal-review", "prediction-interval", "horizon">>

PlaceOf(source) == CHOOSE i \in DOMAIN SourceOrder : SourceOrder[i] = source

\* What asks for more comes first, then what is to be looked at first.
Before(left, right) ==
  \/ SeverityRank[left.severity] < SeverityRank[right.severity]
  \/ /\ left.severity = right.severity
     /\ PlaceOf(left.source) <= PlaceOf(right.source)

NoItem == [severity |-> "healthy", source |-> "none"]

\* The one item the page puts first; its severity is the status of the
\* center whenever something asks for more than being watched.
PrimaryAction(items) ==
  LET actionable == {i \in items : i.severity # "watch"}
  IN  IF actionable = {} THEN NoItem
      ELSE CHOOSE i \in actionable : \A j \in actionable : Before(i, j)

\* The stages of a change that the center marks as the current one.
CurrentStages(run, transition) ==
  LET running == run.session.status = "validating"
      ready == run.session.status = "reviewable" \/ transition = "approvable"
  IN  (IF running THEN {"shadow"} ELSE {})
        \union (IF ready THEN {"transition"} ELSE {})
        \union (IF ~running /\ ~ready /\ run.persistence.cand # NoParams
                  THEN {"candidate"} ELSE {})

\* The next step of the tuning card, resolveNextStep.
NextStep(run, transition) ==
  CASE run.monitoring.status = "rollback_reviewable" -> "review rollback"
    [] run.monitoring.status # "rollback_reviewable" /\ transition = "approvable"
         -> "approve transition"
    [] run.monitoring.status # "rollback_reviewable" /\ transition = "approved-pending"
         -> "wait for application"
    [] OTHER ->
         IF run.monitoring.status = "monitoring" THEN "compare with the setting before"
         ELSE IF run.session.status = "validating" THEN "validate shadow"
         ELSE IF run.session.status = "reviewable" THEN "review shadow"
         ELSE IF run.persistence.cand # NoParams THEN "confirm candidate"
         ELSE "none"

-----------------------------------------------------------------------------
(* The tuning timeline, buildTuningTimeline: what it tells of a run, given *)
(* the run before.                                                         *)

CandidateEvents(previous, persistence) ==
  IF persistence.cand = NoParams
    THEN IF previous.cand = NoParams THEN {} ELSE {"candidate-cleared"}
  ELSE IF previous = persistence THEN {}
  ELSE IF previous.cand = NoParams THEN {"candidate-started"}
  ELSE IF previous.cand # persistence.cand \/ previous.version # persistence.version
    THEN {"candidate-changed"}
  ELSE {"candidate-confirmed"}

ShadowEvents(previous, session) ==
  LET ended == /\ previous.status # session.status
               /\ session.status \in {"reviewable", "failed", "stopped"}
  IN  (CASE session.status = "none" -> {}
         [] session.status # "none" /\ previous.sid # session.sid -> {"shadow-started"}
         [] OTHER -> IF ~ended /\ previous.done # session.done THEN {"shadow-progress"} ELSE {})
      \union
      (IF ~ended THEN {}
       ELSE IF session.status = "reviewable" THEN {"shadow-completed"} ELSE {"shadow-stopped"})

RunEvents(previous, run) ==
  CandidateEvents(previous.persistence, run.persistence)
    \union ShadowEvents(previous.session, run.session)

-----------------------------------------------------------------------------
(* Properties.                                                             *)

\* What the gate would accept the page offers, and puts before everything
\* but the input data and a rollback; what the page offers the gate would
\* accept; and although a page loads a few rows only, it never overlooks
\* the change that is pending.  One stage at most is the current one.
ViewAgreesWithGates ==
  \A broken \in BOOLEAN :
    LET version    == ver["web"]
        hasPending == PendingRows # {}
        status     == TransitionStatus(latest, version, broken, now)
        rollback   == RollbackApprovable(latest, version, broken, now)
        canApprove == /\ latest.session.status # "none"
                      /\ TransitionEligible(latest, version, hasPending, broken, now)
        canRollback == /\ latest.monitoring.status # "none"
                       /\ RollbackEligible(latest, version, hasPending, broken, now)
    IN  /\ status = "approved-pending" <=> hasPending
        /\ status = "approvable" <=> canApprove
        /\ rollback <=> canRollback
        /\ Cardinality(CurrentStages(latest, status)) <= 1
        /\ canApprove =>
             /\ NextStep(latest, status) \in {"approve transition", "review rollback"}
             /\ \A diag \in Diagnostics :
                  PrimaryAction(Items(latest, status, rollback, diag)).source
                    \in {"input-quality", "rollback", "transition"}
        /\ canRollback =>
             /\ NextStep(latest, status) = "review rollback"
             /\ \A diag \in Diagnostics :
                  LET primary == PrimaryAction(Items(latest, status, rollback, diag))
                  IN  /\ primary.severity = "action-required"
                      /\ primary.source \in {"input-quality", "rollback"}

\* The timeline tells what happened: a week counts once for a candidate
\* however often the pipeline runs again, and a session ends once, in a run
\* after the one that opened it.
TimelineIsTrue ==
  [][latest' # latest =>
       LET told == RunEvents(latest, latest')
       IN  /\ "candidate-confirmed" \in told =>
                latest'.persistence.week > latest.persistence.week
           /\ told \intersect {"shadow-completed", "shadow-stopped"} # {} =>
                /\ latest.session.status = "validating"
                /\ latest.session.sid = latest'.session.sid
           /\ "shadow-completed" \in told =>
                Cardinality(latest'.session.done) >= Required]_vars
=============================================================================
