-------------------------- MODULE RunMachineProofs --------------------------
(* Proofs about RunMachine, for every value of its constants.              *)
EXTENDS RunMachine, TLAPS

-----------------------------------------------------------------------------
(* The transition table.  TableNext says where a run goes from a step on   *)
(* an event; the lemmas show that the table has exactly one row for it.    *)

LEMMA RowFields ==
  ASSUME NEW a, NEW b, NEW c, NEW d
  PROVE  /\ Row(a, b, c, d).from = a
         /\ Row(a, b, c, d).event = b
         /\ Row(a, b, c, d).to = c
         /\ Row(a, b, c, d).guard = d
  BY DEF Row

LEMMA RowInjective ==
  ASSUME NEW a, NEW b, NEW c, NEW d, NEW e, NEW f, NEW g, NEW h,
         Row(a, b, c, d) = Row(e, f, g, h)
  PROVE  a = e /\ b = f /\ c = g /\ d = h
  BY RowFields

(* Dispatch takes the only row whose guard holds.                          *)
LEMMA DispatchTakes ==
  ASSUME NEW event, NEW ctx, NEW t,
         Matches(step, event, ctx) = {t},
         Dispatch(event, ctx)
  PROVE  step' = t.to
  BY DEF Dispatch

(* Where the guarded rows lead.                                            *)
PrepareFailedNext(ctx) ==
  CASE ctx.prepareFailKind = "escalated"     -> "TERMINAL_ESCALATED"
    [] ctx.prepareFailKind = "review_failed" -> "TERMINAL_REVIEW_FAILED"
    [] ctx.prepareFailKind = "dev_failed"    -> "TERMINAL_DEV_FAILED"
    [] OTHER -> IF ctx.worktreeCreateFailed THEN "TERMINAL_DEV_FAILED"
                                            ELSE "TERMINAL_ABORTED"

ReadyNext(ctx) ==
  IF ~ctx.resume \/ ctx.resumeVerdict = "changes_requested" THEN "RUN_DEV"
  ELSE IF ctx.resumeVerdict = "approved" THEN "MERGE_PR" ELSE "RUN_REVIEWER"

GateRejectedNext(ctx) ==
  IF ctx.devAttempt < MaxDevAttempts THEN "RUN_DEV" ELSE "TERMINAL_DEV_FAILED"

ReworkNext(ctx) == IF Escalate(ctx) THEN "TERMINAL_ESCALATED" ELSE "RUN_DEV"

LEMMA PrepareMatches ==
  ASSUME NEW event, NEW ctx
  PROVE  Matches("PREPARE", event, ctx)
           = {t \in PrepareRows : t.event = event /\ GuardHolds(t.guard, ctx)}
  BY RowFields DEF Matches, LoopTransitions, PrepareRows, RunDevRows, SyncCIRows,
     RunReviewerRows, MergePRRows, AgentFailureRows, ReworkRows

LEMMA RunDevMatches ==
  ASSUME NEW event, NEW ctx
  PROVE  Matches("RUN_DEV", event, ctx)
           = {t \in RunDevRows : t.event = event /\ GuardHolds(t.guard, ctx)}
  BY RowFields DEF Matches, LoopTransitions, PrepareRows, RunDevRows, SyncCIRows,
     RunReviewerRows, MergePRRows, AgentFailureRows, ReworkRows

LEMMA SyncCIMatches ==
  ASSUME NEW event, NEW ctx
  PROVE  Matches("SYNC_CI", event, ctx)
           = {t \in SyncCIRows : t.event = event /\ GuardHolds(t.guard, ctx)}
  BY RowFields DEF Matches, LoopTransitions, PrepareRows, RunDevRows, SyncCIRows,
     RunReviewerRows, MergePRRows, AgentFailureRows, ReworkRows

LEMMA RunReviewerMatches ==
  ASSUME NEW event, NEW ctx
  PROVE  Matches("RUN_REVIEWER", event, ctx)
           = {t \in RunReviewerRows : t.event = event /\ GuardHolds(t.guard, ctx)}
  BY RowFields DEF Matches, LoopTransitions, PrepareRows, RunDevRows, SyncCIRows,
     RunReviewerRows, MergePRRows, AgentFailureRows, ReworkRows

LEMMA MergePRMatches ==
  ASSUME NEW event, NEW ctx
  PROVE  Matches("MERGE_PR", event, ctx)
           = {t \in MergePRRows : t.event = event /\ GuardHolds(t.guard, ctx)}
  BY RowFields DEF Matches, LoopTransitions, PrepareRows, RunDevRows, SyncCIRows,
     RunReviewerRows, MergePRRows, AgentFailureRows, ReworkRows

LEMMA CounterTypes ==
  ASSUME NEW ctx \in RunContext
  PROVE  /\ ctx.devAttempt \in Nat
         /\ ctx.round \in Nat
         /\ ctx.mergeReReviewRound \in Nat
         /\ ctx.inMergeReReview \in BOOLEAN
  BY DEF RunContext

(* The guards of one (step, event) pair are disjoint.                      *)
LEMMA Unguarded == ASSUME NEW ctx PROVE GuardHolds("always", ctx)
  BY DEF GuardHolds

LEMMA PrepareFailedGuards ==
  ASSUME NEW ctx \in RunContext, NEW to, to = PrepareFailedNext(ctx)
  PROVE  /\ GuardHolds("prepare_dev_failed", ctx)    <=> to = "TERMINAL_DEV_FAILED"
         /\ GuardHolds("prepare_review_failed", ctx) <=> to = "TERMINAL_REVIEW_FAILED"
         /\ GuardHolds("prepare_escalated", ctx)     <=> to = "TERMINAL_ESCALATED"
         /\ GuardHolds("prepare_aborted", ctx)       <=> to = "TERMINAL_ABORTED"
         /\ to \in {"TERMINAL_DEV_FAILED", "TERMINAL_REVIEW_FAILED",
                    "TERMINAL_ESCALATED", "TERMINAL_ABORTED"}
  BY DEF GuardHolds, RunContext, PrepareFailedNext

LEMMA ReadyGuards ==
  ASSUME NEW ctx \in RunContext, NEW to, to = ReadyNext(ctx)
  PROVE  /\ GuardHolds("start_dev", ctx)        <=> to = "RUN_DEV"
         /\ GuardHolds("resume_undecided", ctx) <=> to = "RUN_REVIEWER"
         /\ GuardHolds("resume_approved", ctx)  <=> to = "MERGE_PR"
         /\ to \in {"RUN_DEV", "RUN_REVIEWER", "MERGE_PR"}
  BY DEF GuardHolds, RunContext, ReadyNext

LEMMA GateRejectedGuards ==
  ASSUME NEW ctx \in RunContext, NEW to, to = GateRejectedNext(ctx)
  PROVE  /\ GuardHolds("attempts_left", ctx)      <=> to = "RUN_DEV"
         /\ GuardHolds("attempts_exhausted", ctx) <=> to = "TERMINAL_DEV_FAILED"
         /\ to \in {"RUN_DEV", "TERMINAL_DEV_FAILED"}
  BY CounterTypes DEF GuardHolds, GateRejectedNext, MaxDevAttempts

LEMMA ReworkGuards ==
  ASSUME NEW ctx \in RunContext
  PROVE  /\ GuardHolds("rounds_left", ctx)
                <=> (~ctx.inMergeReReview /\ ~Escalate(ctx))
         /\ GuardHolds("rounds_exhausted", ctx)
                <=> (~ctx.inMergeReReview /\ Escalate(ctx))
         /\ GuardHolds("merge_rounds_left", ctx)
                <=> (ctx.inMergeReReview /\ ~Escalate(ctx))
         /\ GuardHolds("merge_rounds_exhausted", ctx)
                <=> (ctx.inMergeReReview /\ Escalate(ctx))
  BY CounterTypes, RoundsAssumption DEF GuardHolds, Escalate

-----------------------------------------------------------------------------
(* Where each step goes.                                                   *)

LEMMA FromPrepare ==
  ASSUME NEW ctx \in RunContext, step = "PREPARE"
  PROVE  /\ Dispatch("NOT_ELIGIBLE", ctx) => step' = "TERMINAL_SKIPPED"
         /\ Dispatch("PREPARE_FAILED", ctx) => step' = PrepareFailedNext(ctx)
         /\ Dispatch("READY", ctx) => step' = ReadyNext(ctx)
<1>1. ASSUME Dispatch("NOT_ELIGIBLE", ctx)
      PROVE  step' = "TERMINAL_SKIPPED"
  <2>1. Matches(step, "NOT_ELIGIBLE", ctx)
          = {Row("PREPARE", "NOT_ELIGIBLE", "TERMINAL_SKIPPED", "always")}
    BY PrepareMatches, RowFields, Unguarded DEF PrepareRows
  <2> QED  BY <2>1, <1>1, DispatchTakes, RowFields
<1>2. ASSUME Dispatch("PREPARE_FAILED", ctx)
      PROVE  step' = PrepareFailedNext(ctx)
  <2>1. CASE GuardHolds("prepare_dev_failed", ctx)
    <3>1. Matches(step, "PREPARE_FAILED", ctx)
            = {Row("PREPARE", "PREPARE_FAILED", "TERMINAL_DEV_FAILED", "prepare_dev_failed")}
      BY <2>1, PrepareFailedGuards, PrepareMatches, RowFields DEF PrepareRows
    <3>2. step' = "TERMINAL_DEV_FAILED"
      BY <3>1, <1>2, DispatchTakes, RowFields
    <3> QED  BY <2>1, <3>2, PrepareFailedGuards
  <2>2. CASE GuardHolds("prepare_review_failed", ctx)
    <3>1. Matches(step, "PREPARE_FAILED", ctx)
            = {Row("PREPARE", "PREPARE_FAILED", "TERMINAL_REVIEW_FAILED", "prepare_review_failed")}
      BY <2>2, PrepareFailedGuards, PrepareMatches, RowFields DEF PrepareRows
    <3>2. step' = "TERMINAL_REVIEW_FAILED"
      BY <3>1, <1>2, DispatchTakes, RowFields
    <3> QED  BY <2>2, <3>2, PrepareFailedGuards
  <2>3. CASE GuardHolds("prepare_escalated", ctx)
    <3>1. Matches(step, "PREPARE_FAILED", ctx)
            = {Row("PREPARE", "PREPARE_FAILED", "TERMINAL_ESCALATED", "prepare_escalated")}
      BY <2>3, PrepareFailedGuards, PrepareMatches, RowFields DEF PrepareRows
    <3>2. step' = "TERMINAL_ESCALATED"
      BY <3>1, <1>2, DispatchTakes, RowFields
    <3> QED  BY <2>3, <3>2, PrepareFailedGuards
  <2>4. CASE GuardHolds("prepare_aborted", ctx)
    <3>1. Matches(step, "PREPARE_FAILED", ctx)
            = {Row("PREPARE", "PREPARE_FAILED", "TERMINAL_ABORTED", "prepare_aborted")}
      BY <2>4, PrepareFailedGuards, PrepareMatches, RowFields DEF PrepareRows
    <3>2. step' = "TERMINAL_ABORTED"
      BY <3>1, <1>2, DispatchTakes, RowFields
    <3> QED  BY <2>4, <3>2, PrepareFailedGuards
  <2> QED  BY <2>1, <2>2, <2>3, <2>4, PrepareFailedGuards
<1>3. ASSUME Dispatch("READY", ctx)
      PROVE  step' = ReadyNext(ctx)
  <2>1. CASE GuardHolds("start_dev", ctx)
    <3>1. Matches(step, "READY", ctx)
            = {Row("PREPARE", "READY", "RUN_DEV", "start_dev")}
      BY <2>1, ReadyGuards, PrepareMatches, RowFields DEF PrepareRows
    <3>2. step' = "RUN_DEV"
      BY <3>1, <1>3, DispatchTakes, RowFields
    <3> QED  BY <2>1, <3>2, ReadyGuards
  <2>2. CASE GuardHolds("resume_undecided", ctx)
    <3>1. Matches(step, "READY", ctx)
            = {Row("PREPARE", "READY", "RUN_REVIEWER", "resume_undecided")}
      BY <2>2, ReadyGuards, PrepareMatches, RowFields DEF PrepareRows
    <3>2. step' = "RUN_REVIEWER"
      BY <3>1, <1>3, DispatchTakes, RowFields
    <3> QED  BY <2>2, <3>2, ReadyGuards
  <2>3. CASE GuardHolds("resume_approved", ctx)
    <3>1. Matches(step, "READY", ctx)
            = {Row("PREPARE", "READY", "MERGE_PR", "resume_approved")}
      BY <2>3, ReadyGuards, PrepareMatches, RowFields DEF PrepareRows
    <3>2. step' = "MERGE_PR"
      BY <3>1, <1>3, DispatchTakes, RowFields
    <3> QED  BY <2>3, <3>2, ReadyGuards
  <2> QED  BY <2>1, <2>2, <2>3, ReadyGuards
<1> QED  BY <1>1, <1>2, <1>3

LEMMA FromRunDev ==
  ASSUME NEW ctx \in RunContext, step = "RUN_DEV"
  PROVE  /\ Dispatch("DEV_DONE", ctx) => step' = "SYNC_CI"
         /\ Dispatch("DEV_FAILED", ctx) => step' = "TERMINAL_DEV_FAILED"
         /\ Dispatch("DEV_GATE_REJECTED", ctx) => step' = GateRejectedNext(ctx)
         /\ Dispatch("AGENT_TIMED_OUT", ctx) => step' = "TERMINAL_TIMEOUT"
         /\ Dispatch("AGENT_STALLED", ctx) => step' = "TERMINAL_STALLED"
         /\ Dispatch("AGENT_ABORTED", ctx) => step' = "TERMINAL_ABORTED"
<1>1. ASSUME Dispatch("DEV_DONE", ctx)
      PROVE  step' = "SYNC_CI"
  <2>1. Matches(step, "DEV_DONE", ctx)
          = {Row("RUN_DEV", "DEV_DONE", "SYNC_CI", "always")}
    BY RunDevMatches, RowFields, Unguarded DEF RunDevRows, AgentFailureRows
  <2> QED  BY <2>1, <1>1, DispatchTakes, RowFields
<1>2. ASSUME Dispatch("DEV_FAILED", ctx)
      PROVE  step' = "TERMINAL_DEV_FAILED"
  <2>1. Matches(step, "DEV_FAILED", ctx)
          = {Row("RUN_DEV", "DEV_FAILED", "TERMINAL_DEV_FAILED", "always")}
    BY RunDevMatches, RowFields, Unguarded DEF RunDevRows, AgentFailureRows
  <2> QED  BY <2>1, <1>2, DispatchTakes, RowFields
<1>3. ASSUME Dispatch("DEV_GATE_REJECTED", ctx)
      PROVE  step' = GateRejectedNext(ctx)
  <2>1. CASE GuardHolds("attempts_left", ctx)
    <3>1. Matches(step, "DEV_GATE_REJECTED", ctx)
            = {Row("RUN_DEV", "DEV_GATE_REJECTED", "RUN_DEV", "attempts_left")}
      BY <2>1, GateRejectedGuards, RunDevMatches, RowFields DEF RunDevRows, AgentFailureRows
    <3>2. step' = "RUN_DEV"
      BY <3>1, <1>3, DispatchTakes, RowFields
    <3> QED  BY <2>1, <3>2, GateRejectedGuards
  <2>2. CASE GuardHolds("attempts_exhausted", ctx)
    <3>1. Matches(step, "DEV_GATE_REJECTED", ctx)
            = {Row("RUN_DEV", "DEV_GATE_REJECTED", "TERMINAL_DEV_FAILED", "attempts_exhausted")}
      BY <2>2, GateRejectedGuards, RunDevMatches, RowFields DEF RunDevRows, AgentFailureRows
    <3>2. step' = "TERMINAL_DEV_FAILED"
      BY <3>1, <1>3, DispatchTakes, RowFields
    <3> QED  BY <2>2, <3>2, GateRejectedGuards
  <2> QED  BY <2>1, <2>2, GateRejectedGuards
<1>4. ASSUME Dispatch("AGENT_TIMED_OUT", ctx)
      PROVE  step' = "TERMINAL_TIMEOUT"
  <2>1. Matches(step, "AGENT_TIMED_OUT", ctx)
          = {Row("RUN_DEV", "AGENT_TIMED_OUT", "TERMINAL_TIMEOUT", "always")}
    BY RunDevMatches, RowFields, Unguarded DEF RunDevRows, AgentFailureRows
  <2> QED  BY <2>1, <1>4, DispatchTakes, RowFields
<1>5. ASSUME Dispatch("AGENT_STALLED", ctx)
      PROVE  step' = "TERMINAL_STALLED"
  <2>1. Matches(step, "AGENT_STALLED", ctx)
          = {Row("RUN_DEV", "AGENT_STALLED", "TERMINAL_STALLED", "always")}
    BY RunDevMatches, RowFields, Unguarded DEF RunDevRows, AgentFailureRows
  <2> QED  BY <2>1, <1>5, DispatchTakes, RowFields
<1>6. ASSUME Dispatch("AGENT_ABORTED", ctx)
      PROVE  step' = "TERMINAL_ABORTED"
  <2>1. Matches(step, "AGENT_ABORTED", ctx)
          = {Row("RUN_DEV", "AGENT_ABORTED", "TERMINAL_ABORTED", "always")}
    BY RunDevMatches, RowFields, Unguarded DEF RunDevRows, AgentFailureRows
  <2> QED  BY <2>1, <1>6, DispatchTakes, RowFields
<1> QED  BY <1>1, <1>2, <1>3, <1>4, <1>5, <1>6

LEMMA FromSyncCI ==
  ASSUME NEW ctx \in RunContext, step = "SYNC_CI"
  PROVE  /\ Dispatch("CI_GREEN", ctx) => step' = "RUN_REVIEWER"
         /\ Dispatch("CI_FAILED", ctx) => step' = "TERMINAL_DEV_FAILED"
         /\ Dispatch("CONFLICT_UNRESOLVED", ctx) => step' = "TERMINAL_DEV_FAILED"
<1>1. ASSUME Dispatch("CI_GREEN", ctx)
      PROVE  step' = "RUN_REVIEWER"
  <2>1. Matches(step, "CI_GREEN", ctx)
          = {Row("SYNC_CI", "CI_GREEN", "RUN_REVIEWER", "always")}
    BY SyncCIMatches, RowFields, Unguarded DEF SyncCIRows, AgentFailureRows
  <2> QED  BY <2>1, <1>1, DispatchTakes, RowFields
<1>2. ASSUME Dispatch("CI_FAILED", ctx)
      PROVE  step' = "TERMINAL_DEV_FAILED"
  <2>1. Matches(step, "CI_FAILED", ctx)
          = {Row("SYNC_CI", "CI_FAILED", "TERMINAL_DEV_FAILED", "always")}
    BY SyncCIMatches, RowFields, Unguarded DEF SyncCIRows, AgentFailureRows
  <2> QED  BY <2>1, <1>2, DispatchTakes, RowFields
<1>3. ASSUME Dispatch("CONFLICT_UNRESOLVED", ctx)
      PROVE  step' = "TERMINAL_DEV_FAILED"
  <2>1. Matches(step, "CONFLICT_UNRESOLVED", ctx)
          = {Row("SYNC_CI", "CONFLICT_UNRESOLVED", "TERMINAL_DEV_FAILED", "always")}
    BY SyncCIMatches, RowFields, Unguarded DEF SyncCIRows, AgentFailureRows
  <2> QED  BY <2>1, <1>3, DispatchTakes, RowFields
<1> QED  BY <1>1, <1>2, <1>3

LEMMA FromRunReviewer ==
  ASSUME NEW ctx \in RunContext, step = "RUN_REVIEWER"
  PROVE  /\ Dispatch("REVIEW_APPROVED", ctx) => step' = "MERGE_PR"
         /\ Dispatch("REVIEW_FAILED", ctx) => step' = "TERMINAL_REVIEW_FAILED"
         /\ Dispatch("CHANGES_REQUESTED", ctx) => step' = ReworkNext(ctx)
         /\ Dispatch("PRECHECK_FAILED", ctx) => step' = ReworkNext(ctx)
         /\ Dispatch("AGENT_TIMED_OUT", ctx) => step' = "TERMINAL_TIMEOUT"
         /\ Dispatch("AGENT_STALLED", ctx) => step' = "TERMINAL_STALLED"
         /\ Dispatch("AGENT_ABORTED", ctx) => step' = "TERMINAL_ABORTED"
<1>1. ASSUME Dispatch("REVIEW_APPROVED", ctx)
      PROVE  step' = "MERGE_PR"
  <2>1. Matches(step, "REVIEW_APPROVED", ctx)
          = {Row("RUN_REVIEWER", "REVIEW_APPROVED", "MERGE_PR", "always")}
    BY RunReviewerMatches, RowFields, Unguarded DEF RunReviewerRows, AgentFailureRows, ReworkRows
  <2> QED  BY <2>1, <1>1, DispatchTakes, RowFields
<1>2. ASSUME Dispatch("REVIEW_FAILED", ctx)
      PROVE  step' = "TERMINAL_REVIEW_FAILED"
  <2>1. Matches(step, "REVIEW_FAILED", ctx)
          = {Row("RUN_REVIEWER", "REVIEW_FAILED", "TERMINAL_REVIEW_FAILED", "always")}
    BY RunReviewerMatches, RowFields, Unguarded DEF RunReviewerRows, AgentFailureRows, ReworkRows
  <2> QED  BY <2>1, <1>2, DispatchTakes, RowFields
<1>3. ASSUME Dispatch("CHANGES_REQUESTED", ctx)
      PROVE  step' = ReworkNext(ctx)
  <2>1. CASE GuardHolds("rounds_left", ctx)
    <3>1. Matches(step, "CHANGES_REQUESTED", ctx)
            = {Row("RUN_REVIEWER", "CHANGES_REQUESTED", "RUN_DEV", "rounds_left")}
      BY <2>1, ReworkGuards, RunReviewerMatches, RowFields DEF RunReviewerRows, AgentFailureRows, ReworkRows
    <3>2. step' = "RUN_DEV"
      BY <3>1, <1>3, DispatchTakes, RowFields
    <3> QED  BY <2>1, <3>2, ReworkGuards DEF ReworkNext
  <2>2. CASE GuardHolds("rounds_exhausted", ctx)
    <3>1. Matches(step, "CHANGES_REQUESTED", ctx)
            = {Row("RUN_REVIEWER", "CHANGES_REQUESTED", "TERMINAL_ESCALATED", "rounds_exhausted")}
      BY <2>2, ReworkGuards, RunReviewerMatches, RowFields DEF RunReviewerRows, AgentFailureRows, ReworkRows
    <3>2. step' = "TERMINAL_ESCALATED"
      BY <3>1, <1>3, DispatchTakes, RowFields
    <3> QED  BY <2>2, <3>2, ReworkGuards DEF ReworkNext
  <2>3. CASE GuardHolds("merge_rounds_left", ctx)
    <3>1. Matches(step, "CHANGES_REQUESTED", ctx)
            = {Row("RUN_REVIEWER", "CHANGES_REQUESTED", "RUN_DEV", "merge_rounds_left")}
      BY <2>3, ReworkGuards, RunReviewerMatches, RowFields DEF RunReviewerRows, AgentFailureRows, ReworkRows
    <3>2. step' = "RUN_DEV"
      BY <3>1, <1>3, DispatchTakes, RowFields
    <3> QED  BY <2>3, <3>2, ReworkGuards DEF ReworkNext
  <2>4. CASE GuardHolds("merge_rounds_exhausted", ctx)
    <3>1. Matches(step, "CHANGES_REQUESTED", ctx)
            = {Row("RUN_REVIEWER", "CHANGES_REQUESTED", "TERMINAL_ESCALATED", "merge_rounds_exhausted")}
      BY <2>4, ReworkGuards, RunReviewerMatches, RowFields DEF RunReviewerRows, AgentFailureRows, ReworkRows
    <3>2. step' = "TERMINAL_ESCALATED"
      BY <3>1, <1>3, DispatchTakes, RowFields
    <3> QED  BY <2>4, <3>2, ReworkGuards DEF ReworkNext
  <2> QED  BY <2>1, <2>2, <2>3, <2>4, ReworkGuards
<1>4. ASSUME Dispatch("PRECHECK_FAILED", ctx)
      PROVE  step' = ReworkNext(ctx)
  <2>1. CASE GuardHolds("rounds_left", ctx)
    <3>1. Matches(step, "PRECHECK_FAILED", ctx)
            = {Row("RUN_REVIEWER", "PRECHECK_FAILED", "RUN_DEV", "rounds_left")}
      BY <2>1, ReworkGuards, RunReviewerMatches, RowFields DEF RunReviewerRows, AgentFailureRows, ReworkRows
    <3>2. step' = "RUN_DEV"
      BY <3>1, <1>4, DispatchTakes, RowFields
    <3> QED  BY <2>1, <3>2, ReworkGuards DEF ReworkNext
  <2>2. CASE GuardHolds("rounds_exhausted", ctx)
    <3>1. Matches(step, "PRECHECK_FAILED", ctx)
            = {Row("RUN_REVIEWER", "PRECHECK_FAILED", "TERMINAL_ESCALATED", "rounds_exhausted")}
      BY <2>2, ReworkGuards, RunReviewerMatches, RowFields DEF RunReviewerRows, AgentFailureRows, ReworkRows
    <3>2. step' = "TERMINAL_ESCALATED"
      BY <3>1, <1>4, DispatchTakes, RowFields
    <3> QED  BY <2>2, <3>2, ReworkGuards DEF ReworkNext
  <2>3. CASE GuardHolds("merge_rounds_left", ctx)
    <3>1. Matches(step, "PRECHECK_FAILED", ctx)
            = {Row("RUN_REVIEWER", "PRECHECK_FAILED", "RUN_DEV", "merge_rounds_left")}
      BY <2>3, ReworkGuards, RunReviewerMatches, RowFields DEF RunReviewerRows, AgentFailureRows, ReworkRows
    <3>2. step' = "RUN_DEV"
      BY <3>1, <1>4, DispatchTakes, RowFields
    <3> QED  BY <2>3, <3>2, ReworkGuards DEF ReworkNext
  <2>4. CASE GuardHolds("merge_rounds_exhausted", ctx)
    <3>1. Matches(step, "PRECHECK_FAILED", ctx)
            = {Row("RUN_REVIEWER", "PRECHECK_FAILED", "TERMINAL_ESCALATED", "merge_rounds_exhausted")}
      BY <2>4, ReworkGuards, RunReviewerMatches, RowFields DEF RunReviewerRows, AgentFailureRows, ReworkRows
    <3>2. step' = "TERMINAL_ESCALATED"
      BY <3>1, <1>4, DispatchTakes, RowFields
    <3> QED  BY <2>4, <3>2, ReworkGuards DEF ReworkNext
  <2> QED  BY <2>1, <2>2, <2>3, <2>4, ReworkGuards
<1>5. ASSUME Dispatch("AGENT_TIMED_OUT", ctx)
      PROVE  step' = "TERMINAL_TIMEOUT"
  <2>1. Matches(step, "AGENT_TIMED_OUT", ctx)
          = {Row("RUN_REVIEWER", "AGENT_TIMED_OUT", "TERMINAL_TIMEOUT", "always")}
    BY RunReviewerMatches, RowFields, Unguarded DEF RunReviewerRows, AgentFailureRows, ReworkRows
  <2> QED  BY <2>1, <1>5, DispatchTakes, RowFields
<1>6. ASSUME Dispatch("AGENT_STALLED", ctx)
      PROVE  step' = "TERMINAL_STALLED"
  <2>1. Matches(step, "AGENT_STALLED", ctx)
          = {Row("RUN_REVIEWER", "AGENT_STALLED", "TERMINAL_STALLED", "always")}
    BY RunReviewerMatches, RowFields, Unguarded DEF RunReviewerRows, AgentFailureRows, ReworkRows
  <2> QED  BY <2>1, <1>6, DispatchTakes, RowFields
<1>7. ASSUME Dispatch("AGENT_ABORTED", ctx)
      PROVE  step' = "TERMINAL_ABORTED"
  <2>1. Matches(step, "AGENT_ABORTED", ctx)
          = {Row("RUN_REVIEWER", "AGENT_ABORTED", "TERMINAL_ABORTED", "always")}
    BY RunReviewerMatches, RowFields, Unguarded DEF RunReviewerRows, AgentFailureRows, ReworkRows
  <2> QED  BY <2>1, <1>7, DispatchTakes, RowFields
<1> QED  BY <1>1, <1>2, <1>3, <1>4, <1>5, <1>6, <1>7

LEMMA FromMergePR ==
  ASSUME NEW ctx \in RunContext, step = "MERGE_PR"
  PROVE  /\ Dispatch("MERGED", ctx) => step' = "TERMINAL_SUCCESS"
         /\ Dispatch("MERGE_FAILED", ctx) => step' = "TERMINAL_MERGE_FAILED"
         /\ Dispatch("CONFLICT_RESOLVED", ctx) => step' = "RUN_REVIEWER"
         /\ Dispatch("CONFLICT_UNRESOLVED", ctx) => step' = "TERMINAL_DEV_FAILED"
<1>1. ASSUME Dispatch("MERGED", ctx)
      PROVE  step' = "TERMINAL_SUCCESS"
  <2>1. Matches(step, "MERGED", ctx)
          = {Row("MERGE_PR", "MERGED", "TERMINAL_SUCCESS", "always")}
    BY MergePRMatches, RowFields, Unguarded DEF MergePRRows, AgentFailureRows
  <2> QED  BY <2>1, <1>1, DispatchTakes, RowFields
<1>2. ASSUME Dispatch("MERGE_FAILED", ctx)
      PROVE  step' = "TERMINAL_MERGE_FAILED"
  <2>1. Matches(step, "MERGE_FAILED", ctx)
          = {Row("MERGE_PR", "MERGE_FAILED", "TERMINAL_MERGE_FAILED", "always")}
    BY MergePRMatches, RowFields, Unguarded DEF MergePRRows, AgentFailureRows
  <2> QED  BY <2>1, <1>2, DispatchTakes, RowFields
<1>3. ASSUME Dispatch("CONFLICT_RESOLVED", ctx)
      PROVE  step' = "RUN_REVIEWER"
  <2>1. Matches(step, "CONFLICT_RESOLVED", ctx)
          = {Row("MERGE_PR", "CONFLICT_RESOLVED", "RUN_REVIEWER", "always")}
    BY MergePRMatches, RowFields, Unguarded DEF MergePRRows, AgentFailureRows
  <2> QED  BY <2>1, <1>3, DispatchTakes, RowFields
<1>4. ASSUME Dispatch("CONFLICT_UNRESOLVED", ctx)
      PROVE  step' = "TERMINAL_DEV_FAILED"
  <2>1. Matches(step, "CONFLICT_UNRESOLVED", ctx)
          = {Row("MERGE_PR", "CONFLICT_UNRESOLVED", "TERMINAL_DEV_FAILED", "always")}
    BY MergePRMatches, RowFields, Unguarded DEF MergePRRows, AgentFailureRows
  <2> QED  BY <2>1, <1>4, DispatchTakes, RowFields
<1> QED  BY <1>1, <1>2, <1>3, <1>4

-----------------------------------------------------------------------------
(* The inductive invariant.                                                *)

(* PREPARE runs once, on the context orchestrateRun has just built.        *)
PrepareInv ==
  step = "PREPARE" => /\ rc = NewRunContext(rc.resume)
                      /\ reviews = 0
                      /\ reworks = 0

(* devAttempt counts the invocations of the current visit to RUN_DEV.      *)
AttemptInv ==
  IF step = "RUN_DEV" THEN devRuns = rc.devAttempt + 1 /\ rc.devAttempt < MaxDevAttempts
                      ELSE devRuns = 0

(* Where the change is approved and where it is not.                       *)
ApprovalInv ==
  /\ step \in {"RUN_DEV", "SYNC_CI", "RUN_REVIEWER"} => unreviewed
  /\ step \in {"MERGE_PR", "TERMINAL_SUCCESS"} => ~unreviewed

(* From the first review on the PR exists: a dev turn that cannot read the *)
(* log then fails, because GitHub refuses a second PR.                     *)
OpenPRInv ==
  /\ step \in {"SYNC_CI", "RUN_REVIEWER"} => prExists
  /\ step = "RUN_DEV" /\ reworks > 0 => prExists
  /\ step = "MERGE_PR" /\ rc.prState # "MERGED" => prExists

(* Each rework used up one review, of the budget of its phase.             *)
ReworkInv ==
  /\ ~rc.inMergeReReview =>
       /\ rc.mergeReReviewRound = 0
       /\ reworks <= reviews
       /\ \/ reworks <= MaxRounds - 1
          \/ /\ reworks <= MaxRounds
             /\ ~logOK
             /\ step \notin {"SYNC_CI", "RUN_REVIEWER", "MERGE_PR"}
  /\ rc.inMergeReReview =>
       /\ reworks <= (MaxRounds - 1) + rc.mergeReReviewRound
       /\ reworks <= (MaxRounds - 1) + (MaxMergeReReviewRounds - 1)

IInv ==
  /\ TypeOK
  /\ DispatchTotal
  /\ PrepareInv
  /\ AttemptInv
  /\ ApprovalInv
  /\ OpenPRInv
  /\ ReworkInv
  /\ EscalatesOnlyWhenExhausted

LEMMA InitIInv == Init => IInv
<1> SUFFICES ASSUME Init PROVE IInv
  OBVIOUS
<1>1. PICK resume \in BOOLEAN : rc = NewRunContext(resume)
  BY DEF Init
<1>2. rc \in RunContext /\ rc.resume = resume /\ ~rc.inMergeReReview
      /\ rc.mergeReReviewRound = 0
  BY <1>1 DEF NewRunContext, RunContext
<1> QED
  BY <1>1, <1>2, RoundsAssumption
     DEF Init, IInv, TypeOK, WorkSteps, DispatchTotal, StateError, PrepareInv, AttemptInv,
         ApprovalInv, OpenPRInv, ReworkInv, EscalatesOnlyWhenExhausted, MaxDevAttempts

(* A handler sets single fields of the context.                            *)
LEMMA SetDevAttempt ==
  ASSUME NEW c \in RunContext, NEW v \in Nat, NEW d, d = [c EXCEPT !.devAttempt = v]
  PROVE  /\ d \in RunContext
         /\ d.devAttempt = v
         /\ d.round = c.round
         /\ d.inMergeReReview = c.inMergeReReview
         /\ d.mergeReReviewRound = c.mergeReReviewRound
  BY DEF RunContext

LEMMA SetRound ==
  ASSUME NEW c \in RunContext, NEW v \in Nat, NEW d, d = [c EXCEPT !.round = v]
  PROVE  /\ d \in RunContext
         /\ d.devAttempt = c.devAttempt
         /\ d.round = v
         /\ d.resume = c.resume
         /\ d.resumeVerdict = c.resumeVerdict
         /\ d.inMergeReReview = c.inMergeReReview
         /\ d.mergeReReviewRound = c.mergeReReviewRound
  BY DEF RunContext

LEMMA SetReviewerWorktree ==
  ASSUME NEW c \in RunContext, NEW d, d = [c EXCEPT !.reviewerWorktreeExists = TRUE]
  PROVE  /\ d \in RunContext
         /\ d.resume = c.resume
         /\ d.resumeVerdict = c.resumeVerdict
         /\ d.inMergeReReview = c.inMergeReReview
         /\ d.mergeReReviewRound = c.mergeReReviewRound
  BY DEF RunContext

LEMMA RetryContext ==
  ASSUME NEW c \in RunContext, NEW d, d = RetryWithFindings(c)
  PROVE  /\ d \in RunContext
         /\ d.devAttempt = 0
         /\ d.round = c.round
         /\ d.resume = c.resume
         /\ d.resumeVerdict = c.resumeVerdict
         /\ d.inMergeReReview = c.inMergeReReview
         /\ d.mergeReReviewRound = c.mergeReReviewRound
<1>1. PICK m : m = [c EXCEPT !.devMode = "retry_with_findings"]
  OBVIOUS
<1>2. /\ m \in RunContext
      /\ m.round = c.round
      /\ m.resume = c.resume
      /\ m.resumeVerdict = c.resumeVerdict
      /\ m.inMergeReReview = c.inMergeReReview
      /\ m.mergeReReviewRound = c.mergeReReviewRound
  BY <1>1 DEF RunContext
<1>3. d = [m EXCEPT !.devAttempt = 0]
  BY <1>1 DEF RetryWithFindings
<1> QED
  BY <1>2, <1>3 DEF RunContext

(* The run fails or is skipped: nothing but the log and the PR may change. *)
FailureTerminals ==
  Terminals \ {"TERMINAL_SUCCESS", "TERMINAL_ESCALATED"}

LEMMA FailureTerminalsFacts ==
  ASSUME NEW s \in FailureTerminals
  PROVE  s \in Terminals /\ s \notin WorkSteps
         /\ s \notin {"TERMINAL_SUCCESS", "TERMINAL_ESCALATED", StateError}
         /\ s \notin {"PREPARE", "RUN_DEV", "SYNC_CI", "RUN_REVIEWER", "MERGE_PR"}
  BY DEF FailureTerminals, Terminals, WorkSteps, StateError

LEMMA FailureIInv ==
  ASSUME IInv,
         rc' \in RunContext,
         rc'.inMergeReReview = rc.inMergeReReview,
         rc'.mergeReReviewRound \in {rc.mergeReReviewRound, rc.mergeReReviewRound + 1},
         rc'.inMergeReReview \/ rc'.mergeReReviewRound = rc.mergeReReviewRound,
         step' \in FailureTerminals,
         step \in WorkSteps,
         reviews' \in Nat, reviews' >= reviews,
         logOK' \in BOOLEAN, logOK' => logOK, prExists' \in BOOLEAN, conflicts' = conflicts,
         unreviewed' \in BOOLEAN, devRuns' = 0, reworks' = reworks
  PROVE  IInv'
<1>1. TypeOK'
  BY DEF IInv, TypeOK, FailureTerminals, MaxDevAttempts
<1>2. step' \notin WorkSteps \cup {"TERMINAL_SUCCESS", "TERMINAL_ESCALATED", StateError}
  BY DEF FailureTerminals, Terminals, WorkSteps, StateError
<1>3. DispatchTotal' /\ PrepareInv' /\ AttemptInv' /\ ApprovalInv' /\ OpenPRInv'
      /\ EscalatesOnlyWhenExhausted'
  BY <1>2 DEF DispatchTotal, PrepareInv, AttemptInv, ApprovalInv, OpenPRInv,
              EscalatesOnlyWhenExhausted, WorkSteps
<1>4. ReworkInv'
  BY <1>2, CounterTypes, RoundsAssumption DEF IInv, TypeOK, ReworkInv, WorkSteps
<1> QED
  BY <1>1, <1>3, <1>4 DEF IInv

LEMMA StepSyncCIIInv == IInv /\ StepSyncCI => IInv'
<1> SUFFICES ASSUME IInv, StepSyncCI PROVE IInv'
  OBVIOUS
<1>1. rc' \in RunContext /\ rc' = rc /\ logOK' \in BOOLEAN /\ (logOK' => logOK)
  BY DEF IInv, TypeOK, StepSyncCI, AppendToLog
<1>2. \/ logOK /\ step' = "RUN_REVIEWER"
      \/ step' = "TERMINAL_DEV_FAILED"
  BY <1>1, FromSyncCI DEF StepSyncCI, Take
<1>3. unreviewed' = unreviewed /\ devRuns' = 0 /\ reworks' = reworks
  BY <1>2 DEF StepSyncCI, Take
<1> QED
  BY <1>1, <1>2, <1>3
     DEF IInv, StepSyncCI, TypeOK, WorkSteps, Terminals, DispatchTotal, StateError,
         PrepareInv, AttemptInv, ApprovalInv, OpenPRInv, ReworkInv,
         EscalatesOnlyWhenExhausted, MaxDevAttempts

LEMMA StepRunDevIInv == IInv /\ StepRunDev => IInv'
<1> SUFFICES ASSUME IInv, StepRunDev PROVE IInv'
  OBVIOUS
<1> DEFINE ctx == IF rc.devAttempt = 0 /\ rc.devMode = "retry_with_findings"
                  THEN [rc EXCEPT !.round = @ + 1] ELSE rc
<1>1. /\ step = "RUN_DEV" /\ logOK' \in BOOLEAN /\ (logOK' => logOK)
      /\ reviews' = reviews /\ conflicts' = conflicts
      /\ rc \in RunContext
  BY DEF StepRunDev, AppendToLog, IInv, TypeOK
<1>2. /\ ctx \in RunContext
      /\ ctx.devAttempt = rc.devAttempt
      /\ ctx.inMergeReReview = rc.inMergeReReview
      /\ ctx.mergeReReviewRound = rc.mergeReReviewRound
  <2>1. rc.round + 1 \in Nat
    BY <1>1, CounterTypes
  <2> QED
    BY <1>1, <2>1, SetRound
<1>3. \/ /\ logOK \/ ~prExists
         /\ rc' = [ctx EXCEPT !.devAttempt = 0]
         /\ prExists' = TRUE
         /\ Take("DEV_DONE")
      \/ /\ rc' = [ctx EXCEPT !.devAttempt = @ + 1]
         /\ prExists' = prExists
         /\ Take("DEV_GATE_REJECTED")
      \/ /\ rc' = ctx
         /\ prExists' \in {prExists, TRUE}
         /\ \E ev \in {"DEV_FAILED"} \cup AgentFailures : Take(ev)
  BY DEF StepRunDev
<1> HIDE DEF ctx
<1>4. CASE /\ logOK \/ ~prExists
           /\ rc' = [ctx EXCEPT !.devAttempt = 0]
           /\ prExists' = TRUE
           /\ Take("DEV_DONE")
  <2>1. /\ rc' \in RunContext
        /\ rc'.inMergeReReview = rc.inMergeReReview
        /\ rc'.mergeReReviewRound = rc.mergeReReviewRound
    BY <1>2, <1>4, SetDevAttempt
  <2>2. step' = "SYNC_CI" /\ unreviewed' = TRUE /\ devRuns' = 0 /\ reworks' = reworks
    BY <1>1, <1>4, <2>1, FromRunDev DEF Take
  <2> QED
    BY <1>1, <1>4, <2>1, <2>2, RoundsAssumption
       DEF IInv, TypeOK, WorkSteps, DispatchTotal, StateError, PrepareInv,
           AttemptInv, ApprovalInv, OpenPRInv, ReworkInv, EscalatesOnlyWhenExhausted,
           MaxDevAttempts
<1>5. CASE /\ rc' = [ctx EXCEPT !.devAttempt = @ + 1]
           /\ prExists' = prExists
           /\ Take("DEV_GATE_REJECTED")
  <2>1. /\ rc' \in RunContext
        /\ rc'.devAttempt = rc.devAttempt + 1
        /\ rc'.inMergeReReview = rc.inMergeReReview
        /\ rc'.mergeReReviewRound = rc.mergeReReviewRound
    BY <1>1, <1>2, <1>5, CounterTypes, SetDevAttempt
  <2>2. step' = GateRejectedNext(rc') /\ unreviewed' = unreviewed /\ reworks' = reworks
    BY <1>1, <1>5, <2>1, FromRunDev DEF Take
  <2>3. CASE rc'.devAttempt < MaxDevAttempts
    <3>1. step' = "RUN_DEV"
      BY <2>2, <2>3 DEF GateRejectedNext
    <3>2. devRuns = rc.devAttempt + 1 /\ rc.devAttempt < MaxDevAttempts
          /\ rc.devAttempt \in Nat
      BY <1>1, CounterTypes DEF IInv, AttemptInv
    <3>3. ~(devRuns > MaxDevAttempts)
      BY <3>2 DEF MaxDevAttempts
    <3>4. devRuns' = devRuns + 1
      BY <1>1, <1>5, <3>1, <3>3 DEF Take
    <3> QED
      BY <1>1, <1>5, <2>1, <2>2, <2>3, <3>1, <3>2, <3>4, CounterTypes
         DEF IInv, TypeOK, WorkSteps, DispatchTotal, StateError, PrepareInv, AttemptInv,
             ApprovalInv, OpenPRInv, ReworkInv, EscalatesOnlyWhenExhausted, MaxDevAttempts
  <2>4. CASE ~(rc'.devAttempt < MaxDevAttempts)
    <3>1. step' = "TERMINAL_DEV_FAILED"
      BY <2>2, <2>4 DEF GateRejectedNext
    <3>2. devRuns' = 0
      BY <1>5, <3>1 DEF Take
    <3> QED
      BY <1>1, <1>5, <2>1, <2>2, <3>1, <3>2, FailureIInv
         DEF FailureTerminals, Terminals, WorkSteps, IInv, TypeOK
  <2> QED
    BY <2>3, <2>4
<1>6. CASE /\ rc' = ctx
           /\ prExists' \in {prExists, TRUE}
           /\ \E ev \in {"DEV_FAILED"} \cup AgentFailures : Take(ev)
  <2>1. /\ step' \in {"TERMINAL_DEV_FAILED", "TERMINAL_TIMEOUT", "TERMINAL_STALLED",
                      "TERMINAL_ABORTED"}
        /\ unreviewed' = unreviewed
    BY <1>1, <1>2, <1>6, FromRunDev DEF Take, AgentFailures
  <2>2. devRuns' = 0 /\ reworks' = reworks /\ prExists' \in BOOLEAN
    BY <1>6, <2>1 DEF Take, AgentFailures, IInv, TypeOK
  <2> QED
    BY <1>1, <1>2, <1>6, <2>1, <2>2, FailureIInv
       DEF FailureTerminals, Terminals, WorkSteps, IInv, TypeOK
<1> QED
  BY <1>3, <1>4, <1>5, <1>6

(* PREPARE, in whichever of its modes.                                     *)
LEMMA PrepareContext ==
  ASSUME IInv, step = "PREPARE"
  PROVE  /\ rc \in RunContext
         /\ rc.devAttempt = 0
         /\ rc.prepareFailKind = "none" /\ ~rc.worktreeCreateFailed /\ rc.resumeVerdict = "none"
         /\ ~rc.inMergeReReview /\ rc.mergeReReviewRound = 0
         /\ reviews = 0 /\ reworks = 0 /\ devRuns = 0
<1>1. rc \in RunContext /\ rc = NewRunContext(rc.resume) /\ reviews = 0 /\ reworks = 0
      /\ devRuns = 0
  BY DEF IInv, TypeOK, PrepareInv, AttemptInv
<1>2. /\ NewRunContext(rc.resume).devAttempt = 0
      /\ NewRunContext(rc.resume).prepareFailKind = "none"
      /\ ~NewRunContext(rc.resume).worktreeCreateFailed
      /\ NewRunContext(rc.resume).resumeVerdict = "none"
      /\ ~NewRunContext(rc.resume).inMergeReReview
      /\ NewRunContext(rc.resume).mergeReReviewRound = 0
  BY DEF NewRunContext
<1> QED
  BY <1>1, <1>2

LEMMA LeavePrepare ==
  ASSUME IInv, step = "PREPARE",
         rc' \in RunContext,
         rc'.devAttempt = 0, ~rc'.inMergeReReview, rc'.mergeReReviewRound = 0,
         AppendToLog, prExists' \in BOOLEAN, conflicts' = conflicts, reviews' \in Nat,
         NEW event \in {"NOT_ELIGIBLE", "PREPARE_FAILED", "READY"}, Take(event),
         event = "PREPARE_FAILED" /\ rc'.prepareFailKind = "escalated" => reviews' >= MaxRounds,
         event = "READY" /\ rc'.resume /\ rc'.resumeVerdict # "changes_requested" =>
           prExists' \/ (rc'.prState = "MERGED" /\ rc'.resumeVerdict = "approved"),
         rc'.resumeVerdict = "approved" => rc'.resume
  PROVE  IInv'
<1>1. reworks' = 0 /\ (devRuns' = IF step' = "RUN_DEV" THEN 1 ELSE 0)
  BY PrepareContext DEF Take
<1>u. unreviewed' \in BOOLEAN
  <2>1. CASE event = "READY"
    BY <2>1 DEF Take
  <2>2. CASE event # "READY"
    BY <2>2 DEF Take, IInv, TypeOK
  <2> QED  BY <2>1, <2>2
<1>2. \/ step' \in FailureTerminals
      \/ step' = "TERMINAL_ESCALATED" /\ reviews' >= MaxRounds
      \/ step' = "RUN_DEV" /\ unreviewed'
      \/ step' = "RUN_REVIEWER" /\ prExists' /\ unreviewed'
      \/ step' = "MERGE_PR" /\ ~unreviewed' /\ (rc'.prState # "MERGED" => prExists')
  <2>1. CASE event = "NOT_ELIGIBLE"
    BY <2>1, FromPrepare DEF Take, FailureTerminals, Terminals
  <2>2. CASE event = "PREPARE_FAILED"
    <3>1. step' = PrepareFailedNext(rc')
      BY <2>2, FromPrepare DEF Take
    <3>2. step' = "TERMINAL_ESCALATED" => rc'.prepareFailKind = "escalated"
      BY <3>1, PrepareFailedGuards DEF GuardHolds
    <3> QED
      BY <2>2, <3>1, <3>2, PrepareFailedGuards DEF FailureTerminals, Terminals
  <2>3. CASE event = "READY"
    <3>1. step' = ReadyNext(rc') /\ (unreviewed' <=> rc'.resumeVerdict # "approved")
      BY <2>3, FromPrepare DEF Take
    <3> QED
      BY <2>3, <3>1 DEF ReadyNext
  <2> QED
    BY <2>1, <2>2, <2>3
<1>3. /\ step' \in WorkSteps \cup Terminals \cup {StateError}
      /\ step' # "PREPARE" /\ step' # "SYNC_CI" /\ step' # "TERMINAL_SUCCESS"
      /\ step' # StateError
  BY <1>2, FailureTerminalsFacts DEF WorkSteps, Terminals, StateError
<1>4. TypeOK'
  <2>1. devRuns' \in 0..(MaxDevAttempts + 1) /\ reworks' \in Nat
    BY <1>1 DEF MaxDevAttempts
  <2> QED
    BY <1>u, <1>3, <2>1 DEF AppendToLog, IInv, TypeOK
<1>5. DispatchTotal' /\ PrepareInv'
  BY <1>3 DEF DispatchTotal, PrepareInv
<1>6. AttemptInv'
  BY <1>1 DEF AttemptInv, MaxDevAttempts
<1>7. ApprovalInv' /\ OpenPRInv'
  BY <1>1, <1>2, <1>3, FailureTerminalsFacts DEF ApprovalInv, OpenPRInv
<1>8. ReworkInv'
  BY <1>1, RoundsAssumption DEF ReworkInv
<1>9. EscalatesOnlyWhenExhausted'
  BY <1>2, FailureTerminalsFacts DEF EscalatesOnlyWhenExhausted
<1> QED
  BY <1>4, <1>5, <1>6, <1>7, <1>8, <1>9 DEF IInv

LEMMA StepPrepareIInv == IInv /\ StepPrepare => IInv'
<1> SUFFICES ASSUME IInv, StepPrepare PROVE IInv'
  OBVIOUS
<1>1. CASE PrepareFresh
  <2>1. /\ step = "PREPARE" /\ ~rc.resume /\ AppendToLog /\ reviews' = reviews
        /\ conflicts' = conflicts
        /\ rc' \in {rc, [rc EXCEPT !.worktreeCreateFailed = TRUE]}
    BY <1>1 DEF PrepareFresh
  <2>2. prExists' \in BOOLEAN
    BY <1>1 DEF PrepareFresh, IInv, TypeOK
  <2>3. /\ rc' \in RunContext /\ ~rc'.resume /\ rc'.resumeVerdict = "none"
        /\ rc'.prepareFailKind = "none" /\ rc'.devAttempt = 0
        /\ ~rc'.inMergeReReview /\ rc'.mergeReReviewRound = 0
    BY <2>1, PrepareContext DEF RunContext
  <2>4. PICK event \in {"NOT_ELIGIBLE", "PREPARE_FAILED", "READY"} : Take(event)
    BY <1>1 DEF PrepareFresh
  <2> QED
    BY <2>1, <2>2, <2>3, <2>4, PrepareContext, LeavePrepare
<1>2. CASE ResumeRefused
  <2>1. /\ step = "PREPARE" /\ AppendToLog /\ reviews' = reviews /\ prExists' = prExists
        /\ conflicts' = conflicts /\ rc' = rc /\ rc.resume
        /\ Take("NOT_ELIGIBLE") \/ Take("PREPARE_FAILED")
    BY <1>2 DEF ResumeRefused
  <2>2. prExists' \in BOOLEAN
    BY <2>1 DEF IInv, TypeOK
  <2> QED
    BY <2>1, <2>2, PrepareContext, LeavePrepare
<1>3. CASE ResumeMerged
  <2>1. /\ step = "PREPARE" /\ AppendToLog /\ reviews' = reviews /\ prExists' = prExists
        /\ conflicts' = conflicts /\ rc.resume /\ Take("READY")
        /\ rc' = [rc EXCEPT !.round = 0, !.resumeVerdict = "approved", !.prState = "MERGED"]
    BY <1>3 DEF ResumeMerged
  <2>2. prExists' \in BOOLEAN
    BY <2>1 DEF IInv, TypeOK
  <2>3. /\ rc' \in RunContext /\ rc'.resume /\ rc'.resumeVerdict = "approved"
        /\ rc'.prState = "MERGED" /\ rc'.devAttempt = 0
        /\ ~rc'.inMergeReReview /\ rc'.mergeReReviewRound = 0
    BY <2>1, PrepareContext DEF RunContext
  <2> QED
    BY <2>1, <2>2, <2>3, PrepareContext, LeavePrepare
<1>4. CASE ResumeUndecided
  <2>1. /\ step = "PREPARE" /\ AppendToLog /\ reviews' = reviews /\ prExists' /\ prExists' = prExists
        /\ conflicts' = conflicts /\ rc.resume
        /\ \/ /\ rc' \in {[rc EXCEPT !.round = 0],
                         [[rc EXCEPT !.round = 0] EXCEPT !.prepareFailKind = "dev_failed"]}
              /\ Take("PREPARE_FAILED")
           \/ /\ rc' = [[rc EXCEPT !.round = 0] EXCEPT !.reviewerWorktreeExists = TRUE]
              /\ Take("READY")
    BY <1>4 DEF ResumeUndecided
  <2>2. prExists' \in BOOLEAN
    BY <2>1 DEF IInv, TypeOK
  <2>3. /\ rc' \in RunContext /\ rc'.resume /\ rc'.devAttempt = 0
        /\ ~rc'.inMergeReReview /\ rc'.mergeReReviewRound = 0
        /\ rc'.prepareFailKind # "escalated"
    BY <2>1, PrepareContext DEF RunContext
  <2> QED
    BY <2>1, <2>2, <2>3, PrepareContext, LeavePrepare
<1>5. CASE ResumeChangesRequested
  <2>1. /\ step = "PREPARE" /\ AppendToLog /\ prExists /\ prExists' = prExists
        /\ conflicts' = conflicts /\ rc.resume
    BY <1>5 DEF ResumeChangesRequested
  <2> DEFINE Ctx(n) == [rc EXCEPT !.round = n, !.resumeVerdict = "changes_requested"]
  <2>2. PICK n \in BotReviews :
          \/ /\ \E k \in 0..n : reviews' = reviews + k
             /\ rc' = Ctx(n)
             /\ Take("PREPARE_FAILED")
          \/ /\ n >= MaxRounds
             /\ reviews' = reviews + n
             /\ rc' = [Ctx(n) EXCEPT !.prepareFailKind = "escalated"]
             /\ Take("PREPARE_FAILED")
          \/ /\ n < MaxRounds
             /\ reviews' = reviews + n
             /\ rc' = RetryWithFindings([Ctx(n) EXCEPT !.round = n + 1,
                                                      !.reviewerWorktreeExists = TRUE])
             /\ Take("READY")
    BY <1>5 DEF ResumeChangesRequested
  <2>3. n \in Nat /\ prExists' \in BOOLEAN
    BY <2>1, RoundsAssumption DEF BotReviews, IInv, TypeOK
  <2>4. /\ Ctx(n) \in RunContext /\ Ctx(n).resume /\ Ctx(n).devAttempt = 0
        /\ Ctx(n).resumeVerdict = "changes_requested" /\ Ctx(n).prepareFailKind = "none"
        /\ ~Ctx(n).inMergeReReview /\ Ctx(n).mergeReReviewRound = 0
    BY <2>1, <2>3, PrepareContext DEF RunContext
  <2> HIDE DEF Ctx
  <2>5. CASE /\ \E k \in 0..n : reviews' = reviews + k
             /\ rc' = Ctx(n)
             /\ Take("PREPARE_FAILED")
    <3>1. reviews' \in Nat
      BY <2>1, <2>3, <2>5, PrepareContext
    <3> QED
      BY <2>1, <2>3, <2>4, <2>5, <3>1, LeavePrepare
  <2>6. CASE /\ n >= MaxRounds
             /\ reviews' = reviews + n
             /\ rc' = [Ctx(n) EXCEPT !.prepareFailKind = "escalated"]
             /\ Take("PREPARE_FAILED")
    <3>1. reviews' = n
      BY <2>1, <2>3, <2>6, PrepareContext
    <3>2. /\ rc' \in RunContext /\ rc'.resume /\ rc'.devAttempt = 0
          /\ ~rc'.inMergeReReview /\ rc'.mergeReReviewRound = 0
      BY <2>4, <2>6 DEF RunContext
    <3> QED
      BY <2>1, <2>3, <2>6, <3>1, <3>2, LeavePrepare
  <2>7. CASE /\ n < MaxRounds
             /\ reviews' = reviews + n
             /\ rc' = RetryWithFindings([Ctx(n) EXCEPT !.round = n + 1,
                                                      !.reviewerWorktreeExists = TRUE])
             /\ Take("READY")
    <3>1. reviews' = n
      BY <2>1, <2>3, <2>7, PrepareContext
    <3>2. PICK v \in Nat : v = n + 1
      BY <2>3
    <3>3. PICK m : m = [Ctx(n) EXCEPT !.round = v]
      OBVIOUS
    <3>4. /\ m \in RunContext
          /\ m.resume = Ctx(n).resume
          /\ m.resumeVerdict = Ctx(n).resumeVerdict
          /\ m.inMergeReReview = Ctx(n).inMergeReReview
          /\ m.mergeReReviewRound = Ctx(n).mergeReReviewRound
      <4>1. PICK c \in RunContext : c = Ctx(n)
        BY <2>4
      <4>2. m = [c EXCEPT !.round = v]
        BY <3>3, <4>1
      <4>3. /\ m \in RunContext
            /\ m.resume = c.resume
            /\ m.resumeVerdict = c.resumeVerdict
            /\ m.inMergeReReview = c.inMergeReReview
            /\ m.mergeReReviewRound = c.mergeReReviewRound
        BY <3>2, <4>1, <4>2, SetRound
      <4> QED
        BY <4>1, <4>3
    <3>5. PICK d : d = [m EXCEPT !.reviewerWorktreeExists = TRUE]
      OBVIOUS
    <3>6. /\ d \in RunContext /\ d.resume /\ d.resumeVerdict = "changes_requested"
          /\ ~d.inMergeReReview /\ d.mergeReReviewRound = 0
      BY <2>4, <3>4, <3>5, SetReviewerWorktree
    <3>7. rc' = RetryWithFindings(d)
      BY <2>7, <3>2, <3>3, <3>5
    <3>8. /\ rc' \in RunContext /\ rc'.resume /\ rc'.devAttempt = 0
          /\ rc'.resumeVerdict = "changes_requested"
          /\ ~rc'.inMergeReReview /\ rc'.mergeReReviewRound = 0
      BY <3>6, <3>7, RetryContext
    <3> QED
      BY <2>1, <2>3, <2>7, <3>1, <3>8, LeavePrepare
  <2> QED
    BY <2>2, <2>5, <2>6, <2>7
<1>6. CASE ResumeApproved
  <2>1. /\ step = "PREPARE" /\ AppendToLog /\ prExists /\ prExists' = prExists
        /\ conflicts' = conflicts /\ rc.resume
        /\ \/ reviews' = reviews + 1 /\ Take("READY")
           \/ reviews' = reviews     /\ Take("PREPARE_FAILED")
    BY <1>6 DEF ResumeApproved
  <2>2. PICK n \in BotReviews :
          rc' = [rc EXCEPT !.round = n, !.resumeVerdict = "approved"]
    BY <1>6 DEF ResumeApproved
  <2>3. n \in Nat /\ prExists' \in BOOLEAN
    BY <2>1, RoundsAssumption DEF BotReviews, IInv, TypeOK
  <2>4. /\ rc' \in RunContext /\ rc'.resume /\ rc'.devAttempt = 0
        /\ rc'.prepareFailKind = "none"
        /\ ~rc'.inMergeReReview /\ rc'.mergeReReviewRound = 0
    BY <2>1, <2>2, <2>3, PrepareContext DEF RunContext
  <2>5. reviews' \in Nat
    BY <2>1, PrepareContext
  <2> QED
    BY <2>1, <2>3, <2>4, <2>5, LeavePrepare
<1> QED
  BY <1>1, <1>2, <1>3, <1>4, <1>5, <1>6 DEF StepPrepare

(* RUN_REVIEWER.                                                           *)
(* What a counted review does to the context.                              *)
LEMMA AfterReviewContext ==
  ASSUME NEW c \in RunContext, reviews' \in Nat, logOK' \in BOOLEAN
  PROVE  /\ AfterReview(c) \in RunContext
         /\ AfterReview(c).round = IF logOK' THEN reviews' ELSE 0
         /\ AfterReview(c).inMergeReReview = c.inMergeReReview
         /\ AfterReview(c).mergeReReviewRound =
               IF c.inMergeReReview THEN c.mergeReReviewRound + 1 ELSE c.mergeReReviewRound
<1> DEFINE v == IF c.inMergeReReview THEN c.mergeReReviewRound + 1 ELSE c.mergeReReviewRound
<1>1. CountReviews \in Nat /\ v \in Nat /\ CountReviews = (IF logOK' THEN reviews' ELSE 0)
  BY CounterTypes DEF CountReviews
<1>2. PICK m : m = [c EXCEPT !.round = CountReviews]
  OBVIOUS
<1>3. AfterReview(c) = [m EXCEPT !.mergeReReviewRound = v]
  BY <1>2 DEF AfterReview
<1>4. m \in RunContext /\ m.round = CountReviews /\ m.inMergeReReview = c.inMergeReReview
  BY <1>1, <1>2, SetRound
<1> HIDE DEF v
<1>5. /\ AfterReview(c) \in RunContext
      /\ AfterReview(c).round = m.round
      /\ AfterReview(c).inMergeReReview = m.inMergeReReview
      /\ AfterReview(c).mergeReReviewRound = v
  BY <1>1, <1>3, <1>4 DEF RunContext
<1> QED
  BY <1>1, <1>4, <1>5 DEF v

LEMMA RequestChangesContext ==
  ASSUME NEW c \in RunContext
  PROVE  /\ RequestChanges(c) \in RunContext
         /\ RequestChanges(c).round = c.round
         /\ RequestChanges(c).inMergeReReview = c.inMergeReReview
         /\ RequestChanges(c).mergeReReviewRound = c.mergeReReviewRound
         /\ ~Escalate(c) => RequestChanges(c).devAttempt = 0
         /\ Escalate(RequestChanges(c)) <=> Escalate(c)
<1>1. CASE Escalate(c)
  BY <1>1 DEF RequestChanges
<1>2. CASE ~Escalate(c)
  <2>1. RequestChanges(c) = RetryWithFindings(c)
    BY <1>2 DEF RequestChanges
  <2>2. /\ RequestChanges(c) \in RunContext
        /\ RequestChanges(c).round = c.round
        /\ RequestChanges(c).inMergeReReview = c.inMergeReReview
        /\ RequestChanges(c).mergeReReviewRound = c.mergeReReviewRound
        /\ RequestChanges(c).devAttempt = 0
    BY <2>1, RetryContext
  <2> QED
    BY <1>2, <2>2 DEF Escalate
<1> QED
  BY <1>1, <1>2

(* A review that asks for changes, or a failed precheck: another dev turn  *)
(* within the budget of the phase, or the run is handed over.              *)
LEMMA ReworkIInv ==
  ASSUME IInv, step = "RUN_REVIEWER", logOK, AppendToLog,
         reviews' = reviews + 1, prExists' = prExists, conflicts' = conflicts,
         NEW c \in RunContext,
         c.inMergeReReview = rc.inMergeReReview,
         c.mergeReReviewRound = rc.mergeReReviewRound,
         rc' = RequestChanges(AfterReview(c)),
         NEW event \in {"CHANGES_REQUESTED", "PRECHECK_FAILED"}, Take(event)
  PROVE  IInv'
<1> DEFINE a == AfterReview(c)
<1>1. /\ rc \in RunContext /\ reviews \in Nat /\ reviews' \in Nat /\ logOK' \in BOOLEAN
      /\ reworks \in Nat /\ rc.mergeReReviewRound \in Nat /\ rc.inMergeReReview \in BOOLEAN
  BY CounterTypes DEF IInv, TypeOK, AppendToLog
<1>2. /\ a \in RunContext
      /\ a.round = IF logOK' THEN reviews' ELSE 0
      /\ a.inMergeReReview = rc.inMergeReReview
      /\ a.mergeReReviewRound =
            IF rc.inMergeReReview THEN rc.mergeReReviewRound + 1 ELSE rc.mergeReReviewRound
  BY <1>1, AfterReviewContext
<1>3. rc' = RequestChanges(a)
  OBVIOUS
<1> HIDE DEF a
<1>4. /\ rc' \in RunContext
      /\ rc'.inMergeReReview = rc.inMergeReReview
      /\ rc'.mergeReReviewRound = a.mergeReReviewRound
      /\ ~Escalate(a) => rc'.devAttempt = 0
      /\ step' = IF Escalate(a) THEN "TERMINAL_ESCALATED" ELSE "RUN_DEV"
  BY <1>2, <1>3, RequestChangesContext, FromRunReviewer DEF Take, ReworkNext
<1>5. unreviewed' = unreviewed
  BY DEF Take
<1>6. TypeOK'
  <2>1. devRuns' \in 0..(MaxDevAttempts + 1) /\ reworks' \in Nat
    BY <1>1, <1>4 DEF Take, MaxDevAttempts
  <2> QED
    BY <1>1, <1>4, <1>5, <2>1 DEF IInv, TypeOK, WorkSteps, Terminals
<1>7. CASE Escalate(a)
  <2>1. step' = "TERMINAL_ESCALATED" /\ devRuns' = 0 /\ reworks' = reworks
    BY <1>4, <1>7 DEF Take
  <2>2. DispatchTotal' /\ PrepareInv' /\ AttemptInv' /\ ApprovalInv' /\ OpenPRInv'
    BY <2>1 DEF DispatchTotal, StateError, PrepareInv, AttemptInv, ApprovalInv, OpenPRInv
  <2>3. ReworkInv'
    BY <1>1, <1>2, <1>4, <2>1, RoundsAssumption DEF IInv, ReworkInv
  <2>4. EscalatesOnlyWhenExhausted'
    BY <1>1, <1>2, <1>4, <1>7, RoundsAssumption DEF EscalatesOnlyWhenExhausted, Escalate
  <2> QED
    BY <1>6, <2>2, <2>3, <2>4 DEF IInv
<1>8. CASE ~Escalate(a)
  <2>1. step' = "RUN_DEV" /\ devRuns' = 1 /\ reworks' = reworks + 1 /\ rc'.devAttempt = 0
    BY <1>4, <1>8 DEF Take
  <2>2. unreviewed' /\ prExists'
    BY <1>5 DEF IInv, ApprovalInv, OpenPRInv
  <2>3. DispatchTotal' /\ PrepareInv' /\ AttemptInv' /\ ApprovalInv' /\ OpenPRInv'
        /\ EscalatesOnlyWhenExhausted'
    BY <2>1, <2>2 DEF DispatchTotal, StateError, PrepareInv, AttemptInv, ApprovalInv,
       OpenPRInv, EscalatesOnlyWhenExhausted, MaxDevAttempts
  <2>4. ReworkInv'
    <3>1. CASE ~rc.inMergeReReview
      <4>1. rc.mergeReReviewRound = 0 /\ reworks <= reviews /\ reworks <= MaxRounds - 1
        BY <3>1 DEF IInv, ReworkInv
      <4>2. a.round < MaxRounds
        BY <1>2, <1>8, <3>1, CounterTypes, RoundsAssumption DEF Escalate
      <4>3. CASE logOK'
        BY <1>1, <1>2, <1>4, <2>1, <3>1, <4>1, <4>2, <4>3, RoundsAssumption DEF ReworkInv
      <4>4. CASE ~logOK'
        BY <1>1, <1>2, <1>4, <2>1, <3>1, <4>1, <4>4, RoundsAssumption DEF ReworkInv
      <4> QED
        BY <4>3, <4>4
    <3>2. CASE rc.inMergeReReview
      <4>1. reworks <= (MaxRounds - 1) + rc.mergeReReviewRound
        BY <3>2 DEF IInv, ReworkInv
      <4>2. rc.mergeReReviewRound + 1 < MaxMergeReReviewRounds
        BY <1>1, <1>2, <1>8, <3>2, RoundsAssumption DEF Escalate
      <4> QED
        BY <1>1, <1>2, <1>4, <2>1, <3>2, <4>1, <4>2, RoundsAssumption DEF ReworkInv
    <3> QED
      BY <3>1, <3>2
  <2> QED
    BY <1>6, <2>3, <2>4 DEF IInv
<1> QED
  BY <1>7, <1>8

LEMMA StepRunReviewerIInv == IInv /\ StepRunReviewer => IInv'
<1> SUFFICES ASSUME IInv, StepRunReviewer PROVE IInv'
  OBVIOUS
<1>w. PICK w : w = [rc EXCEPT !.reviewerWorktreeExists = TRUE]
  OBVIOUS
<1>1. /\ rc \in RunContext /\ w \in RunContext
      /\ w.inMergeReReview = rc.inMergeReReview
      /\ w.mergeReReviewRound = rc.mergeReReviewRound
      /\ reviews \in Nat /\ prExists \in BOOLEAN /\ unreviewed \in BOOLEAN
  BY <1>w, SetReviewerWorktree DEF IInv, TypeOK
<1>2. CASE ReviewRoundFails
  <2>1. /\ step = "RUN_REVIEWER" /\ logOK' \in BOOLEAN /\ (logOK' => logOK)
        /\ rc' \in {rc, w} /\ reviews' = reviews /\ prExists' = prExists
        /\ conflicts' = conflicts
    BY <1>2, <1>w DEF ReviewRoundFails, AppendToLog
  <2>2. PICK ev \in {"REVIEW_FAILED"} \cup AgentFailures : Take(ev)
    BY <1>2 DEF ReviewRoundFails
  <2>3. step' \in FailureTerminals
    BY <1>1, <2>1, <2>2, FromRunReviewer DEF Take, AgentFailures, FailureTerminals, Terminals
  <2>4. unreviewed' = unreviewed /\ devRuns' = 0 /\ reworks' = reworks
    BY <2>2, <2>3, FailureTerminalsFacts DEF Take, AgentFailures
  <2> QED
    BY <1>1, <2>1, <2>3, <2>4, FailureIInv DEF WorkSteps
<1>3. CASE PrecheckFails
  <2>1. /\ step = "RUN_REVIEWER" /\ logOK /\ AppendToLog /\ reviews' = reviews + 1
        /\ prExists' = prExists /\ conflicts' = conflicts
        /\ rc' = RequestChanges(AfterReview(w))
        /\ Take("PRECHECK_FAILED")
    BY <1>3, <1>w DEF PrecheckFails
  <2> QED
    BY <1>1, <2>1, ReworkIInv
<1>4. CASE ReviewSubmitted
  <2>1. /\ step = "RUN_REVIEWER" /\ logOK /\ AppendToLog /\ reviews' = reviews + 1
        /\ prExists' = prExists /\ conflicts' = conflicts
        /\ \/ logOK' /\ rc' = AfterReview(w) /\ Take("REVIEW_APPROVED")
           \/ logOK' /\ rc' = RequestChanges(AfterReview(w)) /\ Take("CHANGES_REQUESTED")
           \/ rc' \in {AfterReview(w), w} /\ Take("REVIEW_FAILED")
    BY <1>4, <1>w DEF ReviewSubmitted
  <2>2. /\ reviews' \in Nat /\ reviews' >= reviews
        /\ logOK' \in BOOLEAN /\ (logOK' => logOK)
    BY <1>1, <2>1 DEF AppendToLog
  <2>3. PICK a : a = AfterReview(w)
    OBVIOUS
  <2>4. /\ a \in RunContext
        /\ a.inMergeReReview = rc.inMergeReReview
        /\ a.mergeReReviewRound =
              IF rc.inMergeReReview THEN rc.mergeReReviewRound + 1 ELSE rc.mergeReReviewRound
    BY <1>1, <2>2, <2>3, AfterReviewContext
  <2>5. CASE logOK' /\ rc' = a /\ Take("REVIEW_APPROVED")
    <3>1. step' = "MERGE_PR" /\ unreviewed' = FALSE
      BY <2>1, <2>4, <2>5, FromRunReviewer DEF Take
    <3>2. devRuns' = 0 /\ reworks' = reworks
      BY <2>5, <3>1 DEF Take
    <3>3. TypeOK'
      <4>1. step' \in WorkSteps /\ unreviewed' \in BOOLEAN /\ rc' \in RunContext
        BY <2>4, <2>5, <3>1 DEF WorkSteps
      <4>2. devRuns' \in 0..(MaxDevAttempts + 1) /\ reworks' \in Nat
            /\ conflicts' \in 0..MaxMergeConflicts /\ prExists' \in BOOLEAN
        BY <2>1, <3>2 DEF IInv, TypeOK, MaxDevAttempts
      <4> QED
        BY <2>2, <4>1, <4>2 DEF TypeOK
    <3>4. prExists'
      BY <2>1 DEF IInv, OpenPRInv
    <3>5. DispatchTotal' /\ PrepareInv' /\ AttemptInv' /\ ApprovalInv' /\ OpenPRInv'
          /\ EscalatesOnlyWhenExhausted'
      BY <3>1, <3>2, <3>4 DEF DispatchTotal, StateError, PrepareInv, AttemptInv, ApprovalInv,
         OpenPRInv, EscalatesOnlyWhenExhausted
    <3>6. /\ reworks \in Nat /\ rc.mergeReReviewRound \in Nat
          /\ rc.inMergeReReview \in BOOLEAN
      BY <1>1, CounterTypes DEF IInv, TypeOK
    <3>7. ReworkInv'
      BY <1>1, <2>1, <2>2, <2>4, <2>5, <3>1, <3>2, <3>6, RoundsAssumption
         DEF IInv, ReworkInv
    <3> QED
      BY <3>3, <3>5, <3>7 DEF IInv
  <2>6. CASE logOK' /\ rc' = RequestChanges(a) /\ Take("CHANGES_REQUESTED")
    BY <1>1, <2>1, <2>3, <2>6, ReworkIInv
  <2>7. CASE rc' \in {a, w} /\ Take("REVIEW_FAILED")
    <3>1. rc' \in RunContext /\ step' = "TERMINAL_REVIEW_FAILED"
      BY <1>1, <2>1, <2>4, <2>7, FromRunReviewer DEF Take
    <3>2. unreviewed' = unreviewed /\ devRuns' = 0 /\ reworks' = reworks
      BY <2>7, <3>1 DEF Take
    <3>3. /\ rc'.inMergeReReview = rc.inMergeReReview
          /\ rc'.mergeReReviewRound \in {rc.mergeReReviewRound, rc.mergeReReviewRound + 1}
          /\ rc'.inMergeReReview \/ rc'.mergeReReviewRound = rc.mergeReReviewRound
      BY <1>1, <2>4, <2>7
    <3> QED
      BY <1>1, <2>1, <2>2, <3>1, <3>2, <3>3, FailureIInv
         DEF WorkSteps, FailureTerminals, Terminals
  <2> QED
    BY <2>1, <2>3, <2>5, <2>6, <2>7
<1> QED
  BY <1>2, <1>3, <1>4 DEF StepRunReviewer

(* MERGE_PR.                                                               *)
LEMMA EnterMergeReReview ==
  ASSUME NEW c \in RunContext, NEW d, d = [c EXCEPT !.inMergeReReview = TRUE]
  PROVE  /\ d \in RunContext
         /\ d.inMergeReReview
         /\ d.mergeReReviewRound = c.mergeReReviewRound
  BY DEF RunContext

LEMMA StepMergePRIInv == IInv /\ StepMergePR => IInv'
<1> SUFFICES ASSUME IInv, StepMergePR PROVE IInv'
  OBVIOUS
<1>1. /\ step = "MERGE_PR" /\ AppendToLog /\ reviews' = reviews /\ prExists' = prExists
      /\ \/ rc' = rc /\ conflicts' = conflicts /\ Take("MERGED")
         \/ rc' = rc /\ conflicts' = conflicts /\ Take("CONFLICT_UNRESOLVED")
         \/ rc' = rc /\ conflicts' = conflicts /\ Take("MERGE_FAILED")
         \/ /\ rc.prState # "MERGED" /\ logOK
            /\ conflicts < MaxMergeConflicts /\ conflicts' = conflicts + 1
            /\ rc' = [rc EXCEPT !.inMergeReReview = TRUE]
            /\ Take("CONFLICT_RESOLVED")
  BY DEF StepMergePR
<1>2. /\ rc \in RunContext /\ reviews \in Nat /\ prExists \in BOOLEAN
      /\ unreviewed \in BOOLEAN /\ ~unreviewed /\ reworks \in Nat
      /\ rc.mergeReReviewRound \in Nat /\ rc.inMergeReReview \in BOOLEAN
      /\ logOK' \in BOOLEAN /\ (logOK' => logOK)
  BY <1>1, CounterTypes DEF IInv, TypeOK, ApprovalInv, AppendToLog
<1>3. CASE rc' = rc /\ conflicts' = conflicts /\ Take("MERGED")
  <2>1. step' = "TERMINAL_SUCCESS" /\ unreviewed' = unreviewed
    BY <1>1, <1>2, <1>3, FromMergePR DEF Take
  <2>2. devRuns' = 0 /\ reworks' = reworks
    BY <1>1, <1>3, <2>1 DEF Take
  <2>3. TypeOK'
    BY <1>1, <1>2, <1>3, <2>1, <2>2 DEF IInv, TypeOK, Terminals, MaxDevAttempts
  <2>4. DispatchTotal' /\ PrepareInv' /\ AttemptInv' /\ ApprovalInv' /\ OpenPRInv'
        /\ EscalatesOnlyWhenExhausted'
    BY <1>2, <2>1, <2>2 DEF DispatchTotal, StateError, PrepareInv, AttemptInv, ApprovalInv,
       OpenPRInv, EscalatesOnlyWhenExhausted
  <2>5. ReworkInv'
    BY <1>1, <1>2, <1>3, <2>1, <2>2 DEF IInv, ReworkInv
  <2> QED
    BY <2>3, <2>4, <2>5 DEF IInv
<1>4. CASE /\ rc' = rc /\ conflicts' = conflicts
           /\ Take("CONFLICT_UNRESOLVED") \/ Take("MERGE_FAILED")
  <2>1. step' \in {"TERMINAL_DEV_FAILED", "TERMINAL_MERGE_FAILED"}
        /\ unreviewed' = unreviewed
    BY <1>1, <1>2, <1>4, FromMergePR DEF Take
  <2>2. devRuns' = 0 /\ reworks' = reworks
    BY <1>1, <1>4, <2>1 DEF Take
  <2> QED
    BY <1>1, <1>2, <1>4, <2>1, <2>2, FailureIInv
       DEF FailureTerminals, Terminals, WorkSteps
<1>5. CASE /\ rc.prState # "MERGED" /\ logOK
           /\ conflicts < MaxMergeConflicts /\ conflicts' = conflicts + 1
           /\ rc' = [rc EXCEPT !.inMergeReReview = TRUE]
           /\ Take("CONFLICT_RESOLVED")
  <2>1. /\ rc' \in RunContext /\ rc'.inMergeReReview
        /\ rc'.mergeReReviewRound = rc.mergeReReviewRound
    BY <1>2, <1>5, EnterMergeReReview
  <2>2. step' = "RUN_REVIEWER" /\ unreviewed' = TRUE
    BY <1>1, <1>5, <2>1, FromMergePR DEF Take
  <2>3. devRuns' = 0 /\ reworks' = reworks
    BY <1>1, <1>5, <2>2 DEF Take
  <2>4. conflicts' \in 0..MaxMergeConflicts
    BY <1>5, RoundsAssumption DEF IInv, TypeOK
  <2>5. TypeOK'
    BY <1>1, <1>2, <2>1, <2>2, <2>3, <2>4 DEF IInv, TypeOK, WorkSteps, MaxDevAttempts
  <2>6. prExists'
    BY <1>1, <1>5 DEF IInv, OpenPRInv
  <2>7. DispatchTotal' /\ PrepareInv' /\ AttemptInv' /\ ApprovalInv' /\ OpenPRInv'
        /\ EscalatesOnlyWhenExhausted'
    BY <2>2, <2>3, <2>6 DEF DispatchTotal, StateError, PrepareInv, AttemptInv, ApprovalInv,
       OpenPRInv, EscalatesOnlyWhenExhausted
  <2>8. ReworkInv'
    BY <1>1, <1>2, <1>5, <2>1, <2>3, RoundsAssumption DEF IInv, ReworkInv
  <2> QED
    BY <2>5, <2>7, <2>8 DEF IInv
<1> QED
  BY <1>1, <1>3, <1>4, <1>5

LEMMA NextIInv == IInv /\ [Next]_vars => IInv'
<1>1. ASSUME IInv, UNCHANGED vars PROVE IInv'
  BY <1>1 DEF IInv, vars, TypeOK, DispatchTotal, PrepareInv, AttemptInv, ApprovalInv,
     OpenPRInv, ReworkInv, EscalatesOnlyWhenExhausted
<1> QED
  BY <1>1, StepPrepareIInv, StepRunDevIInv, StepSyncCIIInv, StepRunReviewerIInv,
     StepMergePRIInv DEF Next

-----------------------------------------------------------------------------
(* The theorems.                                                           *)

(* IInv holds in every state of every run, whatever the review budgets.    *)
THEOREM InductiveInvariant == Spec => []IInv
  BY InitIInv, NextIInv, PTL DEF Spec

(* The variables have their types.                                         *)
THEOREM TypeCorrect == Spec => []TypeOK
<1>1. IInv => TypeOK
  BY DEF IInv
<1> QED
  BY <1>1, InductiveInvariant, PTL

(* The transition table is disjoint and total on what the handlers return: *)
(* no run ends in a StateError.                                            *)
THEOREM DispatchIsTotal == Spec => []DispatchTotal
<1>1. IInv => DispatchTotal
  BY DEF IInv
<1> QED
  BY <1>1, InductiveInvariant, PTL

(* No visit to RUN_DEV launches the dev agent more than three times.       *)
THEOREM DevAttempts == Spec => []DevAttemptsBounded
<1>1. ASSUME IInv PROVE DevAttemptsBounded
  <2>1. rc.devAttempt \in Nat
    BY <1>1, CounterTypes DEF IInv, TypeOK
  <2> QED
    BY <1>1, <2>1 DEF IInv, AttemptInv, DevAttemptsBounded, MaxDevAttempts
<1> QED
  BY <1>1, InductiveInvariant, PTL

(* The reviewer sends a run back to the dev within the review budgets.     *)
THEOREM ReworkBudgetHolds == Spec => []ReworkBudget
<1>1. ASSUME IInv PROVE ReworkBudget
  <2>1. /\ rc.inMergeReReview \in BOOLEAN /\ reworks \in Nat /\ logOK \in BOOLEAN
    BY <1>1, CounterTypes DEF IInv, TypeOK
  <2> QED
    BY <1>1, <2>1, RoundsAssumption DEF IInv, ReworkInv, ReworkBudget
<1> QED
  BY <1>1, InductiveInvariant, PTL

(* A run is escalated to a human only when a review budget is used up.     *)
THEOREM EscalationJustified == Spec => []EscalatesOnlyWhenExhausted
<1>1. IInv => EscalatesOnlyWhenExhausted
  BY DEF IInv
<1> QED
  BY <1>1, InductiveInvariant, PTL

(* A successful run merged a change that was approved after the last time  *)
(* it was touched.                                                         *)
THEOREM SuccessReviewed == Spec => []SuccessIsReviewed
<1>1. IInv => SuccessIsReviewed
  BY DEF IInv, ApprovalInv, SuccessIsReviewed
<1> QED
  BY <1>1, InductiveInvariant, PTL

-----------------------------------------------------------------------------
(* A run implements ReviewLoop.                                            *)

LEMMA RunningSteps ==
  ASSUME NEW s \in WorkSteps
  PROVE  Outcome(s) = "running"
  BY DEF WorkSteps, Outcome, StateError

LEMMA TerminalOutcome ==
  ASSUME NEW s \in Terminals
  PROVE  Outcome(s) # "running" /\ (Outcome(s) = "success" <=> s = "TERMINAL_SUCCESS")
  BY DEF Terminals, Outcome, StateError

(* No event that changes what is approved ends the run.                    *)
LEMMA EndKeepsApproval ==
  ASSUME IInv, IInv', Next, step' \in Terminals
  PROVE  unreviewed' = unreviewed
<1>1. rc' \in RunContext /\ step' \notin WorkSteps
  BY DEF IInv, TypeOK, Terminals, WorkSteps
<1>2. CASE StepPrepare
  <2>1. step = "PREPARE" /\ \E event \in {"NOT_ELIGIBLE", "PREPARE_FAILED", "READY"} : Take(event)
    BY <1>2 DEF StepPrepare, PrepareFresh, ResumeRefused, ResumeMerged, ResumeUndecided,
       ResumeChangesRequested, ResumeApproved
  <2>2. PICK event \in {"NOT_ELIGIBLE", "PREPARE_FAILED", "READY"} : Take(event)
    BY <2>1
  <2>3. event # "READY"
    <3>1. ReadyNext(rc') \in WorkSteps
      BY DEF ReadyNext, WorkSteps
    <3> QED
      BY <1>1, <2>1, <2>2, <3>1, FromPrepare DEF Take
  <2> QED
    BY <2>2, <2>3 DEF Take
<1>3. CASE StepRunDev
  <2>1. step = "RUN_DEV" /\ \E event \in {"DEV_DONE", "DEV_GATE_REJECTED", "DEV_FAILED"}
                                      \cup AgentFailures : Take(event)
    BY <1>3 DEF StepRunDev
  <2>2. PICK event \in {"DEV_DONE", "DEV_GATE_REJECTED", "DEV_FAILED"}
                        \cup AgentFailures : Take(event)
    BY <2>1
  <2>3. event # "DEV_DONE"
    BY <1>1, <2>1, <2>2, FromRunDev DEF Take, WorkSteps
  <2> QED
    BY <2>2, <2>3 DEF Take, AgentFailures
<1>4. CASE StepSyncCI
  BY <1>4 DEF StepSyncCI, Take
<1>5. CASE StepRunReviewer
  <2>1. step = "RUN_REVIEWER"
        /\ \E event \in {"REVIEW_APPROVED", "REVIEW_FAILED", "CHANGES_REQUESTED",
                         "PRECHECK_FAILED"} \cup AgentFailures : Take(event)
    BY <1>5 DEF StepRunReviewer, ReviewRoundFails, PrecheckFails, ReviewSubmitted
  <2>2. PICK event \in {"REVIEW_APPROVED", "REVIEW_FAILED", "CHANGES_REQUESTED",
                        "PRECHECK_FAILED"} \cup AgentFailures : Take(event)
    BY <2>1
  <2>3. event # "REVIEW_APPROVED"
    BY <1>1, <2>1, <2>2, FromRunReviewer DEF Take, WorkSteps
  <2> QED
    BY <2>2, <2>3 DEF Take, AgentFailures
<1>6. CASE StepMergePR
  <2>1. step = "MERGE_PR"
        /\ \E event \in {"MERGED", "MERGE_FAILED", "CONFLICT_UNRESOLVED",
                         "CONFLICT_RESOLVED"} : Take(event)
    BY <1>6 DEF StepMergePR
  <2>2. PICK event \in {"MERGED", "MERGE_FAILED", "CONFLICT_UNRESOLVED",
                        "CONFLICT_RESOLVED"} : Take(event)
    BY <2>1
  <2>3. event # "CONFLICT_RESOLVED"
    BY <1>1, <2>1, <2>2, FromMergePR DEF Take, WorkSteps
  <2> QED
    BY <2>2, <2>3 DEF Take
<1> QED
  BY <1>2, <1>3, <1>4, <1>5, <1>6 DEF Next

(* Every step touches, approves or sends back the change, or ends the run. *)
LEMMA StepEffects ==
  ASSUME IInv, IInv', Next
  PROVE  /\ step \in WorkSteps
         /\ \/ step' \in WorkSteps /\ reworks' = reworks
            \/ /\ step' \in WorkSteps /\ unreviewed /\ unreviewed'
               /\ reworks' = reworks + 1 /\ reworks < ReworkLimit
            \/ /\ step' \in Terminals /\ unreviewed' = unreviewed /\ reworks' = reworks
               /\ step' = "TERMINAL_SUCCESS" => ~unreviewed
<1>1. step \in WorkSteps /\ \E event : Take(event)
  BY DEF Next, StepPrepare, PrepareFresh, ResumeRefused, ResumeMerged, ResumeUndecided,
     ResumeChangesRequested, ResumeApproved, StepRunDev, StepSyncCI, StepRunReviewer,
     ReviewRoundFails, PrecheckFails, ReviewSubmitted, StepMergePR, WorkSteps
<1>2. reworks' = IF step = "RUN_REVIEWER" /\ step' = "RUN_DEV" THEN reworks + 1 ELSE reworks
  BY <1>1 DEF Take
<1>3. step' \in WorkSteps \cup Terminals
  BY DEF IInv, TypeOK, DispatchTotal
<1>4. CASE step = "RUN_REVIEWER" /\ step' = "RUN_DEV"
  <2>1. unreviewed /\ unreviewed' /\ step' \in WorkSteps /\ reworks' = reworks + 1
    BY <1>2, <1>4 DEF IInv, ApprovalInv, WorkSteps
  <2>2. reworks' <= MaxRounds + MaxMergeReReviewRounds - 1
        /\ reworks \in Nat /\ reworks' \in Nat
    <3>1. rc'.inMergeReReview \in BOOLEAN
      BY CounterTypes DEF IInv, TypeOK
    <3> QED
      BY <3>1, RoundsAssumption DEF IInv, ReworkInv, TypeOK
  <2>3. reworks < ReworkLimit
    BY <2>1, <2>2, RoundsAssumption DEF ReworkLimit
  <2> QED
    BY <1>1, <2>1, <2>3
<1>5. CASE ~(step = "RUN_REVIEWER" /\ step' = "RUN_DEV") /\ step' \in WorkSteps
  BY <1>1, <1>2, <1>5
<1>6. CASE step' \in Terminals
  <2>1. unreviewed' = unreviewed /\ step' # "RUN_DEV"
    BY <1>6, EndKeepsApproval DEF Terminals
  <2>2. step' = "TERMINAL_SUCCESS" => ~unreviewed
    BY <2>1 DEF IInv, ApprovalInv
  <2> QED
    BY <1>1, <1>2, <1>6, <2>1, <2>2
<1> QED
  BY <1>3, <1>4, <1>5, <1>6

LEMMA InitRefines == Init => Loop!Init
  BY RunningSteps DEF Init, Loop!Init, WorkSteps

LEMMA NextRefines == IInv /\ IInv' /\ [Next]_vars => [Loop!Next]_(Loop!vars)
<1>1. ASSUME UNCHANGED vars PROVE UNCHANGED Loop!vars
  BY <1>1 DEF vars, Loop!vars
<1>2. ASSUME IInv, IInv', Next PROVE Loop!Next
  <2>1. Loop!Running /\ unreviewed \in BOOLEAN /\ unreviewed' \in BOOLEAN
    BY <1>2, StepEffects, RunningSteps DEF Loop!Running, IInv, TypeOK
  <2>2. CASE step' \in WorkSteps /\ reworks' = reworks
    <3>1. Outcome(step)' = Outcome(step)
      BY <1>2, <2>2, StepEffects, RunningSteps
    <3>2. CASE unreviewed'
      BY <2>1, <2>2, <3>1, <3>2 DEF Loop!Next, Loop!Touch
    <3>3. CASE ~unreviewed'
      BY <2>1, <2>2, <3>1, <3>3 DEF Loop!Next, Loop!Approve
    <3> QED
      BY <3>2, <3>3
  <2>3. CASE /\ step' \in WorkSteps /\ unreviewed /\ unreviewed'
             /\ reworks' = reworks + 1 /\ reworks < ReworkLimit
    <3>1. Outcome(step)' = Outcome(step)
      BY <1>2, <2>3, StepEffects, RunningSteps
    <3> QED
      BY <2>1, <2>3, <3>1 DEF Loop!Next, Loop!SendBack
  <2>4. CASE /\ step' \in Terminals /\ unreviewed' = unreviewed /\ reworks' = reworks
             /\ step' = "TERMINAL_SUCCESS" => ~unreviewed
    <3>1. Loop!Finish(Outcome(step'))
      BY <2>1, <2>4, TerminalOutcome DEF Loop!Finish
    <3> QED
      BY <2>4, <3>1 DEF Loop!Next
  <2> QED
    BY <1>2, <2>2, <2>3, <2>4, StepEffects
<1> QED
  BY <1>1, <1>2

(* Every run, whatever its budgets, is a behaviour of ReviewLoop: bounded  *)
(* rework, an approval that every later change voids, one final outcome    *)
(* and success only for an approved change.                                *)
THEOREM RunRefinesReviewLoop == Spec => ImplementsReviewLoop
  BY InitRefines, NextRefines, InductiveInvariant, PTL
     DEF Spec, ImplementsReviewLoop, Loop!Spec

=============================================================================
