----------------------------- MODULE RunMachine -----------------------------
(***************************************************************************)
(* The control skeleton of one `golemic run': the guarded transition       *)
(* machine of internal/loop, the transition table of                       *)
(* internal/runner/loopdef.go, and what the five step handlers             *)
(* (step_*.go, resume.go) do to the RunContext the guards read.            *)
(*                                                                         *)
(* Machine.Run is sequential: it calls the handler of the current step,    *)
(* which mutates the RunContext and returns one event, collects the        *)
(* transitions whose guard holds of the mutated context and takes the one  *)
(* that matches.  One action below is one such iteration.  What a handler  *)
(* learns from git, GitHub and the agents is a nondeterministic choice;    *)
(* what it does with it is the code's.                                     *)
(***************************************************************************)
EXTENDS Naturals

CONSTANTS
  MaxRounds,               (* cfg.MaxReviewRounds                            *)
  MaxMergeReReviewRounds,  (* maxMergeReReviewRounds, 2 in the code          *)
  MaxMergeConflicts        (* bound: conflicts the environment causes in     *)
                           (* MERGE_PR that the dev agent then resolves      *)

(* config.Load refuses max_review_rounds <= 0; the code's constant is 2.   *)
ASSUME RoundsAssumption ==
  /\ MaxRounds \in Nat \ {0}
  /\ MaxMergeReReviewRounds \in Nat \ {0}
  /\ MaxMergeConflicts \in Nat

(* Bound: how many changes_requested reviews of earlier runs a resume can  *)
(* find on the PR (more than MaxRounds when the limit was lowered).        *)
BotReviews == 0..(MaxRounds + 1)

(* loopdef.go: the literal 3 in the two DEV_GATE_REJECTED guards.          *)
MaxDevAttempts == 3

VARIABLES
  step,        (* the machine's current step                               *)
  rc,          (* the RunContext fields that handlers and guards use       *)
  reviews,     (* review_submitted events in this run's event log          *)
  logOK,       (* every line of the event log parses (Reader.Read is       *)
               (* fail-closed: one torn line hides the whole log)          *)
  prExists,    (* a PR of the issue branch is open on GitHub               *)
  conflicts,   (* merge-time conflicts resolved so far                     *)
  unreviewed,  (* history: PR content changed since the last approval      *)
  devRuns,     (* history: dev invocations of the current visit to RUN_DEV *)
  reworks      (* history: times the reviewer sent the run back to RUN_DEV *)

vars == <<step, rc, reviews, logOK, prExists, conflicts,
          unreviewed, devRuns, reworks>>

-----------------------------------------------------------------------------
(* Steps, events and the RunContext.                                       *)

WorkSteps == {"PREPARE", "RUN_DEV", "SYNC_CI", "RUN_REVIEWER", "MERGE_PR"}

Terminals ==
  {"TERMINAL_SUCCESS", "TERMINAL_DEV_FAILED", "TERMINAL_REVIEW_FAILED",
   "TERMINAL_ESCALATED", "TERMINAL_MERGE_FAILED", "TERMINAL_TIMEOUT",
   "TERMINAL_STALLED", "TERMINAL_ABORTED", "TERMINAL_SKIPPED"}

(* Machine.Run stops with a StateError when zero or several transitions    *)
(* match; the step it stops at is written STATE_ERROR here.                *)
StateError == "STATE_ERROR"

AgentFailures == {"AGENT_TIMED_OUT", "AGENT_STALLED", "AGENT_ABORTED"}

RunContext ==
  [devAttempt             : Nat,
   round                  : Nat,
   resume                 : BOOLEAN,
   resumeVerdict          : {"none", "approved", "changes_requested"},
   devMode                : {"initial", "retry_with_findings"},
   worktreeCreateFailed   : BOOLEAN,
   prepareFailKind        : {"none", "dev_failed", "review_failed", "escalated"},
   prState                : {"none", "MERGED"},
   reviewerWorktreeExists : BOOLEAN,
   inMergeReReview        : BOOLEAN,
   mergeReReviewRound     : Nat]

NewRunContext(resume) ==
  [devAttempt |-> 0, round |-> 1, resume |-> resume, resumeVerdict |-> "none",
   devMode |-> "initial", worktreeCreateFailed |-> FALSE,
   prepareFailKind |-> "none", prState |-> "none", reviewerWorktreeExists |-> FALSE,
   inMergeReReview |-> FALSE, mergeReReviewRound |-> 0]

(* The next dev turn answers the findings of a review.                     *)
RetryWithFindings(ctx) ==
  [ctx EXCEPT !.devMode = "retry_with_findings", !.devAttempt = 0]

-----------------------------------------------------------------------------
(* The transition table.  A guard is named; GuardHolds evaluates it.       *)

Row(from, event, to, guard) ==
  [from |-> from, event |-> event, to |-> to, guard |-> guard]

AgentFailureRows(from) ==
  {Row(from, "AGENT_TIMED_OUT", "TERMINAL_TIMEOUT", "always"),
   Row(from, "AGENT_STALLED",   "TERMINAL_STALLED", "always"),
   Row(from, "AGENT_ABORTED",   "TERMINAL_ABORTED", "always")}

(* Variants named ...Bug are what a plausible mistake would make of the     *)
(* definition that follows them; the properties must notice each of them.  *)
ReworkRowsBug(event) ==
  {Row("RUN_REVIEWER", event, "RUN_DEV",            "rounds_left"),
   Row("RUN_REVIEWER", event, "RUN_DEV",            "merge_rounds_left"),
   Row("RUN_REVIEWER", event, "TERMINAL_ESCALATED", "merge_rounds_exhausted")}

ReworkRows(event) ==
  {Row("RUN_REVIEWER", event, "RUN_DEV",            "rounds_left"),
   Row("RUN_REVIEWER", event, "TERMINAL_ESCALATED", "rounds_exhausted"),
   Row("RUN_REVIEWER", event, "RUN_DEV",            "merge_rounds_left"),
   Row("RUN_REVIEWER", event, "TERMINAL_ESCALATED", "merge_rounds_exhausted")}

PrepareRows ==
  {Row("PREPARE", "NOT_ELIGIBLE",   "TERMINAL_SKIPPED",       "always"),
   Row("PREPARE", "PREPARE_FAILED", "TERMINAL_DEV_FAILED",    "prepare_dev_failed"),
   Row("PREPARE", "PREPARE_FAILED", "TERMINAL_REVIEW_FAILED", "prepare_review_failed"),
   Row("PREPARE", "PREPARE_FAILED", "TERMINAL_ESCALATED",     "prepare_escalated"),
   Row("PREPARE", "PREPARE_FAILED", "TERMINAL_ABORTED",       "prepare_aborted"),
   Row("PREPARE", "READY",          "RUN_DEV",                "start_dev"),
   Row("PREPARE", "READY",          "RUN_REVIEWER",           "resume_undecided"),
   Row("PREPARE", "READY",          "MERGE_PR",               "resume_approved")}

RunDevRowsBug ==
  {Row("RUN_DEV", "DEV_DONE",          "SYNC_CI",             "always"),
   Row("RUN_DEV", "DEV_FAILED",        "TERMINAL_DEV_FAILED", "always"),
   Row("RUN_DEV", "DEV_GATE_REJECTED", "RUN_DEV",             "always")}
  \cup AgentFailureRows("RUN_DEV")

RunDevRows ==
  {Row("RUN_DEV", "DEV_DONE",          "SYNC_CI",             "always"),
   Row("RUN_DEV", "DEV_FAILED",        "TERMINAL_DEV_FAILED", "always"),
   Row("RUN_DEV", "DEV_GATE_REJECTED", "RUN_DEV",             "attempts_left"),
   Row("RUN_DEV", "DEV_GATE_REJECTED", "TERMINAL_DEV_FAILED", "attempts_exhausted")}
  \cup AgentFailureRows("RUN_DEV")

SyncCIRowsRetryBug ==
  {Row("SYNC_CI", "CI_GREEN",            "RUN_REVIEWER",        "always"),
   Row("SYNC_CI", "CI_FAILED",           "RUN_DEV",             "always"),
   Row("SYNC_CI", "CONFLICT_UNRESOLVED", "TERMINAL_DEV_FAILED", "always")}
  \cup AgentFailureRows("SYNC_CI")

SyncCIRows ==
  {Row("SYNC_CI", "CI_GREEN",            "RUN_REVIEWER",        "always"),
   Row("SYNC_CI", "CI_FAILED",           "TERMINAL_DEV_FAILED", "always"),
   Row("SYNC_CI", "CONFLICT_UNRESOLVED", "TERMINAL_DEV_FAILED", "always")}
  \cup AgentFailureRows("SYNC_CI")

RunReviewerRows ==
  {Row("RUN_REVIEWER", "REVIEW_APPROVED", "MERGE_PR",               "always"),
   Row("RUN_REVIEWER", "REVIEW_FAILED",   "TERMINAL_REVIEW_FAILED", "always")}
  \cup ReworkRows("CHANGES_REQUESTED") \cup ReworkRows("PRECHECK_FAILED")
  \cup AgentFailureRows("RUN_REVIEWER")

MergePRRowsTypoBug ==
  {Row("MERGE_PR", "MERGED",              "TERMINAL_SUCCESS",      "always"),
   Row("MERGE_PR", "MERGE_FAILED",        "TERMINAL_MERGE_FAILED", "always"),
   Row("MERGE_PR", "CONFLICT_RESOLVED",   "RUN_REVIEW",            "always"),
   Row("MERGE_PR", "CONFLICT_UNRESOLVED", "TERMINAL_DEV_FAILED",   "always")}
  \cup AgentFailureRows("MERGE_PR")

MergePRRowsNoReviewBug ==
  {Row("MERGE_PR", "MERGED",              "TERMINAL_SUCCESS",      "always"),
   Row("MERGE_PR", "MERGE_FAILED",        "TERMINAL_MERGE_FAILED", "always"),
   Row("MERGE_PR", "CONFLICT_RESOLVED",   "MERGE_PR",              "always"),
   Row("MERGE_PR", "CONFLICT_UNRESOLVED", "TERMINAL_DEV_FAILED",   "always")}
  \cup AgentFailureRows("MERGE_PR")

MergePRRows ==
  {Row("MERGE_PR", "MERGED",              "TERMINAL_SUCCESS",      "always"),
   Row("MERGE_PR", "MERGE_FAILED",        "TERMINAL_MERGE_FAILED", "always"),
   Row("MERGE_PR", "CONFLICT_RESOLVED",   "RUN_REVIEWER",          "always"),
   Row("MERGE_PR", "CONFLICT_UNRESOLVED", "TERMINAL_DEV_FAILED",   "always")}
  \cup AgentFailureRows("MERGE_PR")

LoopTransitions ==
  PrepareRows \cup RunDevRows \cup SyncCIRows \cup RunReviewerRows \cup MergePRRows

GuardHolds(g, ctx) ==
  \/ g = "always"
  \/ g = "prepare_dev_failed"    /\ \/ ctx.prepareFailKind = "dev_failed"
                                    \/ ctx.worktreeCreateFailed /\ ctx.prepareFailKind = "none"
  \/ g = "prepare_review_failed" /\ ctx.prepareFailKind = "review_failed"
  \/ g = "prepare_escalated"     /\ ctx.prepareFailKind = "escalated"
  \/ g = "prepare_aborted"       /\ ~ctx.worktreeCreateFailed /\ ctx.prepareFailKind = "none"
  \/ g = "start_dev"             /\ (~ctx.resume \/ ctx.resumeVerdict = "changes_requested")
  \/ g = "resume_undecided"      /\ ctx.resume /\ ctx.resumeVerdict = "none"
  \/ g = "resume_approved"       /\ ctx.resume /\ ctx.resumeVerdict = "approved"
  \/ g = "attempts_left"         /\ ctx.devAttempt < MaxDevAttempts
  \/ g = "attempts_exhausted"    /\ ctx.devAttempt >= MaxDevAttempts
  \/ g = "rounds_left"           /\ ~ctx.inMergeReReview /\ ctx.round < MaxRounds
  \/ g = "rounds_exhausted"      /\ ~ctx.inMergeReReview /\ ctx.round >= MaxRounds
  \/ g = "merge_rounds_left"     /\ ctx.inMergeReReview
                                 /\ ctx.mergeReReviewRound < MaxMergeReReviewRounds
  \/ g = "merge_rounds_exhausted" /\ ctx.inMergeReReview
                                  /\ ctx.mergeReReviewRound >= MaxMergeReReviewRounds

(* Machine.collectMatches.                                                 *)
Matches(from, event, ctx) ==
  {t \in LoopTransitions : /\ t.from = from
                           /\ t.event = event
                           /\ GuardHolds(t.guard, ctx)}

(* Machine.Run after the handler returned: exactly one match, or an error. *)
Dispatch(event, ctx) ==
  LET matched == Matches(step, event, ctx)
  IN  \/ \E t \in matched : matched = {t} /\ step' = t.to
      \/ (\A t \in matched : matched # {t}) /\ step' = StateError

(* Every iteration appends to the event log, OnTransition's                *)
(* step_transition at least.  The writer's error is dropped there, so any  *)
(* iteration may leave a torn line behind.                                 *)
AppendToLog == logOK' \in BOOLEAN /\ (logOK' => logOK)

(* The rest of one iteration, once rc' is known: the dispatch, and the     *)
(* history variables (devRuns saturates one above its bound).              *)
Take(event) ==
  /\ Dispatch(event, rc')
  /\ unreviewed' = CASE event \in {"DEV_DONE", "CONFLICT_RESOLVED"} -> TRUE
                     [] event = "REVIEW_APPROVED"                   -> FALSE
                     [] event = "READY" -> rc'.resumeVerdict # "approved"
                     [] OTHER           -> unreviewed
  /\ devRuns' = IF step' # "RUN_DEV" THEN 0
                ELSE IF step # "RUN_DEV" THEN 1
                ELSE IF devRuns > MaxDevAttempts THEN devRuns ELSE devRuns + 1
  /\ reworks' = IF step = "RUN_REVIEWER" /\ step' = "RUN_DEV"
                THEN reworks + 1 ELSE reworks

-----------------------------------------------------------------------------
(* PREPARE, fresh run: eligibility, --clean, collisions, dev worktree.     *)
(* --clean closes the open PR; an open PR that stays is a collision.       *)

PrepareFresh ==
  /\ step = "PREPARE"
  /\ ~rc.resume
  /\ AppendToLog
  /\ \/ rc' = rc /\ prExists' = prExists /\ Take("NOT_ELIGIBLE")
     \/ /\ rc' \in {rc, [rc EXCEPT !.worktreeCreateFailed = TRUE]}
        /\ prExists' \in {prExists, FALSE}
        /\ Take("PREPARE_FAILED")
     \/ rc' = rc /\ prExists' = FALSE /\ Take("READY")
  /\ UNCHANGED <<reviews, conflicts>>

(* PREPARE, --resume: hydrateResume rebuilds the context from GitHub.      *)
(* Refused: the issue is closed, or there is no PR or branch to resume.    *)

ResumeRefused ==
  /\ step = "PREPARE"
  /\ rc.resume
  /\ AppendToLog
  /\ rc' = rc
  /\ Take("NOT_ELIGIBLE") \/ Take("PREPARE_FAILED")
  /\ UNCHANGED <<reviews, prExists, conflicts>>

ResumeMerged ==
  /\ step = "PREPARE"
  /\ rc.resume
  /\ ~prExists
  /\ AppendToLog
  /\ rc' = [rc EXCEPT !.round = 0, !.resumeVerdict = "approved", !.prState = "MERGED"]
  /\ Take("READY")
  /\ UNCHANGED <<reviews, prExists, conflicts>>

(* No decision review: the CI gate, then the sweep of pending reviews.     *)
ResumeUndecided ==
  /\ step = "PREPARE"
  /\ rc.resume
  /\ prExists
  /\ AppendToLog
  /\ LET ctx == [rc EXCEPT !.round = 0]
     IN  \/ /\ rc' \in {ctx, [ctx EXCEPT !.prepareFailKind = "dev_failed"]}
            /\ Take("PREPARE_FAILED")
         \/ /\ rc' = [ctx EXCEPT !.reviewerWorktreeExists = TRUE]
            /\ Take("READY")
  /\ UNCHANGED <<reviews, prExists, conflicts>>

(* The last decision is CHANGES_REQUESTED.  n is the number of such        *)
(* reviews the bot wrote (0 when only a human asked for changes); each is  *)
(* replayed as a synthetic review_submitted event, k before a write fails. *)
ResumeChangesRequested ==
  /\ step = "PREPARE"
  /\ rc.resume
  /\ prExists
  /\ AppendToLog
  /\ \E n \in BotReviews :
       LET ctx == [rc EXCEPT !.round = n, !.resumeVerdict = "changes_requested"]
       IN  \/ /\ \E k \in 0..n : reviews' = reviews + k
              /\ rc' = ctx
              /\ Take("PREPARE_FAILED")
           \/ /\ n >= MaxRounds
              /\ reviews' = reviews + n
              /\ rc' = [ctx EXCEPT !.prepareFailKind = "escalated"]
              /\ Take("PREPARE_FAILED")
           \/ /\ n < MaxRounds
              /\ reviews' = reviews + n
              /\ rc' = RetryWithFindings([ctx EXCEPT !.round = n + 1,
                                                    !.reviewerWorktreeExists = TRUE])
              /\ Take("READY")
  /\ UNCHANGED <<prExists, conflicts>>

(* The last decision is APPROVED: one synthetic event carries confidence.  *)
ResumeApproved ==
  /\ step = "PREPARE"
  /\ rc.resume
  /\ prExists
  /\ AppendToLog
  /\ \E n \in BotReviews :
       rc' = [rc EXCEPT !.round = n, !.resumeVerdict = "approved"]
  /\ \/ reviews' = reviews + 1 /\ Take("READY")
     \/ reviews' = reviews     /\ Take("PREPARE_FAILED")
  /\ UNCHANGED <<prExists, conflicts>>

-----------------------------------------------------------------------------
(* RUN_DEV: one dev-agent invocation.  The runner commits and pushes when  *)
(* the broker accepted gm_dev_done; without a readable pr_opened event it  *)
(* opens a PR, which GitHub refuses when one is already open.              *)

StepRunDev ==
  /\ step = "RUN_DEV"
  /\ AppendToLog
  /\ LET ctx == IF rc.devAttempt = 0 /\ rc.devMode = "retry_with_findings"
                THEN [rc EXCEPT !.round = @ + 1] ELSE rc
     IN  \/ /\ logOK \/ ~prExists
            /\ rc' = [ctx EXCEPT !.devAttempt = 0]
            /\ prExists' = TRUE
            /\ Take("DEV_DONE")
         \/ /\ rc' = [ctx EXCEPT !.devAttempt = @ + 1]
            /\ prExists' = prExists
            /\ Take("DEV_GATE_REJECTED")
         \/ /\ rc' = ctx
            /\ prExists' \in {prExists, TRUE}
            /\ \E ev \in {"DEV_FAILED"} \cup AgentFailures : Take(ev)
  /\ UNCHANGED <<reviews, conflicts>>

(* SYNC_CI: the pre-review sync gate.  It flattens every agent failure to  *)
(* dev_failed, so the three agent rows of SYNC_CI are never taken.         *)
StepSyncCI ==
  /\ step = "SYNC_CI"
  /\ AppendToLog
  /\ rc' = rc
  /\ \/ logOK /\ Take("CI_GREEN")
     \/ logOK /\ Take("CONFLICT_UNRESOLVED")
     \/ Take("CI_FAILED")
  /\ UNCHANGED <<reviews, prExists, conflicts>>

-----------------------------------------------------------------------------
(* RUN_REVIEWER: one reviewer round.                                       *)

(* countReviewSubmittedEvents: 0 when the log cannot be read.              *)
CountReviews == IF logOK' THEN reviews' ELSE 0

AfterReviewUncountedBug(ctx) == [ctx EXCEPT !.round = CountReviews]

AfterReviewOffByOneBug(ctx) ==
  [ctx EXCEPT !.round = CountReviews + 1,
              !.mergeReReviewRound = IF ctx.inMergeReReview THEN @ + 1 ELSE @]

(* The context after a review_submitted event of this round was written.   *)
AfterReview(ctx) ==
  [ctx EXCEPT !.round = CountReviews,
              !.mergeReReviewRound = IF ctx.inMergeReReview THEN @ + 1 ELSE @]

Escalate(ctx) ==
  IF ctx.inMergeReReview THEN ctx.mergeReReviewRound >= MaxMergeReReviewRounds
                         ELSE ctx.round >= MaxRounds

(* changes_requested or a failed precheck: escalate (the table decides     *)
(* where to) or prepare a dev retry with the findings.                     *)
RequestChanges(ctx) ==
  IF Escalate(ctx) THEN ctx
  ELSE RetryWithFindings(ctx)

(* The round ends without a verdict: no worktree, unreadable log, agent    *)
(* failure, gate rejected three times, stale or unsubmitted review.        *)
ReviewRoundFails ==
  /\ step = "RUN_REVIEWER"
  /\ AppendToLog
  /\ rc' \in {rc, [rc EXCEPT !.reviewerWorktreeExists = TRUE]}
  /\ \E ev \in {"REVIEW_FAILED"} \cup AgentFailures : Take(ev)
  /\ UNCHANGED <<reviews, prExists, conflicts>>

(* The precheck failed: a synthetic changes_requested event is written.    *)
PrecheckFails ==
  /\ step = "RUN_REVIEWER"
  /\ AppendToLog
  /\ logOK
  /\ reviews' = reviews + 1
  /\ rc' = RequestChanges(AfterReview([rc EXCEPT !.reviewerWorktreeExists = TRUE]))
  /\ Take("PRECHECK_FAILED")
  /\ UNCHANGED <<prExists, conflicts>>

(* A review was submitted.  A dirty worktree, findings that cannot be      *)
(* loaded or a log that cannot be read back turn it into review_failed.    *)
ReviewSubmitted ==
  /\ step = "RUN_REVIEWER"
  /\ AppendToLog
  /\ logOK
  /\ reviews' = reviews + 1
  /\ LET ctx == AfterReview([rc EXCEPT !.reviewerWorktreeExists = TRUE])
     IN  \/ logOK' /\ rc' = ctx /\ Take("REVIEW_APPROVED")
         \/ logOK' /\ rc' = RequestChanges(ctx) /\ Take("CHANGES_REQUESTED")
         \/ rc' \in {ctx, [rc EXCEPT !.reviewerWorktreeExists = TRUE]}
            /\ Take("REVIEW_FAILED")
  /\ UNCHANGED <<prExists, conflicts>>

-----------------------------------------------------------------------------
(* MERGE_PR.  The agent rows of MERGE_PR are never taken either.           *)

StepMergePR ==
  /\ step = "MERGE_PR"
  /\ AppendToLog
  /\ \/ /\ rc.prState = "MERGED"
        /\ rc' = rc
        /\ Take("MERGED")
        /\ UNCHANGED conflicts
     \/ /\ rc.prState # "MERGED"
        /\ rc' = rc
        /\ \/ logOK /\ (Take("MERGED") \/ Take("CONFLICT_UNRESOLVED"))
           \/ Take("MERGE_FAILED")
        /\ UNCHANGED conflicts
     \/ /\ rc.prState # "MERGED"
        /\ logOK
        /\ conflicts < MaxMergeConflicts
        /\ conflicts' = conflicts + 1
        /\ rc' = [rc EXCEPT !.inMergeReReview = TRUE]
        /\ Take("CONFLICT_RESOLVED")
  /\ UNCHANGED <<reviews, prExists>>

-----------------------------------------------------------------------------
Init ==
  /\ step = "PREPARE"
  /\ \E resume \in BOOLEAN : rc = NewRunContext(resume)
  /\ prExists \in BOOLEAN
  /\ reviews = 0
  /\ logOK = TRUE
  /\ conflicts = 0
  /\ unreviewed = TRUE
  /\ devRuns = 0
  /\ reworks = 0

StepPrepare ==
  \/ PrepareFresh
  \/ ResumeRefused
  \/ ResumeMerged
  \/ ResumeUndecided
  \/ ResumeChangesRequested
  \/ ResumeApproved

StepRunReviewer ==
  \/ ReviewRoundFails
  \/ PrecheckFails
  \/ ReviewSubmitted

Next ==
  \/ StepPrepare
  \/ StepRunDev
  \/ StepSyncCI
  \/ StepRunReviewer
  \/ StepMergePR

Spec == Init /\ [][Next]_vars

(* Every handler returns: the agents run under a wall-clock and an idle    *)
(* timeout, CI polling under ci_timeout_minutes, git and gh calls end.     *)
FairSpec == Spec /\ WF_vars(Next)

-----------------------------------------------------------------------------
(* Outcomes (terminalOutcomeTable; a StateError counts as dev_failed).     *)

Outcome(s) ==
  CASE s = "TERMINAL_SUCCESS"       -> "success"
    [] s = "TERMINAL_SKIPPED"       -> "skipped"
    [] s = "TERMINAL_DEV_FAILED"    -> "dev_failed"
    [] s = StateError               -> "dev_failed"
    [] s = "TERMINAL_REVIEW_FAILED" -> "review_failed"
    [] s = "TERMINAL_ESCALATED"     -> "escalated"
    [] s = "TERMINAL_MERGE_FAILED"  -> "merge_failed"
    [] s = "TERMINAL_TIMEOUT"       -> "timeout"
    [] s = "TERMINAL_STALLED"       -> "stalled"
    [] s = "TERMINAL_ABORTED"       -> "aborted"
    [] OTHER                        -> "running"

-----------------------------------------------------------------------------
(* Properties.                                                             *)

(* The types of the variables.                                             *)
TypeOK ==
  /\ step \in WorkSteps \cup Terminals \cup {StateError}
  /\ rc \in RunContext
  /\ reviews \in Nat
  /\ logOK \in BOOLEAN
  /\ prExists \in BOOLEAN
  /\ conflicts \in 0..MaxMergeConflicts
  /\ unreviewed \in BOOLEAN
  /\ devRuns \in 0..(MaxDevAttempts + 1)
  /\ reworks \in Nat

(* loopdef.go: "Guards for a given (From, Event) pair are disjoint and     *)
(* total over RunContext": whatever a handler returns in a context it can  *)
(* leave behind, exactly one row of the table applies.                     *)
DispatchTotal == step # StateError

(* A visit to RUN_DEV launches the dev agent at most three times, however  *)
(* the visits of several review rounds and a resume chain together.        *)
DevAttemptsBounded == devRuns <= MaxDevAttempts

(* The reviewer sends a run back to the dev at most MaxRounds - 1 times    *)
(* before a merge conflict, and at most MaxMergeReReviewRounds - 1 times   *)
(* more in all the re-reviews after merge conflicts, resumed or not.  Only *)
(* a log that just became unreadable can cost one extra round.             *)
ReworkBudget ==
  reworks <= (MaxRounds - 1) + (IF rc.inMergeReReview THEN MaxMergeReReviewRounds - 1
                                ELSE IF logOK THEN 0 ELSE 1)

(* A run is handed to a human only when a review budget is really used up. *)
EscalatesOnlyWhenExhausted ==
  step = "TERMINAL_ESCALATED" =>
    IF rc.inMergeReReview THEN rc.mergeReReviewRound >= MaxMergeReReviewRounds
                          ELSE reviews >= MaxRounds

(* A run ends in success only if the PR content was approved after the     *)
(* last dev turn and after the last merge conflict an agent resolved.      *)
SuccessIsReviewed == step = "TERMINAL_SUCCESS" => ~unreviewed

(* The merge re-review budget as the comments of outcome.go and loopdef.go *)
(* state it: no run takes more reviewer turns in the merge phase than      *)
(* MaxMergeReReviewRounds.  (Not what the code does.)                      *)
MergeReReviewsCapped == rc.mergeReReviewRound <= MaxMergeReReviewRounds

(* The run implements ReviewLoop: bounded rework, an approval voided by    *)
(* every later change, one final outcome, success only when approved.      *)
ReworkLimit == MaxRounds + MaxMergeReReviewRounds - 1

Loop == INSTANCE ReviewLoop WITH
          Budget   <- ReworkLimit,
          Outcomes <- {Outcome(s) : s \in Terminals},
          approved <- ~unreviewed,
          sentBack <- reworks,
          outcome  <- Outcome(step)

ImplementsReviewLoop == Loop!Spec

(* The run reaches a terminal step, if only finitely many merge conflicts  *)
(* are thrown at it (MaxMergeConflicts).                                   *)
RunTerminates == <>(step \in Terminals)

=============================================================================
