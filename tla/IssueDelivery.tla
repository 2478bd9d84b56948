----------------------------- MODULE IssueDelivery -----------------------------
(***************************************************************************)
(* The delivery of one issue's pull request: what the handlers of          *)
(* RunMachine do to git and to GitHub, from the first push to the merge,   *)
(* while main moves, others push to the branch, runs die and are resumed.  *)
(* (runner/merge.go, ciwait.go, step_sync_ci.go, step_reviewer.go,         *)
(* step_merge.go, resume.go, worktree.EnsureForResume, dev.go.)            *)
(*                                                                         *)
(* A commit is a change on a version of main: a clean rebase keeps the     *)
(* change and moves the base, everything an agent or a person writes is a  *)
(* new change.  One action is one command that reads or writes what others *)
(* write too (the branch, main, the pull request), with the decision the   *)
(* runner takes on its answer.  Any command may fail.                      *)
(***************************************************************************)
EXTENDS Naturals, FiniteSets, CIChecks

CONSTANTS
  MaxRounds,                      (* cfg.MaxReviewRounds                      *)
  MaxMergeReReviewRounds,         (* 2                                        *)
  MaxConflictResolutionAttempts,  (* 2 unless configured                      *)
  MaxCIFixRounds,                 (* 2                                        *)
  MaxOutOfDateRetries,            (* 3                                        *)
  ObservedStates,                 (* the check states CI reports, of CIChecks *)
  AgentCommits,                   (* whether a dev agent may commit by itself *)
  MaxMain, MaxChanges,            (* bounds: versions of main, changes        *)
  MaxForeign, MaxResumes          (* bounds: others' pushes, resumed runs     *)

ASSUME DeliveryAssumption ==
  /\ MaxRounds \in Nat \ {0} /\ MaxMergeReReviewRounds \in Nat \ {0}
  /\ MaxConflictResolutionAttempts \in Nat \ {0}
  /\ MaxCIFixRounds \in Nat /\ MaxOutOfDateRetries \in Nat \ {0}
  /\ ObservedStates \subseteq CheckStates
  /\ AgentCommits \in BOOLEAN
  /\ MaxMain \in Nat /\ MaxChanges \in Nat \ {0}
  /\ MaxForeign \in Nat /\ MaxResumes \in Nat

Commits == [change : 1..MaxChanges, base : 0..MaxMain]
Gone    == [change |-> 0, base |-> 0]    (* no such commit or branch         *)

VARIABLES
  (* GitHub *)
  main,        (* the version of main                                        *)
  head,        (* the remote branch, which is the head of the PR             *)
  merged,      (* the commit that was squash-merged, or Gone                 *)
  strict,      (* branch protection: only an up-to-date, green head merges   *)
  review,      (* the last decision: verdict, confidence and its change      *)
  requested,   (* how many reviews requested changes                         *)
  label,       (* the PR's confidence label                                  *)
  (* the host *)
  wt,          (* HEAD of the dev worktree                                   *)
  conflicted,  (* a rebase with conflicts is in progress there               *)
  seenMain,    (* origin/main                                                *)
  seenHead,    (* origin/<branch>, what --force-with-lease compares with     *)
  (* the run *)
  phase, pc,   (* the step of RunMachine and the place in it                 *)
  tries,       (* attempts so far: of resolving, of fixing, of merging       *)
  target,      (* the commit a poll, a fix or a review is about              *)
  conf,        (* the confidence in this run's event log                     *)
  round,       (* review_submitted events in this run's event log            *)
  reReview,    (* InMergeReReview                                            *)
  reReviews,   (* MergeReReviewRound                                         *)
  outcome,
  (* bounds and history *)
  changes,     (* changes written so far                                     *)
  resumes,
  foreign,     (* changes others pushed                                      *)
  approved,    (* changes a review approved                                  *)
  resolved,    (* changes an agent made of a conflict after the approval     *)
  passed,      (* commits the runner saw pass CI                             *)
  excuses      (* what else can make the merged change an unreviewed one     *)

github  == <<main, head, merged, strict, review, requested, label>>
host    == <<wt, conflicted, seenMain, seenHead>>
run     == <<phase, pc, tries, target, conf, round, reReview, reReviews, outcome>>
history == <<foreign, approved, resolved, passed, excuses>>

vars == <<github, host, run, changes, resumes, history>>

Phases == {"dev", "sync", "review", "merge", "retry", "ended"}
Tiers  == {"low", "high"}                (* medium gates as high does        *)

Outcomes == {"none", "success", "dev_failed", "review_failed", "merge_failed",
             "escalated", "aborted", "crashed"}

NoReview   == [verdict |-> "none", tier |-> "none", change |-> 0]
InitCommit == [change |-> 1, base |-> 0]

(* The dev agent's first change is pushed and its PR open.                 *)
DeliveryInit ==
  /\ main = 0 /\ head = InitCommit /\ merged = Gone
  /\ strict \in BOOLEAN
  /\ review = NoReview /\ requested = 0
  /\ label = "none"
  /\ wt = InitCommit /\ conflicted = FALSE /\ seenMain = 0 /\ seenHead = InitCommit
  /\ phase = "sync" /\ pc = "fetch" /\ tries = 0 /\ target = Gone
  /\ conf = "none" /\ round = 0 /\ reReview = FALSE /\ reReviews = 0
  /\ outcome = "none"
  /\ changes = 1 /\ resumes = 0
  /\ foreign = {} /\ approved = {} /\ resolved = {} /\ passed = {} /\ excuses = {}

-----------------------------------------------------------------------------
(* Moving on and ending.  What a run knew ends with it; what is left is on *)
(* GitHub and in the worktree.                                             *)

At(ph, p) == phase = ph /\ pc = p

Goto(ph, p) ==
  /\ phase' = ph /\ pc' = p
  /\ UNCHANGED outcome

End(o) ==
  /\ phase' = "ended" /\ pc' = "none" /\ outcome' = o
  /\ tries' = 0 /\ target' = Gone /\ conf' = "none"
  /\ round' = 0 /\ reReview' = FALSE /\ reReviews' = 0

Keep == UNCHANGED <<conf, round, reReview, reReviews>>

(* failMerge and the dev_failed returns of the sync gate.                  *)
FailureBug == CASE phase \in {"dev", "sync"} -> "dev_failed"
                [] phase = "review"          -> "review_failed"
                [] phase = "merge"           -> "merge_failed"
                [] OTHER                     -> "none"

Failure == CASE phase \in {"dev", "sync"}    -> "dev_failed"
             [] phase = "review"             -> "review_failed"
             [] phase \in {"merge", "retry"} -> "merge_failed"
             [] OTHER                        -> "none"

Fail == End(Failure)

FetchOrigin == seenMain' = main /\ seenHead' = head

(* git push --force-with-lease: the branch is where origin/<branch> says.  *)
(* Every fetch moves that ref, so a foreign commit is protected only until *)
(* somebody fetches in this clone.                                         *)
PushBranch ==
  /\ head = seenHead
  /\ head' = wt
  /\ seenHead' = wt

NextChange == changes + 1

CanChange == changes < MaxChanges

Write(base) == [change |-> NextChange, base |-> base]

-----------------------------------------------------------------------------
(* RUN_DEV with findings: the agent edits, the runner commits and pushes.  *)
(* Without a change in the worktree nothing is pushed, which is what an    *)
(* agent that committed by itself leaves behind.                           *)

DevAgent ==
  /\ At("dev", "agent")
  /\ UNCHANGED <<github, conflicted, seenMain, seenHead, resumes, history>>
  /\ \/ /\ CanChange
        /\ changes' = NextChange /\ wt' = Write(wt.base)
        /\ \/ Goto("dev", "push")
           \/ AgentCommits /\ Goto("sync", "fetch")
        /\ UNCHANGED <<tries, target>> /\ Keep
     \/ /\ Goto("sync", "fetch")
        /\ UNCHANGED <<changes, wt, tries, target>> /\ Keep
     \/ /\ Fail
        /\ UNCHANGED <<changes, wt>>

DevPush ==
  /\ At("dev", "push")
  /\ UNCHANGED <<main, merged, strict, review, requested, label,
                 wt, conflicted, seenMain, changes, resumes, history>>
  /\ \/ PushBranch /\ Goto("sync", "fetch") /\ UNCHANGED <<tries, target>> /\ Keep
     \/ PushBranch /\ Fail
     \/ Fail /\ UNCHANGED <<head, seenHead>>

-----------------------------------------------------------------------------
(* Fetch, freshness, rebase and push: shared by SYNC_CI ("sync"), MERGE_PR *)
(* ("merge") and the retry after an out-of-date rejection ("retry").       *)

(* isBranchUpToDate: origin/main is an ancestor of the worktree's HEAD.    *)
isBranchUpToDate == wt.base >= seenMain

Fetch ==
  /\ pc = "fetch"
  /\ UNCHANGED <<github, wt, conflicted, changes, resumes, history>>
  /\ \/ /\ FetchOrigin
        /\ tries' = 0
        /\ IF isBranchUpToDate' THEN Goto(phase, "gate") ELSE Goto(phase, "rebase")
        /\ UNCHANGED target /\ Keep
     \/ Fail /\ UNCHANGED <<seenMain, seenHead>>

(* rebaseBranch fetches again.  A conflict is left in the worktree for the *)
(* agent, except in a retry, which gives up.                               *)
RebaseBranch ==
  /\ pc = "rebase"
  /\ UNCHANGED <<github, changes, resumes, history>>
  /\ \/ /\ FetchOrigin
        /\ wt' = [wt EXCEPT !.base = main]
        /\ Goto(phase, "push")
        /\ UNCHANGED <<conflicted, tries, target>> /\ Keep
     \/ /\ FetchOrigin
        /\ phase # "retry" /\ wt.base < main
        /\ conflicted' = TRUE /\ tries' = 1
        /\ Goto(phase, "resolve")
        /\ UNCHANGED <<wt, target>> /\ Keep
     \/ FetchOrigin /\ Fail /\ UNCHANGED <<wt, conflicted>>
     \/ Fail /\ UNCHANGED host

(* One attempt of the agent at the conflict.  It counts only when the      *)
(* rebase is complete, the tree clean and origin/main in its history.      *)
ResolveConflict ==
  /\ pc = "resolve"
  /\ UNCHANGED <<github, seenMain, seenHead, resumes, foreign, approved, passed, excuses>>
  /\ \/ /\ CanChange
        /\ changes' = NextChange /\ wt' = Write(seenMain)
        /\ conflicted' = FALSE
        /\ resolved' = IF phase = "merge" THEN resolved \cup {NextChange} ELSE resolved
        /\ Goto(phase, IF phase = "merge" THEN "push resolved" ELSE "push")
        /\ UNCHANGED <<tries, target>> /\ Keep
     \/ /\ tries < MaxConflictResolutionAttempts
        /\ tries' = tries + 1
        /\ UNCHANGED <<wt, conflicted, changes, resolved, phase, pc, target, outcome>> /\ Keep
     \/ /\ tries >= MaxConflictResolutionAttempts     (* rebase --abort        *)
        /\ conflicted' = FALSE
        /\ End("dev_failed")
        /\ UNCHANGED <<wt, changes, resolved>>
     \/ /\ conflicted' = FALSE                        (* infrastructure        *)
        /\ Fail
        /\ UNCHANGED <<wt, changes, resolved>>

(* The push of a rebased branch; CI is then polled for exactly its commit. *)
PushRebased ==
  /\ pc = "push" /\ phase \in {"sync", "merge", "retry"}
  /\ UNCHANGED <<main, merged, strict, review, requested, label,
                 wt, conflicted, seenMain, changes, resumes, history>>
  /\ \/ /\ PushBranch
        /\ target' = wt
        /\ Goto(phase, "poll")
        /\ UNCHANGED tries /\ Keep
     \/ PushBranch /\ Fail
     \/ Fail /\ UNCHANGED <<head, seenHead>>

(* A conflict resolved in MERGE_PR goes back to the reviewer at once.      *)
NextAfterResolvedPushBug == Goto("merge", "fetch")

NextAfterResolvedPush == Goto("review", "checkout")

PushResolved ==
  /\ pc = "push resolved"
  /\ UNCHANGED <<main, merged, strict, review, requested, label,
                 wt, conflicted, seenMain, changes, resumes, history>>
  /\ \/ /\ PushBranch
        /\ NextAfterResolvedPush
        /\ reReview' = TRUE
        /\ UNCHANGED <<tries, target, conf, round, reReviews>>
     \/ PushBranch /\ Fail
     \/ Fail /\ UNCHANGED <<head, seenHead>>

-----------------------------------------------------------------------------
(* CI.  What GitHub answers to a query is a choice: checks are reported,   *)
(* run and are run again at any time, and may never settle.  The sync gate *)
(* and the merge gate ask about the head of the PR as it is then, the      *)
(* polls after a push about the pushed commit.                             *)

Polling == pc \in {"poll", "gate"}

Polled == IF pc = "poll" THEN target ELSE head

Answers == [CheckNames -> ObservedStates]

(* onCICheckFailed, before the agent is asked to fix the build.            *)
GateFailed ==
  \/ /\ tries < MaxCIFixRounds
     /\ Goto("sync", "fix")
     /\ UNCHANGED <<tries, target>> /\ Keep
  \/ /\ tries >= MaxCIFixRounds
     /\ End("dev_failed")

(* Mutant: only a red build stops the sync after a push.                   *)
NotGreenBug ==
  IF At("sync", "gate") THEN GateFailed
  ELSE IF phase = "sync" THEN Goto("review", "checkout") /\ UNCHANGED <<tries, target>> /\ Keep
  ELSE Fail

NotGreen == IF At("sync", "gate") THEN GateFailed ELSE Fail

CIGreen ==
  /\ Polling
  /\ UNCHANGED <<github, host, changes, resumes, foreign, approved, resolved, excuses>>
  /\ \E checks \in Answers :
       /\ classifyChecks(checks) = "green"
       /\ passed' = IF ReallyPassed(checks) THEN passed \cup {Polled} ELSE passed
  /\ IF phase = "sync" THEN Goto("review", "checkout") ELSE Goto("merge", "call")
  /\ target' = Gone
  /\ UNCHANGED tries /\ Keep

CIRed ==
  /\ Polling
  /\ \E checks \in Answers : classifyChecks(checks) = "red"
  /\ NotGreen
  /\ UNCHANGED <<github, host, changes, resumes, history>>

(* Mutant: only the gate on the PR's head has a deadline.                  *)
CIDeadlineBug ==
  /\ pc = "gate"
  /\ NotGreen
  /\ UNCHANGED <<github, host, changes, resumes, history>>

(* ci_timeout_minutes have passed; the query itself may fail at any time.  *)
CIDeadline ==
  /\ Polling
  /\ NotGreen
  /\ UNCHANGED <<github, host, changes, resumes, history>>

CIQueryFails ==
  /\ Polling
  /\ Fail
  /\ UNCHANGED <<github, host, changes, resumes, history>>

(* The fix rounds of runCIGate: the remote branch before, the agent, which *)
(* commits and pushes by itself, or should, and the remote branch after.   *)
FixStart ==
  /\ At("sync", "fix")
  /\ \/ target' = head /\ Goto("sync", "fixing") /\ UNCHANGED tries /\ Keep
     \/ Fail
  /\ UNCHANGED <<github, host, changes, resumes, history>>

FixAgent ==
  /\ At("sync", "fixing")
  /\ UNCHANGED <<main, merged, strict, review, requested, label,
                 conflicted, seenMain, resumes, history>>
  /\ \/ /\ CanChange
        /\ changes' = NextChange /\ wt' = Write(wt.base)
        /\ \/ head = seenHead /\ head' = wt' /\ seenHead' = wt'
           \/ UNCHANGED <<head, seenHead>>
     \/ UNCHANGED <<changes, wt, head, seenHead>>
  /\ \/ Goto("sync", "fixed") /\ UNCHANGED <<tries, target>> /\ Keep
     \/ Fail

FixEnd ==
  /\ At("sync", "fixed")
  /\ \/ /\ head # target
        /\ tries' = tries + 1 /\ target' = Gone
        /\ Goto("sync", "gate") /\ Keep
     \/ Fail          (* nothing was pushed, or the branch cannot be read    *)
  /\ UNCHANGED <<github, host, changes, resumes, history>>

-----------------------------------------------------------------------------
(* RUN_REVIEWER.  ReviewInvocation has the attempts of a round; here it is *)
(* the commit the reviewer sees, what it decides, and the three places the *)
(* decision goes to: GitHub, the event log, the label.                     *)

Diverged(commit) == IF commit.change # wt.change THEN {"diverged"} ELSE {}

(* CreateForReviewer: fetch, then a detached worktree of origin/<branch>.  *)
ReviewCheckout ==
  /\ At("review", "checkout")
  /\ UNCHANGED <<github, wt, conflicted, changes, resumes,
                 foreign, approved, resolved, passed>>
  /\ \/ /\ FetchOrigin
        /\ target' = head
        /\ excuses' = excuses \cup Diverged(head)
        /\ Goto("review", "decide")
        /\ UNCHANGED tries /\ Keep
     \/ Fail /\ UNCHANGED <<seenMain, seenHead, excuses>>

EscalatesAt(rounds, mergeRounds) ==
  IF reReview THEN mergeRounds >= MaxMergeReReviewRounds ELSE rounds >= MaxRounds

CountRound ==
  /\ round' = round + 1
  /\ reReviews' = IF reReview THEN reReviews + 1 ELSE reReviews
  /\ UNCHANGED reReview

(* Changes are requested, by the reviewer or by a red precheck.            *)
Rework ==
  \/ /\ EscalatesAt(round + 1, reReviews + 1)
     /\ End("escalated")
  \/ /\ ~EscalatesAt(round + 1, reReviews + 1)
     /\ CountRound
     /\ conf' = "none" /\ target' = Gone /\ tries' = 0
     /\ Goto("dev", "agent")

(* A red precheck counts as a round; GitHub is not told of it.             *)
PrecheckRed ==
  /\ At("review", "decide")
  /\ Rework \/ Fail
  /\ UNCHANGED <<github, host, changes, resumes, history>>

(* submitPendingReview: the decision is on GitHub.                         *)
SubmitReview ==
  /\ At("review", "decide")
  /\ \E verdict \in {"approved", "changes_requested"}, tier \in Tiers :
       /\ review' = [verdict |-> verdict, tier |-> tier, change |-> target.change]
       /\ conf' = tier
       /\ IF verdict = "approved"
          THEN approved' = approved \cup {target.change} /\ UNCHANGED requested
          ELSE requested' = requested + 1 /\ UNCHANGED approved
  /\ Goto("review", "record")
  /\ UNCHANGED <<main, head, merged, strict, label, host, tries, target, round, reReview,
                 reReviews, changes, resumes, foreign, resolved, passed, excuses>>

(* The review_submitted event, the label (whose failure is only a          *)
(* warning), the worktree check, and the event the verdict stands for.     *)
RecordReview ==
  /\ At("review", "record")
  /\ label' \in {label, conf}
  /\ \/ /\ review.verdict = "approved"
        /\ CountRound
        /\ Goto("merge", "decide")
        /\ target' = Gone
        /\ UNCHANGED <<tries, conf>>
     \/ review.verdict = "changes_requested" /\ Rework
     \/ Fail
  /\ UNCHANGED <<main, head, merged, strict, review, requested, host,
                 changes, resumes, history>>

-----------------------------------------------------------------------------
(* MERGE_PR.                                                               *)

(* evaluateAutoMergeGate: low confidence skips the merge, and the run is a *)
(* success.  The number of the PR is read from the log first: without it   *)
(* the merge fails.                                                        *)
MergeGateBug ==
  /\ At("merge", "decide")
  /\ Goto("merge", "fetch") /\ UNCHANGED <<tries, target>> /\ Keep
  /\ UNCHANGED <<github, host, changes, resumes, history>>

MergeGate ==
  /\ At("merge", "decide")
  /\ \/ /\ IF conf = "low" THEN End("success")
           ELSE Goto("merge", "fetch") /\ UNCHANGED <<tries, target>> /\ Keep
     \/ Fail
  /\ UNCHANGED <<github, host, changes, resumes, history>>

UpToDateOnGitHub == head.base = main

(* gh pr merge --squash, which names no commit: it merges the head of the  *)
(* PR as it is then.  An unprotected branch merges behind main too, when   *)
(* it does not conflict.                                                   *)
SquashMerge ==
  /\ At("merge", "call")
  /\ strict => UpToDateOnGitHub
  /\ merged = Gone
  /\ merged' = head
  /\ Goto("merge", "cleanup")
  /\ UNCHANGED <<tries, target>> /\ Keep
  /\ UNCHANGED <<main, head, strict, review, requested, label, host,
                 changes, resumes, history>>

AfterLastRetryBug == End("success")

AfterLastRetry == Fail

(* "Head branch is out of date": once more onto main, three times in all.  *)
OutOfDate ==
  /\ At("merge", "call")
  /\ strict /\ ~UpToDateOnGitHub
  /\ \/ /\ tries + 1 < MaxOutOfDateRetries
        /\ tries' = tries + 1
        /\ Goto("retry", "rebase")
        /\ UNCHANGED target /\ Keep
     \/ /\ tries + 1 >= MaxOutOfDateRetries
        /\ AfterLastRetry
  /\ UNCHANGED <<github, host, changes, resumes, history>>

(* Any other failure ends the merge: a conflict with main, a red check, a  *)
(* call that fails, also after it took effect.                             *)
AfterRejectionBug == \/ Goto("retry", "rebase") /\ UNCHANGED <<tries, target>> /\ Keep
                     \/ Fail

AfterRejection == Fail

MergeRejected ==
  /\ At("merge", "call")
  /\ \/ merged' = merged
     \/ /\ strict => UpToDateOnGitHub
        /\ merged' = head
  /\ AfterRejection
  /\ UNCHANGED <<main, head, strict, review, requested, label, host,
                 changes, resumes, history>>

(* The pr_merged event and deleteRemoteBranch, both best effort.           *)
MergeCleanup ==
  /\ At("merge", "cleanup")
  /\ head' \in {head, Gone}
  /\ End("success")
  /\ UNCHANGED <<main, merged, strict, review, requested, label, host,
                 changes, resumes, history>>

-----------------------------------------------------------------------------
(* What happens around the run.                                            *)

MainMoves ==
  /\ main < MaxMain
  /\ main' = main + 1
  /\ UNCHANGED <<head, merged, strict, review, requested, label,
                 host, run, changes, resumes, history>>

(* Somebody else pushes to the branch of the open PR.                      *)
ForeignPush ==
  /\ merged = Gone
  /\ Cardinality(foreign) < MaxForeign /\ CanChange
  /\ changes' = NextChange
  /\ head' = Write(head.base)
  /\ foreign' = foreign \cup {NextChange}
  /\ UNCHANGED <<main, merged, strict, review, requested, label,
                 host, run, resumes, approved, resolved, passed, excuses>>

(* The run dies; worth a step only when it can be resumed.                 *)
Crash ==
  /\ phase # "ended"
  /\ resumes < MaxResumes
  /\ End("crashed")
  /\ UNCHANGED <<github, host, changes, resumes, history>>

-----------------------------------------------------------------------------
(* golemic run --resume: everything is read back from GitHub.              *)

(* EnsureForResume: a worktree on the branch is used as it is, one in the  *)
(* middle of a rebase is refused, and without one the branch is checked    *)
(* out from the remote.                                                    *)
KeepWorktree  == ~conflicted /\ UNCHANGED host
FreshWorktree == FetchOrigin /\ wt' = head /\ conflicted' = FALSE

Stale ==
  (IF \E c \in {head.change, wt'.change} : c # review.change THEN {"stale approval"} ELSE {})
  \cup (IF label # review.tier THEN {"stale label"} ELSE {})

ConfidenceFromLabel == IF label = "none" THEN "low" ELSE label

(* resumeValidate and hydrateResume: a merged PR needs nothing more; no    *)
(* decision yet means the CI gate and the reviewer, a rejection means the  *)
(* dev agent, an approval goes straight to the merge.                      *)
StartResumed == resumes' = resumes + 1

CanResume == phase = "ended" /\ outcome # "success" /\ resumes < MaxResumes

ResumeMerged ==
  /\ CanResume /\ merged # Gone
  /\ StartResumed
  /\ outcome' = "success"
  /\ UNCHANGED <<github, host, phase, pc, tries, target, conf, round, reReview, reReviews,
                 changes, history>>

ResumeRefused ==
  /\ CanResume /\ merged = Gone
  /\ StartResumed
  /\ outcome' = "aborted"
  /\ UNCHANGED <<github, host, phase, pc, tries, target, conf, round, reReview, reReviews,
                 changes, history>>

ResumeUndecided ==
  /\ CanResume /\ merged = Gone /\ review.verdict = "none"
  /\ StartResumed
  /\ KeepWorktree \/ FreshWorktree
  /\ phase' = "sync" /\ pc' = "gate" /\ outcome' = "none"
  /\ UNCHANGED <<github, tries, target, conf, round, reReview, reReviews, changes, history>>

ResumeChangesRequested ==
  /\ CanResume /\ merged = Gone /\ review.verdict = "changes_requested"
  /\ StartResumed
  /\ KeepWorktree \/ FreshWorktree
  /\ \/ /\ requested >= MaxRounds
        /\ outcome' = "escalated"
        /\ UNCHANGED <<phase, pc, round>>
     \/ /\ requested < MaxRounds
        /\ phase' = "dev" /\ pc' = "agent" /\ outcome' = "none"
        /\ round' = requested
  /\ UNCHANGED <<github, tries, target, conf, reReview, reReviews, changes, history>>

ResumeApproved ==
  /\ CanResume /\ merged = Gone /\ review.verdict = "approved"
  /\ StartResumed
  /\ KeepWorktree \/ FreshWorktree
  /\ phase' = "merge" /\ pc' = "decide" /\ outcome' = "none"
  /\ conf' = ConfidenceFromLabel /\ round' = 1
  /\ excuses' = excuses \cup Stale
  /\ UNCHANGED <<github, tries, target, reReview, reReviews, changes,
                 foreign, approved, resolved, passed>>

Resume == \/ ResumeMerged \/ ResumeRefused \/ ResumeUndecided
          \/ ResumeChangesRequested \/ ResumeApproved

-----------------------------------------------------------------------------
(* The runner's own steps; only CI decides when its checks settle.         *)

RunnerStep ==
  \/ DevAgent \/ DevPush
  \/ Fetch \/ RebaseBranch \/ ResolveConflict \/ PushRebased \/ PushResolved
  \/ FixStart \/ FixAgent \/ FixEnd
  \/ ReviewCheckout \/ PrecheckRed \/ SubmitReview \/ RecordReview
  \/ MergeGate \/ SquashMerge \/ OutOfDate \/ MergeRejected \/ MergeCleanup

CIStep == CIGreen \/ CIRed \/ CIQueryFails

Environment == MainMoves \/ ForeignPush \/ Crash \/ Resume

DeliveryNext == RunnerStep \/ CIStep \/ CIDeadline \/ Environment

(* Every command and every agent returns, agents by their timeouts; the    *)
(* deadline of a poll fires.  Nothing is assumed of CI, of main, of others *)
(* or of who resumes a run.                                                *)
DeliverySpec ==
  DeliveryInit /\ [][DeliveryNext]_vars /\ WF_vars(RunnerStep) /\ WF_vars(CIDeadline)

-----------------------------------------------------------------------------
(* Properties.                                                             *)

Verdicts == {"none", "approved", "changes_requested"}

(* Every variable stays within its domain; the phases and places of a run  *)
(* are those of the handlers.                                              *)
DeliveryTypeOK ==
  /\ main \in 0..MaxMain /\ strict \in BOOLEAN
  /\ head \in Commits \cup {Gone} /\ merged \in Commits \cup {Gone}
  /\ review \in [verdict : Verdicts, tier : Tiers \cup {"none"}, change : 0..MaxChanges]
  /\ requested \in Nat /\ label \in Tiers \cup {"none"}
  /\ wt \in Commits /\ conflicted \in BOOLEAN
  /\ seenMain \in 0..MaxMain /\ seenHead \in Commits
  /\ phase \in Phases /\ tries \in Nat /\ target \in Commits \cup {Gone}
  /\ conf \in Tiers \cup {"none"} /\ round \in Nat
  /\ reReview \in BOOLEAN /\ reReviews \in Nat
  /\ outcome \in Outcomes /\ (outcome = "none" <=> phase # "ended")
  /\ changes \in 1..MaxChanges /\ resumes \in 0..MaxResumes
  /\ foreign \subseteq 1..MaxChanges /\ approved \subseteq 1..MaxChanges
  /\ resolved \subseteq 1..MaxChanges /\ passed \subseteq Commits
  /\ excuses \subseteq {"diverged", "stale approval", "stale label"}

IsMerged == merged # Gone

(* What is merged is a change that a review approved: rebases, conflicts,  *)
(* out-of-date retries and crashes never slip another one in, unless       *)
(* somebody pushed it, the reviewer was shown something else than the      *)
(* worktree holds, or a resume trusted an approval of an earlier change.   *)
MergedWasApproved ==
  IsMerged => \/ merged.change \in approved
              \/ merged.change \in foreign
              \/ {"diverged", "stale approval"} \cap excuses # {}

(* The runner itself has seen CI pass on the very commit that is merged,   *)
(* unless it came from somebody else after the poll.                       *)
MergedWasGreen ==
  IsMerged => merged \in passed \/ merged.change \in foreign

(* Outside a re-review for a conflict, the reviewer's decision is about a  *)
(* commit that has passed CI.                                              *)
ReviewedWasGreen ==
  [][ (pc = "decide" /\ pc' = "record" /\ ~reReview)
        => target \in passed \/ target.change \in foreign ]_vars

(* A review with low confidence holds the merge back, even over a crash,   *)
(* unless the label a resume relies on was never set.                      *)
LowConfidenceIsHeld ==
  IsMerged /\ review.tier = "low" => "stale label" \in excuses

(* A run that succeeds has merged the pull request, or leaves it approved  *)
(* with low confidence for a human.                                        *)
SuccessIsDelivered ==
  outcome = "success" =>
    \/ IsMerged
    \/ review.verdict = "approved" /\ (review.tier = "low" \/ "stale label" \in excuses)

(* Nothing is pushed to the branch any more once the PR is merged, also    *)
(* when the runner was never told that it is.                              *)
NoPushAfterMerge == [][ IsMerged => head' \in {head, Gone} ]_vars

(* Every run ends, however long CI stays silent.                           *)
RunEnds == (phase # "ended") ~> (phase = "ended")

(* merge.go: a conflict that is resolved after the approval must be        *)
(* reviewed again before the merge.  A resumed run does not see to it.     *)
PostApprovalConflictIsReviewed ==
  IsMerged /\ merged.change \in resolved => merged.change \in approved

=============================================================================
