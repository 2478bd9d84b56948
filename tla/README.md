# Specifications of golemic

golemic takes GitHub issues labelled `ready-for-agent`, lets a *dev* agent
change the code in a worktree, waits for CI, lets a *reviewer* agent review the
pull request, and merges it.  The Go program is the part that must not go wrong
when agents do: it drives the agents through a transition machine, decides with
its own brokers what counts as done, and is itself started and restarted by a
polling loop, several of which may watch one repository.

This directory holds TLA+ specifications of that program, TLC configurations
that check them on small instances, and TLAPS proofs of the properties that
matter most for every instance.  All paths are relative to the repository.

## Inventory

| component | state it keeps | operations | what must be right | here |
|---|---|---|---|---|
| loop machine, transition table (`internal/loop`, `runner/loopdef.go`) | current step | one iteration: handler, event, guarded row | exactly one row applies; the run ends | `RunMachine` |
| step handlers (`runner/step_*.go`, `runner.go`) | `RunContext` | PREPARE, RUN_DEV, SYNC_CI, RUN_REVIEWER, MERGE_PR | bounded attempts and rounds, merge only what is approved | `RunMachine` (context), `IssueDelivery` (git, GitHub) |
| resume (`runner/resume.go`) | rebuilt from GitHub | hydrate after a crash or an escalation | same budgets, no stale approval | `RunMachine`, `IssueDelivery` |
| issue claim (`internal/claim`) | labels, assignee on GitHub | Claim, Release | mutual exclusion, nothing stranded | `IssueClaim` |
| run loop, selection (`internal/runloop`, `internal/selector`) | one tick | select, claim, run, release, stop | no second merge of an issue by the loops' own doing, stop honoured | `RunLoop` |
| gm broker, dev tools (`internal/gmbroker`, `worktreefingerprint`) | last check, terminal, gate | `gm_project_check`, `gm_dev_done` | one verdict, only green trees accepted | `DevInvocation` |
| dev invocation (`runner/dev.go`) | commit, branch, PR | accept, recover, commit, push | commit what was accepted | `DevInvocation` |
| gm broker, reviewer tools; `runner/reviewer.go` | pending review, verdict | comment, submit, sweep, precheck | comments and verdict reach GitHub together, approve only green trees | `ReviewInvocation` |
| merge phase, CI gate (`runner/merge.go`, `ciwait.go`) | branch, main, CI runs | rebase, resolve, push, poll, merge | what is merged was reviewed and green | `IssueDelivery`, `CIChecks` |
| event log (`internal/eventlog`) | one JSONL file per run | append, read all or nothing | counts survive a torn line | part of `RunMachine` |
| worktrees, collision, clean | worktrees and branches of a host | create, check, remove | leftovers are noticed, the right commit is checked out | part of `RunLoop` and `IssueDelivery` |
| agent supervision, model chain (`internal/agent`) | one process group at a time, its transcript | start, poll, kill, retry, fall back | one process at a time in a worktree, success only for a clean attempt, the role ends | `AgentRun` |
| cbm broker (`internal/cbmbroker`) | table of pending requests, pipes of a child | handshake, route, shut down | responses reach their client, nobody waits for ever | `CbmBroker` |
| preflight, health, status, progress, prompts, telemetry, configuration, command line | - | - | - | not modelled |

How they interact: the run loop starts `golemic run` as a subprocess; the run
calls its handlers in one goroutine; a handler starts an agent process and a
broker for it, and waits; the agent talks to the broker over a socket, every
connection in a goroutine of its own; claims, branches, reviews and CI live on
GitHub, where other loops, people and main change them at any time.

Hard behaviours: the claim protocol has no compare-and-swap; the broker's
handlers outlive the agent that called them; the agent can edit and commit at
any moment; the event log is written by several writers and read all or
nothing; a run is resumed from GitHub alone; loops crash and restart.

## Modules

`ReviewLoop` - the abstract promise of a run: the change is touched, approved,
sent back at most `Budget` times, and the run finishes once, with "success"
only when the change is approved.

`RunMachine` - one `golemic run`.  An action is one iteration of `Machine.Run`:
the handler's effect on the `RunContext` (`rc`), the event, and the row of the
table that is then taken (`Dispatch`, with a `STATE_ERROR` when no row or more
than one matches).  The table is data (`LoopTransitions`, guards by name in
`GuardHolds`), as in `loopdef.go`.  What git, GitHub and the agents answer is
nondeterministic.  `logOK` says whether the event log can be read: any append
may tear it, and from then on `CountReviews` is 0 and the PR number is unknown.
History variables: `unreviewed` (the PR changed since it was last approved),
`devRuns` and `reworks`.

`IssueClaim` - Claim and Release of any number of clients, one action per gh
call.  A `gh issue edit` is one step and a view is current: GitHub is external
and modelled from how `claim.go` uses it.  Calls may fail before or after they
take effect (`Interrupted`, `EditInterrupted`), which also stands for a crash.

`RunLoop` - the ticks of several loops, each on a host and with a login of its
own, over the same claim actions.  A run is what the loops can see of it: it reads
the issue (`RunStarts`), checks for collisions with worktree and branch of its
host, a branch on origin and an open PR (`RunPrepares`), pushes and opens its PR
(`RunOpensPR`), and ends (`RunEnds`): a success has merged, or left its PR to a
human because of low confidence; a failure may have merged too, when the answer
was lost.  The merge and the deletion of the branch are one step.  `main.go`
starts the run as a plain child, without a process group or a parent-death
signal, so a loop that is killed (`LoopCrash`) may take its run along or not
(`RunIsLeft`): `survivors` are the runs that push and merge on beside whatever
claims the issue later.  Of one host, one run at a time outlives its loop on an
issue; this bounds `survivors`, not what they do.

`DevInvocation` - one broker and one agent invocation.  An action is a critical
section of a handler (`Reserve`, `GateReadsCheck`, `SetDevDone`, ...), a command
on the working tree (`CheckVerify`, `CheckFingerprint`, `Edit`, `AgentCommits`)
or a read of the broker by the runner.  Trees are model values; a fingerprint
is the difference from HEAD, as `Compute` builds it.  Several agent processes
(retries after a stall, model fallbacks) share one broker in the code and are
one agent here.  The check for another terminal tool is left out: the roles'
tool lists are disjoint.  The agent may commit but not push.  `excuse` records
what deceived the fingerprints, if anything did.

`ReviewInvocation` - one round of the reviewer: up to `MaxReviewerAttempts`
attempts, each with a broker of its own (the variables indexed by attempt), and
the reviews of the PR.  A comment call is a chain of steps (`Ensure`,
`Discover`, `Create`, `Store`, `Add`), because the broker looks for the pending
review, makes it and remembers it without holding its lock; a handler keeps
serving its own broker when its attempt is over.  GitHub is external and
modelled from how the code uses it: at most one pending review of an account
per PR, comments only on a pending one; every call may fail, the writing ones
also after their effect.  The reviewer cannot write and its checkout has a
detached HEAD, so a fingerprint is the content of the tree; `Drift` is what
changes it all the same.  A round starts with no call of an earlier round still
in flight.  `RunnerCaptures` reads the broker in one step: the code reads the
verdict first and the pending review last, and the latter does not matter when
there was no verdict yet.  Which commit the round is about, and the
`review_submitted` event beyond its failure, are left to `IssueDelivery` and
`RunMachine`.

`CIChecks` - how the check runs of a commit become green, red or pending:
operators only, used by `IssueDelivery`.  No check at all is pending
(`ciwait.go:144,235`); `docs/architecture.md:373` still has it pass at once.  `ReallyPassed` says independently
what branch protection means by a passed commit.

`IssueDelivery` - one pull request, from the first push to the merge, over
several runs.  It is the other half of `RunMachine`: the same steps, with the
state outside the run that the handlers read and write.  A commit is a pair: a
*change* on a version (*base*) of main.  A clean rebase moves the base; what an
agent or a person writes is a new change.  GitHub has main, the branch (the
head of the PR), the last review and the confidence label; the host has the
worktree and the two refs a fetch moves, origin/main and origin/<branch>, which
`--force-with-lease` compares with.  A run is a place (`phase`, `pc`): fetch,
rebase, resolve, push, poll and gate are shared by SYNC_CI, MERGE_PR and the
out-of-date retries, as the functions of `merge.go` are.  Between any two
commands main may move, somebody may push to the branch, CI may answer
differently, and the run may die; `Resume` then rebuilds a run from GitHub and
from whatever the worktree holds.  The reviewer's and the dev agent's turns are
one step each (`ReviewInvocation` and `DevInvocation` have their insides);
medium confidence gates as high does and is left out.  `excuses` records the
situations in which the code itself cannot tell what it merges; `passed`,
`approved`, `resolved` and `foreign` are histories.

`AgentRun` - `agent.RunRole`: the chain of models, the attempts after a hang,
the select of `waitForProcess` as one action per case, the kill of the process
group, and what the transcript says afterwards.  The process is the
environment: it may run a tool for ever, write without getting anywhere, leave
children that hold its pipes or do not, and exit.  The idle timeout is counted
in polls.

`CbmBroker` - the proxy between the agents' code queries and one MCP child.
The broker's own handshake is a caller like the clients (`Boot`).  A write is a
step that waits for room in the pipe; a connection that was accepted may be read
after `Shutdown`; the child reads, answers in any order,
falls silent, or dies.  Assumed of the child: it answers only ids it was sent.

Modules ending in `Proofs` extend the module they are about; modules beginning
with `MC` give TLC its instances.  Definitions named `...Bug`, or commented
"Mutant", are what a plausible mistake would make of the definition next to
them; they are used to see that the properties notice.

## Runs

| run | what it asks | bounds |
|---|---|---|
| `machine` | one row applies to every event; dev attempts, review rounds and rework are bounded, resumed or not, with a log torn at any point; escalation only when a budget is used up; success is reviewed; the run implements `ReviewLoop` and ends | 3 rounds, 2 merge re-reviews, 4 merge conflicts (more than both budgets), up to 4 earlier reviews on the PR |
| `machine_rereview` | *violated*: the merge re-review budget caps the reviewer turns | 2 rounds, 3 conflicts |
| `claim_lock` | exclusion, ownership and no lost issue, with failing calls and crashes | 4 clients, two of them with the same bot account, 1 issue (clients only meet on one issue) |
| `claim_rollback` | *violated*: a lost race takes back only its own edits | 2 clients |
| `loops` | every merge of an issue beyond the first is owed to a run that outlived its loop; nothing left in progress by a stopped loop; a stop is honoured | 2 loops, 2 issues, one of them blocked; one surviving run per host and issue at a time |
| `loop_failed` | *violated*: a failed run hands its issue to a human | 1 loop |
| `dev_calls` | one verdict, an accepted call stands, the terminal is served, what is committed is green | 2 concurrent handlers (two terminal calls, two checks or one of each), a valid and an invalid request, 3 trees of which one is green |
| `review_round` | acknowledged comments are part of the submitted review and leftovers are not, an approval needs a green tree, one verdict per attempt, the terminal is served | 2 attempts (the rejected one and the one after it), 2 concurrent handlers, an approving, a rejecting and an invalid verdict, a new and a leftover comment, 3 reviews (an orphan, the round's, one made too late), a green and a red tree |
| `delivery` | what is merged was approved by a review and seen green by the runner; a decision of the reviewer is about a green commit; low confidence holds the merge back; success means delivered; nothing is pushed after the merge; every run ends | main moves twice, 3 changes (the first, and two of a fix, a rework, a resolution or somebody else), one foreign push, one resume, every budget 2; `verify` and one more check, each absent, running, passed or failed |
| `delivery_resumed` | *violated*: a conflict resolved after the approval is reviewed before the merge | as `delivery`, without foreign pushes |
| `agent` | success only for a clean attempt whose group is dead; after a hang a new process only when the old group is dead, a further model only after a failure of the provider (the old group may then be alive), nothing after the wall clock; the role ends | 2 models, 1 stall retry, idle after 2 polls |
| `cbm` | responses reach their caller, nobody waiting is forgotten, stdinMu has one owner; clients are answered when the child reads or the broker shuts down | 2 clients and the handshake, a pipe of 1 request |

Deadlock is checked where the system never stops (`claim_*`, `loops`,
`loop_failed`); a run, a delivery, a dev invocation, a reviewer's round, a role
and a broker end.

Why the bounds are enough to be interesting: in `machine` both budgets can be
exhausted, a resume can find more reviews than the limit, and the log can tear
before or after any of them; in `claim_lock` three clients are needed for a
rollback to reopen an issue to a third one, and the fourth shares a login; in
`loops` two hosts are enough for a run that survives on one of them to meet the
run of the other, and the bound of `ExtraMergesAreSurvivors` is reached; in
`dev_calls` two handlers suffice to interleave any pair of critical sections,
and the properties compare at most two calls.  In `delivery` a budget of 2 is
used once and exhausted once; two moves of main are needed for an out-of-date
rejection after a rebase; and three changes let a resolution follow a foreign
push, or a rework follow a resolution.  The bounds on main, changes and pushes
are on the environment and on agents, so the last change is followed by runs
that write nothing more.  In `agent` the second model and the second attempt
are the ones a first one is replaced by.  In `cbm` the unread notification of
the handshake fills the pipe, so one client can be stuck in a write and the
other behind it.

Fairness: `machine` assumes that handlers return (`WF(Next)`): agents run under
a wall-clock and an idle timeout, CI polling under `ci_timeout_minutes`.  The
bound on merge conflicts is then what `RunTerminates` needs, and `machine_rereview`
shows that the code has no bound of its own.  `loops` assumes
that each loop's own steps go on (`WF(LoopStep)`): gh calls return, the ticker
fires, SIGTERM is forwarded to the run; stops, faults, crashes and restarts
have no fairness.  `delivery` assumes that commands and agents return
(`WF(RunnerStep)`) and that the deadline of a poll fires (`WF(CIDeadline)`),
and nothing of CI, of main or of who resumes a run.  `agent` assumes that the
supervisor goes on and that the wall clock runs (`WF(Supervisor)`,
`WF(WallClock)`), and nothing of the process.  `cbm` assumes that each
goroutine of the broker goes on and that SIGKILL kills; that the child reads,
or that somebody calls `Shutdown`, is a premise of `ClientsAnswered`.

## What the checks found

The runs named *violated* are disagreements between the code and what the
repository says of it; `PROJECT.json` quotes both.

* A failed run is released as `abandoned` and offered again at once: the loop
  reads its own event log, the run writes another (`loop_failed`).
* A client that lost the claim race reopens the winner's issue
  (`claim_rollback`).  `MutualExclusion` still holds between clients that have
  a bot account each, because the next claimer sees the winner as a second
  assignee.  With one account for several hosts there is no exclusion at all.
* A merge re-review that approves is counted but not capped (`machine_rereview`).
* An approval survives a change of the branch when the run does: a conflict is
  resolved in MERGE_PR and pushed, the run dies (or the push's answer is lost,
  or the re-review fails), and `--resume` finds the PR approved and merges the
  resolution that nobody reviewed (`delivery_resumed`).

The models name further situations in which the code cannot know what it does;
the properties except them explicitly (`survived`, `faulty`, `excuse`,
`excuses`) instead of leaving them out:

* A run that outlives its loop can bring an issue a second merge, although
  every host has an account of its own.  A rollback reopens the issue that a
  loop holds; the loop is killed and its run works on; restarted, it claims the
  issue again, collides with the worktree of that run and releases the issue as
  abandoned; a loop on another host claims it, and PREPARE finds neither a
  branch nor a PR yet.  The first run merges, the second one pushes a new
  branch and merges too.  `ExtraMergesAreSurvivors` counts such runs: the bound
  is reached, and nothing else in the model adds a merge.
* An issue whose claim took effect and whose verification failed keeps its
  label and has no owner.  Nothing repairs it, so `NoLostIssue` and
  `StoppedLoopHoldsNothing` have the premise that no call has failed.
* An edit made while the verify command runs is certified by the fingerprint
  that is taken after it ("edit_in_check").

* A commit by the agent hides changes from the gate of gm_dev_done (the
  fingerprint is the difference from HEAD), and in a retry it leaves the runner
  nothing to push, which is reported as done.  The reviewer then sees the old
  commit ("diverged"), and the rebase of the merge phase pushes the new one.
* A fingerprint that cannot be computed counts as unchanged ("fingerprint_error").
* A resumed approval is taken for the head whatever was pushed since ("stale
  approval"), and its confidence from a label that may be an older review's or
  missing ("stale label"), so that an approval with low confidence can merge.
* `--force-with-lease` protects a foreign commit only until the next fetch in
  the clone; after that the push overwrites it.
* A process that exits normally leaves its silent children alive: only the
  terminal call, a timeout and a stall kill the group.  A fallback to the next
  model follows a failed kill as well.
* A write to the MCP child has no deadline; the 60 seconds of a request begin
  after it.

## Proofs

TLAPS proves, for every value of the constants under the stated assumptions:

* `RunMachineProofs` - for all `MaxRounds` and `MaxMergeReReviewRounds` in
  Nat \ {0} (`RoundsAssumption`: `config.Load` refuses a limit below one).  The
  inductive invariant `IInv` adds to the types what ties the context to the
  histories: in which steps the round counter is below its limit, that
  `devRuns` follows `devAttempt`, that the count of reviews bounds `reworks`
  while the log is readable, and that the steps after an approval have an
  approved change.  Without it a guard's disjointness cannot be shown: the
  table is total only over the contexts handlers leave behind.  From it follow
  `DispatchIsTotal`, `DevAttempts`, `ReworkBudgetHolds`, `EscalationJustified`,
  `SuccessReviewed`, and `RunRefinesReviewLoop`, the step simulation of
  `ReviewLoop`.
* `IssueClaimProofs` - for any clients, issues and logins (`LoginAssumption`).
  `EngagedIsAssigned` (a client that has edited and not taken back is an
  assignee) carries the exclusion: a claim is verified only when its login is
  the sole assignee.  `InProgressIsOwned` carries `NoIssueIsLost`.
* `DevInvocationProofs` - for any handlers, requests and trees
  (`DevAssumption`).  `TerminalInv`: the terminal goes free, pending, final,
  one handler serves it, every verdict is the stored answer.  `RunnerInv`: what
  the runner has seen stays true because nobody is told anything after the
  agent has ended.  `GreenInv`: as long as nothing is committed and nothing has
  deceived the fingerprints, every green result anywhere belongs to a green
  tree; `FingerprintSeparates` gives the last step.

* `AgentRunProofs` - for every chain, number of retries and idle timeout
  (`AgentAssumption`).  The inductive invariant `AgentIInv` adds to the types
  what the supervisor knows at each place: it kills only for one of the four
  reasons (`KillHasReason`), an attempt without a failure has ended its process
  (`NoErrorIsEnded`), a timeout is not forgotten before it is reported
  (`TimeoutIsKept`), a good outcome has no error (`OkHasNoError`) and the result
  is set by the return alone (`ResultIsLast`).  `AgentSuccessIsClean` and
  `AgentRelaunch` follow from it.
* `CbmBrokerProofs` - for any clients and any capacity of the pipe
  (`CbmAssumption`).  The invariant follows a request around: ids are given
  once, and whatever carries one (the table, both pipes, the child) carries the
  caller it was given to; a caller between its registration and its answer has
  an entry or a filled channel.

* `RunLoopProofs` - for any number of loops and any issues
  (`IssueAssumption`), on top of `IssueClaimProofs`.  Every step of a loop is a
  step of Claim or Release, an idle loop's choice of its next issue, or leaves
  the lock alone (`LoopsKeepToTheLock`), so the lock's invariant carries over.
  `LoopIInv` adds how far a tick and its claim are together (`Synced`), that a
  run is waited for only in a running tick (`WorkersRun`), and the account of
  the merges (`MergesCounted`): an issue that is open has not been merged, and
  what has been merged and what the survivors may still merge is covered by the
  one merge of an issue and the runs that outlived their loops; on a closed
  issue the run that a loop waits for has to be covered as well.  `OneRun` is
  where the lock is needed: two runs on one issue that are waited for would be
  two holders.  The account, and with it `MergesAreAccountedFor`, has the
  premise `OwnLogins`, a bot account for each loop; with a shared account the
  code gives no such promise.  The types, `LoopsExclude` and
  `StoppedHoldsNothing` need no premise.
* `ReviewInvocationProofs` - for every number of attempts, concurrent calls,
  comments and reviews (`ReviewAssumption`; a leftover comment is a comment).
  `TerminalInv`: a call on its way to the answer has the slot of its own
  broker, alone, and what the broker holds is what the call has done so far.
  `RunnerInv`: an attempt's broker is untouched until its agent runs, only the
  last attempt can have accepted a verdict, and what the runner captured stays
  that verdict; for the approval, the tree the agent was started on is green
  (`PrecheckIsGreen`).  `ThreadInv`: at most one review is pending, it holds no
  leftover after the sweep, and until something is submitted it holds every
  acknowledged comment.  The handlers of an attempt that is over keep running
  in all of these, which is why they speak of every handler and every attempt
  and not of the current one.  `NoCommentIsLost`, `ApprovalIsOfGreen`,
  `VerdictStands` and `TerminalIsServed` follow.
* `IssueDeliveryProofs` - for all limits, checks, moves of main, changes,
  foreign pushes and resumes (`DeliveryAssumption`, `RequiredCheckAssumption`).
  `MergedWasApproved` says nothing about a run that has not merged yet;
  `DeliveryIInv` follows what could still reach the head: the decision on
  GitHub is on an approved change (`DecisionIsKept`); while a review is
  decided, head and worktree hold its change (`UnderReview`); while a run
  merges, both are vouched for or excused, except between a resolution and its
  push, where the run goes back to the review (`UnderMerge`).  `GreenIsPassed`
  does the same for CI, `ConfidenceIsKept` for the confidence, `MergedIsOver`
  for what is left to do after the merge.  `GreenIsReallyPassed` is the lemma
  about `classifyChecks`.  Besides the properties of the run `delivery` there
  is `ResolvedConflictIsReviewed`: the promise that `delivery_resumed` refutes
  holds in all cases but the two that `excuses` names, a resume that trusts an
  earlier approval and a checkout that differs from the worktree.

Every inductive invariant was checked by TLC on the instance of its component's
run before it was proved.

Only model-checked: liveness (`RunTerminates`, `StopIsHonoured`, `RunEnds`,
`RoleEnds`, `ClientsAnswered`), which needs fairness and ENABLED.  The proofs
cover every other property of the passing runs.  The violated properties are of
course not proved.

## Not modelled

Configuration, preflight, health, status, progress, prompts, telemetry and the
command line: they render text, display progress or parse files, and nothing
above depends on their state.  Of the modelled components: the file format of
the event log (its readers see all of it or nothing), the creation of
worktrees and the single collision checks (commands with no state between
them), set-up and clean-up around a run, and the broker's tools that only read
(`gm_slice_get`, `gm_pr_view`, `gm_repo_tree`, `gm_code_*`, `gm_health`).

## Plan

1. done: `RunMachine`, `ReviewLoop`, proofs; `IssueClaim`, proofs; `RunLoop`;
   `DevInvocation`, proofs; `ReviewInvocation`.
2. done: `CIChecks`, `IssueDelivery`; `AgentRun`, proofs; `CbmBroker`, proofs.
3. done: proofs of `IssueDelivery`, `RunLoop` and `ReviewInvocation`.
4. left: that a delivery keeps the promise of `ReviewLoop` from the point of
   view of one run, and the hazards that no property covers yet.
