------------------------------ MODULE RunLoop -------------------------------
(***************************************************************************)
(* The autonomous polling loop of internal/runloop, several of them on one *)
(* repository: select an issue (internal/selector), claim it, start        *)
(* `golemic run' on it, wait for the run, derive a release reason from an  *)
(* event log and release the issue.  The claim and release steps are those *)
(* of IssueClaim.                                                          *)
(*                                                                         *)
(* The run is a process of its own, and a loop that is killed need not     *)
(* take it along: it may work on, and push, and merge, beside the runs of  *)
(* loops that claim the issue later.  Here a run is what the loops can see *)
(* of it (RunMachine has its insides): PREPARE, the branch and the PR, the *)
(* merge, and an end in success or failure.                                *)
(***************************************************************************)
EXTENDS IssueClaim

CONSTANTS
  Bugs,      (* issues labelled bug *)
  Blocked    (* issues with open issues they track *)

ASSUME IssueAssumption == Issues \subseteq Nat /\ Bugs \subseteq Issues /\ Blocked \subseteq Issues

VARIABLES
  at,        (* where each loop is in its tick *)
  stopping,  (* loops whose context is cancelled (SIGINT, SIGTERM) *)
  open,      (* open issues *)
  branch,    (* per issue, the loop whose run has its branch on origin, if any *)
  openPR,    (* issues with an open PR that closes them *)
  leftover,  (* per issue, loops whose host keeps worktree and branch of an ended run *)
  works,     (* loops whose run is past PREPARE *)
  survivors, (* per issue, loops that were killed and whose run on it works on *)
  loopLog,   (* events in the log each loop opened for its tick *)
  outcome,   (* how the run of each loop's current tick ended *)
  survived,  (* history: how many runs on each issue have outlived their loop *)
  merges     (* history: how often a change for each issue was merged *)

(* What runs keep on GitHub and on the hosts.                              *)
runVars == <<open, branch, openPR, leftover, works, survivors, survived, merges>>

loopVars == <<at, stopping, loopLog, outcome, runVars>>

runLoopVars == <<claimVars, loopVars>>

Places == {"tick", "claim", "claimed", "start", "prepare", "running", "release", "wait",
           "stopped"}

Move(l, place) == at' = [at EXCEPT ![l] = place]

-----------------------------------------------------------------------------
(* selector.NextIssue.                                                     *)

Takeable ==
  {i \in open : /\ "ready-for-agent" \in labels[i]
                /\ "in-progress" \notin labels[i]
                /\ i \notin Blocked
                /\ i \notin openPR}

(* Bugs first, then the lowest number.                                     *)
Precedes(i, j) == IF (i \in Bugs) # (j \in Bugs) THEN i \in Bugs ELSE i < j

(* One tick begins; it gets a run directory, and so an event log, of its   *)
(* own.  With nothing takeable, or when the query fails, it is over.       *)
SelectIssue(l) ==
  /\ at[l] = "tick"
  /\ \/ /\ \E i \in Takeable :
             /\ \A j \in Takeable \ {i} : Precedes(i, j)
             /\ target' = [target EXCEPT ![l] = i]
        /\ Move(l, "claim")
     \/ /\ Move(l, "wait")
        /\ target' = target
  /\ loopLog' = [loopLog EXCEPT ![l] = {}]
  /\ outcome' = [outcome EXCEPT ![l] = "not_run"]
  /\ UNCHANGED <<labels, assignees, phase, reason, faulty,
                 stopping, runVars>>

-----------------------------------------------------------------------------
(* Loop.claim.                                                             *)

(* Where Loop.claim goes when claim.Claim has made a step.                 *)
AfterClaimStep(l, won) ==
  Move(l, CASE phase'[l] = "holding" -> won
            [] phase'[l] = "idle"    -> "wait"
            [] OTHER                 -> "claim")

LoopClaim(l) ==
  /\ at[l] = "claim"
  /\ \/ ClaimPreRead(l, target[l]) /\ AfterClaimStep(l, "start")
     \/ ClaimEdit(l) /\ AfterClaimStep(l, "claimed")
     \/ ClaimVerify(l) /\ AfterClaimStep(l, "claimed")
     \/ Rollback(l) /\ AfterClaimStep(l, "claimed")
  /\ UNCHANGED <<stopping, runVars, loopLog, outcome>>

(* writeClaimEvent.                                                        *)
WriteClaimEvent(l) ==
  /\ at[l] = "claimed"
  /\ loopLog' = [loopLog EXCEPT ![l] = @ \cup {"issue_claimed"}]
  /\ Move(l, "start")
  /\ UNCHANGED <<claimVars, stopping, runVars, outcome>>

(* The credentials or the first read fail: nothing was claimed yet.        *)
ClaimUnavailable(l) ==
  /\ at[l] = "claim"
  /\ phase[l] = "idle"
  /\ Move(l, "wait")
  /\ UNCHANGED <<claimVars, stopping, runVars, loopLog, outcome>>

-----------------------------------------------------------------------------
(* Loop.runAndRelease.                                                     *)

(* Variants named ...Bug are what a plausible mistake would make of the     *)
(* definition that follows them; the properties must notice each of them.  *)
RunStartsUncheckedBug(l) ==
  /\ at[l] = "start"
  /\ Move(l, "prepare")
  /\ UNCHANGED <<claimVars, stopping, runVars, loopLog, outcome>>

(* `golemic run --issue' starts (without --clean) and reads the issue: one *)
(* that is closed by then is not eligible.                                 *)
RunStarts(l) ==
  /\ at[l] = "start"
  /\ Move(l, IF target[l] \in open THEN "prepare" ELSE "running")
  /\ UNCHANGED <<claimVars, stopping, runVars, loopLog, outcome>>

(* The collision check: a worktree or branch of the host, be it of a run   *)
(* that ended or of one that works on, a branch on origin, an open PR.     *)
Collides(l, i) == l \in leftover[i] \cup survivors[i] \/ branch[i] # {} \/ i \in openPR

(* The rest of PREPARE.  A collision, or a check or the worktree that      *)
(* fails, ends the run before it has made anything.                        *)
RunPrepares(l) ==
  /\ at[l] = "prepare"
  /\ Move(l, "running")
  /\ \/ ~Collides(l, target[l]) /\ works' = works \cup {l}
     \/ works' = works
  /\ UNCHANGED <<claimVars, stopping, open, branch, openPR, leftover, survivors, survived,
                 merges, loopLog, outcome>>

(* The subprocess cannot be started: released as abandoned.                *)
RunStartFails(l) ==
  /\ at[l] = "start"
  /\ Move(l, "release")
  /\ outcome' = [outcome EXCEPT ![l] = "not_run"]
  /\ UNCHANGED <<claimVars, stopping, runVars, loopLog>>

(* A run of l pushes its branch, which origin refuses while another run    *)
(* has one there (the first push is not forced), and opens its PR, which   *)
(* may fail after the push.                                                *)
OpensPR(l, i) ==
  /\ branch[i] \subseteq {l}
  /\ i \notin openPR
  /\ branch' = [branch EXCEPT ![i] = {l}]
  /\ openPR' \in {openPR, openPR \cup {i}}
  /\ UNCHANGED <<open, merges>>

(* It merges its PR; "Closes #n" closes the issue.  The deletion of the    *)
(* branch may fail.                                                        *)
Merges(l, i) ==
  /\ i \in openPR
  /\ branch[i] = {l}
  /\ open' = open \ {i}
  /\ openPR' = openPR \ {i}
  /\ branch' \in {branch, [branch EXCEPT ![i] = {}]}
  /\ merges' = [merges EXCEPT ![i] = @ + 1]

(* A run ends.  One that succeeds has merged, or leaves a PR approved with *)
(* low confidence to a human, and cleans up, which may fail.  One that     *)
(* fails may have merged too, if the answer was lost, and keeps everything.*)
Ends(l, i, result) ==
  /\ \/ Merges(l, i)
     \/ /\ result = "success" => i \in openPR /\ branch[i] = {l}
        /\ UNCHANGED <<open, branch, openPR, merges>>
  /\ \/ leftover' = [leftover EXCEPT ![i] = @ \cup {l}]
     \/ result = "success" /\ leftover' = leftover

RunOpensPR(l) ==
  /\ l \in works
  /\ OpensPR(l, target[l])
  /\ UNCHANGED <<claimVars, at, stopping, leftover, works, survivors, survived, loopLog, outcome>>

(* The loop's Wait returns: the run has ended, of itself or because SIGTERM*)
(* was forwarded to it.  One that PREPARE stopped has nothing to keep.     *)
RunEnds(l) ==
  /\ at[l] = "running"
  /\ Move(l, "release")
  /\ \E result \in {"success", "failure"} :
       /\ outcome' = [outcome EXCEPT ![l] = result]
       /\ IF l \in works THEN Ends(l, target[l], result)
          ELSE result = "failure" /\ UNCHANGED <<open, branch, openPR, leftover, merges>>
  /\ works' = works \ {l}
  /\ UNCHANGED <<claimVars, stopping, survivors, survived, loopLog>>

(* The same of a run that has outlived its loop; nobody waits for it.      *)
SurvivorOpensPR(l) ==
  \E i \in Issues :
    /\ l \in survivors[i]
    /\ OpensPR(l, i)
    /\ UNCHANGED <<claimVars, at, stopping, leftover, works, survivors, survived, loopLog, outcome>>

SurvivorEnds(l) ==
  \E i \in Issues, result \in {"success", "failure"} :
    /\ l \in survivors[i]
    /\ Ends(l, i, result)
    /\ survivors' = [survivors EXCEPT ![i] = @ \ {l}]
    /\ UNCHANGED <<claimVars, at, stopping, works, survived, loopLog, outcome>>

DeriveReasonBug(l) == IF outcome[l] = "not_run" THEN "abandoned" ELSE "aborted"

(* deriveReason: the last run_finished event of the tick's log decides.    *)
(* The run writes its events to a log of its own (runner.initRun).         *)
DeriveReason(l) ==
  IF outcome[l] = "not_run" \/ "run_finished" \notin loopLog[l] THEN "abandoned"
  ELSE IF outcome[l] = "success" THEN "done" ELSE "failed"

AfterProcessedBug(l) == "tick"

(* tick returned true: check the context, then tick again at once.         *)
AfterProcessed(l) == IF l \in stopping THEN "stopped" ELSE "tick"

LoopRelease(l) ==
  /\ at[l] = "release"
  /\ ReleasePreRead(l, DeriveReason(l)) \/ ReleaseEdit(l)
  /\ Move(l, IF phase'[l] = "idle" THEN AfterProcessed(l) ELSE "release")
  /\ UNCHANGED <<stopping, runVars, loopLog, outcome>>

-----------------------------------------------------------------------------
(* The ticker, signals, faults.                                            *)

(* time.After fired, or ctx.Done.                                          *)
WaitEnds(l) ==
  /\ at[l] = "wait"
  /\ Move(l, AfterProcessed(l))
  /\ UNCHANGED <<claimVars, stopping, runVars, loopLog, outcome>>

StopRequested(l) ==
  /\ at[l] # "stopped"
  /\ stopping' = stopping \cup {l}
  /\ UNCHANGED <<claimVars, at, runVars, loopLog, outcome>>

(* A gh call or an event write fails.  A claim that fails ends the tick    *)
(* without a release; a release that fails is not tried again.             *)
LoopFault(l) ==
  /\ \/ at[l] \in {"claim", "claimed"} /\ Move(l, "wait")
     \/ at[l] = "release" /\ Move(l, AfterProcessed(l))
  /\ Interrupted(l) \/ EditInterrupted(l)
  /\ UNCHANGED <<stopping, runVars, loopLog, outcome>>

(* What can become of a run when its loop is killed: it dies too, and keeps*)
(* what it has made, or it works on.  A run that is still in PREPARE may   *)
(* pass its checks later, unless its own host already has the issue's.     *)
(* Bound: of one host, one run at a time outlives its loop on an issue.    *)
RunIsLeft(l, i) ==
  \/ /\ l \in works \/ (at[l] = "prepare" /\ l \notin leftover[i] /\ branch[i] # {l})
     /\ l \notin survivors[i]
     /\ survivors' = [survivors EXCEPT ![i] = @ \cup {l}]
     /\ survived' = [survived EXCEPT ![i] = @ + 1]
     /\ leftover' = leftover
  \/ /\ leftover' = IF l \in works THEN [leftover EXCEPT ![i] = @ \cup {l}] ELSE leftover
     /\ UNCHANGED <<survivors, survived>>

(* The loop is killed.  Its run is not in a process group that dies with   *)
(* it (main.go starts it as a plain child).                                *)
LoopCrash(l) ==
  /\ at[l] # "stopped"
  /\ Move(l, "stopped")
  /\ IF phase[l] = "idle" THEN UNCHANGED claimVars ELSE Interrupted(l) \/ EditInterrupted(l)
  /\ RunIsLeft(l, target[l])
  /\ works' = works \ {l}
  /\ UNCHANGED <<stopping, open, branch, openPR, merges, loopLog, outcome>>

(* The operator starts the loop again.                                     *)
LoopRestart(l) ==
  /\ at[l] = "stopped"
  /\ Move(l, "tick")
  /\ stopping' = stopping \ {l}
  /\ UNCHANGED <<claimVars, runVars, loopLog, outcome>>

-----------------------------------------------------------------------------
LoopInit ==
  /\ ClaimInit
  /\ at = [l \in Clients |-> "tick"]
  /\ stopping = {}
  /\ open = Issues
  /\ branch = [i \in Issues |-> {}]
  /\ openPR = {}
  /\ leftover = [i \in Issues |-> {}]
  /\ works = {}
  /\ survivors = [i \in Issues |-> {}]
  /\ survived = [i \in Issues |-> 0]
  /\ loopLog = [l \in Clients |-> {}]
  /\ outcome = [l \in Clients |-> "not_run"]
  /\ merges = [i \in Issues |-> 0]

(* What the loop and its run do of themselves.                             *)
LoopStep(l) ==
  \/ SelectIssue(l)
  \/ LoopClaim(l)
  \/ WriteClaimEvent(l)
  \/ ClaimUnavailable(l)
  \/ RunStarts(l)
  \/ RunStartFails(l)
  \/ RunPrepares(l)
  \/ RunOpensPR(l)
  \/ RunEnds(l)
  \/ LoopRelease(l)
  \/ WaitEnds(l)

LoopNext ==
  \E l \in Clients :
    \/ LoopStep(l)
    \/ StopRequested(l)
    \/ LoopFault(l)
    \/ LoopCrash(l)
    \/ LoopRestart(l)
    \/ SurvivorOpensPR(l)
    \/ SurvivorEnds(l)

LoopSpec == LoopInit /\ [][LoopNext]_runLoopVars

(* Runs end (their agents are under timeouts, and SIGTERM is forwarded),   *)
(* gh calls return, the ticker fires; restarts are the operator's choice,   *)
(* and nothing is assumed of a run that nobody waits for.                  *)
LoopFairSpec == LoopSpec /\ \A l \in Clients : WF_runLoopVars(LoopStep(l))

-----------------------------------------------------------------------------
(* Properties.                                                             *)

(* The types of the variables.                                             *)
LoopTypeOK ==
  /\ ClaimTypeOK
  /\ at \in [Clients -> Places]
  /\ stopping \subseteq Clients
  /\ open \subseteq Issues
  /\ branch \in [Issues -> SUBSET Clients]
  /\ openPR \subseteq Issues
  /\ leftover \in [Issues -> SUBSET Clients]
  /\ works \subseteq Clients
  /\ loopLog \in [Clients -> SUBSET {"issue_claimed"}]
  /\ outcome \in [Clients -> {"not_run", "success", "failure"}]
  /\ survivors \in [Issues -> SUBSET Clients]
  /\ survived \in [Issues -> Nat]
  /\ merges \in [Issues -> Nat]

(* An issue is merged once, although a selection may be stale, claims race,*)
(* and loops crash and restart at any point; only a run that outlives its  *)
(* loop works outside the lock, and each such run adds at most one merge.  *)
ExtraMergesAreSurvivors == \A i \in Issues : merges[i] <= 1 + survived[i]

(* A loop that is asked to stop leaves no issue behind: without faults,    *)
(* every issue in progress belongs to a loop that is still at work on it.  *)
StoppedLoopHoldsNothing ==
  ~faulty =>
    \A i \in Issues :
      "in-progress" \in labels[i] =>
        \E l \in Clients : target[l] = i /\ at[l] \notin {"tick", "wait", "stopped"}

(* A loop that is asked to stop stops, even if every tick finds an issue.  *)
StopIsHonoured == \A l \in Clients : l \in stopping ~> (at[l] = "stopped")

(* claim.go (DT-001) and deriveReason: an issue whose run failed is handed *)
(* to a human with its release.  (Not what the code does.)                 *)
FailedRunNeedsHuman ==
  [][\A l \in Clients :
       LoopRelease(l) /\ phase[l] = "release_edit" /\ outcome[l] = "failure" =>
         "needs-human" \in labels'[target[l]]]_runLoopVars

=============================================================================
