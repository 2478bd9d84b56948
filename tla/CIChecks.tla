------------------------------- MODULE CIChecks -------------------------------
(***************************************************************************)
(* How the runner reads the check runs of a commit (runner/ciwait.go): a   *)
(* run of GitHub's API falls into a bucket, and the buckets of all checks  *)
(* make one answer.  A commit is green only when the check that branch     *)
(* protection requires was reported; until then the runner keeps waiting.  *)
(***************************************************************************)
EXTENDS Naturals

CONSTANTS
  CheckNames,     (* the checks CI may report for a commit                  *)
  RequiredCheck   (* branchProtectionRequiredCICheck, "verify"              *)

ASSUME RequiredCheckAssumption == RequiredCheck \in CheckNames

(* Conclusions of the API; "stale" stands for those the code does not know. *)
Conclusions == {"success", "neutral", "skipped", "failure", "cancelled",
                "timed_out", "action_required", "stale"}

(* A check is not reported yet, not completed, or completed.               *)
CheckStates == {"absent", "running"} \cup Conclusions

checkRunBucket(state) ==
  CASE state \in {"success", "neutral", "skipped"}                          -> "pass"
    [] state \in {"failure", "cancelled", "timed_out", "action_required"}   -> "fail"
    [] OTHER                                                                -> "pending"

Reported(checks) == {c \in CheckNames : checks[c] # "absent"}

InBucket(checks, bucket) == {c \in Reported(checks) : checkRunBucket(checks[c]) = bucket}

(* Mutant: every check that was reported has passed, whichever they are.   *)
ClassifyAnyBug(checks) ==
  CASE InBucket(checks, "fail") # {}     -> "red"
    [] InBucket(checks, "pending") # {}  -> "pending"
    [] Reported(checks) = {}             -> "pending"
    [] OTHER                             -> "green"

classifyChecks(checks) ==
  CASE InBucket(checks, "fail") # {}            -> "red"
    [] \/ InBucket(checks, "pending") # {}
       \/ RequiredCheck \notin Reported(checks) -> "pending"
    [] OTHER                                    -> "green"

(* What branch protection means by a passed commit: the required check     *)
(* succeeded and no other one failed.                                      *)
ReallyPassed(checks) ==
  /\ checks[RequiredCheck] \in {"success", "neutral", "skipped"}
  /\ \A c \in CheckNames :
       checks[c] \notin {"failure", "cancelled", "timed_out", "action_required"}

=============================================================================
