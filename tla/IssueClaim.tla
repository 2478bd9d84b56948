----------------------------- MODULE IssueClaim -----------------------------
(***************************************************************************)
(* The lock that internal/claim keeps on a GitHub issue: the labels        *)
(* ready-for-agent and in-progress, and the assignee.  Claim is a read, an *)
(* edit and a second read that decides whether the edit won; Release is a  *)
(* read and an edit.  Every gh call is one step, so the calls of several   *)
(* clients interleave freely.                                              *)
(*                                                                         *)
(* GitHub itself is external: one `gh issue edit' changes labels and       *)
(* assignees in one step, and a view returns the current state.            *)
(***************************************************************************)
EXTENDS Naturals, FiniteSets

CONSTANTS
  Clients,   (* processes that call Claim and Release *)
  Issues,
  Logins,    (* GitHub logins *)
  Login      (* the dev-bot login each client's token resolves to *)

ASSUME LoginAssumption == Login \in [Clients -> Logins]

(* The reasons Release knows (DT-001).                                     *)
Reasons == {"done", "failed", "abandoned"}

VARIABLES
  labels,     (* labels of each issue *)
  assignees,  (* logins each issue is assigned to *)
  phase,      (* how far each client is in Claim or Release *)
  target,     (* the issue it works on *)
  reason,     (* the release reason it was called with *)
  faulty      (* history: a call failed or a client died *)

claimVars == <<labels, assignees, phase, target, reason, faulty>>

Labels == {"ready-for-agent", "in-progress", "needs-human"}

Phases == {"idle", "claim_edit", "claim_verify", "rollback", "holding", "release_edit"}

-----------------------------------------------------------------------------
(* What a view shows.                                                      *)

(* Variants named ...Bug are what a plausible mistake would make of the     *)
(* definition that follows them; the properties must notice each of them.  *)
IsClaimedByBug(c, i) ==
  /\ "in-progress" \in labels[i]
  /\ "ready-for-agent" \notin labels[i]
  /\ Login[c] \in assignees[i]

IsClaimedBy(c, i) ==
  /\ "in-progress" \in labels[i]
  /\ "ready-for-agent" \notin labels[i]
  /\ assignees[i] = {Login[c]}

(* The three edits.                                                        *)
Relabel(i, add, remove) ==
  labels' = [labels EXCEPT ![i] = (@ \ remove) \cup add]

PutClaim(c) ==
  /\ Relabel(target[c], {"in-progress"}, {"ready-for-agent"})
  /\ assignees' = [assignees EXCEPT ![target[c]] = @ \cup {Login[c]}]

UndoClaimLabelBug(c) ==
  /\ Relabel(target[c], {"ready-for-agent"}, {})
  /\ assignees' = [assignees EXCEPT ![target[c]] = @ \ {Login[c]}]

UndoClaim(c) ==
  /\ Relabel(target[c], {"ready-for-agent"}, {"in-progress"})
  /\ assignees' = [assignees EXCEPT ![target[c]] = @ \ {Login[c]}]

PutReleaseTypoBug(c) ==
  /\ Relabel(target[c],
             CASE reason[c] = "done"      -> {}
               [] reason[c] = "failed"    -> {"needs_human"}
               [] reason[c] = "abandoned" -> {"ready-for-agent"},
             {"in-progress"})
  /\ assignees' = [assignees EXCEPT ![target[c]] = @ \ {Login[c]}]

PutRelease(c) ==
  /\ Relabel(target[c],
             CASE reason[c] = "done"      -> {}
               [] reason[c] = "failed"    -> {"needs-human"}
               [] reason[c] = "abandoned" -> {"ready-for-agent"},
             {"in-progress"})
  /\ assignees' = [assignees EXCEPT ![target[c]] = @ \ {Login[c]}]

Goto(c, p) == phase' = [phase EXCEPT ![c] = p]

-----------------------------------------------------------------------------
(* Claim.                                                                  *)

(* The pre-read: already ours (ResultIdempotent), takeable, or neither     *)
(* (ResultNotTakeable).                                                    *)
ClaimPreRead(c, i) ==
  /\ phase[c] = "idle"
  /\ target' = [target EXCEPT ![c] = i]
  /\ Goto(c, IF IsClaimedBy(c, i) THEN "holding"
             ELSE IF "ready-for-agent" \in labels[i] THEN "claim_edit" ELSE "idle")
  /\ UNCHANGED <<labels, assignees, reason, faulty>>

ClaimEdit(c) ==
  /\ phase[c] = "claim_edit"
  /\ PutClaim(c)
  /\ Goto(c, "claim_verify")
  /\ UNCHANGED <<target, reason, faulty>>

(* The post-read: ResultOK, or the race is lost.                           *)
ClaimVerify(c) ==
  /\ phase[c] = "claim_verify"
  /\ Goto(c, IF IsClaimedBy(c, target[c]) THEN "holding" ELSE "rollback")
  /\ UNCHANGED <<labels, assignees, target, reason, faulty>>

(* ResultRaceLost.                                                         *)
Rollback(c) ==
  /\ phase[c] = "rollback"
  /\ UndoClaim(c)
  /\ Goto(c, "idle")
  /\ UNCHANGED <<target, reason, faulty>>

-----------------------------------------------------------------------------
(* Release.                                                                *)

(* The pre-read: nothing in progress (idempotent), somebody else's claim   *)
(* (ReleaseResultForeignClaim), or the edit is due.                        *)
ReleasePreRead(c, r) ==
  /\ phase[c] = "holding"
  /\ reason' = [reason EXCEPT ![c] = r]
  /\ \/ "in-progress" \notin labels[target[c]] /\ Goto(c, "idle")
     \/ /\ "in-progress" \in labels[target[c]]
        /\ Login[c] \notin assignees[target[c]]
        /\ Goto(c, "idle")
     \/ /\ "in-progress" \in labels[target[c]]
        /\ Login[c] \in assignees[target[c]]
        /\ Goto(c, "release_edit")
  /\ UNCHANGED <<labels, assignees, target, faulty>>

ReleaseEdit(c) ==
  /\ phase[c] = "release_edit"
  /\ PutRelease(c)
  /\ Goto(c, "idle")
  /\ UNCHANGED <<target, reason, faulty>>

-----------------------------------------------------------------------------
(* Faults.  Neither Claim nor Release retries or undoes anything after an  *)
(* error, and nothing is remembered across a crash.                        *)

(* A gh call fails without effect, the issue_claimed event cannot be       *)
(* written, or the client dies.                                            *)
Interrupted(c) ==
  /\ phase[c] # "idle"
  /\ Goto(c, "idle")
  /\ faulty' = TRUE
  /\ UNCHANGED <<labels, assignees, target, reason>>

(* An edit takes effect but the client sees an error, or dies.             *)
EditInterrupted(c) ==
  /\ \/ phase[c] = "claim_edit"   /\ PutClaim(c)
     \/ phase[c] = "rollback"     /\ UndoClaim(c)
     \/ phase[c] = "release_edit" /\ PutRelease(c)
  /\ Goto(c, "idle")
  /\ faulty' = TRUE
  /\ UNCHANGED <<target, reason>>

-----------------------------------------------------------------------------
(* A human has labelled every issue ready-for-agent.                       *)
ClaimInit ==
  /\ labels = [i \in Issues |-> {"ready-for-agent"}]
  /\ assignees = [i \in Issues |-> {}]
  /\ phase = [c \in Clients |-> "idle"]
  /\ target \in [Clients -> Issues]
  /\ reason = [c \in Clients |-> "abandoned"]
  /\ faulty = FALSE

ClaimNext ==
  \E c \in Clients :
    \/ \E i \in Issues : ClaimPreRead(c, i)
    \/ ClaimEdit(c)
    \/ ClaimVerify(c)
    \/ Rollback(c)
    \/ \E r \in Reasons : ReleasePreRead(c, r)
    \/ ReleaseEdit(c)
    \/ Interrupted(c)
    \/ EditInterrupted(c)

ClaimSpec == ClaimInit /\ [][ClaimNext]_claimVars

-----------------------------------------------------------------------------
(* Properties.                                                             *)

(* The types of the variables.                                             *)
ClaimTypeOK ==
  /\ labels \in [Issues -> SUBSET Labels]
  /\ assignees \in [Issues -> SUBSET Logins]
  /\ phase \in [Clients -> Phases]
  /\ target \in [Clients -> Issues]
  /\ reason \in [Clients -> Reasons]
  /\ faulty \in BOOLEAN

(* Claim has told c that issue i is its own, and c has not released it.    *)
Holds(c, i) == target[c] = i /\ phase[c] \in {"holding", "release_edit"}

(* No other client runs with the login of c.                               *)
HasOwnLogin(c) == \A d \in Clients : Login[d] = Login[c] => d = c

(* The package comment of claim.go calls this a race-safe exclusive lock:  *)
(* no two clients hold one issue, whatever is lost, delayed or crashes, if *)
(* both have a login of their own; what the others do cannot break it.     *)
MutualExclusion ==
  \A c, d \in Clients, i \in Issues :
    HasOwnLogin(c) /\ HasOwnLogin(d) /\ Holds(c, i) /\ Holds(d, i) => c = d

(* An issue is in progress only while somebody works on it: lost races and *)
(* releases never strand it behind the label that hides it from            *)
(* selection, unless a call fails or a client dies.                        *)
NoLostIssue ==
  ~faulty =>
    \A i \in Issues :
      "in-progress" \in labels[i] =>
        \E c \in Clients :
          target[c] = i /\ phase[c] \in {"claim_verify", "rollback", "holding", "release_edit"}

(* claim.go: "Race lost -- roll back own edits."  What a client that lost  *)
(* the race takes back is its own: the issue of the client that won stays  *)
(* in progress and is not offered again.  (Not what the code does.)        *)
RollbackKeepsWinner ==
  \A c \in Clients : phase[c] = "holding" =>
    /\ "in-progress" \in labels[target[c]]
    /\ "ready-for-agent" \notin labels[target[c]]

=============================================================================
