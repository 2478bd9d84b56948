-------------------------- MODULE ReviewInvocation ---------------------------
(***************************************************************************)
(* One round of the reviewer: the attempts the runner makes                *)
(* (internal/runner/step_reviewer.go), the gm broker of each attempt       *)
(* (internal/gmbroker) and the reviews of the PR on GitHub, of which the   *)
(* reviewer's account has at most one pending.                             *)
(*                                                                         *)
(* The agent posts inline comments and submits one verdict; every call is  *)
(* a goroutine of its attempt's broker and may outlive the agent and the   *)
(* attempt.  The runner reads the broker when the agent has ended, starts  *)
(* another attempt if the broker's gate turned the approval down, and      *)
(* otherwise submits the pending review with the verdict.                  *)
(***************************************************************************)
EXTENDS Naturals, FiniteSets

CONSTANTS
  Handlers,            (* goroutines: calls being served at one time        *)
  Requests,            (* gm_review_submit calls: a call id with parameters *)
  Valid,               (* those whose parameters fit the schema             *)
  Approvals,           (* those of them with the verdict "approved"         *)
  Comments,            (* inline comments the agent may post                *)
  Leftover,            (* those an earlier, aborted round has left behind   *)
  MaxReviews,          (* bound: reviews GitHub can number in a round       *)
  Trees,               (* contents of the reviewer's working tree           *)
  Green,               (* contents on which the verify command succeeds     *)
  MaxReviewerAttempts  (* attempts in a round; 3 in the code                *)

ASSUME ReviewAssumption ==
  /\ Requests # {} /\ Approvals \subseteq Valid /\ Valid \subseteq Requests
  /\ Comments # {} /\ Leftover \subseteq Comments /\ MaxReviews \in Nat \ {0}
  /\ Trees # {} /\ Green \subseteq Trees
  /\ MaxReviewerAttempts \in Nat \ {0}

VARIABLES
  wt,           (* content of the reviewer's working tree *)
  base,         (* content it was checked out with *)
  attempt,      (* number of the attempt *)
  agent,        (* "none", "running", "exited" (exit code 0) or "failed" *)
  pc,           (* what each handler is about to do *)
  inv,          (* the attempt whose broker it belongs to *)
  req,          (* the verdict it serves *)
  note,         (* the comment it serves *)
  rid,          (* the review it has found *)
  slot,         (* brokers: the terminal is "free", "pending" or "final" *)
  slotReq,      (* brokers: whose it is *)
  slotAnswer,   (* brokers: its stored answer *)
  reviewSubmit, (* brokers: {} or {the accepted verdict} *)
  gateRejected, (* brokers: the gate rejected the verdict *)
  pendingID,    (* brokers: {} or {the review the comments go to} *)
  precheck,     (* brokers: the fingerprint after the precheck *)
  status,       (* GitHub: "absent", "pending", "submitted" or "deleted" *)
  thread,       (* GitHub: the comments of each review *)
  runner,       (* where the runner is *)
  before,       (* the fingerprint it took before the precheck's verify *)
  verified,     (* that verify command succeeded *)
  state,        (* reviewerInvocationState: {} or {the accepted verdict} *)
  target,       (* {} or {the review to submit} *)
  answers,      (* history: the verdict answers the agent got *)
  acked,        (* history: the comments the agent was told are posted *)
  gateTree,     (* history: content when each attempt's gate looked *)
  drifted       (* history: the tree changed while a precheck ran *)

treeVars   == <<wt, base, drifted>>
callVars   == <<pc, inv, req, note, rid>>
termVars   == <<slot, slotReq, slotAnswer, reviewSubmit, gateRejected>>
githubVars == <<status, thread>>
histVars   == <<answers, acked, gateTree>>
runnerVars == <<attempt, agent, precheck, runner, before, verified, state, target>>

reviewVars == <<treeVars, callVars, termVars, pendingID, githubVars, histVars, runnerVars>>

Attempts == 1..MaxReviewerAttempts
Reviews  == 1..MaxReviews

NoRequest == CHOOSE r \in Requests : TRUE
NoComment == CHOOSE c \in Comments : TRUE
NoReview  == 1

SubmitPhases  == {"reserved", "gate", "passed", "accepted", "rejected"}
CommentPhases == {"ensure", "discover", "create", "store", "add"}

(* What the runner returns to the machine.                                 *)
Verdicts == {"approved", "changes_requested", "precheck_failed", "review_failed"}

Pending == {r \in Reviews : status[r] = "pending"}

Goto(h, p) == pc' = [pc EXCEPT ![h] = p]

(* The handler is done; its locals are gone.                               *)
Return(h) ==
  /\ Goto(h, "idle")
  /\ inv' = [inv EXCEPT ![h] = 1]
  /\ req' = [req EXCEPT ![h] = NoRequest]
  /\ note' = [note EXCEPT ![h] = NoComment]
  /\ rid' = [rid EXCEPT ![h] = NoReview]

(* The agent of attempt a is there to read an answer.                      *)
Listening(a) == agent = "running" /\ a = attempt

(* Answers that only refuse a call are not kept.                           *)
Reply(a, r, x) ==
  answers' = IF Listening(a) THEN answers \cup {[att |-> a, req |-> r, answer |-> x]}
             ELSE answers

-----------------------------------------------------------------------------
(* Something the verify command left running, or a person, changes the     *)
(* tree; the reviewer's own tools only read it.                            *)
Drift ==
  /\ runner \notin Verdicts
  /\ wt' \in Trees \ {wt}
  /\ drifted' = (drifted \/ runner \in {"verify", "fingerprint"})
  /\ UNCHANGED <<base, callVars, termVars, pendingID, githubVars, histVars, runnerVars>>

-----------------------------------------------------------------------------
(* gm_review_submit.                                                       *)

(* reserveReviewSubmitTerminal: replay, refuse (no change), or take the    *)
(* slot.                                                                   *)
Reserve(h, r) ==
  /\ agent = "running"
  /\ pc[h] = "idle"
  /\ \/ /\ slot[attempt] = "final"
        /\ slotReq[attempt] = r
        /\ Reply(attempt, r, slotAnswer[attempt])
        /\ UNCHANGED <<pc, inv, req, slot, slotReq>>
     \/ /\ slot[attempt] = "free"
        /\ slot' = [slot EXCEPT ![attempt] = "pending"]
        /\ slotReq' = [slotReq EXCEPT ![attempt] = r]
        /\ inv' = [inv EXCEPT ![h] = attempt]
        /\ req' = [req EXCEPT ![h] = r]
        /\ Goto(h, "reserved")
        /\ UNCHANGED answers
  /\ UNCHANGED <<note, rid, slotAnswer, reviewSubmit, gateRejected, treeVars, pendingID,
                 githubVars, acked, gateTree, runnerVars>>

(* Mutant: the call fails and keeps the slot.                              *)
ReleaseBug(h) == Return(h) /\ UNCHANGED <<slot, slotReq>>

(* releaseReviewSubmitTerminal: the agent may correct its parameters.      *)
Release(h) ==
  /\ slot' = [slot EXCEPT ![inv[h]] = "free"]
  /\ slotReq' = [slotReq EXCEPT ![inv[h]] = NoRequest]
  /\ Return(h)

(* finalizeReviewSubmitTerminal.                                           *)
Finalize(h, x) ==
  /\ slot' = [slot EXCEPT ![inv[h]] = "final"]
  /\ slotReq' = [slotReq EXCEPT ![inv[h]] = req[h]]
  /\ slotAnswer' = [slotAnswer EXCEPT ![inv[h]] = x]
  /\ Reply(inv[h], req[h], x)
  /\ Return(h)

(* validateReviewSubmitParams; only an approval goes through the gate.     *)
Validate(h) ==
  /\ pc[h] = "reserved"
  /\ \/ req[h] \notin Valid /\ Release(h)
     \/ /\ req[h] \in Valid
        /\ Goto(h, IF req[h] \in Approvals THEN "gate" ELSE "passed")
        /\ UNCHANGED <<inv, req, note, rid, slot, slotReq>>
  /\ UNCHANGED <<slotAnswer, reviewSubmit, gateRejected, treeVars, pendingID,
                 githubVars, histVars, runnerVars>>

(* Mutant: the gate is content with the precheck's own result.             *)
GateBug(h) ==
  /\ pc[h] = "gate"
  /\ gateTree' = [gateTree EXCEPT ![inv[h]] = wt]
  /\ Goto(h, "passed")
  /\ UNCHANGED <<inv, req, note, rid, termVars, treeVars, pendingID, githubVars,
                 answers, acked, runnerVars>>

(* checkReviewerGate: the precheck was ok, or there would be no agent; the *)
(* tree must be as the precheck left it.  git may fail.                    *)
Gate(h) ==
  /\ pc[h] = "gate"
  /\ gateTree' = [gateTree EXCEPT ![inv[h]] = wt]
  /\ \/ /\ wt = precheck[inv[h]]
        /\ Goto(h, "passed")
        /\ UNCHANGED gateRejected
     \/ /\ gateRejected' = [gateRejected EXCEPT ![inv[h]] = TRUE]
        /\ Goto(h, "rejected")
  /\ UNCHANGED <<inv, req, note, rid, slot, slotReq, slotAnswer, reviewSubmit, treeVars,
                 pendingID, githubVars, answers, acked, runnerVars>>

SetReviewSubmit(h) ==
  /\ pc[h] = "passed"
  /\ reviewSubmit' = [reviewSubmit EXCEPT ![inv[h]] = {req[h]}]
  /\ Goto(h, "accepted")
  /\ UNCHANGED <<inv, req, note, rid, slot, slotReq, slotAnswer, gateRejected, treeVars,
                 pendingID, githubVars, histVars, runnerVars>>

(* Mutant: a rejected verdict releases the slot like an invalid one.       *)
AnswerSubmitBug(h) ==
  /\ \/ pc[h] = "accepted" /\ Finalize(h, "ACCEPTED")
     \/ /\ pc[h] = "rejected"
        /\ Reply(inv[h], req[h], "REVIEWER_GATE")
        /\ Release(h)
        /\ UNCHANGED slotAnswer
  /\ UNCHANGED <<reviewSubmit, gateRejected, treeVars, pendingID, githubVars, acked,
                 gateTree, runnerVars>>

AnswerSubmit(h) ==
  /\ \/ pc[h] = "accepted" /\ Finalize(h, "ACCEPTED")
     \/ pc[h] = "rejected" /\ Finalize(h, "REVIEWER_GATE")
  /\ UNCHANGED <<reviewSubmit, gateRejected, treeVars, pendingID, githubVars, acked,
                 gateTree, runnerVars>>

-----------------------------------------------------------------------------
(* gm_review_submit_comment.                                               *)

(* rejectReviewSubmitCommentAfterTerminal.                                 *)
Comment(h, c) ==
  /\ agent = "running"
  /\ pc[h] = "idle"
  /\ reviewSubmit[attempt] = {}
  /\ inv' = [inv EXCEPT ![h] = attempt]
  /\ note' = [note EXCEPT ![h] = c]
  /\ Goto(h, "ensure")
  /\ UNCHANGED <<req, rid, termVars, treeVars, pendingID, githubVars, histVars, runnerVars>>

(* ensurePendingReview reads the broker's review ...                       *)
Ensure(h) ==
  /\ pc[h] = "ensure"
  /\ \/ \E r \in pendingID[inv[h]] : rid' = [rid EXCEPT ![h] = r] /\ Goto(h, "add")
     \/ pendingID[inv[h]] = {} /\ Goto(h, "discover") /\ UNCHANGED rid
  /\ UNCHANGED <<inv, req, note, termVars, treeVars, pendingID, githubVars, histVars,
                 runnerVars>>

(* ... or asks GitHub for one ...                                          *)
Discover(h) ==
  /\ pc[h] = "discover"
  /\ \/ \E r \in Pending : rid' = [rid EXCEPT ![h] = r] /\ Goto(h, "store")
                           /\ UNCHANGED <<inv, req, note>>
     \/ Pending = {} /\ Goto(h, "create") /\ UNCHANGED <<inv, req, note, rid>>
     \/ Return(h)                                        (* GITHUB_ERROR *)
  /\ UNCHANGED <<termVars, treeVars, pendingID, githubVars, histVars, runnerVars>>

(* GitHub makes the next review, pending, unless there is one.             *)
NewPending(r) ==
  /\ Pending = {}
  /\ status[r] = "absent" /\ \A q \in 1..(r - 1) : status[q] # "absent"
  /\ status' = [status EXCEPT ![r] = "pending"]

(* ... or makes one; the call may fail, before or after its effect.        *)
Create(h) ==
  /\ pc[h] = "create"
  /\ \/ \E r \in Reviews : /\ NewPending(r)
                           /\ \/ /\ rid' = [rid EXCEPT ![h] = r]
                                 /\ Goto(h, "store")
                                 /\ UNCHANGED <<inv, req, note>>
                              \/ Return(h)
     \/ Return(h) /\ UNCHANGED status
  /\ UNCHANGED <<thread, termVars, treeVars, pendingID, histVars, runnerVars>>

Store(h) ==
  /\ pc[h] = "store"
  /\ pendingID' = [pendingID EXCEPT ![inv[h]] = {rid[h]}]
  /\ Goto(h, "add")
  /\ UNCHANGED <<inv, req, note, rid, termVars, treeVars, githubVars, histVars, runnerVars>>

(* addInlineComment: GitHub takes a comment to a pending review, unless    *)
(* its line is not in the diff; the answer may be lost.                    *)
Add(h) ==
  /\ pc[h] = "add"
  /\ \/ /\ status[rid[h]] = "pending"
        /\ thread' = [thread EXCEPT ![rid[h]] = @ \cup {note[h]}]
        /\ acked' \in {acked, IF Listening(inv[h]) THEN acked \cup {note[h]} ELSE acked}
     \/ UNCHANGED <<thread, acked>>         (* ANCHOR_INVALID, GITHUB_ERROR *)
  /\ Return(h)
  /\ UNCHANGED <<status, termVars, treeVars, pendingID, answers, gateTree, runnerVars>>

-----------------------------------------------------------------------------
(* The agent's process ends, at any moment: of itself, killed because its  *)
(* verdict was accepted (exit code 0), by a timeout, a stall, an error.    *)
AgentEnds ==
  /\ agent = "running"
  /\ agent' \in {"exited", "failed"}
  /\ UNCHANGED <<treeVars, callVars, termVars, pendingID, githubVars, histVars, attempt,
                 precheck, runner, before, verified, state, target>>

-----------------------------------------------------------------------------
(* The runner: stepRunReviewer.                                            *)

RunnerGoto(place) == runner' = place

(* sweepPendingReviews, before the first attempt: after that, every        *)
(* attempt follows a gate rejection.  Preparing the round may fail, too.   *)
RunnerSweeps ==
  /\ runner = "sweep"
  /\ \/ /\ status' = [r \in Reviews |-> IF r \in Pending THEN "deleted" ELSE status[r]]
        /\ RunnerGoto("precheck")
     \/ RunnerGoto("review_failed") /\ UNCHANGED status
  /\ UNCHANGED <<treeVars, callVars, termVars, pendingID, thread, histVars, attempt, agent,
                 precheck, before, verified, state, target>>

(* runReviewerPrecheck: a fingerprint, the verify command, a fingerprint.  *)
PrecheckBefore ==
  /\ runner = "precheck"
  /\ before' = wt
  /\ RunnerGoto("verify")
  /\ UNCHANGED <<treeVars, callVars, termVars, pendingID, githubVars, histVars, attempt, agent,
                 precheck, verified, state, target>>

PrecheckVerify ==
  /\ runner = "verify"
  /\ verified' = (wt \in Green)
  /\ RunnerGoto("fingerprint")
  /\ UNCHANGED <<treeVars, callVars, termVars, pendingID, githubVars, histVars, attempt, agent,
                 precheck, before, state, target>>

(* Not ok: a review_submitted event is written in the reviewer's place and *)
(* the round ends.  Ok: the agent starts, with a new broker.  git may fail *)
(* and so may the event.                                                   *)
PrecheckAfter ==
  /\ runner = "fingerprint"
  /\ \/ /\ verified /\ before = wt
        /\ precheck' = [precheck EXCEPT ![attempt] = wt]
        /\ agent' = "running"
        /\ RunnerGoto("agent")
     \/ /\ ~(verified /\ before = wt)
        /\ RunnerGoto("precheck_failed")
        /\ UNCHANGED <<precheck, agent>>
     \/ RunnerGoto("review_failed") /\ UNCHANGED <<precheck, agent>>
  /\ before' = base /\ verified' = FALSE       (* locals *)
  /\ UNCHANGED <<treeVars, callVars, termVars, pendingID, githubVars, histVars, attempt,
                 state, target>>

(* Mutant: one attempt too many.                                           *)
GateRetryOffByOneBug ==
  \/ attempt <= MaxReviewerAttempts /\ attempt' = attempt + 1 /\ RunnerGoto("precheck")
  \/ attempt > MaxReviewerAttempts /\ RunnerGoto("review_failed") /\ UNCHANGED attempt

(* Mutant: every attempt sweeps the pending review away.                   *)
GateRetrySweepsBug ==
  \/ attempt < MaxReviewerAttempts /\ attempt' = attempt + 1 /\ RunnerGoto("sweep")
  \/ attempt = MaxReviewerAttempts /\ RunnerGoto("review_failed") /\ UNCHANGED attempt

(* Another attempt, on the same pending review, or none is left.           *)
GateRetry ==
  \/ attempt < MaxReviewerAttempts /\ attempt' = attempt + 1 /\ RunnerGoto("precheck")
  \/ attempt = MaxReviewerAttempts /\ RunnerGoto("review_failed") /\ UNCHANGED attempt

(* captureReviewerBrokerState, then runReviewerAttemptLoop: a gate         *)
(* rejection counts before the agent's own outcome; then there must be a   *)
(* verdict (checkFreshnessAndSubmit).                                      *)
RunnerCaptures ==
  /\ runner = "agent"
  /\ agent \in {"exited", "failed"}
  /\ agent' = "none"
  /\ \/ /\ gateRejected[attempt]
        /\ GateRetry
        /\ UNCHANGED <<state, target>>
     \/ /\ ~gateRejected[attempt]
        /\ agent = "failed" \/ reviewSubmit[attempt] = {}
        /\ RunnerGoto("review_failed")
        /\ UNCHANGED <<attempt, state, target>>
     \/ /\ ~gateRejected[attempt]
        /\ agent = "exited" /\ reviewSubmit[attempt] # {}
        /\ state' = reviewSubmit[attempt]
        /\ target' = pendingID[attempt]
        /\ RunnerGoto(IF pendingID[attempt] = {} THEN "discover" ELSE "submit")
        /\ UNCHANGED attempt
  /\ UNCHANGED <<treeVars, callVars, termVars, pendingID, githubVars, histVars, precheck,
                 before, verified>>

(* discoverOrCreateReviewerPendingReview.                                  *)
RunnerDiscovers ==
  /\ runner = "discover"
  /\ \/ \E r \in Pending : target' = {r} /\ RunnerGoto("submit")
     \/ Pending = {} /\ RunnerGoto("create") /\ UNCHANGED target
     \/ RunnerGoto("review_failed") /\ UNCHANGED target
  /\ UNCHANGED <<treeVars, callVars, termVars, pendingID, githubVars, histVars, attempt, agent,
                 precheck, before, verified, state>>

RunnerCreates ==
  /\ runner = "create"
  /\ \/ \E r \in Reviews : /\ NewPending(r)
                           /\ \/ target' = {r} /\ RunnerGoto("submit")
                              \/ RunnerGoto("review_failed") /\ UNCHANGED target
     \/ RunnerGoto("review_failed") /\ UNCHANGED <<status, target>>
  /\ UNCHANGED <<treeVars, callVars, termVars, pendingID, thread, histVars, attempt, agent,
                 precheck, before, verified, state>>

(* submitPendingReview, then the review_submitted event; either may fail,  *)
(* the submission also after its effect.                                   *)
RunnerSubmits ==
  /\ runner = "submit"
  /\ \E r \in target :
       \/ /\ status[r] = "pending"
          /\ status' = [status EXCEPT ![r] = "submitted"]
          /\ runner' \in {"dirty", "review_failed"}
       \/ RunnerGoto("review_failed") /\ UNCHANGED status
  /\ UNCHANGED <<treeVars, callVars, termVars, pendingID, thread, histVars, attempt, agent,
                 precheck, before, verified, state, target>>

(* IsDirty, then reviewerVerdictEvent, which may fail to read the log or   *)
(* the findings.                                                           *)
RunnerReports ==
  /\ runner = "dirty"
  /\ \/ /\ wt = base
        /\ RunnerGoto(IF state \subseteq Approvals THEN "approved" ELSE "changes_requested")
     \/ RunnerGoto("review_failed")
  /\ UNCHANGED <<treeVars, callVars, termVars, pendingID, githubVars, histVars, attempt, agent,
                 precheck, before, verified, state, target>>

-----------------------------------------------------------------------------
(* A new round: a fresh checkout, no handler, perhaps an orphaned pending  *)
(* review of a round that was aborted.                                     *)
ReviewInit ==
  /\ wt \in Trees
  /\ base = wt
  /\ drifted = FALSE
  /\ attempt = 1
  /\ agent = "none"
  /\ pc = [h \in Handlers |-> "idle"]
  /\ inv = [h \in Handlers |-> 1]
  /\ req = [h \in Handlers |-> NoRequest]
  /\ note = [h \in Handlers |-> NoComment]
  /\ rid = [h \in Handlers |-> NoReview]
  /\ slot = [a \in Attempts |-> "free"]
  /\ slotReq = [a \in Attempts |-> NoRequest]
  /\ slotAnswer = [a \in Attempts |-> "ACCEPTED"]
  /\ reviewSubmit = [a \in Attempts |-> {}]
  /\ gateRejected = [a \in Attempts |-> FALSE]
  /\ pendingID = [a \in Attempts |-> {}]
  /\ precheck = [a \in Attempts |-> wt]
  /\ \E orphan \in {{}, {NoReview}} :
       /\ status = [r \in Reviews |-> IF r \in orphan THEN "pending" ELSE "absent"]
       /\ thread = [r \in Reviews |-> IF r \in orphan THEN Leftover ELSE {}]
  /\ runner = "sweep"
  /\ before = base
  /\ verified = FALSE
  /\ state = {}
  /\ target = {}
  /\ answers = {}
  /\ acked = {}
  /\ gateTree = [a \in Attempts |-> wt]

(* A handler goes on with the call it serves.                              *)
HandlerStep(h) ==
  \/ Validate(h)
  \/ Gate(h)
  \/ SetReviewSubmit(h)
  \/ AnswerSubmit(h)
  \/ Ensure(h)
  \/ Discover(h)
  \/ Create(h)
  \/ Store(h)
  \/ Add(h)

RunnerStep ==
  \/ RunnerSweeps
  \/ PrecheckBefore
  \/ PrecheckVerify
  \/ PrecheckAfter
  \/ RunnerCaptures
  \/ RunnerDiscovers
  \/ RunnerCreates
  \/ RunnerSubmits
  \/ RunnerReports

ReviewNext ==
  \/ Drift
  \/ AgentEnds
  \/ RunnerStep
  \/ \E h \in Handlers :
       \/ HandlerStep(h)
       \/ \E r \in Requests : Reserve(h, r)
       \/ \E c \in Comments \ Leftover : Comment(h, c)

ReviewSpec == ReviewInit /\ [][ReviewNext]_reviewVars

-----------------------------------------------------------------------------
(* Properties.                                                             *)

(* The types of the variables.                                             *)
ReviewTypeOK ==
  /\ wt \in Trees /\ base \in Trees /\ drifted \in BOOLEAN
  /\ attempt \in Attempts
  /\ agent \in {"none", "running", "exited", "failed"}
  /\ pc \in [Handlers -> {"idle"} \cup SubmitPhases \cup CommentPhases]
  /\ inv \in [Handlers -> Attempts]
  /\ req \in [Handlers -> Requests]
  /\ note \in [Handlers -> Comments]
  /\ rid \in [Handlers -> Reviews]
  /\ slot \in [Attempts -> {"free", "pending", "final"}]
  /\ slotReq \in [Attempts -> Requests]
  /\ slotAnswer \in [Attempts -> {"ACCEPTED", "REVIEWER_GATE"}]
  /\ reviewSubmit \in [Attempts -> SUBSET Valid]
  /\ gateRejected \in [Attempts -> BOOLEAN]
  /\ pendingID \in [Attempts -> SUBSET Reviews]
  /\ precheck \in [Attempts -> Trees]
  /\ status \in [Reviews -> {"absent", "pending", "submitted", "deleted"}]
  /\ thread \in [Reviews -> SUBSET Comments]
  /\ runner \in {"sweep", "precheck", "verify", "fingerprint", "agent", "discover", "create",
                 "submit", "dirty"} \cup Verdicts
  /\ before \in Trees /\ verified \in BOOLEAN
  /\ state \subseteq Valid /\ target \subseteq Reviews
  /\ answers \subseteq [att : Attempts, req : Requests, answer : {"ACCEPTED", "REVIEWER_GATE"}]
  /\ acked \subseteq Comments
  /\ gateTree \in [Attempts -> Trees]

(* Every comment the agent was told is posted, in this attempt or in one   *)
(* whose approval the gate rejected, is part of the review that is         *)
(* submitted, however the comment calls interleave with each other, with   *)
(* the verdict and with the runner; and no comment of an earlier round is. *)
CommentsKept ==
  \A r \in Reviews :
    status[r] = "submitted" => acked \subseteq thread[r] /\ thread[r] \cap Leftover = {}

(* A PR is approved only on a tree on which the verify command succeeds,   *)
(* whatever changed it after the precheck or between attempts.  A change   *)
(* that comes and goes while the precheck runs cannot be seen.             *)
ApprovedIsGreen ==
  (\E r \in Reviews : status[r] = "submitted") /\ state \subseteq Approvals /\ ~drifted =>
    gateTree[attempt] \in Green

(* An attempt gives one verdict one answer; the verdict that is submitted  *)
(* is the one that was accepted, and no attempt follows an accepted one.   *)
AnswerStands ==
  /\ \A x, y \in answers : x.att = y.att => x = y
  /\ \A x \in answers : x.answer = "ACCEPTED" => x.att = attempt
  /\ state # {} => \A x \in answers : x.att = attempt =>
                     x.answer = "ACCEPTED" /\ state = {x.req}

(* A call that has ended does not leave the terminal pending, so a verdict *)
(* with invalid parameters can be corrected.                               *)
SlotServed ==
  \A a \in Attempts : slot[a] = "pending" =>
    \E h \in Handlers : pc[h] \in SubmitPhases /\ inv[h] = a /\ req[h] = slotReq[a]

=============================================================================
