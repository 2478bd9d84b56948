--------------------------- MODULE DevInvocation ----------------------------
(***************************************************************************)
(* One invocation of the dev agent: its gm broker (internal/gmbroker) and  *)
(* the runner's half (internal/runner/dev.go).  The agent edits the        *)
(* working tree and calls gm_project_check and gm_dev_done; the broker     *)
(* serves every connection in a goroutine of its own and remembers the     *)
(* last check and the one terminal call; when the agent's process has      *)
(* ended, the runner decides from that memory whether to commit and push.  *)
(*                                                                         *)
(* One action is one critical section of a handler, one command on the     *)
(* working tree, or one read of broker state by the runner, so the calls   *)
(* of one agent interleave with each other, with its edits and, since a    *)
(* handler outlives the agent, with the runner.                            *)
(***************************************************************************)
EXTENDS FiniteSets

CONSTANTS
  Handlers,   (* goroutines: calls the broker can be serving at one time *)
  Requests,   (* gm_dev_done calls: a call id with its parameters        *)
  Valid,      (* those whose parameters fit the schema                   *)
  Trees,      (* contents of the working tree                            *)
  Base,       (* the content the invocation starts from                  *)
  Green       (* contents on which the verify command succeeds           *)

ASSUME DevAssumption ==
  /\ Requests # {} /\ Valid \subseteq Requests
  /\ Base \in Trees /\ Green \subseteq Trees

VARIABLES
  wt,           (* content of the working tree *)
  head,         (* content of the commit HEAD points to *)
  remote,       (* content of the branch on GitHub *)
  prOpen,       (* the run's log has a pr_opened event *)
  agent,        (* "running", "exited" (exit code 0) or "failed" *)
  pc,           (* what each handler is about to do *)
  req,          (* the gm_dev_done request it serves *)
  res,          (* the check it makes, or the one it has read *)
  lastCheck,    (* broker: {} or {the result of the last gm_project_check} *)
  slot,         (* broker: the terminal is "free", "pending" or "final" *)
  slotReq,      (* broker: whose it is *)
  slotAnswer,   (* broker: its stored answer *)
  devDone,      (* broker: {} or {the accepted request} *)
  devDoneFP,    (* broker: fingerprint at acceptance *)
  gateRejected, (* broker: the gate rejected the terminal call *)
  runner,       (* where the runner is *)
  rres,         (* the check the runner has read *)
  committed,    (* {} or {the content the runner committed} *)
  verdicts,     (* history: the verdicts the agent got, with their requests *)
  gateTree,     (* history: content when the gate compared fingerprints *)
  excuse        (* history: what may have deceived the fingerprints, if        *)
                (* anything: "edit_in_check", the tree changed under a verify  *)
                (* command; "agent_commit", the agent committed by itself;     *)
                (* "fingerprint_error", the runner could not compute one       *)

brokerVars == <<lastCheck, slot, slotReq, slotAnswer, devDone, devDoneFP, gateRejected>>
treeVars   == <<wt, head, remote, prOpen, excuse>>
callVars   == <<pc, req, res, verdicts, gateTree>>
runnerVars == <<runner, rres, committed>>

devVars == <<treeVars, agent, callVars, brokerVars, runnerVars>>

NoRequest == CHOOSE r \in Requests : TRUE

NoResult == [ok |-> FALSE, fp |-> {}]

Phases == {"idle", "verifying", "checked", "reserved", "loaded", "passed", "accepted", "rejected"}

Answers == {"ACCEPTED", "DEV_GATE", "SCHEMA_INVALID", "PROTOCOL_ERROR"}

(* worktreefingerprint.Compute hashes what `git status', `git diff HEAD'   *)
(* and the untracked files show: the difference from HEAD, not HEAD.       *)
Fingerprint(h, w) == IF h = w THEN {} ELSE {<<h, w>>}

Fingerprints == {{}} \cup {{d} : d \in Trees \X Trees}

(* A ProjectCheckResult.                                                   *)
Results == [ok : BOOLEAN, fp : Fingerprints]

Goto(h, p) == pc' = [pc EXCEPT ![h] = p]

(* The handler is done; its locals are gone.                               *)
Return(h) ==
  /\ Goto(h, "idle")
  /\ req' = [req EXCEPT ![h] = NoRequest]
  /\ res' = [res EXCEPT ![h] = NoResult]

(* The agent gets an answer, if it still runs; answers that only refuse a  *)
(* second call are not kept.                                               *)
Reply(r, a) ==
  verdicts' = IF agent = "running" /\ a # "PROTOCOL_ERROR"
              THEN verdicts \cup {[req |-> r, answer |-> a]} ELSE verdicts

-----------------------------------------------------------------------------
(* The working tree.                                                       *)

(* The agent edits it, or a running verify command does, which the broker  *)
(* does not kill with the agent.                                           *)
Edit ==
  /\ agent = "running" \/ \E h \in Handlers : pc[h] = "verifying"
  /\ wt' \in Trees \ {wt}
  /\ excuse' = IF \E h \in Handlers : pc[h] = "verifying" THEN "edit_in_check" ELSE excuse
  /\ UNCHANGED <<head, remote, prOpen, agent, callVars, brokerVars, runnerVars>>

(* The agent has a shell, so it can commit.                                *)
AgentCommits ==
  /\ agent = "running"
  /\ wt # head
  /\ head' = wt
  /\ excuse' = IF excuse = "edit_in_check" THEN excuse ELSE "agent_commit"
  /\ UNCHANGED <<wt, remote, prOpen, agent, callVars, brokerVars, runnerVars>>

-----------------------------------------------------------------------------
(* gm_project_check: verify, then fingerprint, then lastCheck.             *)

CheckVerify(h) ==
  /\ agent = "running"
  /\ pc[h] = "idle"
  /\ res' = [res EXCEPT ![h].ok = (wt \in Green)]
  /\ Goto(h, "verifying")
  /\ UNCHANGED <<req, verdicts, gateTree, treeVars, agent, brokerVars, runnerVars>>

CheckFingerprint(h) ==
  /\ pc[h] = "verifying"
  /\ \/ /\ res' = [res EXCEPT ![h].fp = Fingerprint(head, wt)]
        /\ Goto(h, "checked")
        /\ UNCHANGED req
     \/ Return(h)                             (* PROJECT_CHECK_FAILED *)
  /\ UNCHANGED <<verdicts, gateTree, treeVars, agent, brokerVars, runnerVars>>

CheckStore(h) ==
  /\ pc[h] = "checked"
  /\ lastCheck' = {res[h]}
  /\ Return(h)
  /\ UNCHANGED <<verdicts, gateTree, treeVars, agent, slot, slotReq, slotAnswer,
                 devDone, devDoneFP, gateRejected, runnerVars>>

-----------------------------------------------------------------------------
(* gm_dev_done.                                                            *)

(* Mutant: only a final answer refuses a second call.                      *)
ReserveRacyBug(h, r) ==
  /\ agent = "running"
  /\ pc[h] = "idle"
  /\ slot # "final"
  /\ slot' = "pending"
  /\ slotReq' = r
  /\ req' = [req EXCEPT ![h] = r]
  /\ Goto(h, "reserved")
  /\ UNCHANGED <<verdicts, res, gateTree, treeVars, agent, lastCheck, slotAnswer,
                 devDone, devDoneFP, gateRejected, runnerVars>>

(* reserveDevDoneTerminal: replay, refuse, or take the slot.               *)
Reserve(h, r) ==
  /\ agent = "running"
  /\ pc[h] = "idle"
  /\ \/ /\ slot = "final"
        /\ slotReq = r
        /\ Reply(r, slotAnswer)
        /\ UNCHANGED <<pc, req, slot, slotReq>>
     \/ /\ slot = "pending" \/ (slot = "final" /\ slotReq # r)
        /\ Reply(r, "PROTOCOL_ERROR")
        /\ UNCHANGED <<pc, req, slot, slotReq>>
     \/ /\ slot = "free"
        /\ slot' = "pending"
        /\ slotReq' = r
        /\ req' = [req EXCEPT ![h] = r]
        /\ Goto(h, "reserved")
        /\ UNCHANGED verdicts
  /\ UNCHANGED <<res, gateTree, treeVars, agent, lastCheck, slotAnswer,
                 devDone, devDoneFP, gateRejected, runnerVars>>

(* Mutant: the stored answer is not one of the protocol's.                 *)
FinalizeTypoBug(h, a) ==
  /\ slot' = "final"
  /\ slotReq' = req[h]
  /\ slotAnswer' = "REJECTED"
  /\ Reply(req[h], a)
  /\ Return(h)

(* finalizeDevDoneTerminal.                                                *)
Finalize(h, a) ==
  /\ slot' = "final"
  /\ slotReq' = req[h]
  /\ slotAnswer' = a
  /\ Reply(req[h], a)
  /\ Return(h)

(* rejectDevDoneGate.                                                      *)
RejectGate(h) ==
  /\ gateRejected' = TRUE
  /\ Goto(h, "rejected")

(* validateDevDoneParams fails: a terminal failure.                        *)
SchemaInvalid(h) ==
  /\ pc[h] = "reserved"
  /\ req[h] \notin Valid
  /\ Finalize(h, "SCHEMA_INVALID")
  /\ UNCHANGED <<gateTree, treeVars, agent, lastCheck,
                 devDone, devDoneFP, gateRejected, runnerVars>>

(* checkDevDoneGate reads lastCheck ...                                    *)
GateReadsCheck(h) ==
  /\ pc[h] = "reserved"
  /\ req[h] \in Valid
  /\ \/ /\ \E c \in lastCheck : c.ok /\ res' = [res EXCEPT ![h] = c]
        /\ Goto(h, "loaded")
        /\ UNCHANGED gateRejected
     \/ /\ \A c \in lastCheck : ~c.ok
        /\ res' = res
        /\ RejectGate(h)
  /\ UNCHANGED <<req, verdicts, gateTree, treeVars, agent, lastCheck, slot, slotReq,
                 slotAnswer, devDone, devDoneFP, runnerVars>>

(* ... and compares its fingerprint with that of the tree as it is now.    *)
GateCompares(h) ==
  /\ pc[h] = "loaded"
  /\ gateTree' = wt
  /\ \/ /\ res[h].fp = Fingerprint(head, wt)
        /\ devDoneFP' = res[h].fp
        /\ Goto(h, "passed")
        /\ UNCHANGED gateRejected
     \/ /\ RejectGate(h)                     (* a mismatch, or git failed *)
        /\ UNCHANGED devDoneFP
  /\ UNCHANGED <<req, res, verdicts, treeVars, agent, lastCheck, slot, slotReq,
                 slotAnswer, devDone, runnerVars>>

(* Mutant: the answer goes out before the broker remembers the call.       *)
SetDevDoneLateBug(h) ==
  /\ pc[h] = "passed"
  /\ Finalize(h, "ACCEPTED")
  /\ UNCHANGED <<gateTree, treeVars, agent, lastCheck, devDone, devDoneFP, gateRejected,
                 runnerVars>>

SetDevDone(h) ==
  /\ pc[h] = "passed"
  /\ devDone' = {req[h]}
  /\ Goto(h, "accepted")
  /\ UNCHANGED <<req, res, verdicts, gateTree, treeVars, agent, lastCheck, slot, slotReq,
                 slotAnswer, devDoneFP, gateRejected, runnerVars>>

(* Mutant: a rejected call is answered without finalizing the terminal.    *)
AnswerDevDoneBug(h) ==
  /\ \/ pc[h] = "accepted" /\ Finalize(h, "ACCEPTED")
     \/ /\ pc[h] = "rejected"
        /\ Reply(req[h], "DEV_GATE")
        /\ Return(h)
        /\ UNCHANGED <<slot, slotReq, slotAnswer>>
  /\ UNCHANGED <<gateTree, treeVars, agent, lastCheck,
                 devDone, devDoneFP, gateRejected, runnerVars>>

AnswerDevDone(h) ==
  /\ \/ pc[h] = "accepted" /\ Finalize(h, "ACCEPTED")
     \/ pc[h] = "rejected" /\ Finalize(h, "DEV_GATE")
  /\ UNCHANGED <<gateTree, treeVars, agent, lastCheck,
                 devDone, devDoneFP, gateRejected, runnerVars>>

-----------------------------------------------------------------------------
(* The agent's process ends, at any moment: of itself, killed because a    *)
(* gm_dev_done has returned (exit code 0), by a timeout, a stall, an error.*)
AgentEnds ==
  /\ agent = "running"
  /\ agent' \in {"exited", "failed"}
  /\ UNCHANGED <<treeVars, callVars, brokerVars, runnerVars>>

-----------------------------------------------------------------------------
(* The runner: executeDevAgentCfg, finishDevAgentWithBroker.               *)

RunnerAt(place) == agent # "running" /\ runner = place

RunnerGoto(place) == runner' = place

RunnerStarts ==
  /\ RunnerAt("waiting")
  /\ RunnerGoto(IF agent = "failed" THEN "failed"
                ELSE IF devDone # {} THEN "compare" ELSE "recover")
  /\ UNCHANGED <<treeVars, agent, callVars, brokerVars, rres, committed>>

(* Mutant: the runner trusts the gate's comparison.                        *)
RunnerComparesBug ==
  /\ RunnerAt("compare")
  /\ RunnerGoto("commit")
  /\ UNCHANGED <<treeVars, agent, callVars, brokerVars, rres, committed>>

(* finalizeAcceptedDevDone: the tree must still be the accepted one, but   *)
(* a fingerprint that cannot be computed is not a difference.              *)
RunnerCompares ==
  /\ RunnerAt("compare")
  /\ \/ /\ RunnerGoto(IF Fingerprint(head, wt) = devDoneFP THEN "commit" ELSE "failed")
        /\ UNCHANGED excuse
     \/ /\ RunnerGoto("commit")
        /\ excuse' = IF excuse = "none" THEN "fingerprint_error" ELSE excuse
  /\ UNCHANGED <<wt, head, remote, prOpen, agent, callVars, brokerVars, rres, committed>>

(* RecoveredDevDoneParams, then IsTreeGreen's read of lastCheck.           *)
RunnerRecovers ==
  /\ RunnerAt("recover")
  /\ \/ /\ gateRejected
        /\ slotReq \in Valid
        /\ \E c \in lastCheck : c.ok /\ rres' = c
        /\ RunnerGoto("recompare")
     \/ /\ ~gateRejected \/ slotReq \notin Valid \/ \A c \in lastCheck : ~c.ok
        /\ RunnerGoto("gate_rejected")
        /\ UNCHANGED rres
  /\ UNCHANGED <<treeVars, agent, callVars, brokerVars, committed>>

(* IsTreeGreen's fingerprint; the gate rejection stands if it fails.       *)
RunnerRecompares ==
  /\ RunnerAt("recompare")
  /\ \/ Fingerprint(head, wt) = rres.fp /\ RunnerGoto("commit")
     \/ RunnerGoto("gate_rejected")
  /\ UNCHANGED <<treeVars, agent, callVars, brokerVars, rres, committed>>

(* commitDevDone: `git add -A' and commit.  With nothing staged the commit *)
(* of a first turn fails; a retry leaves it and the push out.              *)
RunnerCommits ==
  /\ RunnerAt("commit")
  /\ \/ /\ wt # head
        /\ head' = wt
        /\ committed' = {wt}
        /\ RunnerGoto("push")
     \/ /\ wt = head
        /\ RunnerGoto(IF prOpen THEN "dev_done" ELSE "failed")
        /\ UNCHANGED <<head, committed>>
     \/ /\ RunnerGoto("failed")              (* git failed *)
        /\ UNCHANGED <<head, committed>>
  /\ UNCHANGED <<wt, remote, prOpen, excuse, agent, callVars, brokerVars, rres>>

(* The push, and in a first turn the PR with its pr_opened event.          *)
RunnerPushes ==
  /\ RunnerAt("push")
  /\ \/ /\ remote' = head
        /\ prOpen' = TRUE
        /\ RunnerGoto("dev_done")
     \/ /\ remote' \in {remote, head}
        /\ prOpen' = prOpen
        /\ RunnerGoto("failed")
  /\ UNCHANGED <<wt, head, excuse, agent, callVars, brokerVars, rres, committed>>

-----------------------------------------------------------------------------
(* The worktree is clean and pushed, and the broker is new.                *)
DevInit ==
  /\ wt = Base
  /\ head = Base
  /\ remote = Base
  /\ prOpen \in BOOLEAN
  /\ agent = "running"
  /\ pc = [h \in Handlers |-> "idle"]
  /\ req = [h \in Handlers |-> NoRequest]
  /\ res = [h \in Handlers |-> NoResult]
  /\ lastCheck = {}
  /\ slot = "free"
  /\ slotReq = NoRequest
  /\ slotAnswer = "PROTOCOL_ERROR"
  /\ devDone = {}
  /\ devDoneFP = {}
  /\ gateRejected = FALSE
  /\ runner = "waiting"
  /\ rres = NoResult
  /\ committed = {}
  /\ verdicts = {}
  /\ gateTree = Base
  /\ excuse = "none"

(* A handler goes on with the call it serves.                              *)
HandlerStep(h) ==
  \/ CheckFingerprint(h)
  \/ CheckStore(h)
  \/ SchemaInvalid(h)
  \/ GateReadsCheck(h)
  \/ GateCompares(h)
  \/ SetDevDone(h)
  \/ AnswerDevDone(h)

RunnerStep ==
  \/ RunnerStarts
  \/ RunnerCompares
  \/ RunnerRecovers
  \/ RunnerRecompares
  \/ RunnerCommits
  \/ RunnerPushes

DevNext ==
  \/ Edit
  \/ AgentCommits
  \/ AgentEnds
  \/ RunnerStep
  \/ \E h \in Handlers : CheckVerify(h) \/ HandlerStep(h) \/ \E r \in Requests : Reserve(h, r)

DevSpec == DevInit /\ [][DevNext]_devVars

-----------------------------------------------------------------------------
(* Properties.                                                             *)

(* The types of the variables.                                             *)
DevTypeOK ==
  /\ wt \in Trees /\ head \in Trees /\ remote \in Trees
  /\ prOpen \in BOOLEAN
  /\ agent \in {"running", "exited", "failed"}
  /\ pc \in [Handlers -> Phases]
  /\ req \in [Handlers -> Requests]
  /\ res \in [Handlers -> Results]
  /\ lastCheck \subseteq Results
  /\ slot \in {"free", "pending", "final"}
  /\ slotReq \in Requests
  /\ slotAnswer \in Answers
  /\ devDone \subseteq Requests
  /\ devDoneFP \in Fingerprints
  /\ gateRejected \in BOOLEAN
  /\ runner \in {"waiting", "compare", "recover", "recompare", "commit", "push",
                 "dev_done", "gate_rejected", "failed"}
  /\ rres \in Results
  /\ committed \subseteq Trees
  /\ verdicts \subseteq [req : Requests, answer : Answers]
  /\ gateTree \in Trees
  /\ excuse \in {"none", "fingerprint_error", "agent_commit", "edit_in_check"}

(* However the calls of one invocation interleave and are repeated, one    *)
(* gm_dev_done gets a verdict: all the verdicts are one answer to one       *)
(* request, and the request that was told "accepted" is the one the runner *)
(* finds.                                                                  *)
OneTerminal ==
  /\ \A a, b \in verdicts : a = b
  /\ \A a \in verdicts : a.answer = "ACCEPTED" => devDone = {a.req}

(* The agent is not sent back to work it was told is accepted: the runner, *)
(* which reads the broker without waiting for its handlers, never takes    *)
(* such an invocation for a gate rejection.                                *)
AcceptedIsNotRejected ==
  runner = "gate_rejected" => \A a \in verdicts : a.answer # "ACCEPTED"

(* Nothing is committed that the verify command has not passed on, though  *)
(* checks overlap, results overwrite each other and the agent edits on     *)
(* after its call.  The broker's fingerprints cannot show it when the tree *)
(* changes while verify runs, when the agent commits by itself, or when    *)
(* the runner cannot compute one (excuse).                                 *)
CommittedIsGreen == excuse = "none" => committed \subseteq Green

(* The terminal is never left pending by a call that has already ended,    *)
(* which would refuse every gm_dev_done for the rest of the invocation.    *)
PendingIsServed ==
  slot = "pending" =>
    \E h \in Handlers :
      /\ pc[h] \in {"reserved", "loaded", "passed", "accepted", "rejected"}
      /\ req[h] = slotReq

=============================================================================
