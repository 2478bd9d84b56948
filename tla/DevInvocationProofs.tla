------------------------- MODULE DevInvocationProofs -------------------------
(* Proofs about DevInvocation, for every set of handlers, requests and     *)
(* trees.                                                                  *)
EXTENDS DevInvocation, TLAPS

(* A handler that has the terminal.                                        *)
Serves(h) == pc[h] \in {"reserved", "loaded", "passed", "accepted", "rejected"}

(* The terminal goes from free to pending to final; while it is pending    *)
(* one handler serves it, and a verdict is the stored answer.              *)
TerminalInv ==
  /\ \A h \in Handlers : Serves(h) => slot = "pending" /\ req[h] = slotReq
  /\ \A g, h \in Handlers : Serves(g) /\ Serves(h) => g = h
  /\ slot = "pending" => \E h \in Handlers : Serves(h)
  /\ \A v \in verdicts : slot = "final" /\ v = [req |-> slotReq, answer |-> slotAnswer]
  /\ \A h \in Handlers : pc[h] = "accepted" => devDone = {slotReq}
  /\ slot = "final" /\ slotAnswer = "ACCEPTED" => devDone = {slotReq}

(* The runner starts when the agent has ended; from then on nobody is told *)
(* anything, so an accepted call is one that RunnerStarts has seen.        *)
RunnerInv ==
  /\ runner # "waiting" => agent # "running"
  /\ runner = "compare" => devDone # {}
  /\ runner \in {"recover", "recompare", "gate_rejected"} =>
       \A v \in verdicts : v.answer # "ACCEPTED"

(* The fingerprint of a green tree, taken before anything is committed.    *)
GreenFingerprint(f) == \E t \in Green : f = Fingerprint(Base, t)

Before == {"waiting", "compare", "recover", "recompare", "commit"}

(* As long as nothing has deceived the fingerprints and nothing is         *)
(* committed, all green results in the system belong to green trees.       *)
GreenResults ==
  /\ head = Base
  /\ \A h \in Handlers :
       /\ pc[h] = "verifying" /\ res[h].ok => wt \in Green
       /\ pc[h] = "checked" /\ res[h].ok => GreenFingerprint(res[h].fp)
       /\ pc[h] = "loaded" => GreenFingerprint(res[h].fp)
       /\ pc[h] = "passed" => GreenFingerprint(devDoneFP)
  /\ \A c \in lastCheck : c.ok => GreenFingerprint(c.fp)
  /\ devDone # {} => GreenFingerprint(devDoneFP)
  /\ runner = "recompare" => GreenFingerprint(rres.fp)
  /\ runner = "commit" => wt \in Green

GreenInv ==
  /\ runner \in Before => committed = {}
  /\ excuse = "none" /\ committed = {} => GreenResults
  /\ excuse = "none" => committed \subseteq Green

DevIInv ==
  /\ DevTypeOK
  /\ TerminalInv
  /\ RunnerInv
  /\ GreenInv

-----------------------------------------------------------------------------
(* The fingerprint tells contents apart as long as HEAD stays.             *)
LEMMA FingerprintSeparates ==
  ASSUME NEW h, NEW t, NEW u, Fingerprint(h, t) = Fingerprint(h, u)
  PROVE  t = u
<1>1. CASE h = t
  <2>1. Fingerprint(h, u) = {}
    BY <1>1 DEF Fingerprint
  <2>2. CASE h # u
    <3>1. <<h, u>> \in Fingerprint(h, u)
      BY <2>2 DEF Fingerprint
    <3> QED
      BY <2>1, <3>1
  <2> QED
    BY <1>1, <2>2
<1>2. CASE h # t
  <2>1. <<h, t>> \in Fingerprint(h, u)
    BY <1>2 DEF Fingerprint
  <2> QED
    BY <2>1 DEF Fingerprint
<1> QED
  BY <1>1, <1>2

LEMMA FingerprintType ==
  ASSUME NEW h \in Trees, NEW t \in Trees
  PROVE  Fingerprint(h, t) \in Fingerprints
  BY DEF Fingerprint, Fingerprints

LEMMA NoneIsTyped ==
  /\ NoRequest \in Requests
  /\ NoResult \in Results
  BY DevAssumption DEF NoRequest, NoResult, Results, Fingerprints

-----------------------------------------------------------------------------
(* Types.                                                                  *)

LEMMA GotoType ==
  ASSUME DevTypeOK, NEW h \in Handlers, NEW p \in Phases, Goto(h, p)
  PROVE  /\ pc' \in [Handlers -> Phases]
         /\ pc'[h] = p
         /\ \A g \in Handlers : g # h => pc'[g] = pc[g]
  BY DEF DevTypeOK, Goto

LEMMA ReturnType ==
  ASSUME DevTypeOK, NEW h \in Handlers, Return(h)
  PROVE  /\ pc' \in [Handlers -> Phases]
         /\ pc'[h] = "idle"
         /\ \A g \in Handlers : g # h => pc'[g] = pc[g] /\ req'[g] = req[g] /\ res'[g] = res[g]
         /\ req' \in [Handlers -> Requests]
         /\ res' \in [Handlers -> Results]
<1>1. Goto(h, "idle") /\ "idle" \in Phases
  BY DEF Return, Phases
<1>3. /\ req' \in [Handlers -> Requests]
      /\ \A g \in Handlers : g # h => req'[g] = req[g]
  BY NoneIsTyped DEF Return, DevTypeOK
<1>4. /\ res' \in [Handlers -> Results]
      /\ \A g \in Handlers : g # h => res'[g] = res[g]
  BY NoneIsTyped DEF Return, DevTypeOK
<1> QED
  BY <1>1, <1>3, <1>4, GotoType

LEMMA ReplyType ==
  ASSUME DevTypeOK, NEW r \in Requests, NEW a \in Answers, Reply(r, a)
  PROVE  verdicts' \subseteq [req : Requests, answer : Answers]
  BY DEF DevTypeOK, Reply

LEMMA FinalizeType ==
  ASSUME DevTypeOK, NEW h \in Handlers, NEW a \in Answers, Finalize(h, a)
  PROVE  /\ slot' = "final" /\ slotReq' = req[h] /\ slotReq' \in Requests
         /\ slotAnswer' = a
         /\ verdicts' \subseteq [req : Requests, answer : Answers]
         /\ Return(h)
<1>1. req[h] \in Requests
  BY DEF DevTypeOK
<1> QED
  BY <1>1, ReplyType DEF Finalize

LEMMA TypeInit == DevInit => DevTypeOK
<1> SUFFICES ASSUME DevInit PROVE DevTypeOK
  OBVIOUS
<1>1. NoRequest \in Requests /\ NoResult \in Results /\ Base \in Trees
  BY NoneIsTyped, DevAssumption
<1>2. {} \in Fingerprints /\ "idle" \in Phases /\ "PROTOCOL_ERROR" \in Answers
  BY DEF Fingerprints, Phases, Answers
<1>3. /\ pc \in [Handlers -> Phases] /\ req \in [Handlers -> Requests]
      /\ res \in [Handlers -> Results]
  BY <1>1, <1>2 DEF DevInit
<1> QED
  BY <1>1, <1>2, <1>3 DEF DevInit, DevTypeOK

(* What the agent does, and the runner.                                    *)
LEMMA TypeOfOthers ==
  ASSUME DevTypeOK, Edit \/ AgentCommits \/ AgentEnds \/ RunnerStep
  PROVE  DevTypeOK'
<1>1. CASE Edit
  BY <1>1 DEF Edit, DevTypeOK, callVars, brokerVars, runnerVars
<1>2. CASE AgentCommits
  BY <1>2 DEF AgentCommits, DevTypeOK, callVars, brokerVars, runnerVars
<1>3. CASE AgentEnds
  BY <1>3 DEF AgentEnds, DevTypeOK, treeVars, callVars, brokerVars, runnerVars
<1>4. CASE RunnerStarts
  BY <1>4 DEF RunnerStarts, RunnerGoto, DevTypeOK, treeVars, callVars, brokerVars
<1>5. CASE RunnerCompares
  BY <1>5 DEF RunnerCompares, RunnerGoto, DevTypeOK, callVars, brokerVars
<1>6. CASE RunnerRecovers
  BY <1>6 DEF RunnerRecovers, RunnerGoto, DevTypeOK, treeVars, callVars, brokerVars
<1>7. CASE RunnerRecompares
  BY <1>7 DEF RunnerRecompares, RunnerGoto, DevTypeOK, treeVars, callVars, brokerVars
<1>8. CASE RunnerCommits
  BY <1>8 DEF RunnerCommits, RunnerGoto, DevTypeOK, callVars, brokerVars
<1>9. CASE RunnerPushes
  BY <1>9 DEF RunnerPushes, RunnerGoto, DevTypeOK, callVars, brokerVars
<1> QED
  BY <1>1, <1>2, <1>3, <1>4, <1>5, <1>6, <1>7, <1>8, <1>9 DEF RunnerStep

(* The handlers of gm_project_check.                                       *)
LEMMA TypeOfCheck ==
  ASSUME DevTypeOK, NEW h \in Handlers, CheckVerify(h) \/ CheckFingerprint(h) \/ CheckStore(h)
  PROVE  DevTypeOK'
<1>1. CASE CheckVerify(h)
  <2>1. Goto(h, "verifying") /\ "verifying" \in Phases
    BY <1>1 DEF CheckVerify, Phases
  <2>2. res' \in [Handlers -> Results]
    <3> DEFINE green == wt \in Green
    <3>0. green \in BOOLEAN
      OBVIOUS
    <3>1. res' = [res EXCEPT ![h].ok = green]
      BY <1>1 DEF CheckVerify
    <3> HIDE DEF green
    <3>2. res[h] \in Results
      BY DEF DevTypeOK
    <3>3. [res[h] EXCEPT !.ok = green] \in Results
      <4>1. PICK ok \in BOOLEAN, fp \in Fingerprints : res[h] = [ok |-> ok, fp |-> fp]
        BY <3>2 DEF Results
      <4>2. [res[h] EXCEPT !.ok = green] = [ok |-> green, fp |-> fp]
        BY <4>1
      <4> QED
        BY <3>0, <4>2 DEF Results
    <3>4. res' = [res EXCEPT ![h] = [res[h] EXCEPT !.ok = green]]
      BY <3>1
    <3> QED
      BY <3>3, <3>4 DEF DevTypeOK
  <2> QED
    BY <1>1, <2>1, <2>2, GotoType DEF CheckVerify, DevTypeOK, treeVars, brokerVars, runnerVars
<1>2. CASE CheckFingerprint(h)
  <2>1. CASE Return(h)
    BY <1>2, <2>1, ReturnType DEF CheckFingerprint, DevTypeOK, treeVars, brokerVars, runnerVars
  <2>2. CASE /\ res' = [res EXCEPT ![h].fp = Fingerprint(head, wt)]
             /\ Goto(h, "checked") /\ UNCHANGED req
    <3>1. Fingerprint(head, wt) \in Fingerprints
      BY FingerprintType DEF DevTypeOK
    <3>2. res' \in [Handlers -> Results]
      BY <2>2, <3>1 DEF DevTypeOK, Results
    <3>3. "checked" \in Phases
      BY DEF Phases
    <3> QED
      BY <1>2, <2>2, <3>2, <3>3, GotoType
         DEF CheckFingerprint, DevTypeOK, treeVars, brokerVars, runnerVars
  <2> QED
    BY <1>2, <2>1, <2>2 DEF CheckFingerprint
<1>3. CASE CheckStore(h)
  BY <1>3, ReturnType DEF CheckStore, DevTypeOK, treeVars, runnerVars
<1> QED
  BY <1>1, <1>2, <1>3

(* The handlers of gm_dev_done.                                            *)
LEMMA TypeOfDevDone ==
  ASSUME DevTypeOK, NEW h \in Handlers, NEW r \in Requests,
         \/ Reserve(h, r) \/ SchemaInvalid(h) \/ GateReadsCheck(h)
         \/ GateCompares(h) \/ SetDevDone(h) \/ AnswerDevDone(h)
  PROVE  DevTypeOK'
<1>1. CASE Reserve(h, r)
  <2>1. slotAnswer \in Answers /\ "PROTOCOL_ERROR" \in Answers
    BY DEF DevTypeOK, Answers
  <2>2. verdicts' \subseteq [req : Requests, answer : Answers]
    BY <1>1, <2>1, ReplyType DEF Reserve, DevTypeOK
  <2>3. "reserved" \in Phases
    BY DEF Phases
  <2>4. pc' \in [Handlers -> Phases]
    BY <1>1, <2>3, GotoType DEF Reserve, DevTypeOK
  <2>5. req' \in [Handlers -> Requests] /\ slot' \in {"free", "pending", "final"}
        /\ slotReq' \in Requests
    BY <1>1 DEF Reserve, DevTypeOK
  <2> QED
    BY <1>1, <2>2, <2>4, <2>5 DEF Reserve, DevTypeOK, treeVars, runnerVars
<1>2. CASE SchemaInvalid(h)
  <2>1. "SCHEMA_INVALID" \in Answers
    BY DEF Answers
  <2> QED
    BY <1>2, <2>1, FinalizeType, ReturnType DEF SchemaInvalid, DevTypeOK, treeVars, runnerVars
<1>3. CASE GateReadsCheck(h)
  <2>1. {"loaded", "rejected"} \subseteq Phases
    BY DEF Phases
  <2>2. pc' \in [Handlers -> Phases]
    BY <1>3, <2>1, GotoType DEF GateReadsCheck, RejectGate
  <2>3. res' \in [Handlers -> Results]
    BY <1>3 DEF GateReadsCheck, DevTypeOK
  <2>4. gateRejected' \in BOOLEAN
    BY <1>3 DEF GateReadsCheck, RejectGate, DevTypeOK
  <2> QED
    BY <1>3, <2>2, <2>3, <2>4 DEF GateReadsCheck, DevTypeOK, treeVars, runnerVars
<1>4. CASE GateCompares(h)
  <2>1. {"passed", "rejected"} \subseteq Phases
    BY DEF Phases
  <2>2. pc' \in [Handlers -> Phases]
    BY <1>4, <2>1, GotoType DEF GateCompares, RejectGate
  <2>3. devDoneFP' \in Fingerprints
    BY <1>4 DEF GateCompares, DevTypeOK, Results
  <2>4. gateRejected' \in BOOLEAN
    BY <1>4 DEF GateCompares, RejectGate, DevTypeOK
  <2> QED
    BY <1>4, <2>2, <2>3, <2>4 DEF GateCompares, DevTypeOK, treeVars, runnerVars
<1>5. CASE SetDevDone(h)
  <2>1. "accepted" \in Phases
    BY DEF Phases
  <2>2. pc' \in [Handlers -> Phases]
    BY <1>5, <2>1, GotoType DEF SetDevDone
  <2> QED
    BY <1>5, <2>2 DEF SetDevDone, DevTypeOK, treeVars, runnerVars
<1>6. CASE AnswerDevDone(h)
  <2>1. PICK a \in Answers : Finalize(h, a)
    BY <1>6 DEF AnswerDevDone, Answers
  <2> QED
    BY <1>6, <2>1, FinalizeType, ReturnType DEF AnswerDevDone, DevTypeOK, treeVars, runnerVars
<1> QED
  BY <1>1, <1>2, <1>3, <1>4, <1>5, <1>6

LEMMA TypeStep == DevTypeOK /\ [DevNext]_devVars => DevTypeOK'
<1> SUFFICES ASSUME DevTypeOK, [DevNext]_devVars PROVE DevTypeOK'
  OBVIOUS
<1>1. CASE UNCHANGED devVars
  BY <1>1 DEF devVars, DevTypeOK, treeVars, callVars, brokerVars, runnerVars
<1>2. CASE DevNext
  BY <1>2, TypeOfOthers, TypeOfCheck, TypeOfDevDone, DevAssumption DEF DevNext, HandlerStep
<1> QED
  BY <1>1, <1>2

-----------------------------------------------------------------------------
(* The terminal.                                                           *)

terminalVars == <<pc, req, slot, slotReq, slotAnswer, devDone, verdicts>>

LEMMA TerminalUntouched ==
  ASSUME TerminalInv, UNCHANGED terminalVars
  PROVE  TerminalInv'
  BY DEF TerminalInv, Serves, terminalVars

(* A handler that does not have the terminal moves.                        *)
LEMMA OutsideTerminal ==
  ASSUME DevTypeOK, TerminalInv, NEW h \in Handlers,
         ~Serves(h), ~Serves(h)',
         \A g \in Handlers : g # h => pc'[g] = pc[g] /\ req'[g] = req[g],
         UNCHANGED <<slot, slotReq, slotAnswer, devDone, verdicts>>
  PROVE  TerminalInv'
<1>1. \A g \in Handlers : Serves(g)' <=> Serves(g)
  BY DEF Serves
<1>2. \A g \in Handlers : Serves(g) => req'[g] = req[g]
  OBVIOUS
<1>3. \A g \in Handlers : pc'[g] = "accepted" => pc[g] = "accepted"
  BY DEF Serves
<1> QED
  BY <1>1, <1>2, <1>3 DEF TerminalInv

(* The handler that has it goes on, and devDone is set when it accepts.    *)
LEMMA InsideTerminal ==
  ASSUME DevTypeOK, TerminalInv, NEW h \in Handlers,
         Serves(h), Serves(h)',
         pc'[h] = "accepted" => devDone' = {slotReq},
         \A g \in Handlers : g # h => pc'[g] = pc[g],
         UNCHANGED <<req, slot, slotReq, slotAnswer, verdicts>>
  PROVE  TerminalInv'
<1>1. \A g \in Handlers : Serves(g)' <=> Serves(g)
  BY DEF Serves
<1>2. slot = "pending" /\ \A g \in Handlers : g # h => ~Serves(g)
  BY DEF TerminalInv
<1>3. \A g \in Handlers : pc'[g] = "accepted" => g = h
  BY <1>2 DEF Serves
<1> QED
  BY <1>1, <1>2, <1>3 DEF TerminalInv

(* It finalizes.                                                           *)
LEMMA LeavesTerminal ==
  ASSUME DevTypeOK, TerminalInv, NEW h \in Handlers, NEW a \in Answers,
         Serves(h), a = "ACCEPTED" => pc[h] = "accepted",
         Finalize(h, a), devDone' = devDone
  PROVE  TerminalInv'
<1>1. /\ slot = "pending" /\ req[h] = slotReq
      /\ verdicts = {}
      /\ \A g \in Handlers : g # h => ~Serves(g)
  BY DEF TerminalInv
<1>2. /\ slot' = "final" /\ slotReq' = slotReq /\ slotAnswer' = a
      /\ pc'[h] = "idle" /\ \A g \in Handlers : g # h => pc'[g] = pc[g]
  BY <1>1, FinalizeType, ReturnType
<1>3. verdicts' \subseteq {[req |-> slotReq', answer |-> slotAnswer']}
  BY <1>1, <1>2 DEF Finalize, Reply
<1>4. \A g \in Handlers : ~Serves(g)' /\ pc'[g] # "accepted"
  BY <1>1, <1>2 DEF Serves
<1>5. a = "ACCEPTED" => devDone' = {slotReq'}
  BY <1>2 DEF TerminalInv
<1> QED
  BY <1>2, <1>3, <1>4, <1>5 DEF TerminalInv

LEMMA TerminalOfCheck ==
  ASSUME DevTypeOK, TerminalInv, NEW h \in Handlers,
         CheckVerify(h) \/ CheckFingerprint(h) \/ CheckStore(h)
  PROVE  TerminalInv'
<1>1. {"verifying", "checked"} \subseteq Phases
  BY DEF Phases
<1>2. /\ UNCHANGED <<slot, slotReq, slotAnswer, devDone, verdicts>>
      /\ pc[h] \in {"idle", "verifying", "checked"}
  BY DEF CheckVerify, CheckFingerprint, CheckStore, brokerVars
<1>3. /\ pc'[h] \in {"verifying", "checked", "idle"}
      /\ \A g \in Handlers : g # h => pc'[g] = pc[g] /\ req'[g] = req[g]
  <2>1. CASE CheckVerify(h)
    BY <1>1, <2>1, GotoType DEF CheckVerify
  <2>2. CASE CheckFingerprint(h)
    BY <1>1, <2>2, GotoType, ReturnType DEF CheckFingerprint
  <2>3. CASE CheckStore(h)
    BY <2>3, ReturnType DEF CheckStore
  <2> QED
    BY <2>1, <2>2, <2>3
<1> QED
  BY <1>2, <1>3, OutsideTerminal DEF Serves

LEMMA TerminalOfReserve ==
  ASSUME DevTypeOK, TerminalInv, NEW h \in Handlers, NEW r \in Requests, Reserve(h, r)
  PROVE  TerminalInv'
<1>1. devDone' = devDone /\ slotAnswer' = slotAnswer
  BY DEF Reserve
<1>2. CASE slot = "final" /\ UNCHANGED <<pc, req, slot, slotReq>>
  <2>1. verdicts' \subseteq verdicts \cup {[req |-> slotReq, answer |-> slotAnswer]}
    BY <1>2 DEF Reserve, Reply
  <2> QED
    BY <1>1, <1>2, <2>1 DEF TerminalInv, Serves
<1>3. CASE slot = "pending" /\ UNCHANGED <<pc, req, slot, slotReq>>
  <2>1. verdicts' = verdicts
    BY <1>3 DEF Reserve, Reply
  <2> QED
    BY <1>1, <1>3, <2>1, TerminalUntouched DEF terminalVars
<1>4. CASE /\ slot = "free" /\ slot' = "pending" /\ slotReq' = r
           /\ req' = [req EXCEPT ![h] = r] /\ Goto(h, "reserved") /\ verdicts' = verdicts
  <2>1. "reserved" \in Phases
    BY DEF Phases
  <2>2. pc'[h] = "reserved" /\ \A g \in Handlers : g # h => pc'[g] = pc[g]
    BY <1>4, <2>1, GotoType
  <2>3. verdicts = {} /\ \A g \in Handlers : ~Serves(g)
    BY <1>4 DEF TerminalInv
  <2>4. \A g \in Handlers : (Serves(g)' <=> g = h) /\ pc'[g] # "accepted"
    BY <2>2, <2>3 DEF Serves
  <2>5. req'[h] = r
    BY <1>4 DEF DevTypeOK
  <2> QED
    BY <1>4, <2>3, <2>4, <2>5 DEF TerminalInv
<1> QED
  BY <1>2, <1>3, <1>4 DEF Reserve

LEMMA TerminalOfDevDone ==
  ASSUME DevTypeOK, TerminalInv, NEW h \in Handlers,
         \/ SchemaInvalid(h) \/ GateReadsCheck(h) \/ GateCompares(h)
         \/ SetDevDone(h) \/ AnswerDevDone(h)
  PROVE  TerminalInv'
<1>1. {"loaded", "passed", "accepted", "rejected"} \subseteq Phases
  BY DEF Phases
<1>2. CASE SchemaInvalid(h)
  BY <1>2, LeavesTerminal DEF SchemaInvalid, Serves, Answers
<1>3. CASE AnswerDevDone(h)
  BY <1>3, LeavesTerminal DEF AnswerDevDone, Serves, Answers
<1>4. CASE GateReadsCheck(h) \/ GateCompares(h)
  <2>1. PICK p \in {"loaded", "passed", "rejected"} : Goto(h, p)
    BY <1>4 DEF GateReadsCheck, GateCompares, RejectGate
  <2>2. pc'[h] = p /\ \A g \in Handlers : g # h => pc'[g] = pc[g]
    BY <1>1, <2>1, GotoType
  <2>3. /\ UNCHANGED <<req, slot, slotReq, slotAnswer, verdicts>>
        /\ pc[h] \in {"reserved", "loaded"}
    BY <1>4 DEF GateReadsCheck, GateCompares
  <2> QED
    BY <2>2, <2>3, InsideTerminal DEF Serves
<1>5. CASE SetDevDone(h)
  <2>1. pc'[h] = "accepted" /\ \A g \in Handlers : g # h => pc'[g] = pc[g]
    BY <1>1, <1>5, GotoType DEF SetDevDone
  <2>2. Serves(h) /\ req[h] = slotReq
    BY <1>5 DEF SetDevDone, Serves, TerminalInv
  <2> QED
    BY <1>5, <2>1, <2>2, InsideTerminal DEF SetDevDone, Serves
<1> QED
  BY <1>2, <1>3, <1>4, <1>5

LEMMA TerminalStep ==
  ASSUME DevTypeOK, TerminalInv, [DevNext]_devVars
  PROVE  TerminalInv'
<1>1. CASE UNCHANGED devVars
  BY <1>1, TerminalUntouched DEF devVars, terminalVars, callVars, brokerVars
<1>2. CASE Edit \/ AgentCommits \/ AgentEnds \/ RunnerStep
  <2>1. UNCHANGED <<callVars, brokerVars>>
    BY <1>2 DEF Edit, AgentCommits, AgentEnds, RunnerStep, RunnerStarts, RunnerCompares,
       RunnerRecovers, RunnerRecompares, RunnerCommits, RunnerPushes
  <2> QED
    BY <2>1, TerminalUntouched DEF terminalVars, callVars, brokerVars
<1>3. CASE \E h \in Handlers : CheckVerify(h) \/ HandlerStep(h) \/ \E r \in Requests : Reserve(h, r)
  BY <1>3, TerminalOfCheck, TerminalOfReserve, TerminalOfDevDone DEF HandlerStep
<1> QED
  BY <1>1, <1>2, <1>3 DEF DevNext

LEMMA TerminalIsOne == TerminalInv => OneTerminal /\ PendingIsServed
  BY DEF TerminalInv, OneTerminal, PendingIsServed, Serves

-----------------------------------------------------------------------------
(* The runner and the agent.                                               *)

LEMMA RunnerOnlyMoves ==
  ASSUME RunnerStep
  PROVE  agent # "running" /\ UNCHANGED <<agent, callVars, brokerVars>>
  BY DEF RunnerStep, RunnerStarts, RunnerCompares, RunnerRecovers, RunnerRecompares,
     RunnerCommits, RunnerPushes, RunnerAt

(* Everything that is not the runner leaves it alone, and devDone stays    *)
(* set once it is.                                                         *)
LEMMA OthersLeaveRunner ==
  ASSUME \/ Edit \/ AgentCommits \/ AgentEnds
         \/ \E h \in Handlers : CheckVerify(h) \/ HandlerStep(h) \/ \E r \in Requests : Reserve(h, r)
  PROVE  /\ UNCHANGED runnerVars
         /\ agent # "running" => agent' # "running" /\ verdicts' = verdicts
         /\ devDone # {} => devDone' # {}
<1>1. CASE Edit \/ AgentCommits \/ AgentEnds
  BY <1>1 DEF Edit, AgentCommits, AgentEnds, callVars, brokerVars
<1>2. ASSUME NEW h \in Handlers, CheckVerify(h) \/ CheckFingerprint(h) \/ CheckStore(h)
      PROVE  UNCHANGED <<runnerVars, agent, verdicts, devDone>>
  BY <1>2 DEF CheckVerify, CheckFingerprint, CheckStore, brokerVars
<1>3. ASSUME NEW h \in Handlers,
             \/ \E r \in Requests : Reserve(h, r)
             \/ SchemaInvalid(h) \/ GateReadsCheck(h) \/ GateCompares(h) \/ AnswerDevDone(h)
      PROVE  /\ UNCHANGED <<runnerVars, agent, devDone>>
             /\ agent # "running" => verdicts' = verdicts
  BY <1>3 DEF Reserve, SchemaInvalid, GateReadsCheck, GateCompares, AnswerDevDone,
     Finalize, Reply
<1>4. ASSUME NEW h \in Handlers, SetDevDone(h)
      PROVE  UNCHANGED <<runnerVars, agent, verdicts>> /\ devDone' # {}
  BY <1>4 DEF SetDevDone
<1> QED
  BY <1>1, <1>2, <1>3, <1>4 DEF HandlerStep

LEMMA RunnerInvStep ==
  ASSUME TerminalInv, RunnerInv, [DevNext]_devVars
  PROVE  RunnerInv'
<1>1. CASE UNCHANGED devVars
  BY <1>1 DEF devVars, RunnerInv, callVars, brokerVars, runnerVars
<1>2. CASE RunnerStep
  <2>1. agent # "running" /\ agent' = agent /\ verdicts' = verdicts /\ devDone' = devDone
    BY <1>2, RunnerOnlyMoves DEF callVars, brokerVars
  <2>2. CASE RunnerStarts
    <3>1. runner' = IF agent = "failed" THEN "failed"
                    ELSE IF devDone # {} THEN "compare" ELSE "recover"
      BY <2>2 DEF RunnerStarts, RunnerGoto
    <3>2. devDone = {} => \A v \in verdicts : v.answer # "ACCEPTED"
      BY DEF TerminalInv
    <3> QED
      BY <2>1, <3>1, <3>2 DEF RunnerInv
  <2>3. CASE RunnerCompares \/ RunnerCommits \/ RunnerPushes
    <3>1. runner' \in {"commit", "failed", "push", "dev_done"}
      BY <2>3 DEF RunnerCompares, RunnerCommits, RunnerPushes, RunnerGoto
    <3> QED
      BY <2>1, <3>1 DEF RunnerInv
  <2>4. CASE RunnerRecovers \/ RunnerRecompares
    <3>1. /\ runner \in {"recover", "recompare"}
          /\ runner' \in {"recompare", "gate_rejected", "commit"}
      BY <2>4 DEF RunnerRecovers, RunnerRecompares, RunnerGoto, RunnerAt
    <3> QED
      BY <2>1, <3>1 DEF RunnerInv
  <2> QED
    BY <1>2, <2>2, <2>3, <2>4 DEF RunnerStep
<1>3. CASE DevNext /\ ~RunnerStep
  BY <1>3, OthersLeaveRunner DEF DevNext, RunnerInv, runnerVars
<1> QED
  BY <1>1, <1>2, <1>3

-----------------------------------------------------------------------------
(* Green trees.                                                            *)

(* A step that does not touch what GreenResults speaks of.                 *)
LEMMA GreenUntouched ==
  ASSUME GreenInv,
         UNCHANGED <<wt, head, excuse, pc, res, lastCheck, devDone, devDoneFP,
                     runner, rres, committed>>
  PROVE  GreenInv'
  BY DEF GreenInv, GreenResults, GreenFingerprint

(* Once the fingerprints are deceived nothing is claimed any more.         *)
LEMMA GreenDeceived ==
  ASSUME GreenInv, excuse' # "none",
         committed' = committed \/ runner' \notin Before, runner' \in Before => runner \in Before
  PROVE  GreenInv'
  BY DEF GreenInv

LEMMA GreenOfTree ==
  ASSUME DevTypeOK, RunnerInv, GreenInv, Edit \/ AgentCommits \/ AgentEnds
  PROVE  GreenInv'
<1>1. CASE AgentEnds
  BY <1>1, GreenUntouched DEF AgentEnds, treeVars, callVars, brokerVars, runnerVars
<1>2. CASE AgentCommits
  BY <1>2, GreenDeceived DEF AgentCommits, runnerVars
<1>3. CASE Edit
  <2>1. UNCHANGED <<head, pc, res, lastCheck, devDone, devDoneFP, runner, rres, committed>>
    BY <1>3 DEF Edit, callVars, brokerVars, runnerVars
  <2>2. CASE excuse' # "none"
    BY <2>1, <2>2, GreenDeceived
  <2>3. CASE excuse' = "none"
    <3>1. excuse = "none" /\ agent = "running" /\ \A h \in Handlers : pc[h] # "verifying"
      BY <1>3, <2>3 DEF Edit
    <3>2. runner # "commit"
      BY <3>1 DEF RunnerInv
    <3> QED
      BY <2>1, <3>1, <3>2 DEF GreenInv, GreenResults, GreenFingerprint
  <2> QED
    BY <2>2, <2>3
<1> QED
  BY <1>1, <1>2, <1>3

(* The handlers leave the tree and the runner alone, so only the results   *)
(* they handle matter.                                                     *)
LEMMA GreenOfHandler ==
  ASSUME GreenInv, UNCHANGED <<treeVars, runnerVars>>,
         excuse = "none" /\ committed = {} /\ GreenResults => GreenResults'
  PROVE  GreenInv'
  BY DEF GreenInv, treeVars, runnerVars

LEMMA GreenOfCheck ==
  ASSUME DevTypeOK, GreenInv, NEW h \in Handlers,
         CheckVerify(h) \/ CheckFingerprint(h) \/ CheckStore(h)
  PROVE  GreenInv'
<1>1. UNCHANGED <<treeVars, runnerVars, devDone, devDoneFP>>
  BY DEF CheckVerify, CheckFingerprint, CheckStore, brokerVars
<1> SUFFICES ASSUME GreenResults PROVE GreenResults'
  BY <1>1, GreenOfHandler
<1>2. {"verifying", "checked"} \subseteq Phases
  BY DEF Phases
<1>3. CASE CheckVerify(h)
  <2>1. /\ pc'[h] = "verifying" /\ \A g \in Handlers : g # h => pc'[g] = pc[g]
        /\ lastCheck' = lastCheck
    BY <1>2, <1>3, GotoType DEF CheckVerify, brokerVars
  <2>2. /\ res'[h].ok => wt \in Green
        /\ \A g \in Handlers : g # h => res'[g] = res[g]
    BY <1>3 DEF CheckVerify, DevTypeOK, Results
  <2> QED
    BY <1>1, <2>1, <2>2 DEF GreenResults, GreenFingerprint, treeVars, runnerVars
<1>4. CASE CheckFingerprint(h)
  <2>0. lastCheck' = lastCheck
    BY <1>4 DEF CheckFingerprint, brokerVars
  <2>1. CASE Return(h)
    <3>1. /\ pc'[h] = "idle"
          /\ \A g \in Handlers : g # h => pc'[g] = pc[g] /\ res'[g] = res[g]
      BY <2>1, ReturnType
    <3> QED
      BY <1>1, <2>0, <3>1 DEF GreenResults, GreenFingerprint, treeVars, runnerVars
  <2>2. CASE /\ res' = [res EXCEPT ![h].fp = Fingerprint(head, wt)]
             /\ Goto(h, "checked")
    <3>1. pc'[h] = "checked" /\ \A g \in Handlers : g # h => pc'[g] = pc[g]
      BY <1>2, <2>2, GotoType
    <3>2. /\ res'[h].ok = res[h].ok /\ res'[h].fp = Fingerprint(head, wt)
          /\ \A g \in Handlers : g # h => res'[g] = res[g]
      BY <2>2 DEF DevTypeOK, Results
    <3>3. res[h].ok => GreenFingerprint(Fingerprint(head, wt))
      BY <1>4 DEF CheckFingerprint, GreenResults, GreenFingerprint
    <3> QED
      BY <1>1, <2>0, <3>1, <3>2, <3>3 DEF GreenResults, GreenFingerprint, treeVars, runnerVars
  <2> QED
    BY <1>4, <2>1, <2>2 DEF CheckFingerprint
<1>5. CASE CheckStore(h)
  <2>1. /\ pc'[h] = "idle"
        /\ \A g \in Handlers : g # h => pc'[g] = pc[g] /\ res'[g] = res[g]
    BY <1>5, ReturnType DEF CheckStore
  <2>2. \A c \in lastCheck' : c.ok => GreenFingerprint(c.fp)
    BY <1>5 DEF CheckStore, GreenResults
  <2> QED
    BY <1>1, <2>1, <2>2 DEF GreenResults, GreenFingerprint, treeVars, runnerVars
<1> QED
  BY <1>3, <1>4, <1>5

LEMMA GreenOfDevDone ==
  ASSUME DevTypeOK, GreenInv, NEW h \in Handlers, NEW r \in Requests,
         \/ Reserve(h, r) \/ SchemaInvalid(h) \/ GateReadsCheck(h)
         \/ GateCompares(h) \/ SetDevDone(h) \/ AnswerDevDone(h)
  PROVE  GreenInv'
<1>1. UNCHANGED <<treeVars, runnerVars, lastCheck>>
  BY DEF Reserve, SchemaInvalid, GateReadsCheck, GateCompares, SetDevDone, AnswerDevDone
<1> SUFFICES ASSUME GreenResults PROVE GreenResults'
  BY <1>1, GreenOfHandler
<1>2. {"reserved", "loaded", "passed", "accepted", "rejected"} \subseteq Phases
  BY DEF Phases
<1>3. CASE Reserve(h, r)
  <2>1. /\ pc' = pc \/ (pc'[h] = "reserved" /\ \A g \in Handlers : g # h => pc'[g] = pc[g])
        /\ UNCHANGED <<res, devDone, devDoneFP>>
    BY <1>2, <1>3, GotoType DEF Reserve
  <2> QED
    BY <1>1, <2>1 DEF GreenResults, GreenFingerprint, treeVars, runnerVars
<1>4. CASE SchemaInvalid(h) \/ AnswerDevDone(h)
  <2>1. PICK a \in Answers : Finalize(h, a)
    BY <1>4 DEF SchemaInvalid, AnswerDevDone, Answers
  <2>2. /\ pc'[h] = "idle"
        /\ \A g \in Handlers : g # h => pc'[g] = pc[g] /\ res'[g] = res[g]
    BY <2>1, FinalizeType, ReturnType
  <2>3. UNCHANGED <<devDone, devDoneFP>>
    BY <1>4 DEF SchemaInvalid, AnswerDevDone
  <2> QED
    BY <1>1, <2>2, <2>3 DEF GreenResults, GreenFingerprint, treeVars, runnerVars
<1>5. CASE GateReadsCheck(h)
  <2>1. UNCHANGED <<devDone, devDoneFP>>
    BY <1>5 DEF GateReadsCheck
  <2>2. CASE (\E c \in lastCheck : c.ok /\ res' = [res EXCEPT ![h] = c]) /\ Goto(h, "loaded")
    <3>1. PICK c \in lastCheck : c.ok /\ res' = [res EXCEPT ![h] = c]
      BY <2>2
    <3>2. GreenFingerprint(c.fp)
      BY <3>1 DEF GreenResults
    <3>3. res'[h] = c /\ \A g \in Handlers : g # h => res'[g] = res[g]
      BY <3>1 DEF DevTypeOK
    <3>4. pc'[h] = "loaded" /\ \A g \in Handlers : g # h => pc'[g] = pc[g]
      BY <1>2, <2>2, GotoType
    <3> QED
      BY <1>1, <2>1, <3>2, <3>3, <3>4 DEF GreenResults, GreenFingerprint, treeVars, runnerVars
  <2>3. CASE res' = res /\ Goto(h, "rejected")
    <3>1. pc'[h] = "rejected" /\ \A g \in Handlers : g # h => pc'[g] = pc[g]
      BY <1>2, <2>3, GotoType
    <3> QED
      BY <1>1, <2>1, <2>3, <3>1 DEF GreenResults, GreenFingerprint, treeVars, runnerVars
  <2> QED
    BY <1>5, <2>2, <2>3 DEF GateReadsCheck, RejectGate
<1>6. CASE GateCompares(h)
  <2>1. res' = res /\ devDone' = devDone
    BY <1>6 DEF GateCompares
  <2>2. CASE devDoneFP' = res[h].fp /\ Goto(h, "passed")
    <3>1. pc'[h] = "passed" /\ \A g \in Handlers : g # h => pc'[g] = pc[g]
      BY <1>2, <2>2, GotoType
    <3>2. GreenFingerprint(devDoneFP')
      BY <1>6, <2>2 DEF GateCompares, GreenResults
    <3> QED
      BY <1>1, <2>1, <3>1, <3>2 DEF GreenResults, GreenFingerprint, treeVars, runnerVars
  <2>3. CASE devDoneFP' = devDoneFP /\ Goto(h, "rejected")
    <3>1. pc'[h] = "rejected" /\ \A g \in Handlers : g # h => pc'[g] = pc[g]
      BY <1>2, <2>3, GotoType
    <3> QED
      BY <1>1, <2>1, <2>3, <3>1 DEF GreenResults, GreenFingerprint, treeVars, runnerVars
  <2> QED
    BY <1>6, <2>2, <2>3 DEF GateCompares, RejectGate
<1>7. CASE SetDevDone(h)
  <2>1. /\ pc'[h] = "accepted" /\ \A g \in Handlers : g # h => pc'[g] = pc[g]
        /\ UNCHANGED <<res, devDoneFP>>
    BY <1>2, <1>7, GotoType DEF SetDevDone
  <2>2. GreenFingerprint(devDoneFP)
    BY <1>7 DEF SetDevDone, GreenResults
  <2> QED
    BY <1>1, <2>1, <2>2 DEF GreenResults, GreenFingerprint, treeVars, runnerVars
<1> QED
  BY <1>3, <1>4, <1>5, <1>6, <1>7

(* Only the place the runner has reached, or what it has read, changes.    *)
LEMMA GreenOfRunnerMove ==
  ASSUME GreenInv,
         runner \in Before, committed' = committed, runner' # "commit" \/ excuse' # "none" \/ wt \in Green,
         UNCHANGED <<wt, head, pc, res, lastCheck, devDone, devDoneFP>>,
         excuse' = excuse \/ excuse' # "none",
         runner' = "recompare" /\ excuse = "none" => GreenFingerprint(rres'.fp)
  PROVE  GreenInv'
  BY DEF GreenInv, GreenResults, GreenFingerprint

LEMMA GreenOfRunner ==
  ASSUME DevTypeOK, RunnerInv, GreenInv, RunnerStep
  PROVE  GreenInv'
<1>1. UNCHANGED <<pc, res, lastCheck, devDone, devDoneFP>>
  BY RunnerOnlyMoves DEF callVars, brokerVars
<1>2. CASE RunnerStarts
  <2>1. /\ runner = "waiting" /\ runner' \in {"failed", "compare", "recover"}
        /\ UNCHANGED <<wt, head, excuse, committed>>
    BY <1>2 DEF RunnerStarts, RunnerAt, RunnerGoto, treeVars
  <2> QED
    BY <1>1, <2>1, GreenOfRunnerMove DEF Before
<1>3. CASE RunnerCompares
  <2>1. runner = "compare" /\ UNCHANGED <<wt, head, committed>>
    BY <1>3 DEF RunnerCompares, RunnerAt
  <2>2. runner' \in {"commit", "failed"} /\ (excuse' = excuse \/ excuse' # "none")
    BY <1>3 DEF RunnerCompares, RunnerGoto
  <2>3. ASSUME runner' = "commit", excuse' = "none" PROVE wt \in Green
    <3>1. Fingerprint(head, wt) = devDoneFP /\ excuse = "none"
      BY <1>3, <2>3 DEF RunnerCompares, RunnerGoto
    <3>2. GreenResults /\ devDone # {}
      BY <2>1, <3>1 DEF GreenInv, RunnerInv, Before
    <3>3. PICK t \in Green : devDoneFP = Fingerprint(Base, t)
      BY <3>2 DEF GreenResults, GreenFingerprint
    <3> QED
      BY <3>1, <3>2, <3>3, FingerprintSeparates DEF GreenResults
  <2> QED
    BY <1>1, <2>1, <2>2, <2>3, GreenOfRunnerMove DEF Before
<1>4. CASE RunnerRecovers
  <2>1. /\ runner = "recover" /\ runner' \in {"recompare", "gate_rejected"}
        /\ UNCHANGED <<wt, head, excuse, committed>>
    BY <1>4 DEF RunnerRecovers, RunnerAt, RunnerGoto, treeVars
  <2>2. ASSUME runner' = "recompare", excuse = "none" PROVE GreenFingerprint(rres'.fp)
    <3>1. PICK c \in lastCheck : c.ok /\ rres' = c
      BY <1>4, <2>2 DEF RunnerRecovers, RunnerGoto
    <3> QED
      BY <2>1, <2>2, <3>1 DEF GreenInv, GreenResults, Before
  <2> QED
    BY <1>1, <2>1, <2>2, GreenOfRunnerMove DEF Before
<1>5. CASE RunnerRecompares
  <2>1. /\ runner = "recompare" /\ runner' \in {"commit", "gate_rejected"}
        /\ UNCHANGED <<wt, head, excuse, committed>>
    BY <1>5 DEF RunnerRecompares, RunnerAt, RunnerGoto, treeVars
  <2>2. ASSUME runner' = "commit", excuse' = "none" PROVE wt \in Green
    <3>1. Fingerprint(head, wt) = rres.fp
      BY <1>5, <2>2 DEF RunnerRecompares, RunnerGoto
    <3>2. GreenResults
      BY <2>1, <2>2 DEF GreenInv, Before
    <3>3. PICK t \in Green : rres.fp = Fingerprint(Base, t)
      BY <2>1, <3>2 DEF GreenResults, GreenFingerprint
    <3> QED
      BY <3>1, <3>2, <3>3, FingerprintSeparates DEF GreenResults
  <2> QED
    BY <1>1, <2>1, <2>2, GreenOfRunnerMove DEF Before
<1>6. CASE RunnerCommits
  <2>1. runner = "commit" /\ runner' \in {"push", "dev_done", "failed"} /\ UNCHANGED <<wt, excuse>>
    BY <1>6 DEF RunnerCommits, RunnerAt, RunnerGoto
  <2>2. CASE UNCHANGED <<head, committed>>
    BY <1>1, <2>1, <2>2, GreenOfRunnerMove DEF Before
  <2>3. CASE committed' = {wt}
    <3>1. excuse = "none" => wt \in Green
      BY <2>1 DEF GreenInv, GreenResults, Before
    <3> QED
      BY <2>1, <2>3, <3>1 DEF GreenInv, Before
  <2> QED
    BY <1>6, <2>2, <2>3 DEF RunnerCommits
<1>7. CASE RunnerPushes
  <2>1. /\ runner = "push" /\ runner' \in {"dev_done", "failed"}
        /\ UNCHANGED <<wt, head, excuse, committed>>
    BY <1>7 DEF RunnerPushes, RunnerAt, RunnerGoto
  <2> QED
    BY <1>1, <2>1 DEF GreenInv, GreenResults, GreenFingerprint, Before
<1> QED
  BY <1>2, <1>3, <1>4, <1>5, <1>6, <1>7 DEF RunnerStep

LEMMA GreenStep ==
  ASSUME DevTypeOK, RunnerInv, GreenInv, [DevNext]_devVars
  PROVE  GreenInv'
<1>1. CASE UNCHANGED devVars
  BY <1>1, GreenUntouched DEF devVars, treeVars, callVars, brokerVars, runnerVars
<1>2. CASE Edit \/ AgentCommits \/ AgentEnds
  BY <1>2, GreenOfTree
<1>3. CASE RunnerStep
  BY <1>3, GreenOfRunner
<1>4. CASE \E h \in Handlers : CheckVerify(h) \/ HandlerStep(h) \/ \E r \in Requests : Reserve(h, r)
  BY <1>4, GreenOfCheck, GreenOfDevDone, DevAssumption DEF HandlerStep
<1> QED
  BY <1>1, <1>2, <1>3, <1>4 DEF DevNext

-----------------------------------------------------------------------------
(* The theorems.                                                           *)

LEMMA DevInitial == DevInit => DevIInv
<1> SUFFICES ASSUME DevInit PROVE DevIInv
  OBVIOUS
<1>1. \A h \in Handlers : pc[h] = "idle"
  BY DEF DevInit
<1>2. TerminalInv
  BY <1>1 DEF DevInit, TerminalInv, Serves
<1>3. RunnerInv
  BY DEF DevInit, RunnerInv
<1>4. GreenInv
  BY <1>1 DEF DevInit, GreenInv, GreenResults, Before
<1> QED
  BY <1>2, <1>3, <1>4, TypeInit DEF DevIInv

(* The conjunction that is inductive: what the critical sections of        *)
(* broker.go and the runner of dev.go keep true together.                  *)
THEOREM DevInvariant == DevSpec => []DevIInv
<1>1. DevIInv /\ [DevNext]_devVars => DevIInv'
  BY TypeStep, TerminalStep, RunnerInvStep, GreenStep DEF DevIInv
<1> QED
  BY <1>1, DevInitial, PTL DEF DevSpec

(* The broker and the runner keep the types of their state.                *)
THEOREM DevTypes == DevSpec => []DevTypeOK
<1>1. DevIInv => DevTypeOK
  BY DEF DevIInv
<1> QED
  BY <1>1, DevInvariant, PTL

(* reserveDevDoneTerminal and finalizeDevDoneTerminal: whatever number of  *)
(* connections is served at once, one gm_dev_done gets a verdict.          *)
THEOREM OneVerdict == DevSpec => []OneTerminal
<1>1. DevIInv => OneTerminal
  BY TerminalIsOne DEF DevIInv
<1> QED
  BY <1>1, DevInvariant, PTL

(* The same pair never leaves the terminal pending without a handler.      *)
THEOREM PendingHasHandler == DevSpec => []PendingIsServed
<1>1. DevIInv => PendingIsServed
  BY TerminalIsOne DEF DevIInv
<1> QED
  BY <1>1, DevInvariant, PTL

(* finishDevAgentWithBroker never takes an invocation whose agent was told *)
(* "accepted" for a gate rejection.                                        *)
THEOREM AcceptedStands == DevSpec => []AcceptedIsNotRejected
<1>1. DevIInv => AcceptedIsNotRejected
  BY DEF DevIInv, RunnerInv, AcceptedIsNotRejected
<1> QED
  BY <1>1, DevInvariant, PTL

(* commitDevDone commits a tree the verify command has passed on, unless   *)
(* the fingerprints were deceived in one of the ways excuse names.         *)
THEOREM GreenCommit == DevSpec => []CommittedIsGreen
<1>1. DevIInv => CommittedIsGreen
  BY DEF DevIInv, GreenInv, CommittedIsGreen
<1> QED
  BY <1>1, DevInvariant, PTL

=============================================================================
