----------------------- MODULE ReviewInvocationProofs -----------------------
(***************************************************************************)
(* Proofs about ReviewInvocation, for every number of attempts, of calls   *)
(* served at one time, of comments and of reviews, and every set of        *)
(* contents the reviewer's tree can have.                                  *)
(***************************************************************************)
EXTENDS ReviewInvocation, TLAPS

-----------------------------------------------------------------------------
(* The terminals of the brokers.                                           *)

Serves(h) == pc[h] \in SubmitPhases

(* A call on its way to the answer has the slot of its broker, and what    *)
(* the broker holds is what the call has done so far.                      *)
CallOf(h) ==
  Serves(h) =>
    /\ slot[inv[h]] = "pending" /\ slotReq[inv[h]] = req[h]
    /\ pc[h] # "reserved" => req[h] \in Valid
    /\ pc[h] = "rejected" => gateRejected[inv[h]]
    /\ pc[h] # "rejected" => ~gateRejected[inv[h]]
    /\ reviewSubmit[inv[h]] = IF pc[h] = "accepted" THEN {req[h]} ELSE {}
    /\ pc[h] \in {"passed", "accepted"} /\ req[h] \in Approvals
         => gateTree[inv[h]] = precheck[inv[h]]

CallOfSlot == \A h \in Handlers : CallOf(h)

OneServes ==
  \A h, k \in Handlers : Serves(h) /\ Serves(k) /\ inv[h] = inv[k] => h = k

(* The stored answer is what became of the verdict; an approval that was   *)
(* accepted passed the gate with the precheck's tree.                      *)
TellsOf(a) ==
  /\ slot[a] = "free" => reviewSubmit[a] = {} /\ ~gateRejected[a]
  /\ slot[a] = "final" /\ slotAnswer[a] = "ACCEPTED" =>
       reviewSubmit[a] = {slotReq[a]} /\ ~gateRejected[a]
  /\ slot[a] = "final" /\ slotAnswer[a] # "ACCEPTED" =>
       reviewSubmit[a] = {} /\ gateRejected[a]
  /\ reviewSubmit[a] # {} /\ reviewSubmit[a] \subseteq Approvals
       => gateTree[a] = precheck[a]

SlotTells == \A a \in Attempts : TellsOf(a)

TerminalInv == CallOfSlot /\ OneServes /\ SlotTells /\ SlotServed

-----------------------------------------------------------------------------
(* The runner and its attempts.                                            *)

Early == {"sweep", "precheck", "verify", "fingerprint"}

Submitted == {r \in Reviews : status[r] = "submitted"}

(* Until its agent runs, an attempt's broker is untouched.                 *)
Unopened ==
  \A a \in Attempts : a > attempt \/ (a = attempt /\ runner \in Early) => slot[a] = "free"

(* An answer is that of its attempt's slot, and only the last attempt can  *)
(* have accepted a verdict.                                                *)
AnswersOfSlots ==
  \A x \in answers :
    /\ slot[x.att] = "final" /\ x.req = slotReq[x.att] /\ x.answer = slotAnswer[x.att]
    /\ x.answer = "ACCEPTED" => x.att = attempt

AgentIsServed == agent = "running" => runner = "agent"

(* What the runner captured is the accepted verdict, to the end.           *)
StateIsAccepted ==
  /\ runner \in Early \cup {"agent"} => state = {}
  /\ runner \in {"discover", "create", "submit", "dirty"} \/ Submitted # {} => state # {}
  /\ state # {} => state = reviewSubmit[attempt]

(* The agent was started, and a verdict captured, on a tree on which the   *)
(* verify command had succeeded.                                           *)
PrecheckIsGreen ==
  ~drifted => /\ runner = "fingerprint" /\ verified => wt \in Green
              /\ runner = "agent" \/ state # {} => precheck[attempt] \in Green

RunnerInv ==
  Unopened /\ AnswersOfSlots /\ AgentIsServed /\ StateIsAccepted /\ PrecheckIsGreen

-----------------------------------------------------------------------------
(* The reviews on GitHub.                                                  *)

OnePending == \A q, r \in Pending : q = r

(* Nothing is submitted before the runner has the agent behind it, and     *)
(* nothing acknowledged before the sweep.                                  *)
SubmittedLast ==
  /\ Submitted # {} => runner \in {"dirty"} \cup Verdicts
  /\ runner = "sweep" => acked = {}

(* After the sweep no review holds a comment of an earlier round.          *)
NothingLeftOver ==
  /\ \A h \in Handlers : pc[h] \in CommentPhases => note[h] \notin Leftover
  /\ \A r \in Reviews : status[r] = "absent" => thread[r] = {}
  /\ runner \notin {"sweep", "review_failed"} =>
       \A r \in Pending : thread[r] \cap Leftover = {}

(* All acknowledged comments are in the one pending review.                *)
AckedPending ==
  Submitted = {} => acked = {} \/ \E r \in Pending : acked \subseteq thread[r]

ThreadInv ==
  OnePending /\ SubmittedLast /\ NothingLeftOver /\ AckedPending /\ CommentsKept

ReviewIInv == ReviewTypeOK /\ TerminalInv /\ RunnerInv /\ ThreadInv

-----------------------------------------------------------------------------
(* The type invariant in parts.                                            *)

TreeOK == wt \in Trees /\ base \in Trees /\ drifted \in BOOLEAN

CallsOK ==
  /\ pc \in [Handlers -> {"idle"} \cup SubmitPhases \cup CommentPhases]
  /\ inv \in [Handlers -> Attempts]
  /\ req \in [Handlers -> Requests]
  /\ note \in [Handlers -> Comments]
  /\ rid \in [Handlers -> Reviews]

TerminalsOK ==
  /\ slot \in [Attempts -> {"free", "pending", "final"}]
  /\ slotReq \in [Attempts -> Requests]
  /\ slotAnswer \in [Attempts -> {"ACCEPTED", "REVIEWER_GATE"}]
  /\ reviewSubmit \in [Attempts -> SUBSET Valid]
  /\ gateRejected \in [Attempts -> BOOLEAN]

GithubOK ==
  /\ pendingID \in [Attempts -> SUBSET Reviews]
  /\ status \in [Reviews -> {"absent", "pending", "submitted", "deleted"}]
  /\ thread \in [Reviews -> SUBSET Comments]

HistoryOK ==
  /\ answers \subseteq [att : Attempts, req : Requests, answer : {"ACCEPTED", "REVIEWER_GATE"}]
  /\ acked \subseteq Comments
  /\ gateTree \in [Attempts -> Trees]

RunnerOK ==
  /\ attempt \in Attempts
  /\ agent \in {"none", "running", "exited", "failed"}
  /\ precheck \in [Attempts -> Trees]
  /\ runner \in {"sweep", "precheck", "verify", "fingerprint", "agent", "discover", "create",
                 "submit", "dirty"} \cup Verdicts
  /\ before \in Trees
  /\ state \subseteq Valid /\ target \subseteq Reviews

LEMMA TypeParts ==
  ReviewTypeOK <=> /\ TreeOK /\ CallsOK /\ TerminalsOK /\ GithubOK /\ HistoryOK /\ RunnerOK
                   /\ verified \in BOOLEAN
BY Zenon DEF ReviewTypeOK, TreeOK, CallsOK, TerminalsOK, GithubOK, HistoryOK, RunnerOK

LEMMA TypePartsNext ==
  TreeOK' /\ CallsOK' /\ TerminalsOK' /\ GithubOK' /\ HistoryOK' /\ RunnerOK'
    /\ verified' \in BOOLEAN
  => ReviewTypeOK'
BY Zenon DEF ReviewTypeOK, TreeOK, CallsOK, TerminalsOK, GithubOK, HistoryOK, RunnerOK

LEMMA Domains ==
  /\ MaxReviewerAttempts \in Nat \ {0} /\ MaxReviews \in Nat \ {0}
  /\ NoRequest \in Requests /\ NoComment \in Comments /\ NoReview \in Reviews
  /\ Valid \subseteq Requests /\ Approvals \subseteq Valid
  /\ Leftover \subseteq Comments /\ Green \subseteq Trees
<1>1. MaxReviewerAttempts \in Nat \ {0} /\ MaxReviews \in Nat \ {0}
  BY ReviewAssumption, Zenon
<1>2. NoRequest \in Requests /\ NoComment \in Comments
  BY ReviewAssumption DEF NoRequest, NoComment
<1>3. NoReview \in Reviews
  BY <1>1 DEF NoReview, Reviews
<1>4. /\ Valid \subseteq Requests /\ Approvals \subseteq Valid
      /\ Leftover \subseteq Comments /\ Green \subseteq Trees
  BY ReviewAssumption, Zenon
<1> QED
  BY <1>1, <1>2, <1>3, <1>4

LEMMA ReviewInitInv == ReviewInit => ReviewIInv
<1> SUFFICES ASSUME ReviewInit PROVE ReviewIInv
  OBVIOUS
<1>1. 1 \in Attempts
  BY Domains DEF Attempts
<1>2. ReviewTypeOK
  <2>1. TreeOK /\ verified \in BOOLEAN
    BY Zenon DEF ReviewInit, TreeOK
  <2>2. CallsOK
    BY <1>1, Domains DEF ReviewInit, CallsOK
  <2>3. TerminalsOK /\ HistoryOK
    BY Domains DEF ReviewInit, TerminalsOK, HistoryOK
  <2>4. GithubOK
    BY Domains DEF ReviewInit, GithubOK
  <2>5. RunnerOK
    BY <1>1 DEF ReviewInit, RunnerOK
  <2> QED
    BY <2>1, <2>2, <2>3, <2>4, <2>5, TypeParts
<1>3. TerminalInv
  BY DEF ReviewInit, TerminalInv, CallOfSlot, CallOf, OneServes, SlotTells, TellsOf, SlotServed,
     Serves, SubmitPhases
<1>4. Submitted = {} /\ \A r \in Pending : r = NoReview
  BY DEF ReviewInit, Submitted, Pending
<1>5. RunnerInv
  BY <1>4 DEF ReviewInit, RunnerInv, Unopened, AnswersOfSlots, AgentIsServed, StateIsAccepted,
     PrecheckIsGreen, Early
<1>6. ThreadInv
  BY <1>4 DEF ReviewInit, ThreadInv, OnePending, SubmittedLast, NothingLeftOver, AckedPending,
     CommentsKept, Submitted, CommentPhases
<1> QED
  BY <1>2, <1>3, <1>5, <1>6 DEF ReviewIInv

-----------------------------------------------------------------------------
(* One handler moves.                                                      *)

OthersWait(h) ==
  \A k \in Handlers : k # h => /\ pc'[k] = pc[k] /\ inv'[k] = inv[k] /\ req'[k] = req[k]
                              /\ note'[k] = note[k]

LEMMA ReturnEffect ==
  ASSUME CallsOK, NEW h \in Handlers, Return(h)
  PROVE  CallsOK' /\ OthersWait(h) /\ pc'[h] = "idle"
<1>1. 1 \in Attempts
  BY Domains DEF Attempts
<1> QED
  BY <1>1, Domains DEF CallsOK, Return, Goto, OthersWait

LEMMA GotoEffect ==
  ASSUME CallsOK, NEW h \in Handlers, NEW p \in SubmitPhases \cup CommentPhases, Goto(h, p),
         UNCHANGED <<inv, req, note, rid>>
  PROVE  /\ CallsOK' /\ OthersWait(h)
         /\ pc'[h] = p /\ inv'[h] = inv[h] /\ req'[h] = req[h] /\ note'[h] = note[h]
BY DEF CallsOK, Goto, OthersWait

(* The slot of one attempt changes, by a handler that has it or takes it:  *)
(* the others' calls and slots stay what they were.                        *)
OtherSlotsStay(a) ==
  \A b \in Attempts \ {a} :
    /\ slot'[b] = slot[b] /\ slotReq'[b] = slotReq[b] /\ slotAnswer'[b] = slotAnswer[b]
    /\ reviewSubmit'[b] = reviewSubmit[b] /\ gateRejected'[b] = gateRejected[b]
    /\ gateTree'[b] = gateTree[b] /\ precheck'[b] = precheck[b]

LEMMA TerminalStep ==
  ASSUME TerminalInv, CallsOK, CallsOK', NEW h \in Handlers, NEW a \in Attempts,
         OthersWait(h), OtherSlotsStay(a),
         \/ Serves(h) /\ inv[h] = a
         \/ ~Serves(h) /\ slot[a] # "pending",
         CallOf(h)', TellsOf(a)', Serves(h)' => inv'[h] = a,
         slot'[a] = "pending" => Serves(h)' /\ slotReq'[a] = req'[h]
  PROVE  TerminalInv'
<1>1. \A k \in Handlers \ {h} : Serves(k) => inv[k] # a
  <2> SUFFICES ASSUME NEW k \in Handlers \ {h}, Serves(k), inv[k] = a PROVE FALSE
    OBVIOUS
  <2>1. CallOf(k)
    BY DEF TerminalInv, CallOfSlot
  <2>2. slot[a] = "pending"
    BY <2>1 DEF CallOf
  <2> QED
    BY <2>2 DEF TerminalInv, OneServes
<1>2. \A k \in Handlers \ {h} :
        /\ Serves(k)' <=> Serves(k)
        /\ inv'[k] = inv[k] /\ req'[k] = req[k] /\ pc'[k] = pc[k] /\ inv[k] \in Attempts
  BY DEF Serves, OthersWait, CallsOK
<1>3. CallOfSlot'
  <2>1. ASSUME NEW k \in Handlers \ {h}, Serves(k)
        PROVE  CallOf(k)'
    <3>1. inv[k] \in Attempts \ {a} /\ CallOf(k)
      BY <1>1, <1>2, <2>1 DEF TerminalInv, CallOfSlot
    <3>2. /\ slot'[inv[k]] = slot[inv[k]] /\ slotReq'[inv[k]] = slotReq[inv[k]]
          /\ reviewSubmit'[inv[k]] = reviewSubmit[inv[k]]
          /\ gateRejected'[inv[k]] = gateRejected[inv[k]]
          /\ gateTree'[inv[k]] = gateTree[inv[k]] /\ precheck'[inv[k]] = precheck[inv[k]]
      BY <3>1 DEF OtherSlotsStay
    <3> QED
      BY <1>2, <2>1, <3>1, <3>2 DEF CallOf
  <2> QED
    BY <1>2, <2>1 DEF CallOfSlot, CallOf
<1>4. OneServes'
  BY <1>1, <1>2 DEF TerminalInv, OneServes
<1>5. SlotTells'
  BY DEF TerminalInv, SlotTells, TellsOf, OtherSlotsStay
<1>6. SlotServed'
  <2> SUFFICES ASSUME NEW b \in Attempts, slot'[b] = "pending"
               PROVE  \E k \in Handlers : Serves(k)' /\ inv'[k] = b /\ req'[k] = slotReq'[b]
    BY DEF SlotServed, Serves
  <2>1. CASE b = a
    BY <2>1
  <2>2. CASE b # a
    <3>1. slot[b] = "pending" /\ slotReq'[b] = slotReq[b]
      BY <2>2 DEF OtherSlotsStay
    <3>2. PICK k \in Handlers : Serves(k) /\ inv[k] = b /\ req[k] = slotReq[b]
      BY <3>1 DEF TerminalInv, SlotServed, Serves
    <3>3. k # h
      BY <2>2, <3>2
    <3> QED
      BY <1>2, <3>1, <3>2, <3>3
  <2> QED
    BY <2>1, <2>2
<1> QED
  BY <1>3, <1>4, <1>5, <1>6 DEF TerminalInv

(* What the slots say to the runner, when one of them changes.             *)
LEMMA SlotStep ==
  ASSUME RunnerInv, RunnerOK, HistoryOK, NEW a \in Attempts, OtherSlotsStay(a),
         UNCHANGED <<runnerVars, treeVars, status>>,
         slot[a] = "pending" \/ (slot[a] = "free" /\ a = attempt /\ runner = "agent"),
         reviewSubmit[a] = {} \/ reviewSubmit'[a] = reviewSubmit[a],
         \/ answers' = answers
         \/ /\ a = attempt /\ slot'[a] = "final"
            /\ answers' = answers \cup
                  {[att |-> a, req |-> slotReq'[a], answer |-> slotAnswer'[a]]}
  PROVE  RunnerInv'
<1>1. UNCHANGED <<attempt, agent, precheck, runner, before, verified, state, target,
                  wt, base, drifted, status>>
  BY DEF runnerVars, treeVars
<1>2. attempt \in Attempts /\ Submitted' = Submitted
  BY <1>1 DEF RunnerOK, Submitted
<1>3. Unopened'
  <2>1. ~(a > attempt \/ (a = attempt /\ runner \in Early))
    BY DEF RunnerInv, Unopened, Early, Attempts, RunnerOK
  <2> QED
    BY <1>1, <2>1 DEF RunnerInv, Unopened, OtherSlotsStay
<1>4. AnswersOfSlots'
  <2>1. \A x \in answers : x.att \in Attempts \ {a}
    BY DEF RunnerInv, AnswersOfSlots, HistoryOK
  <2>2. \A x \in answers :
          /\ slot'[x.att] = "final" /\ x.req = slotReq'[x.att] /\ x.answer = slotAnswer'[x.att]
          /\ x.answer = "ACCEPTED" => x.att = attempt
    BY <2>1 DEF RunnerInv, AnswersOfSlots, OtherSlotsStay
  <2> QED
    BY <1>1, <2>2 DEF AnswersOfSlots
<1>5. StateIsAccepted'
  BY <1>1, <1>2 DEF RunnerInv, StateIsAccepted, OtherSlotsStay
<1>6. AgentIsServed' /\ PrecheckIsGreen'
  BY <1>1 DEF RunnerInv, AgentIsServed, PrecheckIsGreen
<1> QED
  BY <1>3, <1>4, <1>5, <1>6 DEF RunnerInv

-----------------------------------------------------------------------------
(* What a step that concerns none of a part's state does to it.            *)

LEMMA TerminalAside ==
  ASSUME TerminalInv, UNCHANGED <<termVars, gateTree, precheck>>,
         \A h \in Handlers :
           /\ Serves(h)' <=> Serves(h)
           /\ Serves(h) => pc'[h] = pc[h] /\ inv'[h] = inv[h] /\ req'[h] = req[h]
  PROVE  TerminalInv'
<1>1. UNCHANGED <<slot, slotReq, slotAnswer, reviewSubmit, gateRejected>>
  BY DEF termVars
<1>2. CallOfSlot'
  <2> SUFFICES ASSUME NEW h \in Handlers, Serves(h)' PROVE CallOf(h)'
    BY DEF CallOfSlot, CallOf
  <2>1. CallOf(h) /\ Serves(h) /\ pc'[h] = pc[h] /\ inv'[h] = inv[h] /\ req'[h] = req[h]
    BY DEF TerminalInv, CallOfSlot
  <2> QED
    BY <1>1, <2>1 DEF CallOf
<1>3. SlotTells'
  BY <1>1 DEF TerminalInv, SlotTells, TellsOf
<1>4. OneServes' /\ SlotServed'
  BY <1>1 DEF TerminalInv, OneServes, SlotServed, Serves
<1> QED
  BY <1>2, <1>3, <1>4 DEF TerminalInv

LEMMA RunnerAside ==
  ASSUME RunnerInv, UNCHANGED <<termVars, answers, treeVars, runnerVars>>,
         Submitted' = Submitted
  PROVE  RunnerInv'
<1>1. UNCHANGED <<slot, slotReq, slotAnswer, reviewSubmit, gateRejected, answers, wt, drifted,
                  attempt, agent, precheck, runner, verified, state>>
  BY DEF termVars, treeVars, runnerVars
<1> QED
  BY <1>1 DEF RunnerInv, Unopened, AnswersOfSlots, AgentIsServed, StateIsAccepted, PrecheckIsGreen

(* The runner never sweeps twice, and is done only once.                   *)
RunnerGoesOn ==
  \/ runner' = runner
  \/ runner \notin {"sweep", "review_failed", "dirty"} \cup Verdicts /\ runner' # "sweep"
  \/ runner' = "review_failed"
  \/ runner = "dirty" /\ runner' \in Verdicts

LEMMA ThreadAside ==
  ASSUME ThreadInv, UNCHANGED <<githubVars, acked>>,
         \A h \in Handlers :
           pc'[h] \in CommentPhases =>
             (pc[h] \in CommentPhases /\ note'[h] = note[h]) \/ note'[h] \notin Leftover,
         RunnerGoesOn
  PROVE  ThreadInv'
<1>1. status' = status /\ thread' = thread /\ acked' = acked
  BY DEF githubVars
<1>2. Pending' = Pending /\ Submitted' = Submitted
  BY <1>1 DEF Pending, Submitted
<1>3. OnePending' /\ AckedPending' /\ CommentsKept'
  BY <1>1, <1>2 DEF ThreadInv, OnePending, AckedPending, CommentsKept
<1>4. SubmittedLast'
  BY <1>1, <1>2 DEF ThreadInv, SubmittedLast, RunnerGoesOn, Verdicts
<1>5. NothingLeftOver'
  BY <1>1, <1>2 DEF ThreadInv, NothingLeftOver, RunnerGoesOn, Verdicts
<1> QED
  BY <1>3, <1>4, <1>5 DEF ThreadInv

(* A call of the terminal leaves GitHub, the tree and the runner alone.    *)
TerminalOnly ==
  UNCHANGED <<treeVars, pendingID, githubVars, acked, runnerVars>>

LEMMA TerminalOnlyInv ==
  ASSUME ReviewIInv, TerminalOnly, CallsOK', TerminalsOK', HistoryOK', TerminalInv', RunnerInv',
         \A h \in Handlers :
           pc'[h] \in CommentPhases => pc[h] \in CommentPhases /\ note'[h] = note[h]
  PROVE  ReviewIInv'
<1>1. UNCHANGED <<wt, base, drifted, pendingID, status, thread, acked, attempt, agent, precheck,
                  runner, before, verified, state, target>>
  BY DEF TerminalOnly, treeVars, githubVars, runnerVars
<1>2. ReviewTypeOK'
  <2>1. TreeOK /\ GithubOK /\ RunnerOK /\ verified \in BOOLEAN
    BY TypeParts DEF ReviewIInv
  <2>2. TreeOK' /\ verified' \in BOOLEAN
    BY <1>1, <2>1, Zenon DEF TreeOK
  <2>3. GithubOK' /\ RunnerOK'
    BY <1>1, <2>1 DEF GithubOK, RunnerOK
  <2> QED
    BY <2>2, <2>3, TypePartsNext
<1>3. ThreadInv'
  BY <1>1, ThreadAside DEF ReviewIInv, githubVars, RunnerGoesOn
<1> QED
  BY <1>2, <1>3 DEF ReviewIInv

(* What is known of a call that has the slot.                              *)
LEMMA ServingFacts ==
  ASSUME ReviewIInv, NEW h \in Handlers, Serves(h)
  PROVE  /\ inv[h] \in Attempts /\ req[h] \in Requests
         /\ CallOf(h) /\ slot[inv[h]] = "pending" /\ slotReq[inv[h]] = req[h]
         /\ TreeOK /\ CallsOK /\ TerminalsOK /\ GithubOK /\ HistoryOK /\ RunnerOK
         /\ TerminalInv /\ RunnerInv
<1>1. TreeOK /\ CallsOK /\ TerminalsOK /\ GithubOK /\ HistoryOK /\ RunnerOK
  BY TypeParts DEF ReviewIInv
<1>2. CallOf(h)
  BY DEF ReviewIInv, TerminalInv, CallOfSlot
<1>3. inv[h] \in Attempts /\ req[h] \in Requests
  BY <1>1 DEF CallsOK
<1> QED
  BY <1>1, <1>2, <1>3 DEF CallOf, ReviewIInv

LEMMA ReserveInv ==
  ASSUME ReviewIInv, NEW h \in Handlers, NEW r \in Requests, Reserve(h, r)
  PROVE  ReviewIInv'
<1>1. /\ agent = "running" /\ pc[h] = "idle"
      /\ UNCHANGED <<note, rid, slotAnswer, reviewSubmit, gateRejected, gateTree>>
      /\ TerminalOnly
  BY DEF Reserve, TerminalOnly
<1>2. /\ CallsOK /\ TerminalsOK /\ HistoryOK /\ RunnerOK /\ runner = "agent"
      /\ attempt \in Attempts
  BY <1>1, TypeParts DEF ReviewIInv, RunnerInv, AgentIsServed, RunnerOK
<1>3. CASE /\ slot[attempt] = "final" /\ slotReq[attempt] = r
           /\ Reply(attempt, r, slotAnswer[attempt])
           /\ UNCHANGED <<pc, inv, req, slot, slotReq>>
  <2> DEFINE x == [att |-> attempt, req |-> r, answer |-> slotAnswer[attempt]]
  <2>1. answers' = answers \cup {x}
    BY <1>1, <1>3 DEF Reply, Listening
  <2>2. CallsOK' /\ TerminalsOK'
    BY <1>1, <1>2, <1>3 DEF CallsOK, TerminalsOK
  <2>3. HistoryOK'
    BY <1>1, <1>2, <2>1 DEF HistoryOK, TerminalsOK, TerminalOnly
  <2>4. TerminalInv'
    <3>1. UNCHANGED precheck
      BY <1>1 DEF TerminalOnly, runnerVars
    <3> QED
      BY <1>1, <1>3, <3>1, TerminalAside DEF ReviewIInv, termVars, Serves
  <2>5. RunnerInv'
    <3>1. UNCHANGED <<slot, slotReq, slotAnswer, reviewSubmit, gateRejected, wt, drifted, status,
                      attempt, agent, precheck, runner, verified, state>>
      BY <1>1, <1>3 DEF TerminalOnly, treeVars, githubVars, runnerVars
    <3>2. AnswersOfSlots'
      BY <1>3, <2>1, <3>1 DEF ReviewIInv, RunnerInv, AnswersOfSlots
    <3> QED
      BY <3>1, <3>2 DEF ReviewIInv, RunnerInv, Unopened, AgentIsServed, StateIsAccepted,
         PrecheckIsGreen, Submitted
  <2> QED
    BY <1>1, <1>3, <2>2, <2>3, <2>4, <2>5, TerminalOnlyInv
<1>4. CASE /\ slot[attempt] = "free"
           /\ slot' = [slot EXCEPT ![attempt] = "pending"]
           /\ slotReq' = [slotReq EXCEPT ![attempt] = r]
           /\ inv' = [inv EXCEPT ![h] = attempt]
           /\ req' = [req EXCEPT ![h] = r]
           /\ Goto(h, "reserved")
           /\ UNCHANGED answers
  <2>1. /\ CallsOK' /\ OthersWait(h)
        /\ pc'[h] = "reserved" /\ inv'[h] = attempt /\ req'[h] = r
    BY <1>1, <1>2, <1>4 DEF CallsOK, Goto, OthersWait, SubmitPhases
  <2>2. TerminalsOK' /\ HistoryOK'
    BY <1>1, <1>2, <1>4 DEF TerminalsOK, HistoryOK, TerminalOnly
  <2>3. PICK a \in Attempts : a = attempt
    BY <1>2
  <2>4. /\ OtherSlotsStay(a) /\ slot'[a] = "pending" /\ slotReq'[a] = r
        /\ UNCHANGED <<precheck, runnerVars, treeVars, status>>
    BY <1>1, <1>2, <1>4, <2>3 DEF OtherSlotsStay, TerminalsOK, TerminalOnly, runnerVars, githubVars
  <2>5. reviewSubmit[a] = {} /\ ~gateRejected[a]
    BY <1>2, <1>4, <2>3 DEF ReviewIInv, TerminalInv, SlotTells, TellsOf
  <2>6. CallOf(h)' /\ TellsOf(a)' /\ ~Serves(h) /\ Serves(h)'
    BY <1>1, <2>1, <2>3, <2>4, <2>5 DEF CallOf, TellsOf, Serves, SubmitPhases
  <2>7. TerminalInv' /\ RunnerInv'
    <3>1. slot[a] = "free" /\ inv'[h] = a
      BY <1>4, <2>1, <2>3
    <3>2. TerminalInv'
      BY <1>2, <2>1, <2>4, <2>6, <3>1, TerminalStep DEF ReviewIInv
    <3>3. RunnerInv'
      BY <1>1, <1>2, <1>4, <2>3, <2>4, <3>1, SlotStep DEF ReviewIInv
    <3> QED
      BY <3>2, <3>3
  <2>8. \A k \in Handlers :
          pc'[k] \in CommentPhases => pc[k] \in CommentPhases /\ note'[k] = note[k]
    BY <2>1 DEF OthersWait, CommentPhases
  <2> QED
    BY <1>1, <2>1, <2>2, <2>7, <2>8, TerminalOnlyInv
<1> QED
  BY <1>3, <1>4 DEF Reserve

(* The steps of a call that keeps the slot.                                *)
LEMMA GoesOnInv ==
  ASSUME ReviewIInv, NEW h \in Handlers, Serves(h), NEW a \in Attempts, inv[h] = a,
         NEW p \in SubmitPhases, Goto(h, p),
         UNCHANGED <<inv, req, note, rid, slot, slotReq, slotAnswer, answers>>, TerminalOnly,
         TerminalsOK', HistoryOK', OtherSlotsStay(a),
         CallOf(h)', TellsOf(a)',
         reviewSubmit[a] = {}
  PROVE  ReviewIInv'
<1>1. /\ slot[a] = "pending" /\ slotReq[a] = req[h]
      /\ CallsOK /\ HistoryOK /\ RunnerOK /\ TerminalInv /\ RunnerInv
  BY ServingFacts
<1>2. /\ CallsOK' /\ OthersWait(h) /\ pc'[h] = p /\ inv'[h] = a /\ req'[h] = req[h]
  BY <1>1, GotoEffect
<1>3. Serves(h)'
  BY <1>2 DEF Serves
<1>4. slotReq'[a] = req'[h]
  BY <1>1, <1>2
<1>5. UNCHANGED <<runnerVars, treeVars, status>>
  BY DEF TerminalOnly, githubVars
<1>6. TerminalInv'
  BY <1>1, <1>2, <1>3, <1>4, TerminalStep
<1>7. RunnerInv'
  BY <1>1, <1>5, SlotStep
<1>8. \A k \in Handlers :
        pc'[k] \in CommentPhases => pc[k] \in CommentPhases /\ note'[k] = note[k]
  BY <1>2 DEF OthersWait, CommentPhases, SubmitPhases
<1> QED
  BY <1>2, <1>6, <1>7, <1>8, TerminalOnlyInv

(* The steps with which a call returns.                                    *)
LEMMA ReturnsInv ==
  ASSUME ReviewIInv, NEW h \in Handlers, Serves(h), NEW a \in Attempts, inv[h] = a,
         Return(h), TerminalOnly,
         UNCHANGED <<reviewSubmit, gateRejected, gateTree>>,
         TerminalsOK', HistoryOK', OtherSlotsStay(a), TellsOf(a)',
         slot'[a] # "pending",
         \/ answers' = answers
         \/ /\ a = attempt /\ slot'[a] = "final"
            /\ answers' = answers \cup
                  {[att |-> a, req |-> slotReq'[a], answer |-> slotAnswer'[a]]}
  PROVE  ReviewIInv'
<1>1. /\ slot[a] = "pending"
      /\ CallsOK /\ HistoryOK /\ RunnerOK /\ TerminalInv /\ RunnerInv
  BY ServingFacts
<1>2. /\ CallsOK' /\ OthersWait(h) /\ pc'[h] = "idle"
  BY <1>1, ReturnEffect
<1>3. ~Serves(h)' /\ CallOf(h)'
  BY <1>2 DEF Serves, SubmitPhases, CallOf
<1>4. UNCHANGED <<runnerVars, treeVars, status>>
  BY DEF TerminalOnly, githubVars
<1>5. TerminalInv'
  BY <1>1, <1>2, <1>3, <1>4, TerminalStep
<1>6. RunnerInv'
  BY <1>1, <1>4, SlotStep
<1>7. \A k \in Handlers :
        pc'[k] \in CommentPhases => pc[k] \in CommentPhases /\ note'[k] = note[k]
  BY <1>2 DEF OthersWait, CommentPhases
<1> QED
  BY <1>2, <1>5, <1>6, <1>7, TerminalOnlyInv

LEMMA ValidateInv ==
  ASSUME ReviewIInv, NEW h \in Handlers, Validate(h)
  PROVE  ReviewIInv'
<1>1. /\ pc[h] = "reserved"
      /\ UNCHANGED <<slotAnswer, reviewSubmit, gateRejected, answers, gateTree>> /\ TerminalOnly
  BY DEF Validate, TerminalOnly, histVars
<1>2. Serves(h)
  BY <1>1 DEF Serves, SubmitPhases
<1>3. PICK a \in Attempts : inv[h] = a
  BY <1>2, ServingFacts
<1>4. /\ CallOf(h) /\ slot[a] = "pending" /\ TerminalsOK /\ HistoryOK
      /\ reviewSubmit[a] = {} /\ ~gateRejected[a]
  BY <1>1, <1>2, <1>3, ServingFacts DEF CallOf
<1>5. UNCHANGED <<precheck, acked>>
  BY <1>1 DEF TerminalOnly, runnerVars
<1>6. HistoryOK'
  BY <1>1, <1>4, <1>5 DEF HistoryOK
<1>7. CASE Release(h)
  <2>1. /\ slot' = [slot EXCEPT ![a] = "free"] /\ slotReq' = [slotReq EXCEPT ![a] = NoRequest]
        /\ Return(h)
    BY <1>3, <1>7 DEF Release
  <2>2. TerminalsOK' /\ OtherSlotsStay(a) /\ slot'[a] = "free"
    BY <1>1, <1>4, <1>5, <2>1, Domains DEF TerminalsOK, OtherSlotsStay
  <2>3. TellsOf(a)'
    BY <1>1, <1>4, <2>2 DEF TellsOf
  <2> QED
    BY <1>1, <1>2, <1>3, <1>6, <2>1, <2>2, <2>3, ReturnsInv
<1>8. CASE /\ req[h] \in Valid
           /\ Goto(h, IF req[h] \in Approvals THEN "gate" ELSE "passed")
           /\ UNCHANGED <<inv, req, note, rid, slot, slotReq>>
  <2>1. PICK p \in {"gate", "passed"} : Goto(h, p) /\ (p = "passed" => req[h] \notin Approvals)
    BY <1>8
  <2>2. TerminalsOK' /\ OtherSlotsStay(a) /\ TellsOf(a)'
    BY <1>1, <1>4, <1>5, <1>8 DEF TerminalsOK, OtherSlotsStay, TellsOf
  <2>3. p \in SubmitPhases /\ pc'[h] = p
    BY <1>2, <2>1, ServingFacts DEF SubmitPhases, CallsOK, Goto
  <2>4. CallOf(h)'
    BY <1>1, <1>2, <1>3, <1>4, <1>8, <2>1, <2>3 DEF CallOf
  <2> QED
    BY <1>1, <1>2, <1>3, <1>4, <1>6, <1>8, <2>1, <2>2, <2>3, <2>4, GoesOnInv
<1> QED
  BY <1>7, <1>8 DEF Validate

(* The gate sees the tree; what it lets pass is the precheck's.            *)
LEMMA GateInv ==
  ASSUME ReviewIInv, NEW h \in Handlers, Gate(h)
  PROVE  ReviewIInv'
<1>1. /\ pc[h] = "gate" /\ gateTree' = [gateTree EXCEPT ![inv[h]] = wt]
      /\ UNCHANGED <<inv, req, note, rid, slot, slotReq, slotAnswer, reviewSubmit, answers>>
      /\ TerminalOnly
  BY DEF Gate, TerminalOnly
<1>2. Serves(h)
  BY <1>1 DEF Serves, SubmitPhases
<1>3. PICK a \in Attempts : inv[h] = a
  BY <1>2, ServingFacts
<1>4. /\ CallOf(h) /\ slot[a] = "pending" /\ slotReq[a] = req[h] /\ req[h] \in Valid
      /\ reviewSubmit[a] = {} /\ ~gateRejected[a]
      /\ TerminalsOK /\ HistoryOK /\ CallsOK /\ TreeOK
  BY <1>1, <1>2, <1>3, ServingFacts DEF CallOf
<1>5. UNCHANGED <<precheck, acked>>
  BY <1>1 DEF TerminalOnly, runnerVars
<1>6. /\ HistoryOK' /\ gateTree'[a] = wt
      /\ \A b \in Attempts \ {a} : gateTree'[b] = gateTree[b]
  BY <1>1, <1>3, <1>4, <1>5 DEF HistoryOK, TreeOK
<1>7. CASE wt = precheck[a] /\ Goto(h, "passed") /\ UNCHANGED gateRejected
  <2>1. TerminalsOK' /\ OtherSlotsStay(a)
    BY <1>1, <1>4, <1>5, <1>6, <1>7 DEF TerminalsOK, OtherSlotsStay
  <2>2. TellsOf(a)'
    BY <1>1, <1>4, <1>5, <1>6, <1>7 DEF TellsOf
  <2>3. "passed" \in SubmitPhases /\ pc'[h] = "passed"
    BY <1>4, <1>7 DEF SubmitPhases, CallsOK, Goto
  <2>4. CallOf(h)'
    BY <1>1, <1>3, <1>4, <1>5, <1>6, <1>7, <2>3 DEF CallOf
  <2> QED
    BY <1>1, <1>2, <1>3, <1>4, <1>6, <1>7, <2>1, <2>2, <2>3, <2>4, GoesOnInv
<1>8. CASE gateRejected' = [gateRejected EXCEPT ![a] = TRUE] /\ Goto(h, "rejected")
  <2>1. /\ TerminalsOK' /\ gateRejected'[a] = TRUE
        /\ \A b \in Attempts \ {a} : gateRejected'[b] = gateRejected[b]
    BY <1>1, <1>4, <1>8 DEF TerminalsOK
  <2>2. OtherSlotsStay(a)
    BY <1>1, <1>5, <1>6, <2>1 DEF OtherSlotsStay
  <2>3. TellsOf(a)'
    BY <1>1, <1>4, <2>1 DEF TellsOf
  <2>4. "rejected" \in SubmitPhases /\ pc'[h] = "rejected"
    BY <1>4, <1>8 DEF SubmitPhases, CallsOK, Goto
  <2>5. CallOf(h)'
    BY <1>1, <1>3, <1>4, <2>1, <2>4 DEF CallOf
  <2> QED
    BY <1>1, <1>2, <1>3, <1>4, <1>6, <1>8, <2>1, <2>2, <2>3, <2>4, <2>5, GoesOnInv
<1> QED
  BY <1>3, <1>7, <1>8 DEF Gate

LEMMA SetReviewSubmitInv ==
  ASSUME ReviewIInv, NEW h \in Handlers, SetReviewSubmit(h)
  PROVE  ReviewIInv'
<1>1. /\ pc[h] = "passed" /\ reviewSubmit' = [reviewSubmit EXCEPT ![inv[h]] = {req[h]}]
      /\ Goto(h, "accepted")
      /\ UNCHANGED <<inv, req, note, rid, slot, slotReq, slotAnswer, gateRejected, answers,
                     gateTree>>
      /\ TerminalOnly
  BY DEF SetReviewSubmit, TerminalOnly, histVars
<1>2. Serves(h)
  BY <1>1 DEF Serves, SubmitPhases
<1>3. PICK a \in Attempts : inv[h] = a
  BY <1>2, ServingFacts
<1>4. /\ slot[a] = "pending" /\ slotReq[a] = req[h] /\ req[h] \in Valid
      /\ reviewSubmit[a] = {} /\ ~gateRejected[a]
      /\ req[h] \in Approvals => gateTree[a] = precheck[a]
      /\ TerminalsOK /\ HistoryOK /\ CallsOK
  BY <1>1, <1>2, <1>3, ServingFacts DEF CallOf
<1>5. UNCHANGED <<precheck, acked>>
  BY <1>1 DEF TerminalOnly, runnerVars
<1>6. HistoryOK'
  BY <1>1, <1>4, <1>5 DEF HistoryOK
<1>7. /\ TerminalsOK' /\ reviewSubmit'[a] = {req[h]}
      /\ \A b \in Attempts \ {a} : reviewSubmit'[b] = reviewSubmit[b]
  BY <1>1, <1>3, <1>4 DEF TerminalsOK
<1>8. OtherSlotsStay(a)
  BY <1>1, <1>5, <1>7 DEF OtherSlotsStay
<1>9. TellsOf(a)'
  BY <1>1, <1>4, <1>5, <1>7 DEF TellsOf
<1>10. "accepted" \in SubmitPhases /\ pc'[h] = "accepted"
  BY <1>1, <1>4 DEF SubmitPhases, CallsOK, Goto
<1>11. CallOf(h)'
  BY <1>1, <1>3, <1>4, <1>5, <1>7, <1>10 DEF CallOf
<1> QED
  BY <1>1, <1>2, <1>3, <1>4, <1>6, <1>7, <1>8, <1>9, <1>10, <1>11, GoesOnInv

(* The answer that is stored is the one the agent gets, if it is there.    *)
LEMMA AnswerSubmitInv ==
  ASSUME ReviewIInv, NEW h \in Handlers, AnswerSubmit(h)
  PROVE  ReviewIInv'
<1>1. PICK x \in {"ACCEPTED", "REVIEWER_GATE"} :
        /\ Finalize(h, x)
        /\ pc[h] = IF x = "ACCEPTED" THEN "accepted" ELSE "rejected"
  BY DEF AnswerSubmit
<1>2. UNCHANGED <<reviewSubmit, gateRejected, gateTree>> /\ TerminalOnly
  BY DEF AnswerSubmit, TerminalOnly
<1>3. Serves(h)
  BY <1>1 DEF Serves, SubmitPhases
<1>4. PICK a \in Attempts : inv[h] = a
  BY <1>3, ServingFacts
<1>5. /\ slot[a] = "pending" /\ TerminalsOK /\ HistoryOK /\ CallsOK /\ req[h] \in Requests
      /\ x = "ACCEPTED" => reviewSubmit[a] = {req[h]} /\ ~gateRejected[a]
      /\ x # "ACCEPTED" => reviewSubmit[a] = {} /\ gateRejected[a]
      /\ TellsOf(a)
  <2>1. TellsOf(a)
    BY DEF ReviewIInv, TerminalInv, SlotTells
  <2> QED
    BY <1>1, <1>3, <1>4, <2>1, ServingFacts DEF CallOf
<1>6. UNCHANGED <<precheck, acked, attempt, agent>>
  BY <1>2 DEF TerminalOnly, runnerVars
<1>7. /\ slot' = [slot EXCEPT ![a] = "final"] /\ slotReq' = [slotReq EXCEPT ![a] = req[h]]
      /\ slotAnswer' = [slotAnswer EXCEPT ![a] = x]
      /\ Reply(a, req[h], x) /\ Return(h)
  BY <1>1, <1>4 DEF Finalize
<1>8. /\ TerminalsOK' /\ OtherSlotsStay(a)
      /\ slot'[a] = "final" /\ slotReq'[a] = req[h] /\ slotAnswer'[a] = x
  BY <1>1, <1>2, <1>5, <1>6, <1>7 DEF TerminalsOK, OtherSlotsStay
<1>9. TellsOf(a)'
  BY <1>2, <1>5, <1>6, <1>8 DEF TellsOf
<1>10. \/ answers' = answers
       \/ a = attempt /\ answers' = answers \cup {[att |-> a, req |-> req[h], answer |-> x]}
  BY <1>7 DEF Reply, Listening
<1>11. HistoryOK'
  BY <1>1, <1>2, <1>5, <1>6, <1>10 DEF HistoryOK
<1> QED
  BY <1>2, <1>3, <1>4, <1>7, <1>8, <1>9, <1>10, <1>11, ReturnsInv

-----------------------------------------------------------------------------
(* The comments.                                                           *)

(* A step of a comment call: terminals, tree and runner are left alone.    *)
CommentOnly(h) ==
  /\ OthersWait(h) /\ CallsOK' /\ GithubOK'
  /\ pc[h] \in {"idle"} \cup CommentPhases /\ pc'[h] \in {"idle"} \cup CommentPhases
  /\ UNCHANGED <<termVars, treeVars, answers, gateTree, runnerVars>>
  /\ Submitted' = Submitted /\ acked' \subseteq Comments

LEMMA CommentOnlyInv ==
  ASSUME ReviewIInv, NEW h \in Handlers, CommentOnly(h), ThreadInv'
  PROVE  ReviewIInv'
<1>1. UNCHANGED <<slot, slotReq, slotAnswer, reviewSubmit, gateRejected, wt, base, drifted,
                  answers, gateTree, attempt, agent, precheck, runner, before, verified, state,
                  target>>
  BY DEF CommentOnly, termVars, treeVars, runnerVars
<1>2. ReviewTypeOK'
  <2>1. TreeOK /\ TerminalsOK /\ HistoryOK /\ RunnerOK /\ verified \in BOOLEAN
    BY TypeParts DEF ReviewIInv
  <2>2. TreeOK' /\ verified' \in BOOLEAN
    BY <1>1, <2>1, Zenon DEF TreeOK
  <2>3. TerminalsOK' /\ HistoryOK' /\ RunnerOK'
    BY <1>1, <2>1 DEF CommentOnly, TerminalsOK, HistoryOK, RunnerOK
  <2>4. CallsOK' /\ GithubOK'
    BY DEF CommentOnly
  <2> QED
    BY <2>2, <2>3, <2>4, TypePartsNext
<1>3. TerminalInv'
  <2>1. ~Serves(h) /\ ~Serves(h)'
    BY DEF CommentOnly, Serves, SubmitPhases, CommentPhases
  <2>2. \A k \in Handlers :
          /\ Serves(k)' <=> Serves(k)
          /\ Serves(k) => pc'[k] = pc[k] /\ inv'[k] = inv[k] /\ req'[k] = req[k]
    BY <2>1 DEF CommentOnly, OthersWait, Serves
  <2> QED
    BY <1>1, <2>2, TerminalAside DEF ReviewIInv, CommentOnly
<1>4. RunnerInv'
  BY RunnerAside DEF ReviewIInv, CommentOnly
<1> QED
  BY <1>2, <1>3, <1>4 DEF ReviewIInv

(* A call that changes nothing on GitHub.                                  *)
LEMMA CommentReads ==
  ASSUME ReviewIInv, NEW h \in Handlers, CommentOnly(h), UNCHANGED <<githubVars, acked>>,
         pc'[h] \in CommentPhases =>
           (pc[h] \in CommentPhases /\ note'[h] = note[h]) \/ note'[h] \notin Leftover
  PROVE  ReviewIInv'
<1>1. \A k \in Handlers :
        pc'[k] \in CommentPhases =>
          (pc[k] \in CommentPhases /\ note'[k] = note[k]) \/ note'[k] \notin Leftover
  BY DEF CommentOnly, OthersWait
<1>2. runner' = runner
  BY DEF CommentOnly, runnerVars
<1>3. ThreadInv'
  BY <1>1, <1>2, ThreadAside DEF ReviewIInv, RunnerGoesOn
<1> QED
  BY <1>3, CommentOnlyInv

LEMMA CallTypes ==
  ASSUME ReviewIInv
  PROVE  /\ CallsOK /\ TerminalsOK /\ GithubOK /\ HistoryOK /\ RunnerOK
         /\ acked \subseteq Comments /\ attempt \in Attempts
BY TypeParts DEF ReviewIInv, HistoryOK, RunnerOK

LEMMA CommentInv ==
  ASSUME ReviewIInv, NEW h \in Handlers, NEW c \in Comments \ Leftover, Comment(h, c)
  PROVE  ReviewIInv'
<1>1. /\ pc[h] = "idle" /\ Goto(h, "ensure")
      /\ inv' = [inv EXCEPT ![h] = attempt] /\ note' = [note EXCEPT ![h] = c]
      /\ UNCHANGED <<req, rid, termVars, treeVars, pendingID, githubVars, histVars, runnerVars>>
  BY DEF Comment
<1>2. CallsOK' /\ OthersWait(h) /\ pc'[h] = "ensure" /\ note'[h] = c
  BY <1>1, CallTypes DEF CallsOK, Goto, OthersWait, CommentPhases
<1>3. GithubOK' /\ Submitted' = Submitted /\ UNCHANGED <<answers, gateTree, acked>>
  BY <1>1, CallTypes DEF GithubOK, githubVars, Submitted, histVars
<1>4. CommentOnly(h)
  BY <1>1, <1>2, <1>3, CallTypes DEF CommentOnly, CommentPhases
<1> QED
  BY <1>1, <1>2, <1>3, <1>4, CommentReads

(* The calls that read the broker or GitHub, or store what they found.     *)
LEMMA LookupInv ==
  ASSUME ReviewIInv, NEW h \in Handlers, Ensure(h) \/ Discover(h) \/ Store(h)
  PROVE  ReviewIInv'
<1>1. /\ pc[h] \in CommentPhases
      /\ UNCHANGED <<termVars, treeVars, githubVars, histVars, runnerVars>>
  BY DEF Ensure, Discover, Store, CommentPhases
<1>2. /\ CallsOK /\ GithubOK /\ rid[h] \in Reviews /\ inv[h] \in Attempts
  BY CallTypes DEF CallsOK
<1>3. GithubOK'
  <2>1. pendingID' \in [Attempts -> SUBSET Reviews]
    BY <1>2 DEF Ensure, Discover, Store, GithubOK
  <2> QED
    BY <1>1, <1>2, <2>1 DEF GithubOK, githubVars
<1>4. /\ CallsOK' /\ OthersWait(h) /\ pc'[h] \in {"idle"} \cup CommentPhases
      /\ pc'[h] \in CommentPhases => note'[h] = note[h]
  <2>1. CASE Return(h)
    BY <1>2, <2>1, ReturnEffect DEF CommentPhases
  <2>2. ASSUME NEW p \in CommentPhases, Goto(h, p), UNCHANGED <<inv, req, note>>,
               rid' = rid \/ \E r \in Reviews : rid' = [rid EXCEPT ![h] = r]
        PROVE  CallsOK' /\ OthersWait(h) /\ pc'[h] = p /\ note' = note
    BY <1>2, <2>2 DEF CallsOK, OthersWait, Goto
  <2>3. \A r \in pendingID[inv[h]] \cup Pending : r \in Reviews
    BY <1>2 DEF GithubOK, Pending
  <2>4. CASE ~Return(h)
    <3>1. PICK p \in CommentPhases :
            /\ Goto(h, p) /\ UNCHANGED <<inv, req, note>>
            /\ rid' = rid \/ \E r \in Reviews : rid' = [rid EXCEPT ![h] = r]
      BY <2>3, <2>4 DEF Ensure, Discover, Store, CommentPhases
    <3> QED
      BY <2>2, <3>1
  <2> QED
    BY <2>1, <2>4
<1>5. Submitted' = Submitted /\ UNCHANGED <<answers, gateTree, acked>>
  BY <1>1 DEF githubVars, Submitted, histVars
<1>6. CommentOnly(h)
  BY <1>1, <1>3, <1>4, <1>5, CallTypes DEF CommentOnly
<1> QED
  BY <1>1, <1>4, <1>5, <1>6, CommentReads

(* GitHub makes a review: there was none pending, so nothing is            *)
(* acknowledged yet, and the new one is empty.                             *)
LEMMA NewPendingInv ==
  ASSUME ThreadInv, GithubOK, NEW r \in Reviews, NewPending(r),
         UNCHANGED <<thread, acked>>, RunnerGoesOn,
         \A h \in Handlers :
           pc'[h] \in CommentPhases => pc[h] \in CommentPhases /\ note'[h] = note[h]
  PROVE  /\ ThreadInv' /\ Submitted' = Submitted
         /\ status' \in [Reviews -> {"absent", "pending", "submitted", "deleted"}]
<1>1. /\ Pending = {} /\ status[r] = "absent" /\ thread[r] = {}
      /\ status' = [status EXCEPT ![r] = "pending"]
  BY DEF NewPending, ThreadInv, NothingLeftOver
<1>2. /\ status' \in [Reviews -> {"absent", "pending", "submitted", "deleted"}]
      /\ status'[r] = "pending" /\ \A q \in Reviews \ {r} : status'[q] = status[q]
  BY <1>1 DEF GithubOK
<1>3. Pending' = {r} /\ Submitted' = Submitted
  BY <1>1, <1>2 DEF Pending, Submitted
<1>4. OnePending' /\ SubmittedLast'
  BY <1>3 DEF ThreadInv, OnePending, SubmittedLast, RunnerGoesOn, Verdicts
<1>5. NothingLeftOver'
  BY <1>1, <1>2, <1>3 DEF ThreadInv, NothingLeftOver
<1>6. AckedPending'
  BY <1>1, <1>3 DEF ThreadInv, AckedPending
<1>7. CommentsKept'
  BY <1>1, <1>2 DEF ThreadInv, CommentsKept
<1> QED
  BY <1>2, <1>3, <1>4, <1>5, <1>6, <1>7 DEF ThreadInv

LEMMA CreateInv ==
  ASSUME ReviewIInv, NEW h \in Handlers, Create(h)
  PROVE  ReviewIInv'
<1>1. /\ pc[h] = "create"
      /\ UNCHANGED <<thread, termVars, treeVars, pendingID, histVars, runnerVars>>
  BY DEF Create
<1>2. CallsOK /\ GithubOK /\ UNCHANGED <<answers, gateTree, acked>>
  BY <1>1, CallTypes DEF histVars
<1>3. /\ CallsOK' /\ OthersWait(h) /\ pc'[h] \in {"idle", "store"}
      /\ pc'[h] \in CommentPhases => note'[h] = note[h]
  <2>1. CASE Return(h)
    BY <1>2, <2>1, ReturnEffect DEF CommentPhases
  <2>2. CASE ~Return(h)
    <3>1. PICK r \in Reviews :
            rid' = [rid EXCEPT ![h] = r] /\ Goto(h, "store") /\ UNCHANGED <<inv, req, note>>
      BY <2>2 DEF Create
    <3> QED
      BY <1>2, <3>1 DEF CallsOK, OthersWait, Goto, CommentPhases
  <2> QED
    BY <2>1, <2>2
<1>4. \A k \in Handlers :
        pc'[k] \in CommentPhases => pc[k] \in CommentPhases /\ note'[k] = note[k]
  BY <1>1, <1>3 DEF OthersWait, CommentPhases
<1>5. RunnerGoesOn
  BY <1>1 DEF RunnerGoesOn, runnerVars
<1>6. CASE status' = status
  <2>1. CommentOnly(h)
    BY <1>1, <1>2, <1>3, <1>6, CallTypes DEF CommentOnly, CommentPhases, GithubOK, Submitted
  <2> QED
    BY <1>1, <1>2, <1>4, <1>6, <2>1, CommentReads DEF githubVars
<1>7. ASSUME NEW r \in Reviews, NewPending(r)
      PROVE  ReviewIInv'
  <2>1. /\ ThreadInv' /\ Submitted' = Submitted
        /\ status' \in [Reviews -> {"absent", "pending", "submitted", "deleted"}]
    BY <1>1, <1>2, <1>4, <1>5, <1>7, NewPendingInv DEF ReviewIInv
  <2>2. CommentOnly(h)
    BY <1>1, <1>2, <1>3, <2>1, CallTypes DEF CommentOnly, CommentPhases, GithubOK
  <2> QED
    BY <2>1, <2>2, CommentOnlyInv
<1> QED
  BY <1>6, <1>7 DEF Create

(* A comment that is acknowledged is acknowledged to a running agent, so   *)
(* nothing is submitted yet, and it goes where the others are.             *)
LEMMA AddInv ==
  ASSUME ReviewIInv, NEW h \in Handlers, Add(h)
  PROVE  ReviewIInv'
<1>1. /\ pc[h] = "add" /\ Return(h)
      /\ UNCHANGED <<status, termVars, treeVars, pendingID, answers, gateTree, runnerVars>>
  BY DEF Add
<1>2. /\ CallsOK /\ GithubOK /\ note[h] \in Comments /\ rid[h] \in Reviews
      /\ acked \subseteq Comments
  BY CallTypes DEF CallsOK
<1>3. CallsOK' /\ OthersWait(h) /\ pc'[h] = "idle"
  BY <1>1, <1>2, ReturnEffect
<1>4. Submitted' = Submitted /\ Pending' = Pending /\ runner' = runner
  BY <1>1 DEF Submitted, Pending, runnerVars
<1>5. CASE UNCHANGED <<thread, acked>>
  <2>1. GithubOK'
    BY <1>1, <1>2, <1>5 DEF GithubOK
  <2>2. CommentOnly(h)
    BY <1>1, <1>2, <1>3, <1>4, <1>5, <2>1 DEF CommentOnly, CommentPhases
  <2> QED
    BY <1>1, <1>3, <1>5, <2>2, CommentReads DEF githubVars, CommentPhases
<1>6. CASE /\ status[rid[h]] = "pending"
           /\ thread' = [thread EXCEPT ![rid[h]] = @ \cup {note[h]}]
           /\ acked' \in {acked, IF Listening(inv[h]) THEN acked \cup {note[h]} ELSE acked}
  <2> DEFINE r == rid[h]
  <2>1. /\ thread' \in [Reviews -> SUBSET Comments]
        /\ thread'[r] = thread[r] \cup {note[h]}
        /\ \A q \in Reviews \ {r} : thread'[q] = thread[q]
    BY <1>2, <1>6 DEF GithubOK
  <2>2. /\ acked' = acked \/ (acked' = acked \cup {note[h]} /\ agent = "running")
        /\ acked' \subseteq Comments
    BY <1>2, <1>6 DEF Listening
  <2>3. agent = "running" => Submitted = {} /\ runner = "agent"
    BY DEF ReviewIInv, RunnerInv, AgentIsServed, ThreadInv, SubmittedLast, Verdicts
  <2>4. r \in Pending /\ \A q \in Pending : q = r
    BY <1>2, <1>6 DEF Pending, ReviewIInv, ThreadInv, OnePending
  <2>5. note[h] \notin Leftover
    BY <1>1 DEF ReviewIInv, ThreadInv, NothingLeftOver, CommentPhases
  <2>6. CommentOnly(h)
    <3>1. GithubOK'
      BY <1>1, <1>2, <2>1 DEF GithubOK
    <3> QED
      BY <1>1, <1>3, <1>4, <2>2, <3>1 DEF CommentOnly, CommentPhases
  <2>7. OnePending'
    BY <1>4 DEF ReviewIInv, ThreadInv, OnePending
  <2>8. SubmittedLast'
    BY <1>4, <2>2, <2>3 DEF ReviewIInv, ThreadInv, SubmittedLast
  <2>9. NothingLeftOver'
    <3>1. \A k \in Handlers : pc'[k] \in CommentPhases => note'[k] \notin Leftover
      BY <1>3 DEF ReviewIInv, ThreadInv, NothingLeftOver, OthersWait, CommentPhases
    <3>2. \A q \in Reviews : status[q] = "absent" => q # r /\ thread[q] = {}
      BY <1>6 DEF ReviewIInv, ThreadInv, NothingLeftOver
    <3>3. runner \notin {"sweep", "review_failed"} =>
            \A q \in Pending : thread'[q] \cap Leftover = {}
      BY <1>2, <2>1, <2>4, <2>5 DEF ReviewIInv, ThreadInv, NothingLeftOver
    <3> QED
      BY <1>1, <1>4, <2>1, <3>1, <3>2, <3>3 DEF NothingLeftOver
  <2>10. AckedPending'
    BY <1>2, <1>4, <2>1, <2>2, <2>4 DEF ReviewIInv, ThreadInv, AckedPending
  <2>11. CommentsKept'
    <3>1. \A q \in Reviews : status[q] = "submitted" => q # r /\ acked' = acked
      BY <1>6, <2>2, <2>3 DEF Submitted
    <3> QED
      BY <1>1, <2>1, <3>1 DEF ReviewIInv, ThreadInv, CommentsKept
  <2> QED
    BY <2>6, <2>7, <2>8, <2>9, <2>10, <2>11, CommentOnlyInv DEF ThreadInv
<1> QED
  BY <1>5, <1>6 DEF Add

-----------------------------------------------------------------------------
(* The tree and the agent.                                                 *)

LEMMA DriftInv == ASSUME ReviewIInv, Drift PROVE ReviewIInv'
<1>1. /\ wt' \in Trees
      /\ drifted' = (drifted \/ runner \in {"verify", "fingerprint"})
      /\ UNCHANGED <<base, callVars, termVars, pendingID, githubVars, histVars, runnerVars>>
  BY DEF Drift
<1>2. UNCHANGED <<base, pc, inv, req, note, rid, slot, slotReq, slotAnswer, reviewSubmit,
                  gateRejected, pendingID, status, thread, answers, acked, gateTree>>
  BY <1>1 DEF callVars, termVars, githubVars, histVars
<1>3. UNCHANGED <<attempt, agent, precheck, runner, before, verified, state, target>>
  BY <1>1 DEF runnerVars
<1>4. ReviewTypeOK'
  <2>1. /\ TreeOK /\ CallsOK /\ TerminalsOK /\ GithubOK /\ HistoryOK /\ RunnerOK
        /\ verified \in BOOLEAN
    BY TypeParts DEF ReviewIInv
  <2>2. TreeOK' /\ verified' \in BOOLEAN
    BY <1>1, <1>2, <1>3, <2>1, Zenon DEF TreeOK
  <2>3. CallsOK' /\ TerminalsOK' /\ GithubOK' /\ HistoryOK' /\ RunnerOK'
    BY <1>2, <1>3, <2>1 DEF CallsOK, TerminalsOK, GithubOK, HistoryOK, RunnerOK
  <2> QED
    BY <2>2, <2>3, TypePartsNext
<1>5. TerminalInv'
  BY <1>1, <1>2, <1>3, TerminalAside DEF ReviewIInv, Serves
<1>6. RunnerInv'
  BY <1>1, <1>2, <1>3 DEF ReviewIInv, RunnerInv, Unopened, AnswersOfSlots, AgentIsServed,
     StateIsAccepted, Submitted, PrecheckIsGreen
<1>7. ThreadInv'
  BY <1>1, <1>2, <1>3, ThreadAside DEF ReviewIInv, RunnerGoesOn
<1> QED
  BY <1>4, <1>5, <1>6, <1>7 DEF ReviewIInv

(* What the runner and the end of the agent leave alone.                   *)
RunnerOnly == UNCHANGED <<treeVars, callVars, termVars, pendingID, thread, histVars>>

LEMMA RunnerOnlyVars ==
  RunnerOnly =>
    /\ UNCHANGED <<wt, base, drifted, pc, inv, req, note, rid, slot, slotReq, slotAnswer>>
    /\ UNCHANGED <<reviewSubmit, gateRejected, pendingID, thread, answers, acked, gateTree>>
BY DEF RunnerOnly, treeVars, callVars, termVars, histVars

LEMMA RunnerOnlyInv ==
  ASSUME ReviewIInv, RunnerOnly, RunnerOK', verified' \in BOOLEAN, RunnerInv', ThreadInv',
         status' \in [Reviews -> {"absent", "pending", "submitted", "deleted"}],
         precheck' = precheck \/ TerminalInv'
  PROVE  ReviewIInv'
<1>1. ReviewTypeOK'
  <2>1. TreeOK /\ CallsOK /\ TerminalsOK /\ GithubOK /\ HistoryOK
    BY TypeParts DEF ReviewIInv
  <2>2. TreeOK'
    BY <2>1, RunnerOnlyVars, Zenon DEF TreeOK
  <2>3. CallsOK' /\ TerminalsOK' /\ GithubOK' /\ HistoryOK'
    BY <2>1, RunnerOnlyVars DEF CallsOK, TerminalsOK, GithubOK, HistoryOK
  <2> QED
    BY <2>2, <2>3, TypePartsNext
<1>2. TerminalInv'
  <2>1. CASE precheck' = precheck
    BY <2>1, RunnerOnlyVars, TerminalAside DEF ReviewIInv, Serves, termVars
  <2> QED
    BY <2>1
<1> QED
  BY <1>1, <1>2 DEF ReviewIInv

(* A step of the runner within the attempt that leaves GitHub alone.       *)
LEMMA RunnerStaysInv ==
  ASSUME ReviewIInv, RunnerOnly, RunnerOK', verified' \in BOOLEAN,
         UNCHANGED <<attempt, status>>, RunnerGoesOn, runner' \in Early => runner \in Early,
         AgentIsServed', StateIsAccepted', PrecheckIsGreen',
         precheck' = precheck \/ TerminalInv'
  PROVE  ReviewIInv'
<1>1. ThreadInv'
  BY RunnerOnlyVars, ThreadAside DEF ReviewIInv, githubVars
<1>2. Unopened' /\ AnswersOfSlots'
  BY RunnerOnlyVars DEF ReviewIInv, RunnerInv, Unopened, AnswersOfSlots
<1>3. status' \in [Reviews -> {"absent", "pending", "submitted", "deleted"}]
  BY CallTypes DEF GithubOK
<1> QED
  BY <1>1, <1>2, <1>3, RunnerOnlyInv DEF RunnerInv

LEMMA RunnerParts ==
  ASSUME ReviewIInv
  PROVE  /\ RunnerOK /\ AgentIsServed /\ StateIsAccepted /\ PrecheckIsGreen
         /\ verified \in BOOLEAN /\ wt \in Trees /\ base \in Trees /\ drifted \in BOOLEAN
         /\ attempt \in Attempts
BY TypeParts, Zenon DEF ReviewIInv, RunnerInv, TreeOK, RunnerOK

LEMMA AgentEndsInv == ASSUME ReviewIInv, AgentEnds PROVE ReviewIInv'
<1>1. /\ agent = "running" /\ agent' \in {"exited", "failed"}
      /\ UNCHANGED <<attempt, precheck, runner, before, verified, state, target, status>>
      /\ RunnerOnly
  BY DEF AgentEnds, RunnerOnly, githubVars
<1>2. RunnerOK' /\ verified' \in BOOLEAN
  BY <1>1, RunnerParts DEF RunnerOK
<1>3. AgentIsServed' /\ StateIsAccepted' /\ PrecheckIsGreen'
  BY <1>1, RunnerParts, RunnerOnlyVars
     DEF AgentIsServed, StateIsAccepted, PrecheckIsGreen, Submitted
<1> QED
  BY <1>1, <1>2, <1>3, RunnerStaysInv DEF RunnerGoesOn

-----------------------------------------------------------------------------
(* The runner.                                                             *)

(* The sweep: nothing is acknowledged yet, and nothing is pending after.   *)
LEMMA RunnerSweepsInv == ASSUME ReviewIInv, RunnerSweeps PROVE ReviewIInv'
<1>1. /\ runner = "sweep" /\ RunnerOnly
      /\ UNCHANGED <<attempt, agent, precheck, before, verified, state, target>>
  BY DEF RunnerSweeps, RunnerOnly
<1>2. CASE runner' = "review_failed" /\ status' = status
  <2>1. RunnerOK' /\ verified' \in BOOLEAN
    BY <1>1, <1>2, RunnerParts DEF RunnerOK, Verdicts
  <2>2. AgentIsServed' /\ StateIsAccepted' /\ PrecheckIsGreen'
    BY <1>1, <1>2, RunnerParts, RunnerOnlyVars
       DEF AgentIsServed, StateIsAccepted, PrecheckIsGreen, Submitted, Early
  <2> QED
    BY <1>1, <1>2, <2>1, <2>2, RunnerStaysInv DEF RunnerGoesOn, Early
<1>3. CASE /\ runner' = "precheck"
           /\ status' = [r \in Reviews |-> IF r \in Pending THEN "deleted" ELSE status[r]]
  <2>1. RunnerOK' /\ verified' \in BOOLEAN
    BY <1>1, <1>3, RunnerParts DEF RunnerOK
  <2>2. status' \in [Reviews -> {"absent", "pending", "submitted", "deleted"}]
    BY <1>3, CallTypes DEF GithubOK
  <2>3. /\ Pending' = {} /\ Submitted' = Submitted /\ Submitted = {} /\ acked = {}
        /\ \A r \in Reviews : status'[r] = "absent" => status[r] = "absent"
    BY <1>1, <1>3 DEF Pending, Submitted, ReviewIInv, ThreadInv, SubmittedLast, Verdicts
  <2>4. ThreadInv'
    <3>1. OnePending' /\ SubmittedLast' /\ AckedPending'
      BY <1>3, <2>3, RunnerOnlyVars, <1>1 DEF OnePending, SubmittedLast, AckedPending
    <3>2. NothingLeftOver'
      BY <1>1, <2>3, RunnerOnlyVars DEF ReviewIInv, ThreadInv, NothingLeftOver
    <3>3. CommentsKept'
      BY <2>3 DEF CommentsKept, Submitted
    <3> QED
      BY <3>1, <3>2, <3>3 DEF ThreadInv
  <2>5. RunnerInv'
    BY <1>1, <1>3, <2>3, RunnerOnlyVars DEF ReviewIInv, RunnerInv, Unopened, AnswersOfSlots,
       AgentIsServed, StateIsAccepted, PrecheckIsGreen, Early
  <2> QED
    BY <1>1, <2>1, <2>2, <2>4, <2>5, RunnerOnlyInv
<1> QED
  BY <1>2, <1>3 DEF RunnerSweeps, RunnerGoto

LEMMA PrecheckBeforeInv == ASSUME ReviewIInv, PrecheckBefore PROVE ReviewIInv'
<1>1. /\ runner = "precheck" /\ runner' = "verify" /\ before' = wt /\ RunnerOnly
      /\ UNCHANGED <<attempt, agent, precheck, verified, state, target, status>>
  BY DEF PrecheckBefore, RunnerGoto, RunnerOnly, githubVars
<1>2. RunnerOK' /\ verified' \in BOOLEAN
  BY <1>1, RunnerParts DEF RunnerOK
<1>3. AgentIsServed' /\ StateIsAccepted' /\ PrecheckIsGreen'
  BY <1>1, RunnerParts, RunnerOnlyVars
     DEF AgentIsServed, StateIsAccepted, PrecheckIsGreen, Submitted, Early
<1> QED
  BY <1>1, <1>2, <1>3, RunnerStaysInv DEF RunnerGoesOn, Early, Verdicts

LEMMA PrecheckVerifyInv == ASSUME ReviewIInv, PrecheckVerify PROVE ReviewIInv'
<1>1. /\ runner = "verify" /\ runner' = "fingerprint" /\ RunnerOnly
      /\ verified' = (wt \in Green)
      /\ UNCHANGED <<attempt, agent, precheck, before, state, target, status>>
  BY DEF PrecheckVerify, RunnerGoto, RunnerOnly, githubVars
<1>2. RunnerOK' /\ verified' \in BOOLEAN
  BY <1>1, RunnerParts DEF RunnerOK
<1>3. AgentIsServed' /\ StateIsAccepted' /\ PrecheckIsGreen'
  BY <1>1, RunnerParts, RunnerOnlyVars
     DEF AgentIsServed, StateIsAccepted, PrecheckIsGreen, Submitted, Early
<1> QED
  BY <1>1, <1>2, <1>3, RunnerStaysInv DEF RunnerGoesOn, Early, Verdicts

(* The precheck's tree is that of a broker nobody has called yet.          *)
LEMMA PrecheckAfterInv == ASSUME ReviewIInv, PrecheckAfter PROVE ReviewIInv'
<1>1. /\ runner = "fingerprint" /\ RunnerOnly
      /\ before' = base /\ verified' = FALSE
      /\ UNCHANGED <<attempt, state, target, status>>
  BY DEF PrecheckAfter, RunnerOnly, githubVars
<1>2. CASE runner' \in {"precheck_failed", "review_failed"} /\ UNCHANGED <<precheck, agent>>
  <2>1. RunnerOK' /\ verified' \in BOOLEAN
    BY <1>1, <1>2, RunnerParts DEF RunnerOK, Verdicts
  <2>2. AgentIsServed' /\ StateIsAccepted' /\ PrecheckIsGreen'
    BY <1>1, <1>2, RunnerParts, RunnerOnlyVars
       DEF AgentIsServed, StateIsAccepted, PrecheckIsGreen, Submitted, Early
  <2> QED
    BY <1>1, <1>2, <2>1, <2>2, RunnerStaysInv DEF RunnerGoesOn, Early, Verdicts
<1>3. CASE /\ verified /\ before = wt
           /\ precheck' = [precheck EXCEPT ![attempt] = wt]
           /\ agent' = "running" /\ runner' = "agent"
  <2>1. /\ precheck' \in [Attempts -> Trees] /\ precheck'[attempt] = wt
        /\ \A b \in Attempts \ {attempt} : precheck'[b] = precheck[b]
    BY <1>3, RunnerParts DEF RunnerOK
  <2>2. RunnerOK' /\ verified' \in BOOLEAN
    BY <1>1, <1>3, <2>1, RunnerParts DEF RunnerOK
  <2>3. AgentIsServed' /\ StateIsAccepted' /\ PrecheckIsGreen'
    BY <1>1, <1>3, <2>1, RunnerParts, RunnerOnlyVars
       DEF AgentIsServed, StateIsAccepted, PrecheckIsGreen, Submitted, Early
  <2>4. TerminalInv'
    <3>1. slot[attempt] = "free"
      BY <1>1, RunnerParts DEF ReviewIInv, RunnerInv, Unopened, Early
    <3>2. CallOfSlot'
      <4> SUFFICES ASSUME NEW h \in Handlers, Serves(h)' PROVE CallOf(h)'
        BY DEF CallOfSlot, CallOf
      <4>1. CallOf(h) /\ Serves(h) /\ inv[h] \in Attempts
        BY <1>1, RunnerOnlyVars, CallTypes DEF ReviewIInv, TerminalInv, CallOfSlot, Serves, CallsOK
      <4>2. inv[h] # attempt
        BY <3>1, <4>1 DEF CallOf
      <4> QED
        BY <1>1, <2>1, <4>1, <4>2, RunnerOnlyVars DEF CallOf
    <3>3. SlotTells'
      <4> SUFFICES ASSUME NEW a \in Attempts PROVE TellsOf(a)'
        BY DEF SlotTells
      <4>1. TellsOf(a) /\ (a = attempt => reviewSubmit[a] = {})
        BY <3>1 DEF ReviewIInv, TerminalInv, SlotTells, TellsOf
      <4> QED
        BY <1>1, <2>1, <4>1, RunnerOnlyVars DEF TellsOf
    <3>4. OneServes' /\ SlotServed'
      BY <1>1, RunnerOnlyVars DEF ReviewIInv, TerminalInv, OneServes, SlotServed, Serves
    <3> QED
      BY <3>2, <3>3, <3>4 DEF TerminalInv
  <2> QED
    BY <1>1, <1>3, <2>2, <2>3, <2>4, RunnerStaysInv DEF RunnerGoesOn, Early, Verdicts
<1> QED
  BY <1>2, <1>3 DEF PrecheckAfter, RunnerGoto

(* A rejected approval opens the next attempt's broker, or none is left;   *)
(* without one, the accepted verdict is what the runner goes on with.      *)
LEMMA RunnerCapturesInv == ASSUME ReviewIInv, RunnerCaptures PROVE ReviewIInv'
<1>1. /\ runner = "agent" /\ agent' = "none" /\ RunnerOnly
      /\ UNCHANGED <<precheck, before, verified, status>>
  BY DEF RunnerCaptures, RunnerOnly, githubVars
<1>2. /\ RunnerOK /\ attempt \in Attempts /\ verified' \in BOOLEAN
      /\ state = {} /\ Submitted = {} /\ GithubOK /\ TerminalsOK
  BY <1>1, RunnerParts, CallTypes DEF StateIsAccepted, ReviewIInv, ThreadInv, SubmittedLast, Verdicts
<1>3. CASE /\ gateRejected[attempt] /\ attempt < MaxReviewerAttempts
           /\ attempt' = attempt + 1 /\ runner' = "precheck"
           /\ UNCHANGED <<state, target>>
  <2>1. attempt' \in Attempts /\ attempt' > attempt
    BY <1>2, <1>3, Domains DEF Attempts
  <2>2. RunnerOK'
    BY <1>1, <1>2, <1>3, <2>1 DEF RunnerOK
  <2>3. ThreadInv'
    BY <1>1, <1>3, RunnerOnlyVars, ThreadAside
       DEF ReviewIInv, RunnerGoesOn, Verdicts, githubVars
  <2>4. Unopened'
    <3>1. \A a \in Attempts : a > attempt' \/ a = attempt' => a > attempt
      BY <1>2, <1>3 DEF Attempts
    <3> QED
      BY <1>1, <3>1, RunnerOnlyVars DEF ReviewIInv, RunnerInv, Unopened
  <2>5. AnswersOfSlots'
    <3>1. \A x \in answers : x.answer # "ACCEPTED"
      <4> SUFFICES ASSUME NEW x \in answers, x.answer = "ACCEPTED" PROVE FALSE
        OBVIOUS
      <4>1. slot[attempt] = "final" /\ slotAnswer[attempt] = "ACCEPTED"
        BY DEF ReviewIInv, RunnerInv, AnswersOfSlots
      <4> QED
        BY <1>2, <1>3, <4>1 DEF ReviewIInv, TerminalInv, SlotTells, TellsOf
    <3> QED
      BY <1>1, <3>1, RunnerOnlyVars DEF ReviewIInv, RunnerInv, AnswersOfSlots
  <2>6. AgentIsServed' /\ StateIsAccepted' /\ PrecheckIsGreen'
    BY <1>1, <1>2, <1>3 DEF AgentIsServed, StateIsAccepted, PrecheckIsGreen, Submitted
  <2>7. status' \in [Reviews -> {"absent", "pending", "submitted", "deleted"}]
    BY <1>1, <1>2 DEF GithubOK
  <2>8. RunnerInv'
    BY <2>4, <2>5, <2>6 DEF RunnerInv
  <2> QED
    BY <1>1, <1>2, <2>2, <2>3, <2>7, <2>8, RunnerOnlyInv
<1>4. CASE runner' = "review_failed" /\ UNCHANGED <<attempt, state, target>>
  <2>1. RunnerOK'
    BY <1>1, <1>2, <1>4 DEF RunnerOK, Verdicts
  <2>2. AgentIsServed' /\ StateIsAccepted' /\ PrecheckIsGreen'
    BY <1>1, <1>2, <1>4 DEF AgentIsServed, StateIsAccepted, PrecheckIsGreen, Submitted, Early
  <2> QED
    BY <1>1, <1>2, <1>4, <2>1, <2>2, RunnerStaysInv DEF RunnerGoesOn, Early
<1>5. CASE /\ reviewSubmit[attempt] # {} /\ state' = reviewSubmit[attempt]
           /\ target' = pendingID[attempt] /\ runner' \in {"discover", "submit"}
           /\ attempt' = attempt
  <2>1. RunnerOK'
    BY <1>1, <1>2, <1>5 DEF RunnerOK, GithubOK, TerminalsOK
  <2>2. AgentIsServed' /\ StateIsAccepted' /\ PrecheckIsGreen'
    BY <1>1, <1>2, <1>5, RunnerOnlyVars, RunnerParts
       DEF AgentIsServed, StateIsAccepted, PrecheckIsGreen, Submitted, Early
  <2> QED
    BY <1>1, <1>2, <1>5, <2>1, <2>2, RunnerStaysInv DEF RunnerGoesOn, Early, Verdicts
<1> QED
  BY <1>3, <1>4, <1>5 DEF RunnerCaptures, GateRetry, RunnerGoto

LEMMA RunnerDiscoversInv == ASSUME ReviewIInv, RunnerDiscovers PROVE ReviewIInv'
<1>1. /\ runner = "discover" /\ runner' \in {"submit", "create", "review_failed"} /\ RunnerOnly
      /\ target' = target \/ \E r \in Pending : target' = {r}
      /\ UNCHANGED <<attempt, agent, precheck, before, verified, state, status>>
  BY DEF RunnerDiscovers, RunnerGoto, RunnerOnly, githubVars
<1>2. RunnerOK' /\ verified' \in BOOLEAN
  BY <1>1, RunnerParts DEF RunnerOK, Verdicts, Pending
<1>3. AgentIsServed' /\ StateIsAccepted' /\ PrecheckIsGreen'
  BY <1>1, RunnerParts, RunnerOnlyVars
     DEF AgentIsServed, StateIsAccepted, PrecheckIsGreen, Submitted, Early
<1> QED
  BY <1>1, <1>2, <1>3, RunnerStaysInv DEF RunnerGoesOn, Early, Verdicts

LEMMA RunnerCreatesInv == ASSUME ReviewIInv, RunnerCreates PROVE ReviewIInv'
<1>1. /\ runner = "create" /\ runner' \in {"submit", "review_failed"} /\ RunnerOnly
      /\ target' = target \/ \E r \in Reviews : target' = {r}
      /\ UNCHANGED <<attempt, agent, precheck, before, verified, state>>
      /\ status' = status \/ \E r \in Reviews : NewPending(r)
  BY DEF RunnerCreates, RunnerGoto, RunnerOnly
<1>2. RunnerOK' /\ verified' \in BOOLEAN /\ RunnerGoesOn
  BY <1>1, RunnerParts DEF RunnerOK, Verdicts, RunnerGoesOn
<1>3. /\ Submitted' = Submitted
      /\ status' \in [Reviews -> {"absent", "pending", "submitted", "deleted"}]
      /\ ThreadInv'
  <2>1. CASE status' = status
    BY <1>1, <1>2, <2>1, RunnerOnlyVars, ThreadAside, CallTypes
       DEF ReviewIInv, Submitted, GithubOK, githubVars
  <2>2. ASSUME NEW r \in Reviews, NewPending(r)
        PROVE  /\ Submitted' = Submitted
               /\ status' \in [Reviews -> {"absent", "pending", "submitted", "deleted"}]
               /\ ThreadInv'
    <3>1. \A h \in Handlers :
            pc'[h] \in CommentPhases => pc[h] \in CommentPhases /\ note'[h] = note[h]
      BY <1>1, RunnerOnlyVars
    <3>2. UNCHANGED <<thread, acked>> /\ GithubOK /\ ThreadInv
      BY <1>1, RunnerOnlyVars, CallTypes DEF ReviewIInv
    <3> QED
      BY <1>2, <2>2, <3>1, <3>2, NewPendingInv
  <2> QED
    BY <1>1, <2>1, <2>2
<1>4. RunnerInv'
  BY <1>1, <1>3, RunnerOnlyVars DEF ReviewIInv, RunnerInv, Unopened, AnswersOfSlots, AgentIsServed,
     StateIsAccepted, PrecheckIsGreen, Early
<1> QED
  BY <1>1, <1>2, <1>3, <1>4, RunnerOnlyInv

(* The one pending review has all that was acknowledged, and nothing else  *)
(* is submitted.                                                           *)
LEMMA RunnerSubmitsInv == ASSUME ReviewIInv, RunnerSubmits PROVE ReviewIInv'
<1>1. /\ runner = "submit" /\ RunnerOnly
      /\ UNCHANGED <<attempt, agent, precheck, before, verified, state, target>>
      /\ runner' \in {"dirty", "review_failed"}
  BY DEF RunnerSubmits, RunnerGoto, RunnerOnly
<1>2. RunnerOK' /\ verified' \in BOOLEAN /\ RunnerGoesOn /\ state # {}
  BY <1>1, RunnerParts DEF RunnerOK, Verdicts, RunnerGoesOn, StateIsAccepted
<1>3. CASE status' = status
  <2>1. AgentIsServed' /\ StateIsAccepted' /\ PrecheckIsGreen'
    BY <1>1, <1>2, <1>3, RunnerParts, RunnerOnlyVars
       DEF AgentIsServed, StateIsAccepted, PrecheckIsGreen, Submitted, Early
  <2> QED
    BY <1>1, <1>2, <1>3, <2>1, RunnerStaysInv DEF Early
<1>4. ASSUME NEW r \in target, status[r] = "pending",
             status' = [status EXCEPT ![r] = "submitted"]
      PROVE  ReviewIInv'
  <2>1. /\ r \in Reviews
        /\ status' \in [Reviews -> {"absent", "pending", "submitted", "deleted"}]
        /\ status'[r] = "submitted" /\ \A q \in Reviews \ {r} : status'[q] = status[q]
    BY <1>4, RunnerParts, CallTypes DEF RunnerOK, GithubOK
  <2>2. Submitted = {} /\ Submitted' # {} /\ Pending' \subseteq Pending /\ r \in Pending
    BY <1>1, <1>4, <2>1 DEF Submitted, Pending, ReviewIInv, ThreadInv, SubmittedLast, Verdicts
  <2>3. acked \subseteq thread[r] /\ thread[r] \cap Leftover = {}
    BY <1>1, <2>2 DEF ReviewIInv, ThreadInv, OnePending, AckedPending, NothingLeftOver
  <2>4. ThreadInv'
    <3>1. OnePending' /\ SubmittedLast' /\ AckedPending'
      BY <1>1, <2>2, RunnerOnlyVars
         DEF ReviewIInv, ThreadInv, OnePending, SubmittedLast, AckedPending, Verdicts
    <3>2. NothingLeftOver'
      BY <1>1, <1>4, <2>1, <2>2, RunnerOnlyVars DEF ReviewIInv, ThreadInv, NothingLeftOver
    <3>3. CommentsKept'
      BY <2>1, <2>2, <2>3, <1>1, RunnerOnlyVars DEF CommentsKept, Submitted
    <3> QED
      BY <3>1, <3>2, <3>3 DEF ThreadInv
  <2>5. RunnerInv'
    BY <1>1, <1>2, RunnerOnlyVars DEF ReviewIInv, RunnerInv, Unopened, AnswersOfSlots,
       AgentIsServed, StateIsAccepted, PrecheckIsGreen, Early
  <2> QED
    BY <1>1, <1>2, <2>1, <2>4, <2>5, RunnerOnlyInv
<1> QED
  BY <1>3, <1>4 DEF RunnerSubmits

LEMMA RunnerReportsInv == ASSUME ReviewIInv, RunnerReports PROVE ReviewIInv'
<1>1. /\ runner = "dirty" /\ runner' \in Verdicts /\ RunnerOnly
      /\ UNCHANGED <<attempt, agent, precheck, before, verified, state, target, status>>
  BY DEF RunnerReports, RunnerGoto, RunnerOnly, githubVars, Verdicts
<1>2. RunnerOK' /\ verified' \in BOOLEAN
  BY <1>1, RunnerParts DEF RunnerOK
<1>3. AgentIsServed' /\ StateIsAccepted' /\ PrecheckIsGreen'
  BY <1>1, RunnerParts, RunnerOnlyVars
     DEF AgentIsServed, StateIsAccepted, PrecheckIsGreen, Submitted, Early, Verdicts
<1> QED
  BY <1>1, <1>2, <1>3, RunnerStaysInv DEF RunnerGoesOn, Early, Verdicts

-----------------------------------------------------------------------------
(* Every step.                                                             *)

LEMMA ReviewNextInv == ReviewIInv /\ [ReviewNext]_reviewVars => ReviewIInv'
<1> SUFFICES ASSUME ReviewIInv, [ReviewNext]_reviewVars PROVE ReviewIInv'
  OBVIOUS
<1>1. CASE RunnerStep
  BY <1>1, RunnerSweepsInv, PrecheckBeforeInv, PrecheckVerifyInv, PrecheckAfterInv,
     RunnerCapturesInv, RunnerDiscoversInv, RunnerCreatesInv, RunnerSubmitsInv, RunnerReportsInv
     DEF RunnerStep
<1>2. ASSUME NEW h \in Handlers, HandlerStep(h) PROVE ReviewIInv'
  BY <1>2, ValidateInv, GateInv, SetReviewSubmitInv, AnswerSubmitInv, LookupInv, CreateInv, AddInv
     DEF HandlerStep
<1>3. ASSUME NEW h \in Handlers,
             \/ \E r \in Requests : Reserve(h, r)
             \/ \E c \in Comments \ Leftover : Comment(h, c)
      PROVE  ReviewIInv'
  BY <1>3, ReserveInv, CommentInv
<1>4. CASE UNCHANGED reviewVars
  <2>1. /\ RunnerOnly
        /\ UNCHANGED <<attempt, agent, precheck, runner, before, verified, state, target, status>>
    BY <1>4 DEF reviewVars, RunnerOnly, githubVars, runnerVars
  <2>2. RunnerOK' /\ verified' \in BOOLEAN
    BY <2>1, RunnerParts DEF RunnerOK
  <2>3. AgentIsServed' /\ StateIsAccepted' /\ PrecheckIsGreen'
    BY <2>1, RunnerParts, RunnerOnlyVars
       DEF AgentIsServed, StateIsAccepted, PrecheckIsGreen, Submitted
  <2> QED
    BY <2>1, <2>2, <2>3, RunnerStaysInv DEF RunnerGoesOn
<1> QED
  BY <1>1, <1>2, <1>3, <1>4, DriftInv, AgentEndsInv DEF ReviewNext

-----------------------------------------------------------------------------
(* The theorems.                                                           *)

THEOREM ReviewInvariant == ReviewSpec => []ReviewIInv
BY ReviewInitInv, ReviewNextInv, PTL DEF ReviewSpec

(* Every variable stays within its domain.                                 *)
THEOREM ReviewTypeCorrect == ReviewSpec => []ReviewTypeOK
<1>1. ReviewIInv => ReviewTypeOK
  BY DEF ReviewIInv
<1> QED
  BY <1>1, ReviewInvariant, PTL

(* No acknowledged comment is lost to the review that is submitted, and    *)
(* none of an aborted round gets into it.                                  *)
THEOREM NoCommentIsLost == ReviewSpec => []CommentsKept
<1>1. ReviewIInv => CommentsKept
  BY DEF ReviewIInv, ThreadInv
<1> QED
  BY <1>1, ReviewInvariant, PTL

(* What is approved on GitHub is a tree on which the verify command        *)
(* succeeds: the gate let it pass as the precheck's, and that was green.   *)
THEOREM ApprovalIsOfGreen == ReviewSpec => []ApprovedIsGreen
<1>1. ReviewIInv => ApprovedIsGreen
  <2> SUFFICES ASSUME ReviewIInv, NEW r \in Reviews, status[r] = "submitted",
                      state \subseteq Approvals, ~drifted
               PROVE  gateTree[attempt] \in Green
    BY DEF ApprovedIsGreen
  <2>1. Submitted # {}
    BY DEF Submitted
  <2>2. state # {} /\ state = reviewSubmit[attempt] /\ precheck[attempt] \in Green
    BY <2>1 DEF ReviewIInv, RunnerInv, StateIsAccepted, PrecheckIsGreen
  <2>3. gateTree[attempt] = precheck[attempt]
    BY <2>2, RunnerParts DEF ReviewIInv, TerminalInv, SlotTells, TellsOf
  <2> QED
    BY <2>2, <2>3
<1> QED
  BY <1>1, ReviewInvariant, PTL

(* One verdict, one answer, and the accepted one is the submitted one.     *)
THEOREM VerdictStands == ReviewSpec => []AnswerStands
<1>1. ReviewIInv => AnswerStands
  <2> SUFFICES ASSUME ReviewIInv PROVE AnswerStands
    OBVIOUS
  <2>1. \A x \in answers :
          /\ x = [att |-> x.att, req |-> x.req, answer |-> x.answer]
          /\ x.att \in Attempts /\ x.answer \in {"ACCEPTED", "REVIEWER_GATE"}
    BY CallTypes DEF HistoryOK
  <2>2. \A x \in answers :
          /\ slot[x.att] = "final" /\ x.req = slotReq[x.att] /\ x.answer = slotAnswer[x.att]
          /\ x.answer = "ACCEPTED" => x.att = attempt
    BY DEF ReviewIInv, RunnerInv, AnswersOfSlots
  <2>3. \A x, y \in answers : x.att = y.att => x = y
    BY <2>1, <2>2
  <2>4. ASSUME state # {}, NEW x \in answers, x.att = attempt
        PROVE  x.answer = "ACCEPTED" /\ state = {x.req}
    <3>1. state = reviewSubmit[x.att] /\ TellsOf(x.att)
      BY <2>1, <2>4 DEF ReviewIInv, RunnerInv, StateIsAccepted, TerminalInv, SlotTells
    <3> QED
      BY <2>2, <2>4, <3>1 DEF TellsOf
  <2> QED
    BY <2>2, <2>3, <2>4 DEF AnswerStands
<1> QED
  BY <1>1, ReviewInvariant, PTL

(* A pending terminal has a call that will answer it.                      *)
THEOREM TerminalIsServed == ReviewSpec => []SlotServed
<1>1. ReviewIInv => SlotServed
  BY DEF ReviewIInv, TerminalInv
<1> QED
  BY <1>1, ReviewInvariant, PTL

=============================================================================
