------------------------ MODULE IssueDeliveryProofs -------------------------
(***************************************************************************)
(* Proofs about IssueDelivery, for every limit of the configuration, every *)
(* set of checks, any number of versions of main, of changes, of pushes of *)
(* others and of resumed runs.                                             *)
(***************************************************************************)
EXTENDS IssueDelivery, TLAPS

(* The places each step of the run has.                                    *)
Placed ==
  /\ phase = "dev"    => pc \in {"agent", "push"}
  /\ phase = "sync"   => pc \in {"fetch", "rebase", "resolve", "push", "poll", "gate",
                                 "fix", "fixing", "fixed"}
  /\ phase = "review" => pc \in {"checkout", "decide", "record"}
  /\ phase = "merge"  => pc \in {"decide", "fetch", "rebase", "resolve", "push",
                                 "push resolved", "poll", "gate", "call", "cleanup"}
  /\ phase = "retry"  => pc \in {"rebase", "push", "poll"}
  /\ phase = "ended"  => pc = "none"

(* Once the PR is merged the run has nothing left but to clean up, and the *)
(* branch is deleted by nobody else.                                       *)
MergedIsOver ==
  /\ IsMerged => phase = "ended" \/ At("merge", "cleanup")
  /\ pc = "cleanup" => IsMerged
  /\ head = Gone => IsMerged /\ outcome = "success"

(* What a poll and a review are about is a commit.                         *)
TargetIsCommit ==
  pc = "poll" \/ At("review", "decide") \/ At("review", "record") => target \in Commits

(* Where the unreviewed can come from: it is foreign, or it is excused.    *)
Excused    == {"diverged", "stale approval"} \cap excuses # {}
Vouched(c) == c \in approved \cup foreign
Merging    == phase \in {"merge", "retry"}

(* The decision on GitHub is on a change that was approved; what a review  *)
(* is about is what the branch and the worktree hold, so that after it all *)
(* that can reach the head without another review is vouched for.          *)
DecisionIsKept == review.verdict = "approved" => review.change \in approved

UnderReview ==
  /\ At("review", "decide") \/ At("review", "record") =>
       Excused \/ (head.change \in {target.change} \cup foreign /\ wt.change = target.change)
  /\ At("review", "record") => review.change = target.change

UnderMerge ==
  /\ Merging => review.verdict = "approved"
  /\ Merging /\ pc # "push resolved" =>
       Excused \/ (Vouched(head.change) /\ Vouched(wt.change))

(* A commit the runner polled is the head, or somebody has pushed since.   *)
Passed(c) == c \in passed \/ c.change \in foreign

GreenIsPassed ==
  /\ pc = "poll" => head = target \/ head.change \in foreign
  /\ pc = "call" => Passed(head)
  /\ At("review", "checkout") /\ ~reReview => Passed(head)
  /\ At("review", "decide") /\ ~reReview => Passed(target)

(* The confidence a merge is decided on is that of the decision.           *)
ConfidenceIsKept ==
  /\ review.verdict # "none" => review.tier \in Tiers
  /\ At("review", "record") => conf = review.tier
  /\ Merging => conf = review.tier \/ "stale label" \in excuses
  /\ Merging /\ pc # "decide" => conf # "low"

(* A change that an agent made of a conflict is nobody else's.             *)
ResolvedIsOwn ==
  /\ resolved \cap foreign = {}
  /\ resolved \cup foreign \subseteq 1..changes

DeliveryIInv ==
  /\ DeliveryTypeOK
  /\ Placed
  /\ MergedIsOver
  /\ TargetIsCommit
  /\ DecisionIsKept
  /\ UnderReview
  /\ UnderMerge
  /\ GreenIsPassed
  /\ ConfidenceIsKept
  /\ ResolvedIsOwn
  /\ MergedWasApproved
  /\ MergedWasGreen
  /\ LowConfidenceIsHeld
  /\ SuccessIsDelivered

-----------------------------------------------------------------------------
(* Commits.                                                                *)

LEMMA Bounds ==
  /\ MaxChanges \in Nat \ {0} /\ MaxMain \in Nat /\ MaxResumes \in Nat
  /\ MaxOutOfDateRetries \in Nat \ {0} /\ MaxRounds \in Nat \ {0}
BY DeliveryAssumption, Zenon

LEMMA CommitFacts ==
  /\ Gone \notin Commits
  /\ \A c \in Commits : c.change \in 1..MaxChanges /\ c.base \in 0..MaxMain
  /\ \A c \in Commits, b \in 0..MaxMain :
       [c EXCEPT !.base = b] \in Commits /\ [c EXCEPT !.base = b].change = c.change
BY Bounds DEF Commits, Gone

-----------------------------------------------------------------------------
(* The type invariant in parts: the flags, and who keeps the rest.         *)

Flags == strict \in BOOLEAN /\ conflicted \in BOOLEAN /\ reReview \in BOOLEAN

OnGithub ==
  /\ main \in 0..MaxMain
  /\ head \in Commits \cup {Gone} /\ merged \in Commits \cup {Gone}
  /\ review \in [verdict : Verdicts, tier : Tiers \cup {"none"}, change : 0..MaxChanges]
  /\ requested \in Nat /\ label \in Tiers \cup {"none"}

OnHost == wt \in Commits /\ seenMain \in 0..MaxMain /\ seenHead \in Commits

InRun ==
  /\ phase \in Phases /\ tries \in Nat /\ target \in Commits \cup {Gone}
  /\ conf \in Tiers \cup {"none"} /\ round \in Nat /\ reReviews \in Nat
  /\ outcome \in Outcomes /\ (outcome = "none" <=> phase # "ended")

InHistory ==
  /\ changes \in 1..MaxChanges /\ resumes \in 0..MaxResumes
  /\ foreign \subseteq 1..MaxChanges /\ approved \subseteq 1..MaxChanges
  /\ resolved \subseteq 1..MaxChanges /\ passed \subseteq Commits
  /\ excuses \subseteq {"diverged", "stale approval", "stale label"}

LEMMA TypeParts == DeliveryTypeOK <=> Flags /\ OnGithub /\ OnHost /\ InRun /\ InHistory
BY Zenon DEF DeliveryTypeOK, Flags, OnGithub, OnHost, InRun, InHistory

LEMMA TypePartsNext == Flags' /\ OnGithub' /\ OnHost' /\ InRun' /\ InHistory' => DeliveryTypeOK'
BY Zenon DEF DeliveryTypeOK, Flags, OnGithub, OnHost, InRun, InHistory

LEMMA WriteFacts ==
  ASSUME changes \in 1..MaxChanges, CanChange, NEW b \in 0..MaxMain
  PROVE  /\ Write(b) \in Commits /\ Write(b).change = changes + 1
         /\ NextChange = changes + 1 /\ NextChange \in 1..MaxChanges
<1>1. NextChange = changes + 1 /\ NextChange \in 1..MaxChanges
  BY Bounds DEF CanChange, NextChange
<1> QED
  BY <1>1, Bounds DEF Write, Commits

LEMMA DeliveryInitInv == DeliveryInit => DeliveryIInv
<1> SUFFICES ASSUME DeliveryInit PROVE DeliveryIInv
  OBVIOUS
<1>1. InitCommit \in Commits /\ InitCommit # Gone
  BY Bounds DEF InitCommit, Commits, Gone
<1>2. DeliveryTypeOK
  <2>1. Flags
    BY Zenon DEF DeliveryInit, Flags
  <2>2. OnGithub
    BY <1>1, Bounds DEF DeliveryInit, OnGithub, NoReview, Verdicts, Tiers
  <2>3. OnHost
    BY <1>1, Bounds DEF DeliveryInit, OnHost
  <2>4. InRun
    BY DEF DeliveryInit, InRun, Tiers, Phases, Outcomes
  <2>5. InHistory
    BY Bounds DEF DeliveryInit, InHistory
  <2> QED
    BY <2>1, <2>2, <2>3, <2>4, <2>5, TypeParts
<1>3. Placed /\ MergedIsOver /\ TargetIsCommit
  BY <1>1 DEF DeliveryInit, Placed, MergedIsOver, TargetIsCommit, IsMerged, At
<1>4. DecisionIsKept /\ UnderReview /\ UnderMerge /\ GreenIsPassed /\ ConfidenceIsKept
  BY DEF DeliveryInit, NoReview, DecisionIsKept, UnderReview, UnderMerge, Merging,
     GreenIsPassed, ConfidenceIsKept, At
<1>5. MergedWasApproved /\ MergedWasGreen /\ LowConfidenceIsHeld
  BY DEF DeliveryInit, MergedWasApproved, MergedWasGreen, LowConfidenceIsHeld, IsMerged
<1>6. SuccessIsDelivered /\ ResolvedIsOwn
  BY DEF DeliveryInit, SuccessIsDelivered, ResolvedIsOwn
<1> QED
  BY <1>2, <1>3, <1>4, <1>5, <1>6 DEF DeliveryIInv

-----------------------------------------------------------------------------
(* What every action needs.                                                *)

(* While the run is at work the PR is not merged and its head is a commit. *)
LEMMA AtWork ==
  ASSUME DeliveryIInv, phase # "ended"
  PROVE  /\ head \in Commits
         /\ pc # "cleanup" => merged = Gone
         /\ Flags /\ OnGithub /\ OnHost /\ InRun /\ InHistory
         /\ outcome = "none"
<1>1. Flags /\ OnGithub /\ OnHost /\ InRun /\ InHistory
  BY TypeParts DEF DeliveryIInv
<1> QED
  BY <1>1 DEF DeliveryIInv, MergedIsOver, IsMerged, At, OnGithub, InRun

(* A run that goes on before its merge: what is said of a merged PR and of *)
(* a success holds of nothing.                                             *)
LEMMA GoesOn ==
  ASSUME merged' = Gone, head' \in Commits, pc' # "cleanup", outcome' # "success"
  PROVE  /\ MergedIsOver' /\ MergedWasApproved' /\ MergedWasGreen'
         /\ LowConfidenceIsHeld' /\ SuccessIsDelivered'
BY CommitFacts DEF MergedIsOver, MergedWasApproved, MergedWasGreen, LowConfidenceIsHeld,
   SuccessIsDelivered, IsMerged

(* No decision and no change that somebody has to answer for.              *)
LEMMA NothingDecided ==
  ASSUME DeliveryIInv, UNCHANGED <<review, approved, foreign, resolved>>,
         changes' = changes \/ changes' = changes + 1
  PROVE  DecisionIsKept' /\ ResolvedIsOwn'
<1>1. DecisionIsKept'
  BY DEF DeliveryIInv, DecisionIsKept
<1>2. changes \in Nat
  <2>1. changes \in 1..MaxChanges
    BY TypeParts, Zenon DEF DeliveryIInv, InHistory
  <2> QED
    BY <2>1, Bounds
<1>3. ResolvedIsOwn'
  BY <1>2 DEF DeliveryIInv, ResolvedIsOwn
<1> QED
  BY <1>1, <1>3

(* The run ends without success: what it knew is gone, what is on GitHub   *)
(* was there before, but for the branch and the label; a last change may   *)
(* have been made.                                                         *)
GivesUp ==
  /\ \E o \in Outcomes \ {"none", "success"} : End(o)
  /\ OnHost' /\ conflicted' \in BOOLEAN
  /\ head' \in Commits /\ label' \in Tiers \cup {"none"}
  /\ changes' = changes \/ (changes' = changes + 1 /\ changes' \in 1..MaxChanges)
  /\ UNCHANGED <<main, merged, strict, review, requested, resumes, history>>

LEMMA GivesUpInv ==
  ASSUME DeliveryIInv, phase # "ended", GivesUp
  PROVE  DeliveryIInv'
<1>1. PICK o \in Outcomes \ {"none", "success"} : End(o)
  BY DEF GivesUp
<1>2. /\ phase' = "ended" /\ pc' = "none" /\ outcome' = o
      /\ tries' = 0 /\ target' = Gone /\ conf' = "none"
      /\ round' = 0 /\ reReview' = FALSE /\ reReviews' = 0
  BY <1>1 DEF End
<1>3. /\ OnHost' /\ conflicted' \in BOOLEAN /\ head' \in Commits
      /\ label' \in Tiers \cup {"none"}
      /\ changes' = changes \/ (changes' = changes + 1 /\ changes' \in 1..MaxChanges)
      /\ UNCHANGED <<main, merged, strict, review, requested, resumes>>
      /\ UNCHANGED <<foreign, approved, resolved, passed, excuses>>
  BY DEF GivesUp, history
<1>4. DeliveryTypeOK'
  <2>1. Flags'
    BY <1>2, <1>3, AtWork, Zenon DEF Flags
  <2>2. OnGithub' /\ InHistory'
    BY <1>3, AtWork DEF OnGithub, InHistory
  <2>3. InRun'
    BY <1>1, <1>2 DEF InRun, Phases, Tiers
  <2> QED
    BY <1>3, <2>1, <2>2, <2>3, TypePartsNext
<1>5. Placed' /\ TargetIsCommit' /\ UnderReview' /\ UnderMerge' /\ GreenIsPassed'
  BY <1>2 DEF Placed, TargetIsCommit, UnderReview, UnderMerge, Merging, GreenIsPassed, At
<1>6. MergedIsOver' /\ SuccessIsDelivered'
  BY <1>1, <1>2, <1>3, CommitFacts DEF MergedIsOver, SuccessIsDelivered
<1>7. ConfidenceIsKept'
  BY <1>2, <1>3 DEF DeliveryIInv, ConfidenceIsKept, Merging, At
<1>8. MergedWasApproved' /\ MergedWasGreen' /\ LowConfidenceIsHeld'
  BY <1>3 DEF DeliveryIInv, MergedWasApproved, MergedWasGreen, LowConfidenceIsHeld, IsMerged
<1> QED
  BY <1>3, <1>4, <1>5, <1>6, <1>7, <1>8, NothingDecided DEF DeliveryIInv

(* Failing is giving up, in every step of the run.                         *)
LEMMA FailGivesUp ==
  ASSUME DeliveryIInv, phase # "ended", Fail
  PROVE  \E o \in Outcomes \ {"none", "success"} : End(o)
<1>1. phase \in Phases
  BY AtWork DEF InRun
<1>2. Failure \in {"dev_failed", "review_failed", "merge_failed"}
  BY <1>1 DEF Failure, Phases
<1> QED
  BY <1>2 DEF Fail, Outcomes

-----------------------------------------------------------------------------
(* The dev agent.                                                          *)

LEMMA DevAgentInv == ASSUME DeliveryIInv, DevAgent PROVE DeliveryIInv'
<1>1. /\ phase = "dev" /\ pc = "agent"
      /\ UNCHANGED <<github, conflicted, seenMain, seenHead, resumes, history>>
  BY DEF DevAgent, At
<1>2. /\ head \in Commits /\ merged = Gone /\ outcome = "none"
      /\ Flags /\ OnGithub /\ OnHost /\ InRun /\ InHistory
  BY <1>1, AtWork
<1>3. CASE Fail /\ UNCHANGED <<changes, wt>>
  BY <1>1, <1>2, <1>3, FailGivesUp, GivesUpInv DEF GivesUp, OnHost, OnGithub, Flags, github
<1>4. ASSUME wt' \in Commits, changes' \in 1..MaxChanges,
             changes' = changes \/ changes' = changes + 1,
             \/ phase' = "dev" /\ pc' = "push"
             \/ phase' = "sync" /\ pc' = "fetch",
             UNCHANGED <<outcome, tries, target, conf, round, reReview, reReviews>>
      PROVE  DeliveryIInv'
  <2>1. DeliveryTypeOK'
    <3>1. Flags' /\ OnGithub'
      BY <1>1, <1>2, <1>4, Zenon DEF Flags, OnGithub, github
    <3>2. OnHost' /\ InHistory'
      BY <1>1, <1>2, <1>4 DEF OnHost, InHistory, history
    <3>3. InRun'
      BY <1>2, <1>4 DEF InRun, Phases
    <3> QED
      BY <3>1, <3>2, <3>3, TypePartsNext
  <2>2. Placed' /\ TargetIsCommit' /\ UnderReview' /\ UnderMerge' /\ GreenIsPassed'
    BY <1>4 DEF Placed, TargetIsCommit, UnderReview, UnderMerge, Merging, GreenIsPassed, At
  <2>3. DecisionIsKept' /\ ResolvedIsOwn'
    BY <1>1, <1>4, NothingDecided DEF github, history
  <2>4. ConfidenceIsKept'
    BY <1>1, <1>4 DEF DeliveryIInv, ConfidenceIsKept, Merging, At, github, history
  <2> QED
    BY <1>1, <1>2, <1>4, <2>1, <2>2, <2>3, <2>4, GoesOn DEF DeliveryIInv, github
<1>5. /\ wt \in Commits /\ changes \in 1..MaxChanges
      /\ CanChange => /\ Write(wt.base) \in Commits
                      /\ NextChange \in 1..MaxChanges /\ NextChange = changes + 1
  <2>1. wt \in Commits /\ wt.base \in 0..MaxMain /\ changes \in 1..MaxChanges
    BY <1>2, CommitFacts DEF OnHost, InHistory
  <2> QED
    BY <2>1, WriteFacts, Bounds
<1> QED
  BY <1>3, <1>4, <1>5, Bounds DEF DevAgent, Goto, Keep

-----------------------------------------------------------------------------
(* The three pushes.                                                       *)

(* What a push leaves alone.                                               *)
PushOnly == UNCHANGED <<main, merged, strict, review, requested, label,
                        wt, conflicted, seenMain, changes, resumes, history>>

LEMMA PushGivesUp ==
  ASSUME DeliveryIInv, phase # "ended", PushOnly, Fail,
         PushBranch \/ UNCHANGED <<head, seenHead>>
  PROVE  DeliveryIInv'
<1>1. /\ head \in Commits /\ Flags /\ OnGithub /\ OnHost
  BY AtWork
<1>2. head' \in Commits /\ seenHead' \in Commits
  BY <1>1 DEF PushBranch, OnHost
<1> QED
  BY <1>1, <1>2, FailGivesUp, GivesUpInv DEF GivesUp, PushOnly, OnHost, OnGithub, Flags

LEMMA PushTypes ==
  ASSUME DeliveryIInv, phase # "ended", PushOnly, PushBranch, InRun', reReview' \in BOOLEAN
  PROVE  DeliveryTypeOK' /\ head' = wt /\ head' \in Commits
<1>1. /\ Flags /\ OnGithub /\ OnHost /\ InHistory
  BY AtWork
<1>2. head' = wt /\ seenHead' = wt /\ wt \in Commits
  BY <1>1 DEF PushBranch, OnHost
<1>3. Flags'
  BY <1>1, Zenon DEF PushOnly, Flags
<1>4. OnGithub' /\ OnHost' /\ InHistory'
  BY <1>1, <1>2 DEF PushOnly, OnGithub, OnHost, InHistory, history
<1> QED
  BY <1>2, <1>3, <1>4, TypePartsNext

LEMMA DevPushInv == ASSUME DeliveryIInv, DevPush PROVE DeliveryIInv'
<1>1. phase = "dev" /\ pc = "push" /\ PushOnly
  BY DEF DevPush, At, PushOnly
<1>2. merged = Gone /\ outcome = "none" /\ Flags /\ InRun
  BY <1>1, AtWork
<1>3. ASSUME PushBranch, phase' = "sync", pc' = "fetch",
             UNCHANGED <<outcome, tries, target, conf, round, reReview, reReviews>>
      PROVE  DeliveryIInv'
  <2>1. InRun' /\ reReview' \in BOOLEAN
    BY <1>2, <1>3 DEF InRun, Phases, Flags
  <2>2. Placed' /\ TargetIsCommit' /\ UnderReview' /\ UnderMerge' /\ GreenIsPassed'
    BY <1>3 DEF Placed, TargetIsCommit, UnderReview, UnderMerge, Merging, GreenIsPassed, At
  <2>3. ConfidenceIsKept'
    BY <1>1, <1>3 DEF PushOnly, DeliveryIInv, ConfidenceIsKept, Merging, At
  <2>4. DecisionIsKept' /\ ResolvedIsOwn'
    BY <1>1, NothingDecided DEF PushOnly, history
  <2> QED
    BY <1>1, <1>2, <1>3, <2>1, <2>2, <2>3, <2>4, PushTypes, GoesOn DEF PushOnly, DeliveryIInv
<1> QED
  BY <1>1, <1>3, PushGivesUp DEF DevPush, Goto, Keep

LEMMA PushRebasedInv == ASSUME DeliveryIInv, PushRebased PROVE DeliveryIInv'
<1>1. phase \in {"sync", "merge", "retry"} /\ pc = "push" /\ PushOnly
  BY DEF PushRebased, PushOnly
<1>2. merged = Gone /\ outcome = "none" /\ Flags /\ InRun /\ OnHost
  BY <1>1, AtWork
<1>3. ASSUME PushBranch, target' = wt, phase' = phase, pc' = "poll",
             UNCHANGED <<outcome, tries, conf, round, reReview, reReviews>>
      PROVE  DeliveryIInv'
  <2>1. InRun' /\ reReview' \in BOOLEAN
    BY <1>2, <1>3 DEF InRun, OnHost, Flags
  <2>2. DeliveryTypeOK' /\ head' = wt /\ head' \in Commits
    BY <1>1, <1>3, <2>1, PushTypes
  <2>3. Placed' /\ TargetIsCommit' /\ UnderReview' /\ GreenIsPassed'
    BY <1>1, <1>3, <2>2 DEF Placed, TargetIsCommit, UnderReview, GreenIsPassed, At
  <2>4. UnderMerge' /\ ConfidenceIsKept'
    BY <1>1, <1>3, <2>2 DEF PushOnly, history, DeliveryIInv, UnderMerge, Merging, Vouched, Excused,
       ConfidenceIsKept, At
  <2>5. DecisionIsKept' /\ ResolvedIsOwn'
    BY <1>1, NothingDecided DEF PushOnly, history
  <2> QED
    BY <1>1, <1>2, <1>3, <2>2, <2>3, <2>4, <2>5, GoesOn DEF PushOnly, DeliveryIInv
<1> QED
  BY <1>1, <1>3, PushGivesUp DEF PushRebased, Goto, Keep

LEMMA PushResolvedInv == ASSUME DeliveryIInv, PushResolved PROVE DeliveryIInv'
<1>1. phase = "merge" /\ pc = "push resolved" /\ PushOnly
  <2>1. pc = "push resolved" /\ PushOnly
    BY DEF PushResolved, PushOnly
  <2>2. phase \in Phases
    BY TypeParts DEF DeliveryIInv, InRun
  <2> QED
    BY <2>1, <2>2 DEF DeliveryIInv, Placed, Phases
<1>2. merged = Gone /\ outcome = "none" /\ Flags /\ InRun
  BY <1>1, AtWork
<1>3. ASSUME PushBranch, phase' = "review", pc' = "checkout", reReview' = TRUE,
             UNCHANGED <<outcome, tries, target, conf, round, reReviews>>
      PROVE  DeliveryIInv'
  <2>1. InRun' /\ reReview' \in BOOLEAN
    BY <1>2, <1>3 DEF InRun, Phases
  <2>2. Placed' /\ TargetIsCommit' /\ UnderReview' /\ UnderMerge' /\ GreenIsPassed'
    BY <1>3 DEF Placed, TargetIsCommit, UnderReview, UnderMerge, Merging, GreenIsPassed, At
  <2>3. ConfidenceIsKept'
    BY <1>1, <1>3 DEF PushOnly, DeliveryIInv, ConfidenceIsKept, Merging, At
  <2>4. DecisionIsKept' /\ ResolvedIsOwn'
    BY <1>1, NothingDecided DEF PushOnly, history
  <2> QED
    BY <1>1, <1>2, <1>3, <2>1, <2>2, <2>3, <2>4, PushTypes, GoesOn DEF PushOnly, DeliveryIInv
<1> QED
  BY <1>1, <1>3, PushGivesUp DEF PushResolved, NextAfterResolvedPush, Goto

-----------------------------------------------------------------------------
(* Fetch, rebase, resolve.                                                 *)

LEMMA FetchInv == ASSUME DeliveryIInv, Fetch PROVE DeliveryIInv'
<1>1. /\ phase \in {"sync", "merge"} /\ pc = "fetch"
      /\ UNCHANGED <<github, wt, conflicted, changes, resumes, history>>
  <2>1. phase \in Phases
    BY TypeParts DEF DeliveryIInv, InRun
  <2> QED
    BY <2>1 DEF Fetch, DeliveryIInv, Placed, Phases
<1>2. /\ head \in Commits /\ merged = Gone /\ outcome = "none"
      /\ Flags /\ OnGithub /\ OnHost /\ InRun /\ InHistory
  BY <1>1, AtWork
<1>3. CASE Fail /\ UNCHANGED <<seenMain, seenHead>>
  BY <1>1, <1>2, <1>3, FailGivesUp, GivesUpInv DEF GivesUp, OnHost, OnGithub, Flags, github
<1>4. ASSUME FetchOrigin, tries' = 0, phase' = phase, pc' \in {"gate", "rebase"},
             UNCHANGED <<outcome, target, conf, round, reReview, reReviews>>
      PROVE  DeliveryIInv'
  <2>1. DeliveryTypeOK'
    <3>1. Flags'
      BY <1>1, <1>2, <1>4, Zenon DEF Flags, github
    <3>2. OnGithub' /\ OnHost' /\ InHistory'
      BY <1>1, <1>2, <1>4 DEF OnGithub, OnHost, InHistory, FetchOrigin, github, history
    <3>3. InRun'
      BY <1>2, <1>4 DEF InRun
    <3> QED
      BY <3>1, <3>2, <3>3, TypePartsNext
  <2>2. Placed' /\ TargetIsCommit' /\ UnderReview' /\ GreenIsPassed'
    BY <1>1, <1>4 DEF Placed, TargetIsCommit, UnderReview, GreenIsPassed, At
  <2>3. UnderMerge' /\ ConfidenceIsKept'
    BY <1>1, <1>4 DEF github, history, DeliveryIInv, UnderMerge, Merging, Vouched, Excused,
       ConfidenceIsKept, At
  <2>4. DecisionIsKept' /\ ResolvedIsOwn'
    BY <1>1, NothingDecided DEF github, history
  <2> QED
    BY <1>1, <1>2, <1>4, <2>1, <2>2, <2>3, <2>4, GoesOn DEF github, DeliveryIInv
<1> QED
  BY <1>3, <1>4 DEF Fetch, Goto, Keep

LEMMA RebaseBranchInv == ASSUME DeliveryIInv, RebaseBranch PROVE DeliveryIInv'
<1>1. /\ phase \in {"sync", "merge", "retry"} /\ pc = "rebase"
      /\ UNCHANGED <<github, changes, resumes, history>>
  <2>1. phase \in Phases
    BY TypeParts DEF DeliveryIInv, InRun
  <2> QED
    BY <2>1 DEF RebaseBranch, DeliveryIInv, Placed, Phases
<1>2. /\ head \in Commits /\ merged = Gone /\ outcome = "none"
      /\ Flags /\ OnGithub /\ OnHost /\ InRun /\ InHistory
  BY <1>1, AtWork
<1>3. CASE FetchOrigin /\ Fail /\ UNCHANGED <<wt, conflicted>>
  <2>1. OnHost' /\ conflicted' \in BOOLEAN
    BY <1>2, <1>3 DEF FetchOrigin, OnHost, OnGithub, Flags
  <2> QED
    BY <1>1, <1>2, <1>3, <2>1, FailGivesUp, GivesUpInv DEF GivesUp, OnGithub, github
<1>4. CASE Fail /\ UNCHANGED host
  BY <1>1, <1>2, <1>4, FailGivesUp, GivesUpInv DEF GivesUp, OnHost, OnGithub, Flags, github, host
<1>5. ASSUME FetchOrigin, wt' \in Commits, wt'.change = wt.change, conflicted' \in BOOLEAN,
             tries' \in Nat, phase' = phase,
             pc' = "push" \/ (pc' = "resolve" /\ phase # "retry"),
             UNCHANGED <<outcome, target, conf, round, reReview, reReviews>>
      PROVE  DeliveryIInv'
  <2>1. DeliveryTypeOK'
    <3>1. Flags'
      BY <1>1, <1>2, <1>5, Zenon DEF Flags, github
    <3>2. OnGithub' /\ OnHost' /\ InHistory'
      BY <1>1, <1>2, <1>5 DEF OnGithub, OnHost, InHistory, FetchOrigin, github, history
    <3>3. InRun'
      BY <1>2, <1>5 DEF InRun
    <3> QED
      BY <3>1, <3>2, <3>3, TypePartsNext
  <2>2. Placed' /\ TargetIsCommit' /\ UnderReview' /\ GreenIsPassed'
    BY <1>1, <1>5 DEF Placed, TargetIsCommit, UnderReview, GreenIsPassed, At
  <2>3. UnderMerge' /\ ConfidenceIsKept'
    BY <1>1, <1>5 DEF github, history, DeliveryIInv, UnderMerge, Merging, Vouched, Excused,
       ConfidenceIsKept, At
  <2>4. DecisionIsKept' /\ ResolvedIsOwn'
    BY <1>1, NothingDecided DEF github, history
  <2> QED
    BY <1>1, <1>2, <1>5, <2>1, <2>2, <2>3, <2>4, GoesOn DEF github, DeliveryIInv
<1>6. /\ [wt EXCEPT !.base = main] \in Commits
      /\ [wt EXCEPT !.base = main].change = wt.change
      /\ wt \in Commits /\ conflicted \in BOOLEAN /\ tries \in Nat
  BY <1>2, CommitFacts DEF OnHost, OnGithub, Flags, InRun
<1>7. \/ FetchOrigin /\ Fail /\ UNCHANGED <<wt, conflicted>>
      \/ Fail /\ UNCHANGED host
      \/ /\ FetchOrigin /\ phase' = phase
         /\ UNCHANGED <<outcome, target, conf, round, reReview, reReviews>>
         /\ \/ /\ wt' = [wt EXCEPT !.base = main]
               /\ pc' = "push" /\ UNCHANGED <<conflicted, tries>>
            \/ /\ phase # "retry" /\ conflicted' = TRUE /\ tries' = 1
               /\ pc' = "resolve" /\ wt' = wt
  BY Zenon DEF RebaseBranch, Goto, Keep
<1>8. CASE /\ FetchOrigin /\ phase' = phase
           /\ UNCHANGED <<outcome, target, conf, round, reReview, reReviews>>
           /\ \/ /\ wt' = [wt EXCEPT !.base = main]
                 /\ pc' = "push" /\ UNCHANGED <<conflicted, tries>>
              \/ /\ phase # "retry" /\ conflicted' = TRUE /\ tries' = 1
                 /\ pc' = "resolve" /\ wt' = wt
  <2>1. wt' \in Commits /\ wt'.change = wt.change
    BY <1>6, <1>8, Zenon
  <2>2. conflicted' \in BOOLEAN
    BY <1>6, <1>8, Zenon
  <2>3. tries' \in Nat
    BY <1>6, <1>8
  <2> QED
    BY <1>5, <1>8, <2>1, <2>2, <2>3, Zenon
<1> QED
  BY <1>3, <1>4, <1>7, <1>8, Zenon

LEMMA ResolveConflictInv == ASSUME DeliveryIInv, ResolveConflict PROVE DeliveryIInv'
<1>1. /\ phase \in {"sync", "merge"} /\ pc = "resolve"
      /\ UNCHANGED <<github, seenMain, seenHead, resumes, foreign, approved, passed, excuses>>
  <2>1. phase \in Phases
    BY TypeParts DEF DeliveryIInv, InRun
  <2> QED
    BY <2>1 DEF ResolveConflict, DeliveryIInv, Placed, Phases
<1>2. /\ head \in Commits /\ merged = Gone /\ outcome = "none"
      /\ Flags /\ OnGithub /\ OnHost /\ InRun /\ InHistory
  BY <1>1, AtWork
<1>3. CASE /\ conflicted' = FALSE /\ UNCHANGED <<wt, changes, resolved>>
           /\ End("dev_failed") \/ Fail
  <2>1. \E o \in Outcomes \ {"none", "success"} : End(o)
    BY <1>1, <1>3, FailGivesUp DEF Outcomes
  <2> QED
    BY <1>1, <1>2, <1>3, <2>1, GivesUpInv DEF GivesUp, OnHost, OnGithub, github, history
<1>4. CASE /\ tries' = tries + 1
           /\ UNCHANGED <<wt, conflicted, changes, resolved, phase, pc, target, outcome,
                          conf, round, reReview, reReviews>>
  <2>1. DeliveryTypeOK'
    <3>1. Flags'
      BY <1>1, <1>2, <1>4, Zenon DEF Flags, github
    <3>2. OnGithub' /\ OnHost' /\ InHistory'
      BY <1>1, <1>2, <1>4 DEF OnGithub, OnHost, InHistory, github
    <3>3. InRun'
      BY <1>2, <1>4 DEF InRun
    <3> QED
      BY <3>1, <3>2, <3>3, TypePartsNext
  <2>2. Placed' /\ TargetIsCommit' /\ UnderReview' /\ GreenIsPassed'
    BY <1>1, <1>4 DEF Placed, TargetIsCommit, UnderReview, GreenIsPassed, At
  <2>3. UnderMerge' /\ ConfidenceIsKept'
    BY <1>1, <1>4 DEF github, DeliveryIInv, UnderMerge, Merging, Vouched, Excused,
       ConfidenceIsKept, At
  <2>4. DecisionIsKept' /\ ResolvedIsOwn'
    BY <1>1, <1>4, NothingDecided DEF github
  <2> QED
    BY <1>1, <1>2, <1>4, <2>1, <2>2, <2>3, <2>4, GoesOn DEF github, DeliveryIInv
<1>5. CASE /\ CanChange /\ changes' = NextChange /\ wt' = Write(seenMain)
           /\ conflicted' = FALSE
           /\ resolved' = IF phase = "merge" THEN resolved \cup {NextChange} ELSE resolved
           /\ phase' = phase
           /\ pc' = IF phase = "merge" THEN "push resolved" ELSE "push"
           /\ UNCHANGED <<outcome, tries, target, conf, round, reReview, reReviews>>
  <2>1. /\ wt' \in Commits /\ NextChange = changes + 1 /\ NextChange \in 1..MaxChanges
        /\ changes \in 1..MaxChanges
    <3>1. seenMain \in 0..MaxMain /\ changes \in 1..MaxChanges
      BY <1>2 DEF OnHost, InHistory
    <3> QED
      BY <1>5, <3>1, WriteFacts
  <2>0. /\ changes' = NextChange
        /\ resolved' = resolved \/ resolved' = resolved \cup {NextChange}
    BY <1>5, Zenon
  <2>2. DeliveryTypeOK'
    <3>1. Flags'
      BY <1>1, <1>2, <1>5, Zenon DEF Flags, github
    <3>2. OnGithub' /\ OnHost'
      BY <1>1, <1>2, <2>1 DEF OnGithub, OnHost, github
    <3>3. InHistory'
      BY <1>1, <1>2, <2>0, <2>1 DEF InHistory
    <3>4. InRun'
      BY <1>2, <1>5 DEF InRun
    <3> QED
      BY <3>1, <3>2, <3>3, <3>4, TypePartsNext
  <2>3. Placed' /\ TargetIsCommit' /\ UnderReview' /\ UnderMerge' /\ GreenIsPassed'
    <3>1. \/ phase = "merge" /\ phase' = "merge" /\ pc' = "push resolved"
          \/ phase' = "sync" /\ pc' = "push"
      BY <1>1, <1>5
    <3>2. Placed' /\ TargetIsCommit' /\ UnderReview' /\ GreenIsPassed'
      BY <3>1 DEF Placed, TargetIsCommit, UnderReview, GreenIsPassed, At
    <3>3. UnderMerge'
      BY <1>1, <3>1 DEF DeliveryIInv, UnderMerge, Merging, github
    <3> QED
      BY <3>2, <3>3
  <2>4. ConfidenceIsKept'
    BY <1>1, <1>5 DEF github, DeliveryIInv, ConfidenceIsKept, Merging, At
  <2>5. DecisionIsKept'
    BY <1>1 DEF github, DeliveryIInv, DecisionIsKept
  <2>6. ResolvedIsOwn'
    <3>1. ResolvedIsOwn /\ changes' = changes + 1 /\ foreign' = foreign
      BY <1>1, <2>0, <2>1 DEF DeliveryIInv
    <3>2. resolved' = resolved \/ resolved' = resolved \cup {changes + 1}
      BY <2>0, <2>1
    <3> QED
      BY <2>1, <3>1, <3>2, Bounds DEF ResolvedIsOwn
  <2> QED
    BY <1>1, <1>2, <1>5, <2>2, <2>3, <2>4, <2>5, <2>6, GoesOn DEF github, DeliveryIInv
<1> QED
  BY <1>3, <1>4, <1>5 DEF ResolveConflict, Goto, Keep

-----------------------------------------------------------------------------
(* CI.                                                                     *)

(* A green answer of classifyChecks means what branch protection means by  *)
(* a passed commit, whatever else CI reports.                              *)
THEOREM GreenIsReallyPassed ==
  ASSUME NEW checks \in Answers, classifyChecks(checks) = "green"
  PROVE  ReallyPassed(checks)
<1>1. InBucket(checks, "fail") = {}
  BY DEF classifyChecks
<1>2. InBucket(checks, "pending") = {} /\ RequiredCheck \in Reported(checks)
  BY <1>1 DEF classifyChecks
<1>3. \A c \in CheckNames : checks[c] \in CheckStates
  BY DeliveryAssumption, Zenon DEF Answers
<1>4. \A c \in Reported(checks) : checkRunBucket(checks[c]) \notin {"fail", "pending"}
  BY <1>1, <1>2 DEF InBucket
<1>5. \A c \in CheckNames :
        checks[c] \notin {"failure", "cancelled", "timed_out", "action_required"}
  BY <1>4 DEF Reported, checkRunBucket
<1>6. checks[RequiredCheck] \in {"success", "neutral", "skipped"}
  BY <1>2, <1>3, <1>4 DEF Reported, checkRunBucket, CheckStates, Conclusions
<1> QED
  BY <1>5, <1>6 DEF ReallyPassed

LEMMA CIGreenInv == ASSUME DeliveryIInv, CIGreen PROVE DeliveryIInv'
<1>1. /\ phase \in {"sync", "merge", "retry"} /\ pc \in {"poll", "gate"}
      /\ UNCHANGED <<github, host, changes, resumes, foreign, approved, resolved, excuses>>
  <2>1. phase \in Phases
    BY TypeParts DEF DeliveryIInv, InRun
  <2> QED
    BY <2>1 DEF CIGreen, Polling, DeliveryIInv, Placed, Phases
<1>2. /\ head \in Commits /\ merged = Gone /\ outcome = "none"
      /\ Flags /\ OnGithub /\ OnHost /\ InRun /\ InHistory
  BY <1>1, AtWork
<1>3. /\ target' = Gone /\ UNCHANGED <<outcome, tries, conf, round, reReview, reReviews>>
      /\ \/ phase = "sync" /\ phase' = "review" /\ pc' = "checkout"
         \/ phase # "sync" /\ phase' = "merge" /\ pc' = "call"
  BY DEF CIGreen, Goto, Keep
<1>4. passed' = passed \cup {Polled}
  BY GreenIsReallyPassed DEF CIGreen
<1>5. Polled \in Commits /\ (Polled = head \/ head.change \in foreign)
  BY <1>1, <1>2 DEF Polled, DeliveryIInv, TargetIsCommit, GreenIsPassed
<1>6. DeliveryTypeOK'
  <2>1. Flags'
    BY <1>1, <1>2, <1>3, Zenon DEF Flags, github, host
  <2>2. OnGithub' /\ OnHost'
    BY <1>1, <1>2 DEF OnGithub, OnHost, github, host
  <2>3. InHistory'
    BY <1>1, <1>2, <1>4, <1>5 DEF InHistory
  <2>4. InRun'
    BY <1>2, <1>3 DEF InRun, Phases
  <2> QED
    BY <2>1, <2>2, <2>3, <2>4, TypePartsNext
<1>7. Placed' /\ TargetIsCommit' /\ UnderReview'
  BY <1>3 DEF Placed, TargetIsCommit, UnderReview, At
<1>8. GreenIsPassed'
  BY <1>1, <1>3, <1>4, <1>5 DEF GreenIsPassed, Passed, At, github
<1>9. UnderMerge' /\ ConfidenceIsKept'
  BY <1>1, <1>3 DEF github, host, DeliveryIInv, UnderMerge, Merging, Vouched, Excused,
     ConfidenceIsKept, At
<1>10. DecisionIsKept' /\ ResolvedIsOwn'
  BY <1>1, NothingDecided DEF github
<1> QED
  BY <1>1, <1>2, <1>3, <1>6, <1>7, <1>8, <1>9, <1>10, GoesOn DEF github, DeliveryIInv

(* Steps that end the run, or move it within the dev agent's part, where   *)
(* nothing is vouched for yet, and that touch nothing else.                *)
LEMMA RunOnlyInv ==
  ASSUME DeliveryIInv, phase # "ended", pc # "cleanup",
         UNCHANGED <<github, host, changes, resumes, history>>,
         \/ \E o \in Outcomes \ {"none", "success"} : End(o)
         \/ /\ phase' = "sync" /\ pc' \in {"fix", "fixing", "gate"}
            /\ InRun' /\ reReview' = reReview /\ outcome' = outcome
  PROVE  DeliveryIInv'
<1>1. /\ head \in Commits /\ merged = Gone /\ outcome = "none"
      /\ Flags /\ OnGithub /\ OnHost /\ InRun /\ InHistory
  BY AtWork
<1>2. CASE \E o \in Outcomes \ {"none", "success"} : End(o)
  BY <1>1, <1>2, GivesUpInv DEF GivesUp, OnHost, OnGithub, Flags, github, host
<1>3. CASE /\ phase' = "sync" /\ pc' \in {"fix", "fixing", "gate"}
           /\ InRun' /\ reReview' = reReview /\ outcome' = outcome
  <2>1. DeliveryTypeOK'
    <3>1. Flags'
      BY <1>1, <1>3, Zenon DEF Flags, github, host
    <3>2. OnGithub' /\ OnHost' /\ InHistory'
      BY <1>1 DEF OnGithub, OnHost, InHistory, github, host, history
    <3> QED
      BY <1>3, <3>1, <3>2, TypePartsNext
  <2>2. Placed' /\ TargetIsCommit' /\ UnderReview' /\ UnderMerge' /\ GreenIsPassed'
    BY <1>3 DEF Placed, TargetIsCommit, UnderReview, UnderMerge, Merging, GreenIsPassed, At
  <2>3. ConfidenceIsKept'
    BY <1>3 DEF github, DeliveryIInv, ConfidenceIsKept, Merging, At
  <2>4. DecisionIsKept' /\ ResolvedIsOwn'
    BY NothingDecided DEF github, history
  <2> QED
    BY <1>1, <1>3, <2>1, <2>2, <2>3, <2>4, GoesOn DEF github, DeliveryIInv
<1> QED
  BY <1>2, <1>3

LEMMA NotGreenInv ==
  ASSUME DeliveryIInv, Polling, NotGreen \/ Fail,
         UNCHANGED <<github, host, changes, resumes, history>>
  PROVE  DeliveryIInv'
<1>1. phase # "ended" /\ pc # "cleanup"
  BY DEF Polling, DeliveryIInv, Placed
<1>2. CASE Fail
  BY <1>1, <1>2, FailGivesUp, RunOnlyInv
<1>3. CASE GateFailed
  <2>1. CASE End("dev_failed")
    BY <1>1, <2>1, RunOnlyInv DEF Outcomes
  <2>2. CASE /\ phase' = "sync" /\ pc' = "fix"
             /\ UNCHANGED <<outcome, tries, target, conf, round, reReview, reReviews>>
    <3>1. InRun'
      BY <1>1, <2>2, AtWork DEF InRun, Phases
    <3> QED
      BY <1>1, <2>2, <3>1, RunOnlyInv
  <2> QED
    BY <1>3, <2>1, <2>2 DEF GateFailed, Goto, Keep
<1> QED
  BY <1>2, <1>3 DEF NotGreen

-----------------------------------------------------------------------------
(* The fix rounds.                                                         *)

LEMMA FixStartInv == ASSUME DeliveryIInv, FixStart PROVE DeliveryIInv'
<1>1. phase = "sync" /\ pc = "fix" /\ UNCHANGED <<github, host, changes, resumes, history>>
  BY DEF FixStart, At
<1>2. CASE Fail
  BY <1>1, <1>2, FailGivesUp, RunOnlyInv
<1>3. CASE /\ target' = head /\ phase' = "sync" /\ pc' = "fixing"
           /\ UNCHANGED <<outcome, tries, conf, round, reReview, reReviews>>
  <2>1. InRun'
    BY <1>1, <1>3, AtWork DEF InRun, Phases
  <2> QED
    BY <1>1, <1>3, <2>1, RunOnlyInv
<1> QED
  BY <1>2, <1>3 DEF FixStart, Goto, Keep

LEMMA FixEndInv == ASSUME DeliveryIInv, FixEnd PROVE DeliveryIInv'
<1>1. phase = "sync" /\ pc = "fixed" /\ UNCHANGED <<github, host, changes, resumes, history>>
  BY DEF FixEnd, At
<1>2. CASE Fail
  BY <1>1, <1>2, FailGivesUp, RunOnlyInv
<1>3. CASE /\ tries' = tries + 1 /\ target' = Gone /\ phase' = "sync" /\ pc' = "gate"
           /\ UNCHANGED <<outcome, conf, round, reReview, reReviews>>
  <2>1. InRun'
    BY <1>1, <1>3, AtWork DEF InRun, Phases
  <2> QED
    BY <1>1, <1>3, <2>1, RunOnlyInv
<1> QED
  BY <1>2, <1>3 DEF FixEnd, Goto, Keep

LEMMA FixAgentInv == ASSUME DeliveryIInv, FixAgent PROVE DeliveryIInv'
<1>1. /\ phase = "sync" /\ pc = "fixing"
      /\ UNCHANGED <<main, merged, strict, review, requested, label,
                     conflicted, seenMain, resumes, history>>
  BY DEF FixAgent, At
<1>2. /\ head \in Commits /\ merged = Gone /\ outcome = "none"
      /\ Flags /\ OnGithub /\ OnHost /\ InRun /\ InHistory
  BY <1>1, AtWork
<1>3. ASSUME Fail, wt' \in Commits, head' \in Commits, seenHead' \in Commits,
             changes' = changes \/ (changes' = changes + 1 /\ changes' \in 1..MaxChanges)
      PROVE  DeliveryIInv'
  BY <1>1, <1>2, <1>3, FailGivesUp, GivesUpInv DEF GivesUp, OnHost, OnGithub, Flags
<1>4. ASSUME wt' \in Commits, head' \in Commits, seenHead' \in Commits,
             changes' \in 1..MaxChanges, changes' = changes \/ changes' = changes + 1,
             phase' = "sync", pc' = "fixed",
             UNCHANGED <<outcome, tries, target, conf, round, reReview, reReviews>>
      PROVE  DeliveryIInv'
  <2>1. DeliveryTypeOK'
    <3>1. Flags'
      BY <1>1, <1>2, <1>4, Zenon DEF Flags
    <3>2. OnGithub' /\ OnHost' /\ InHistory'
      BY <1>1, <1>2, <1>4 DEF OnGithub, OnHost, InHistory, history
    <3>3. InRun'
      BY <1>2, <1>4 DEF InRun, Phases
    <3> QED
      BY <3>1, <3>2, <3>3, TypePartsNext
  <2>2. Placed' /\ TargetIsCommit' /\ UnderReview' /\ UnderMerge' /\ GreenIsPassed'
    BY <1>4 DEF Placed, TargetIsCommit, UnderReview, UnderMerge, Merging, GreenIsPassed, At
  <2>3. ConfidenceIsKept'
    BY <1>1, <1>4 DEF DeliveryIInv, ConfidenceIsKept, Merging, At
  <2>4. DecisionIsKept' /\ ResolvedIsOwn'
    BY <1>1, <1>4, NothingDecided DEF history
  <2> QED
    BY <1>1, <1>2, <1>4, <2>1, <2>2, <2>3, <2>4, GoesOn DEF DeliveryIInv
<1>5. /\ wt \in Commits /\ seenHead \in Commits /\ changes \in 1..MaxChanges
      /\ CanChange => /\ Write(wt.base) \in Commits
                      /\ NextChange \in 1..MaxChanges /\ NextChange = changes + 1
  <2>1. /\ wt \in Commits /\ wt.base \in 0..MaxMain /\ seenHead \in Commits
        /\ changes \in 1..MaxChanges
    BY <1>2, CommitFacts DEF OnHost, InHistory
  <2> QED
    BY <2>1, WriteFacts
<1>6. /\ wt' \in Commits /\ head' \in Commits /\ seenHead' \in Commits
      /\ changes' \in 1..MaxChanges
      /\ changes' = changes \/ changes' = changes + 1
  <2>1. CASE /\ CanChange /\ changes' = NextChange /\ wt' = Write(wt.base)
             /\ \/ head' = wt' /\ seenHead' = wt'
                \/ UNCHANGED <<head, seenHead>>
    BY <1>2, <1>5, <2>1
  <2>2. CASE UNCHANGED <<changes, wt, head, seenHead>>
    BY <1>2, <1>5, <2>2
  <2> QED
    BY <2>1, <2>2, Zenon DEF FixAgent
<1>7. CASE Fail
  BY <1>3, <1>6, <1>7
<1>8. CASE /\ phase' = "sync" /\ pc' = "fixed"
           /\ UNCHANGED <<outcome, tries, target, conf, round, reReview, reReviews>>
  BY <1>4, <1>6, <1>8
<1> QED
  BY <1>7, <1>8, Zenon DEF FixAgent, Goto, Keep

-----------------------------------------------------------------------------
(* The reviewer.                                                           *)

LEMMA ReviewCheckoutInv == ASSUME DeliveryIInv, ReviewCheckout PROVE DeliveryIInv'
<1>1. /\ phase = "review" /\ pc = "checkout"
      /\ UNCHANGED <<github, wt, conflicted, changes, resumes,
                     foreign, approved, resolved, passed>>
  BY DEF ReviewCheckout, At
<1>2. /\ head \in Commits /\ merged = Gone /\ outcome = "none"
      /\ Flags /\ OnGithub /\ OnHost /\ InRun /\ InHistory
  BY <1>1, AtWork
<1>3. CASE Fail /\ UNCHANGED <<seenMain, seenHead, excuses>>
  BY <1>1, <1>2, <1>3, FailGivesUp, GivesUpInv
     DEF GivesUp, OnHost, OnGithub, Flags, github, history
<1>4. CASE /\ FetchOrigin /\ target' = head /\ excuses' = excuses \cup Diverged(head)
           /\ phase' = "review" /\ pc' = "decide"
           /\ UNCHANGED <<outcome, tries, conf, round, reReview, reReviews>>
  <2>1. DeliveryTypeOK'
    <3>1. Flags'
      BY <1>1, <1>2, <1>4, Zenon DEF Flags, github
    <3>2. OnGithub' /\ OnHost'
      BY <1>1, <1>2, <1>4 DEF OnGithub, OnHost, FetchOrigin, github
    <3>3. InHistory'
      BY <1>1, <1>2, <1>4 DEF InHistory, Diverged
    <3>4. InRun'
      BY <1>2, <1>4 DEF InRun, Phases
    <3> QED
      BY <3>1, <3>2, <3>3, <3>4, TypePartsNext
  <2>2. Placed' /\ TargetIsCommit'
    BY <1>2, <1>4 DEF Placed, TargetIsCommit, At
  <2>3. UnderReview'
    BY <1>1, <1>4 DEF UnderReview, Excused, Diverged, At, github
  <2>4. UnderMerge' /\ ConfidenceIsKept'
    BY <1>1, <1>4 DEF UnderMerge, Merging, DeliveryIInv, ConfidenceIsKept, At, github
  <2>5. GreenIsPassed'
    BY <1>1, <1>4 DEF DeliveryIInv, GreenIsPassed, Passed, At, github
  <2>6. DecisionIsKept' /\ ResolvedIsOwn'
    BY <1>1, NothingDecided DEF github
  <2> QED
    BY <1>1, <1>2, <1>4, <2>1, <2>2, <2>3, <2>4, <2>5, <2>6, GoesOn DEF github, DeliveryIInv
<1> QED
  BY <1>3, <1>4, Zenon DEF ReviewCheckout, Goto, Keep

(* Changes are requested: the run is escalated or goes back to the agent.  *)
LEMMA ReworkInv ==
  ASSUME DeliveryIInv, phase = "review", pc \in {"decide", "record"}, Rework \/ Fail,
         UNCHANGED <<main, head, merged, strict, review, requested, host,
                     changes, resumes, history>>,
         label' \in {label, conf}
  PROVE  DeliveryIInv'
<1>1. /\ head \in Commits /\ merged = Gone /\ outcome = "none"
      /\ Flags /\ OnGithub /\ OnHost /\ InRun /\ InHistory
  BY AtWork
<1>2. label' \in Tiers \cup {"none"}
  BY <1>1 DEF OnGithub, InRun
<1>3. CASE End("escalated") \/ Fail
  <2>1. \E o \in Outcomes \ {"none", "success"} : End(o)
    BY <1>3, FailGivesUp DEF Outcomes
  <2> QED
    BY <1>1, <1>2, <2>1, GivesUpInv DEF GivesUp, OnHost, Flags, host
<1>4. CASE /\ round' = round + 1 /\ reReviews' \in {reReviews, reReviews + 1}
           /\ conf' = "none" /\ target' = Gone /\ tries' = 0
           /\ phase' = "dev" /\ pc' = "agent" /\ UNCHANGED <<reReview, outcome>>
  <2>1. DeliveryTypeOK'
    <3>1. Flags'
      BY <1>1, <1>4, Zenon DEF Flags, host
    <3>2. OnGithub' /\ OnHost' /\ InHistory'
      BY <1>1, <1>2 DEF OnGithub, OnHost, InHistory, host, history
    <3>3. InRun'
      BY <1>1, <1>4 DEF InRun, Phases
    <3> QED
      BY <3>1, <3>2, <3>3, TypePartsNext
  <2>2. Placed' /\ TargetIsCommit' /\ UnderReview' /\ UnderMerge' /\ GreenIsPassed'
    BY <1>4 DEF Placed, TargetIsCommit, UnderReview, UnderMerge, Merging, GreenIsPassed, At
  <2>3. ConfidenceIsKept'
    BY <1>4 DEF DeliveryIInv, ConfidenceIsKept, Merging, At
  <2>4. DecisionIsKept' /\ ResolvedIsOwn'
    BY NothingDecided DEF history
  <2> QED
    BY <1>1, <1>4, <2>1, <2>2, <2>3, <2>4, GoesOn DEF DeliveryIInv
<1>5. Rework => \/ End("escalated")
                \/ /\ round' = round + 1 /\ reReviews' \in {reReviews, reReviews + 1}
                   /\ conf' = "none" /\ target' = Gone /\ tries' = 0
                   /\ phase' = "dev" /\ pc' = "agent" /\ UNCHANGED <<reReview, outcome>>
  BY DEF Rework, CountRound, Goto
<1> QED
  BY <1>3, <1>4, <1>5

LEMMA SubmitReviewInv == ASSUME DeliveryIInv, SubmitReview PROVE DeliveryIInv'
<1>1. /\ phase = "review" /\ pc = "decide" /\ phase' = "review" /\ pc' = "record"
      /\ outcome' = outcome
      /\ UNCHANGED <<main, head, merged, strict, label, host, tries, target, round, reReview,
                     reReviews, changes, resumes, foreign, resolved, passed, excuses>>
  BY DEF SubmitReview, At, Goto
<1>2. /\ head \in Commits /\ merged = Gone /\ outcome = "none"
      /\ Flags /\ OnGithub /\ OnHost /\ InRun /\ InHistory
  BY <1>1, AtWork
<1>3. PICK verdict \in {"approved", "changes_requested"}, tier \in Tiers :
        /\ review' = [verdict |-> verdict, tier |-> tier, change |-> target.change]
        /\ conf' = tier
        /\ IF verdict = "approved"
           THEN approved' = approved \cup {target.change} /\ UNCHANGED requested
           ELSE requested' = requested + 1 /\ UNCHANGED approved
  BY DEF SubmitReview
<1>4. target \in Commits /\ target.change \in 1..MaxChanges
  BY <1>1, CommitFacts DEF DeliveryIInv, TargetIsCommit, At
<1>5. /\ review'.verdict = verdict /\ review'.tier = tier /\ review'.change = target.change
      /\ review' \in [verdict : Verdicts, tier : Tiers \cup {"none"}, change : 0..MaxChanges]
  BY <1>3, <1>4, Bounds DEF Verdicts
<1>6. DeliveryTypeOK'
  <2>1. Flags'
    BY <1>1, <1>2, Zenon DEF Flags, host
  <2>2. OnGithub'
    <3>1. requested' \in Nat
      BY <1>2, <1>3 DEF OnGithub
    <3> QED
      BY <1>1, <1>2, <1>5, <3>1 DEF OnGithub
  <2>3. OnHost' /\ InRun'
    BY <1>1, <1>2, <1>3 DEF OnHost, InRun, host
  <2>4. InHistory'
    BY <1>1, <1>2, <1>3, <1>4 DEF InHistory
  <2> QED
    BY <2>1, <2>2, <2>3, <2>4, TypePartsNext
<1>7. Placed' /\ TargetIsCommit' /\ GreenIsPassed'
  BY <1>1, <1>4 DEF Placed, TargetIsCommit, GreenIsPassed, At
<1>8. DecisionIsKept'
  BY <1>3, <1>5 DEF DeliveryIInv, DecisionIsKept
<1>9. UnderReview'
  BY <1>1, <1>5 DEF DeliveryIInv, UnderReview, Excused, At, host
<1>10. UnderMerge' /\ ConfidenceIsKept'
  BY <1>1, <1>3, <1>5 DEF UnderMerge, Merging, ConfidenceIsKept, At
<1>11. ResolvedIsOwn'
  BY <1>1 DEF DeliveryIInv, ResolvedIsOwn
<1> QED
  BY <1>1, <1>2, <1>6, <1>7, <1>8, <1>9, <1>10, <1>11, GoesOn DEF DeliveryIInv

LEMMA RecordReviewInv == ASSUME DeliveryIInv, RecordReview PROVE DeliveryIInv'
<1>1. /\ phase = "review" /\ pc = "record" /\ label' \in {label, conf}
      /\ UNCHANGED <<main, head, merged, strict, review, requested, host,
                     changes, resumes, history>>
  BY DEF RecordReview, At
<1>2. /\ head \in Commits /\ merged = Gone /\ outcome = "none"
      /\ Flags /\ OnGithub /\ OnHost /\ InRun /\ InHistory
  BY <1>1, AtWork
<1>3. CASE Rework \/ Fail
  BY <1>1, <1>3, ReworkInv
<1>4. CASE /\ review.verdict = "approved"
           /\ round' = round + 1 /\ reReviews' \in {reReviews, reReviews + 1}
           /\ phase' = "merge" /\ pc' = "decide" /\ target' = Gone
           /\ UNCHANGED <<outcome, reReview, tries, conf>>
  <2>1. DeliveryTypeOK'
    <3>1. Flags'
      BY <1>1, <1>2, <1>4, Zenon DEF Flags, host
    <3>2. OnGithub' /\ OnHost' /\ InHistory'
      BY <1>1, <1>2 DEF OnGithub, OnHost, InRun, InHistory, host, history
    <3>3. InRun'
      BY <1>2, <1>4 DEF InRun, Phases
    <3> QED
      BY <3>1, <3>2, <3>3, TypePartsNext
  <2>2. Placed' /\ TargetIsCommit' /\ UnderReview' /\ GreenIsPassed'
    BY <1>4 DEF Placed, TargetIsCommit, UnderReview, GreenIsPassed, At
  <2>3. UnderMerge'
    <3>1. review.change = target.change /\ review.change \in approved
      BY <1>1, <1>4 DEF DeliveryIInv, UnderReview, DecisionIsKept, At
    <3>2. Excused \/ (head.change \in {target.change} \cup foreign /\ wt.change = target.change)
      BY <1>1 DEF DeliveryIInv, UnderReview, At
    <3> QED
      BY <1>1, <1>4, <3>1, <3>2 DEF UnderMerge, Excused, Vouched, history, host
  <2>4. ConfidenceIsKept'
    BY <1>1, <1>4 DEF DeliveryIInv, ConfidenceIsKept, At
  <2>5. DecisionIsKept' /\ ResolvedIsOwn'
    BY <1>1, NothingDecided DEF history
  <2> QED
    BY <1>1, <1>2, <1>4, <2>1, <2>2, <2>3, <2>4, <2>5, GoesOn DEF DeliveryIInv
<1> QED
  BY <1>3, <1>4 DEF RecordReview, CountRound, Goto

-----------------------------------------------------------------------------
(* The merge.                                                              *)

LEMMA MergeGateInv == ASSUME DeliveryIInv, MergeGate PROVE DeliveryIInv'
<1>1. /\ phase = "merge" /\ pc = "decide"
      /\ UNCHANGED <<github, host, changes, resumes, history>>
  BY DEF MergeGate, At
<1>2. /\ head \in Commits /\ merged = Gone /\ outcome = "none"
      /\ Flags /\ OnGithub /\ OnHost /\ InRun /\ InHistory
  BY <1>1, AtWork
<1>3. OnGithub' /\ OnHost' /\ InHistory'
  BY <1>1, <1>2 DEF OnGithub, OnHost, InHistory, github, host, history
<1>4. DecisionIsKept' /\ ResolvedIsOwn'
  BY <1>1, NothingDecided DEF github, history
<1>5. CASE conf = "low" /\ End("success")
  <2>1. /\ phase' = "ended" /\ pc' = "none" /\ outcome' = "success"
        /\ tries' = 0 /\ target' = Gone /\ conf' = "none"
        /\ round' = 0 /\ reReview' = FALSE /\ reReviews' = 0
    BY <1>5 DEF End
  <2>2. DeliveryTypeOK'
    <3>1. Flags'
      BY <1>1, <1>2, <2>1, Zenon DEF Flags, github, host
    <3>2. InRun'
      BY <2>1 DEF InRun, Phases, Tiers, Outcomes
    <3> QED
      BY <1>3, <3>1, <3>2, TypePartsNext
  <2>3. Placed' /\ TargetIsCommit' /\ UnderReview' /\ UnderMerge' /\ GreenIsPassed'
    BY <2>1 DEF Placed, TargetIsCommit, UnderReview, UnderMerge, Merging, GreenIsPassed, At
  <2>4. MergedIsOver' /\ MergedWasApproved' /\ MergedWasGreen' /\ LowConfidenceIsHeld'
    BY <1>1, <1>2, <2>1, CommitFacts
       DEF MergedIsOver, MergedWasApproved, MergedWasGreen, LowConfidenceIsHeld, IsMerged, github
  <2>5. SuccessIsDelivered' /\ ConfidenceIsKept'
    BY <1>1, <1>5, <2>1 DEF SuccessIsDelivered, DeliveryIInv, ConfidenceIsKept, UnderMerge,
       Merging, At, github, history
  <2> QED
    BY <1>4, <2>2, <2>3, <2>4, <2>5 DEF DeliveryIInv
<1>6. CASE /\ conf # "low" /\ phase' = "merge" /\ pc' = "fetch"
           /\ UNCHANGED <<outcome, tries, target, conf, round, reReview, reReviews>>
  <2>1. DeliveryTypeOK'
    <3>1. Flags'
      BY <1>1, <1>2, <1>6, Zenon DEF Flags, github, host
    <3>2. InRun'
      BY <1>2, <1>6 DEF InRun, Phases
    <3> QED
      BY <1>3, <3>1, <3>2, TypePartsNext
  <2>2. Placed' /\ TargetIsCommit' /\ UnderReview' /\ GreenIsPassed'
    BY <1>6 DEF Placed, TargetIsCommit, UnderReview, GreenIsPassed, At
  <2>3. UnderMerge' /\ ConfidenceIsKept'
    BY <1>1, <1>6 DEF github, host, history, DeliveryIInv, UnderMerge, Merging, Vouched, Excused,
       ConfidenceIsKept, At
  <2> QED
    BY <1>1, <1>2, <1>4, <1>6, <2>1, <2>2, <2>3, GoesOn DEF github, DeliveryIInv
<1>7. CASE Fail
  BY <1>1, <1>7, FailGivesUp, RunOnlyInv
<1> QED
  BY <1>5, <1>6, <1>7 DEF MergeGate, Goto, Keep

(* What is true of the head when gh pr merge takes effect.                 *)
LEMMA MergeTakesHead ==
  ASSUME DeliveryIInv, phase = "merge", pc = "call", merged' = head,
         UNCHANGED <<main, head, strict, review, requested, label, host,
                     changes, resumes, history>>
  PROVE  /\ OnGithub' /\ OnHost' /\ InHistory' /\ IsMerged' /\ head' \in Commits
         /\ MergedWasApproved' /\ MergedWasGreen' /\ LowConfidenceIsHeld'
         /\ DecisionIsKept' /\ ResolvedIsOwn'
<1>1. head \in Commits /\ OnGithub /\ OnHost /\ InHistory
  BY AtWork
<1>2. OnGithub' /\ OnHost' /\ InHistory'
  BY <1>1 DEF OnGithub, OnHost, InHistory, host, history
<1>3. IsMerged' /\ head' \in Commits
  BY <1>1, CommitFacts DEF IsMerged
<1>4. MergedWasApproved'
  BY DEF DeliveryIInv, UnderMerge, Merging, Vouched, Excused, MergedWasApproved, history
<1>5. MergedWasGreen'
  BY DEF DeliveryIInv, GreenIsPassed, Passed, MergedWasGreen, history
<1>6. LowConfidenceIsHeld'
  BY DEF DeliveryIInv, ConfidenceIsKept, Merging, LowConfidenceIsHeld, history
<1>7. DecisionIsKept' /\ ResolvedIsOwn'
  BY NothingDecided DEF history
<1> QED
  BY <1>2, <1>3, <1>4, <1>5, <1>6, <1>7

LEMMA SquashMergeInv == ASSUME DeliveryIInv, SquashMerge PROVE DeliveryIInv'
<1>1. /\ phase = "merge" /\ pc = "call" /\ merged' = head
      /\ UNCHANGED <<main, head, strict, review, requested, label, host,
                     changes, resumes, history>>
      /\ phase' = "merge" /\ pc' = "cleanup"
      /\ UNCHANGED <<outcome, tries, target, conf, round, reReview, reReviews>>
  BY DEF SquashMerge, At, Goto, Keep
<1>2. outcome = "none" /\ Flags /\ InRun
  BY <1>1, AtWork
<1>3. DeliveryTypeOK'
  <2>1. Flags'
    BY <1>1, <1>2, Zenon DEF Flags, host
  <2>2. InRun'
    BY <1>1, <1>2 DEF InRun
  <2> QED
    BY <1>1, <2>1, <2>2, MergeTakesHead, TypePartsNext
<1>4. Placed' /\ TargetIsCommit' /\ UnderReview' /\ GreenIsPassed'
  BY <1>1 DEF Placed, TargetIsCommit, UnderReview, GreenIsPassed, At
<1>5. UnderMerge' /\ ConfidenceIsKept'
  BY <1>1 DEF host, history, DeliveryIInv, UnderMerge, Merging, Vouched, Excused,
     ConfidenceIsKept, At
<1>6. MergedIsOver' /\ SuccessIsDelivered'
  BY <1>1, <1>2, MergeTakesHead, CommitFacts DEF MergedIsOver, SuccessIsDelivered, At
<1> QED
  BY <1>1, <1>3, <1>4, <1>5, <1>6, MergeTakesHead DEF DeliveryIInv

LEMMA OutOfDateInv == ASSUME DeliveryIInv, OutOfDate PROVE DeliveryIInv'
<1>1. /\ phase = "merge" /\ pc = "call"
      /\ UNCHANGED <<github, host, changes, resumes, history>>
  BY DEF OutOfDate, At
<1>2. /\ head \in Commits /\ merged = Gone /\ outcome = "none"
      /\ Flags /\ OnGithub /\ OnHost /\ InRun /\ InHistory
  BY <1>1, AtWork
<1>3. CASE Fail
  BY <1>1, <1>3, FailGivesUp, RunOnlyInv
<1>4. CASE /\ tries' = tries + 1 /\ phase' = "retry" /\ pc' = "rebase"
           /\ UNCHANGED <<outcome, target, conf, round, reReview, reReviews>>
  <2>1. DeliveryTypeOK'
    <3>1. Flags'
      BY <1>1, <1>2, <1>4, Zenon DEF Flags, github, host
    <3>2. OnGithub' /\ OnHost' /\ InHistory'
      BY <1>1, <1>2 DEF OnGithub, OnHost, InHistory, github, host, history
    <3>3. InRun'
      BY <1>2, <1>4 DEF InRun, Phases
    <3> QED
      BY <3>1, <3>2, <3>3, TypePartsNext
  <2>2. Placed' /\ TargetIsCommit' /\ UnderReview' /\ GreenIsPassed'
    BY <1>4 DEF Placed, TargetIsCommit, UnderReview, GreenIsPassed, At
  <2>3. UnderMerge' /\ ConfidenceIsKept'
    BY <1>1, <1>4 DEF github, host, history, DeliveryIInv, UnderMerge, Merging, Vouched, Excused,
       ConfidenceIsKept, At
  <2>4. DecisionIsKept' /\ ResolvedIsOwn'
    BY <1>1, NothingDecided DEF github, history
  <2> QED
    BY <1>1, <1>2, <1>4, <2>1, <2>2, <2>3, <2>4, GoesOn DEF github, DeliveryIInv
<1> QED
  BY <1>3, <1>4 DEF OutOfDate, AfterLastRetry, Goto, Keep

LEMMA MergeRejectedInv == ASSUME DeliveryIInv, MergeRejected PROVE DeliveryIInv'
<1>1. /\ phase = "merge" /\ pc = "call" /\ merged' \in {merged, head}
      /\ UNCHANGED <<main, head, strict, review, requested, label, host,
                     changes, resumes, history>>
  BY DEF MergeRejected, At
<1>2. PICK o \in Outcomes \ {"none", "success"} : End(o)
  BY <1>1, FailGivesUp DEF MergeRejected, AfterRejection
<1>3. head \in Commits /\ Flags /\ OnGithub /\ OnHost
  BY <1>1, AtWork
<1>4. CASE merged' = merged
  BY <1>1, <1>2, <1>3, <1>4, GivesUpInv DEF GivesUp, OnHost, OnGithub, Flags, host
<1>5. CASE merged' = head
  <2>1. /\ phase' = "ended" /\ pc' = "none" /\ outcome' = o
        /\ tries' = 0 /\ target' = Gone /\ conf' = "none"
        /\ round' = 0 /\ reReview' = FALSE /\ reReviews' = 0
    BY <1>2 DEF End
  <2>2. DeliveryTypeOK'
    <3>1. Flags'
      BY <1>1, <1>3, <2>1, Zenon DEF Flags, host
    <3>2. InRun'
      BY <1>2, <2>1 DEF InRun, Phases, Tiers
    <3> QED
      BY <1>1, <1>5, <3>1, <3>2, MergeTakesHead, TypePartsNext
  <2>3. Placed' /\ TargetIsCommit' /\ UnderReview' /\ UnderMerge' /\ GreenIsPassed'
    BY <2>1 DEF Placed, TargetIsCommit, UnderReview, UnderMerge, Merging, GreenIsPassed, At
  <2>4. MergedIsOver' /\ SuccessIsDelivered'
    BY <1>1, <1>2, <1>3, <2>1, CommitFacts DEF MergedIsOver, SuccessIsDelivered
  <2>5. ConfidenceIsKept'
    BY <1>1, <2>1 DEF DeliveryIInv, ConfidenceIsKept, Merging, At
  <2> QED
    BY <1>1, <1>5, <2>2, <2>3, <2>4, <2>5, MergeTakesHead DEF DeliveryIInv
<1> QED
  BY <1>1, <1>4, <1>5

LEMMA MergeCleanupInv == ASSUME DeliveryIInv, MergeCleanup PROVE DeliveryIInv'
<1>1. /\ pc = "cleanup" /\ phase # "ended" /\ IsMerged /\ head' \in {head, Gone}
      /\ UNCHANGED <<main, merged, strict, review, requested, label, host,
                     changes, resumes, history>>
  BY DEF MergeCleanup, At, DeliveryIInv, Placed, MergedIsOver
<1>2. /\ phase' = "ended" /\ pc' = "none" /\ outcome' = "success"
      /\ tries' = 0 /\ target' = Gone /\ conf' = "none"
      /\ round' = 0 /\ reReview' = FALSE /\ reReviews' = 0
  BY DEF MergeCleanup, End
<1>3. Flags /\ OnGithub /\ OnHost /\ InHistory
  BY TypeParts DEF DeliveryIInv
<1>4. DeliveryTypeOK'
  <2>1. Flags'
    BY <1>1, <1>2, <1>3, Zenon DEF Flags, host
  <2>2. OnGithub' /\ OnHost' /\ InHistory'
    BY <1>1, <1>3 DEF OnGithub, OnHost, InHistory, host, history
  <2>3. InRun'
    BY <1>2 DEF InRun, Phases, Tiers, Outcomes
  <2> QED
    BY <2>1, <2>2, <2>3, TypePartsNext
<1>5. Placed' /\ TargetIsCommit' /\ UnderReview' /\ UnderMerge' /\ GreenIsPassed'
  BY <1>2 DEF Placed, TargetIsCommit, UnderReview, UnderMerge, Merging, GreenIsPassed, At
<1>6. MergedIsOver' /\ SuccessIsDelivered'
  BY <1>1, <1>2 DEF MergedIsOver, SuccessIsDelivered, IsMerged
<1>7. MergedWasApproved' /\ MergedWasGreen' /\ LowConfidenceIsHeld'
  BY <1>1 DEF DeliveryIInv, MergedWasApproved, MergedWasGreen, LowConfidenceIsHeld, IsMerged,
     history
<1>8. ConfidenceIsKept'
  BY <1>1, <1>2 DEF DeliveryIInv, ConfidenceIsKept, Merging, At
<1>9. DecisionIsKept' /\ ResolvedIsOwn'
  BY <1>1, NothingDecided DEF history
<1> QED
  BY <1>4, <1>5, <1>6, <1>7, <1>8, <1>9 DEF DeliveryIInv

-----------------------------------------------------------------------------
(* What happens around the run.                                            *)

LEMMA MainMovesInv == ASSUME DeliveryIInv, MainMoves PROVE DeliveryIInv'
<1>1. /\ main < MaxMain /\ main' = main + 1
      /\ UNCHANGED <<head, merged, strict, review, requested, label,
                     host, run, changes, resumes, history>>
  BY DEF MainMoves
<1>2. DeliveryTypeOK'
  <2>1. Flags /\ OnGithub /\ OnHost /\ InRun /\ InHistory
    BY TypeParts DEF DeliveryIInv
  <2>2. Flags'
    BY <1>1, <2>1, Zenon DEF Flags, host, run
  <2>3. OnGithub'
    <3>1. main' \in 0..MaxMain
      BY <1>1, <2>1, Bounds DEF OnGithub
    <3> QED
      BY <1>1, <2>1, <3>1 DEF OnGithub
  <2>4. OnHost' /\ InRun' /\ InHistory'
    BY <1>1, <2>1 DEF OnHost, InRun, InHistory, host, run, history
  <2> QED
    BY <2>2, <2>3, <2>4, TypePartsNext
<1>3. Placed' /\ MergedIsOver' /\ TargetIsCommit' /\ GreenIsPassed'
  BY <1>1 DEF DeliveryIInv, Placed, MergedIsOver, TargetIsCommit, GreenIsPassed, Passed,
     IsMerged, At, run, history
<1>4. UnderReview' /\ UnderMerge' /\ ConfidenceIsKept'
  BY <1>1 DEF DeliveryIInv, UnderReview, UnderMerge, Merging, Vouched, Excused,
     ConfidenceIsKept, At, host, run, history
<1>5. DecisionIsKept' /\ ResolvedIsOwn'
  BY <1>1, NothingDecided DEF history
<1>6. MergedWasApproved' /\ MergedWasGreen' /\ LowConfidenceIsHeld' /\ SuccessIsDelivered'
  BY <1>1 DEF DeliveryIInv, MergedWasApproved, MergedWasGreen, LowConfidenceIsHeld,
     SuccessIsDelivered, IsMerged, run, history
<1> QED
  BY <1>2, <1>3, <1>4, <1>5, <1>6 DEF DeliveryIInv

LEMMA ForeignPushInv == ASSUME DeliveryIInv, ForeignPush PROVE DeliveryIInv'
<1>1. /\ merged = Gone /\ CanChange /\ changes' = NextChange /\ head' = Write(head.base)
      /\ foreign' = foreign \cup {NextChange}
  BY DEF ForeignPush
<1>2. UNCHANGED <<main, merged, strict, review, requested, label,
                  host, run, resumes, approved, resolved, passed, excuses>>
  BY DEF ForeignPush
<1>3. Flags /\ OnGithub /\ OnHost /\ InRun /\ InHistory
  BY TypeParts DEF DeliveryIInv
<1>4. head \in Commits /\ head.base \in 0..MaxMain /\ changes \in 1..MaxChanges
  BY <1>1, <1>3, CommitFacts DEF OnGithub, InHistory, DeliveryIInv, MergedIsOver, IsMerged
<1>5. /\ head' \in Commits /\ head'.change = changes + 1
      /\ changes' = changes + 1 /\ changes' \in 1..MaxChanges
      /\ foreign' = foreign \cup {changes + 1}
  BY <1>1, <1>4, WriteFacts
<1>6. DeliveryTypeOK'
  <2>1. Flags'
    BY <1>2, <1>3, Zenon DEF Flags, host, run
  <2>2. OnGithub' /\ OnHost' /\ InRun'
    BY <1>2, <1>3, <1>5 DEF OnGithub, OnHost, InRun, host, run
  <2>3. InHistory'
    BY <1>2, <1>3, <1>5 DEF InHistory
  <2> QED
    BY <2>1, <2>2, <2>3, TypePartsNext
<1>7. Placed' /\ TargetIsCommit'
  BY <1>2 DEF DeliveryIInv, Placed, TargetIsCommit, At, run
<1>8. GreenIsPassed'
  BY <1>2, <1>5 DEF DeliveryIInv, GreenIsPassed, Passed, At, run
<1>9. UnderReview' /\ UnderMerge'
  BY <1>2, <1>5 DEF DeliveryIInv, UnderReview, UnderMerge, Merging, Vouched, Excused, At, host, run
<1>10. DecisionIsKept' /\ ConfidenceIsKept'
  BY <1>2 DEF DeliveryIInv, DecisionIsKept, ConfidenceIsKept, Merging, At, run
<1>11. ResolvedIsOwn'
  BY <1>2, <1>4, <1>5, Bounds DEF DeliveryIInv, ResolvedIsOwn
<1>12. MergedIsOver' /\ MergedWasApproved' /\ MergedWasGreen' /\ LowConfidenceIsHeld'
  BY <1>1, <1>2, <1>5, CommitFacts DEF DeliveryIInv, MergedIsOver, MergedWasApproved,
     MergedWasGreen, LowConfidenceIsHeld, IsMerged, run
<1>13. SuccessIsDelivered'
  BY <1>2 DEF DeliveryIInv, SuccessIsDelivered, IsMerged, run
<1> QED
  BY <1>6, <1>7, <1>8, <1>9, <1>10, <1>11, <1>12, <1>13 DEF DeliveryIInv

LEMMA CrashInv == ASSUME DeliveryIInv, Crash PROVE DeliveryIInv'
<1>1. /\ phase # "ended" /\ End("crashed")
      /\ UNCHANGED <<github, host, changes, resumes, history>>
  BY DEF Crash
<1>2. head \in Commits /\ Flags /\ OnGithub /\ OnHost
  BY <1>1, AtWork
<1> QED
  BY <1>1, <1>2, GivesUpInv DEF GivesUp, Outcomes, OnHost, OnGithub, Flags, github, host

-----------------------------------------------------------------------------
(* A resumed run.                                                          *)

(* What a resume finds: the PR is merged, or its head is a commit.         *)
LEMMA Resumable ==
  ASSUME DeliveryIInv, CanResume
  PROVE  /\ phase = "ended" /\ pc = "none" /\ outcome # "success"
         /\ head \in Commits
         /\ Flags /\ OnGithub /\ OnHost /\ InRun /\ InHistory
         /\ resumes + 1 \in 0..MaxResumes
<1>1. Flags /\ OnGithub /\ OnHost /\ InRun /\ InHistory
  BY TypeParts DEF DeliveryIInv
<1>2. phase = "ended" /\ pc = "none" /\ outcome # "success" /\ resumes < MaxResumes
  BY DEF CanResume, DeliveryIInv, Placed
<1>3. head \in Commits
  BY <1>1, <1>2 DEF DeliveryIInv, MergedIsOver, OnGithub
<1>4. resumes + 1 \in 0..MaxResumes
  <2>1. resumes \in 0..MaxResumes
    BY <1>1 DEF InHistory
  <2> QED
    BY <1>2, <2>1, Bounds
<1> QED
  BY <1>1, <1>2, <1>3, <1>4

LEMMA WorktreeKept ==
  ASSUME OnHost, OnGithub, Flags, head \in Commits, KeepWorktree \/ FreshWorktree
  PROVE  OnHost' /\ conflicted' \in BOOLEAN
BY DEF KeepWorktree, FreshWorktree, FetchOrigin, OnHost, OnGithub, Flags, host

(* The resume ends at once: the PR is merged, or it is left as it is.      *)
LEMMA ResumeEndsInv ==
  ASSUME DeliveryIInv, CanResume, resumes' = resumes + 1,
         UNCHANGED <<github, phase, pc, tries, target, conf, round, reReview, reReviews,
                     changes, history>>,
         OnHost', conflicted' \in BOOLEAN,
         \/ IsMerged /\ outcome' = "success"
         \/ outcome' \in {"aborted", "escalated"}
  PROVE  DeliveryIInv'
<1>1. /\ phase = "ended" /\ pc = "none" /\ outcome # "success" /\ head \in Commits
      /\ Flags /\ OnGithub /\ OnHost /\ InRun /\ InHistory
      /\ resumes + 1 \in 0..MaxResumes
  BY Resumable
<1>2. DeliveryTypeOK'
  <2>1. Flags'
    BY <1>1, Zenon DEF Flags, github
  <2>2. OnGithub' /\ InHistory'
    BY <1>1 DEF OnGithub, InHistory, github, history
  <2>3. InRun'
    BY <1>1 DEF InRun, Outcomes
  <2> QED
    BY <2>1, <2>2, <2>3, TypePartsNext
<1>3. Placed' /\ TargetIsCommit' /\ UnderReview' /\ UnderMerge' /\ GreenIsPassed'
  BY <1>1 DEF Placed, TargetIsCommit, UnderReview, UnderMerge, Merging, GreenIsPassed, At
<1>4. MergedIsOver'
  BY <1>1, CommitFacts DEF MergedIsOver, IsMerged, At, github
<1>5. MergedWasApproved' /\ MergedWasGreen' /\ LowConfidenceIsHeld'
  BY DEF DeliveryIInv, MergedWasApproved, MergedWasGreen, LowConfidenceIsHeld, IsMerged,
     github, history
<1>6. SuccessIsDelivered'
  BY DEF SuccessIsDelivered, IsMerged, github
<1>7. ConfidenceIsKept'
  BY <1>1 DEF DeliveryIInv, ConfidenceIsKept, Merging, At, github
<1>8. DecisionIsKept' /\ ResolvedIsOwn'
  BY NothingDecided DEF github, history
<1> QED
  BY <1>2, <1>3, <1>4, <1>5, <1>6, <1>7, <1>8 DEF DeliveryIInv

(* The resume goes on in the dev agent's part, where nothing is vouched    *)
(* for.                                                                    *)
LEMMA ResumeWorksInv ==
  ASSUME DeliveryIInv, CanResume, merged = Gone, resumes' = resumes + 1,
         KeepWorktree \/ FreshWorktree,
         \/ phase' = "sync" /\ pc' = "gate"
         \/ phase' = "dev" /\ pc' = "agent",
         outcome' = "none", round' \in Nat,
         UNCHANGED <<github, tries, target, conf, reReview, reReviews, changes, history>>
  PROVE  DeliveryIInv'
<1>1. /\ phase = "ended" /\ pc = "none" /\ outcome # "success" /\ head \in Commits
      /\ Flags /\ OnGithub /\ OnHost /\ InRun /\ InHistory
      /\ resumes + 1 \in 0..MaxResumes
  BY Resumable
<1>2. OnHost' /\ conflicted' \in BOOLEAN
  BY <1>1, WorktreeKept
<1>3. DeliveryTypeOK'
  <2>1. Flags'
    BY <1>1, <1>2, Zenon DEF Flags, github
  <2>2. OnGithub' /\ InHistory'
    BY <1>1 DEF OnGithub, InHistory, github, history
  <2>3. InRun'
    BY <1>1 DEF InRun, Phases, Outcomes
  <2> QED
    BY <1>2, <2>1, <2>2, <2>3, TypePartsNext
<1>4. Placed' /\ TargetIsCommit' /\ UnderReview' /\ UnderMerge' /\ GreenIsPassed'
  BY DEF Placed, TargetIsCommit, UnderReview, UnderMerge, Merging, GreenIsPassed, At
<1>5. ConfidenceIsKept'
  BY DEF DeliveryIInv, ConfidenceIsKept, Merging, At, github
<1>6. DecisionIsKept' /\ ResolvedIsOwn'
  BY NothingDecided DEF github, history
<1> QED
  BY <1>1, <1>3, <1>4, <1>5, <1>6, GoesOn DEF github, DeliveryIInv

(* An approval is trusted: what it is not about is excused.                *)
LEMMA ResumeApprovedInv == ASSUME DeliveryIInv, ResumeApproved PROVE DeliveryIInv'
<1>1. /\ CanResume /\ merged = Gone /\ review.verdict = "approved" /\ resumes' = resumes + 1
      /\ KeepWorktree \/ FreshWorktree
      /\ phase' = "merge" /\ pc' = "decide" /\ outcome' = "none"
      /\ conf' = ConfidenceFromLabel /\ round' = 1
      /\ excuses' = excuses \cup Stale
      /\ UNCHANGED <<github, tries, target, reReview, reReviews, changes,
                     foreign, approved, resolved, passed>>
  BY DEF ResumeApproved, StartResumed
<1>2. /\ phase = "ended" /\ pc = "none" /\ outcome # "success" /\ head \in Commits
      /\ Flags /\ OnGithub /\ OnHost /\ InRun /\ InHistory
      /\ resumes + 1 \in 0..MaxResumes
  BY <1>1, Resumable
<1>3. OnHost' /\ conflicted' \in BOOLEAN
  BY <1>1, <1>2, WorktreeKept
<1>4. conf' \in Tiers /\ (label = review.tier => conf' = review.tier)
  BY <1>1, <1>2 DEF ConfidenceFromLabel, OnGithub, Tiers, DeliveryIInv, ConfidenceIsKept
<1>5. DeliveryTypeOK'
  <2>1. Flags'
    BY <1>1, <1>2, <1>3, Zenon DEF Flags, github
  <2>2. OnGithub'
    BY <1>1, <1>2 DEF OnGithub, github
  <2>3. InHistory'
    BY <1>1, <1>2 DEF InHistory, Stale
  <2>4. InRun'
    BY <1>1, <1>2, <1>4 DEF InRun, Phases, Outcomes
  <2> QED
    BY <1>3, <2>1, <2>2, <2>3, <2>4, TypePartsNext
<1>6. Placed' /\ TargetIsCommit' /\ UnderReview' /\ GreenIsPassed'
  BY <1>1 DEF Placed, TargetIsCommit, UnderReview, GreenIsPassed, At
<1>7. UnderMerge'
  <2>1. review.change \in approved
    BY <1>1 DEF DeliveryIInv, DecisionIsKept
  <2>2. "stale approval" \in Stale \/ (head.change = review.change /\ wt'.change = review.change)
    BY DEF Stale
  <2>3. Excused' \/ (Vouched(head.change)' /\ Vouched(wt.change)')
    BY <1>1, <2>1, <2>2 DEF Excused, Vouched, github
  <2> QED
    BY <1>1, <2>3 DEF UnderMerge, github
<1>8. ConfidenceIsKept'
  <2>1. label = review.tier \/ "stale label" \in excuses'
    BY <1>1 DEF Stale
  <2> QED
    BY <1>1, <1>4, <2>1 DEF DeliveryIInv, ConfidenceIsKept, Merging, At, github
<1>9. DecisionIsKept' /\ ResolvedIsOwn'
  BY <1>1, NothingDecided DEF github
<1> QED
  BY <1>1, <1>2, <1>5, <1>6, <1>7, <1>8, <1>9, GoesOn DEF github, DeliveryIInv

LEMMA ResumeInv == ASSUME DeliveryIInv, Resume PROVE DeliveryIInv'
<1>1. CASE ResumeMerged
  BY <1>1, Resumable, ResumeEndsInv
     DEF ResumeMerged, StartResumed, IsMerged, OnHost, Flags, host
<1>2. CASE ResumeRefused
  BY <1>2, Resumable, ResumeEndsInv DEF ResumeRefused, StartResumed, OnHost, Flags, host
<1>3. CASE ResumeUndecided
  BY <1>3, Resumable, ResumeWorksInv DEF ResumeUndecided, StartResumed, InRun
<1>4. CASE ResumeChangesRequested
  <2>1. /\ CanResume /\ merged = Gone /\ resumes' = resumes + 1
        /\ KeepWorktree \/ FreshWorktree
        /\ \/ outcome' = "escalated" /\ UNCHANGED <<phase, pc, round>>
           \/ /\ phase' = "dev" /\ pc' = "agent" /\ outcome' = "none"
              /\ round' = requested
        /\ UNCHANGED <<github, tries, target, conf, reReview, reReviews, changes, history>>
    BY <1>4 DEF ResumeChangesRequested, StartResumed
  <2>2. OnHost' /\ conflicted' \in BOOLEAN /\ requested \in Nat
    BY <2>1, Resumable, WorktreeKept DEF OnGithub
  <2>3. CASE outcome' = "escalated" /\ UNCHANGED <<phase, pc, round>>
    BY <2>1, <2>2, <2>3, ResumeEndsInv
  <2>4. CASE phase' = "dev" /\ pc' = "agent" /\ outcome' = "none" /\ round' = requested
    BY <2>1, <2>2, <2>4, ResumeWorksInv
  <2> QED
    BY <2>1, <2>3, <2>4
<1>5. CASE ResumeApproved
  BY <1>5, ResumeApprovedInv
<1> QED
  BY <1>1, <1>2, <1>3, <1>4, <1>5 DEF Resume

-----------------------------------------------------------------------------
(* Every step.                                                             *)

LEMMA PrecheckRedInv == ASSUME DeliveryIInv, PrecheckRed PROVE DeliveryIInv'
<1>1. /\ phase = "review" /\ pc = "decide"
      /\ Rework \/ Fail
      /\ UNCHANGED <<github, host, changes, resumes, history>>
  BY DEF PrecheckRed, At
<1> QED
  BY <1>1, ReworkInv DEF github

LEMMA DeliveryNextInv == DeliveryIInv /\ [DeliveryNext]_vars => DeliveryIInv'
<1> SUFFICES ASSUME DeliveryIInv, [DeliveryNext]_vars PROVE DeliveryIInv'
  OBVIOUS
<1>1. CASE RunnerStep
  BY <1>1, DevAgentInv, DevPushInv, FetchInv, RebaseBranchInv, ResolveConflictInv,
     PushRebasedInv, PushResolvedInv, FixStartInv, FixAgentInv, FixEndInv,
     ReviewCheckoutInv, PrecheckRedInv, SubmitReviewInv, RecordReviewInv, MergeGateInv,
     SquashMergeInv, OutOfDateInv, MergeRejectedInv, MergeCleanupInv, Zenon
     DEF RunnerStep
<1>2. CASE CIStep \/ CIDeadline
  BY <1>2, CIGreenInv, NotGreenInv DEF CIStep, CIRed, CIQueryFails, CIDeadline
<1>3. CASE Environment
  BY <1>3, MainMovesInv, ForeignPushInv, CrashInv, ResumeInv DEF Environment
<1>4. CASE UNCHANGED vars
  <2>1. UNCHANGED <<main, head, merged, strict, review, requested, label,
                    wt, conflicted, seenMain, seenHead>>
    BY <1>4 DEF vars, github, host
  <2>2. UNCHANGED <<phase, pc, tries, target, conf, round, reReview, reReviews, outcome,
                    changes, resumes, foreign, approved, resolved, passed, excuses>>
    BY <1>4 DEF vars, run, history
  <2>3. DeliveryTypeOK'
    BY <2>1, <2>2, Zenon DEF DeliveryIInv, DeliveryTypeOK
  <2>4. Placed' /\ MergedIsOver' /\ TargetIsCommit' /\ GreenIsPassed'
    BY <2>1, <2>2 DEF DeliveryIInv, Placed, MergedIsOver, TargetIsCommit, GreenIsPassed,
       Passed, IsMerged, At
  <2>5. DecisionIsKept' /\ UnderReview' /\ UnderMerge' /\ ConfidenceIsKept' /\ ResolvedIsOwn'
    BY <2>1, <2>2 DEF DeliveryIInv, DecisionIsKept, UnderReview, UnderMerge, Merging, Vouched,
       Excused, ConfidenceIsKept, ResolvedIsOwn, At
  <2>6. MergedWasApproved' /\ MergedWasGreen' /\ LowConfidenceIsHeld' /\ SuccessIsDelivered'
    BY <2>1, <2>2 DEF DeliveryIInv, MergedWasApproved, MergedWasGreen, LowConfidenceIsHeld,
       SuccessIsDelivered, IsMerged
  <2> QED
    BY <2>3, <2>4, <2>5, <2>6 DEF DeliveryIInv
<1> QED
  BY <1>1, <1>2, <1>3, <1>4 DEF DeliveryNext

-----------------------------------------------------------------------------
(* The theorems.                                                           *)

THEOREM DeliveryInvariant == DeliverySpec => []DeliveryIInv
<1> QED
  BY DeliveryInitInv, DeliveryNextInv, PTL DEF DeliverySpec

(* Every variable stays within its domain.                                 *)
THEOREM DeliveryTypeCorrect == DeliverySpec => []DeliveryTypeOK
<1>1. DeliveryIInv => DeliveryTypeOK
  BY DEF DeliveryIInv
<1> QED
  BY <1>1, DeliveryInvariant, PTL

(* However main moves, whoever pushes, wherever runs die and are resumed:  *)
(* an unreviewed change is merged only from outside the run, or under one  *)
(* of the two excuses.                                                     *)
THEOREM UnreviewedIsNotMerged == DeliverySpec => []MergedWasApproved
<1>1. DeliveryIInv => MergedWasApproved
  BY DEF DeliveryIInv
<1> QED
  BY <1>1, DeliveryInvariant, PTL

(* What the runner merges has passed CI as the very same commit, unless    *)
(* somebody pushed to the branch after the last poll.                      *)
THEOREM UntestedIsNotMerged == DeliverySpec => []MergedWasGreen
<1>1. DeliveryIInv => MergedWasGreen
  BY DEF DeliveryIInv
<1> QED
  BY <1>1, DeliveryInvariant, PTL

(* Low confidence holds the merge back, also over a resume, unless the     *)
(* label the resume reads was never set or is that of an older review.     *)
THEOREM LowConfidenceHolds == DeliverySpec => []LowConfidenceIsHeld
<1>1. DeliveryIInv => LowConfidenceIsHeld
  BY DEF DeliveryIInv
<1> QED
  BY <1>1, DeliveryInvariant, PTL

(* Success is a merged PR, or one that is left to a human with low         *)
(* confidence.                                                             *)
THEOREM SuccessDelivers == DeliverySpec => []SuccessIsDelivered
<1>1. DeliveryIInv => SuccessIsDelivered
  BY DEF DeliveryIInv
<1> QED
  BY <1>1, DeliveryInvariant, PTL

(* merge.go's promise about a conflict that is resolved after the          *)
(* approval, as far as it is kept: such a change is nobody else's, so      *)
(* without a new approval it is merged only when a resumed run trusted an  *)
(* earlier one, or the reviewer was shown what the worktree does not hold. *)
ConflictIsReviewedUnlessExcused ==
  IsMerged /\ merged.change \in resolved => merged.change \in approved \/ Excused

THEOREM ResolvedConflictIsReviewed == DeliverySpec => []ConflictIsReviewedUnlessExcused
<1>1. DeliveryIInv => ConflictIsReviewedUnlessExcused
  BY DEF DeliveryIInv, MergedWasApproved, ResolvedIsOwn, Excused,
     ConflictIsReviewedUnlessExcused
<1> QED
  BY <1>1, DeliveryInvariant, PTL

(* A decision is made on a commit that has passed CI: only the submission  *)
(* of a review leaves "decide" for "record".                               *)
LEMMA RecordFollowsDecide ==
  ASSUME [DeliveryNext]_vars, pc = "decide", pc' = "record"
  PROVE  At("review", "decide")
<1>1. CASE RunnerStep
  <2>1. CASE FixAgent \/ MergeGate
    BY <2>1 DEF FixAgent, MergeGate, Goto, Fail, End, At
  <2>2. CASE ReviewCheckout \/ PrecheckRed \/ SubmitReview \/ RecordReview
    BY <2>2 DEF ReviewCheckout, PrecheckRed, SubmitReview, RecordReview, Goto, End, At
  <2>3. CASE DevAgent \/ DevPush \/ Fetch \/ RebaseBranch \/ ResolveConflict \/ PushRebased
             \/ PushResolved \/ FixStart \/ FixEnd
    BY <2>3 DEF DevAgent, DevPush, Fetch, RebaseBranch, ResolveConflict, PushRebased,
       PushResolved, FixStart, FixEnd, Goto, End, At
  <2>4. CASE SquashMerge \/ OutOfDate \/ MergeRejected \/ MergeCleanup
    BY <2>4 DEF SquashMerge, OutOfDate, MergeRejected, MergeCleanup, Goto, End, At
  <2> QED
    BY <1>1, <2>1, <2>2, <2>3, <2>4 DEF RunnerStep
<1>2. CASE CIStep \/ CIDeadline
  BY <1>2 DEF CIStep, CIDeadline, CIGreen, CIRed, CIQueryFails, Polling
<1>3. CASE Environment
  BY <1>3 DEF Environment, MainMoves, ForeignPush, Crash, Resume, ResumeMerged, ResumeRefused,
     ResumeUndecided, ResumeChangesRequested, ResumeApproved, End, run
<1>4. CASE UNCHANGED vars
  BY <1>4 DEF vars, run
<1> QED
  BY <1>1, <1>2, <1>3, <1>4 DEF DeliveryNext

THEOREM ReviewsAreOfGreen == DeliverySpec => ReviewedWasGreen
<1>1. ASSUME DeliveryIInv, [DeliveryNext]_vars
      PROVE  [ (pc = "decide" /\ pc' = "record" /\ ~reReview)
                 => target \in passed \/ target.change \in foreign ]_vars
  BY <1>1, RecordFollowsDecide DEF DeliveryIInv, GreenIsPassed, Passed
<1> QED
  BY <1>1, DeliveryInvariant, PTL DEF DeliverySpec, ReviewedWasGreen

(* No step writes to the branch of a merged PR but the one that deletes    *)
(* it, nor does a step of a resumed run that was never told of the merge.  *)
LEMMA MergedHeadStays ==
  ASSUME DeliveryIInv, IsMerged, [DeliveryNext]_vars
  PROVE  head' \in {head, Gone}
<1>1. /\ (phase = "ended" /\ pc = "none") \/ At("merge", "cleanup")
      /\ merged # Gone
  BY DEF DeliveryIInv, MergedIsOver, Placed, IsMerged
<1>2. CASE RunnerStep
  BY <1>1, <1>2 DEF RunnerStep, DevAgent, DevPush, Fetch, RebaseBranch, ResolveConflict,
     PushRebased, PushResolved, FixStart, FixAgent, FixEnd, ReviewCheckout, PrecheckRed,
     SubmitReview, RecordReview, MergeGate, SquashMerge, OutOfDate, MergeRejected,
     MergeCleanup, At
<1>3. CASE CIStep \/ CIDeadline
  BY <1>1, <1>3 DEF CIStep, CIDeadline, CIGreen, CIRed, CIQueryFails, Polling, At
<1>4. CASE Environment
  BY <1>1, <1>4 DEF Environment, MainMoves, ForeignPush, Crash, Resume, ResumeMerged,
     ResumeRefused, ResumeUndecided, ResumeChangesRequested, ResumeApproved, github
<1>5. CASE UNCHANGED vars
  BY <1>5 DEF vars, github
<1> QED
  BY <1>2, <1>3, <1>4, <1>5 DEF DeliveryNext

THEOREM MergeIsLast == DeliverySpec => NoPushAfterMerge
<1>1. DeliveryIInv /\ [DeliveryNext]_vars => [ IsMerged => head' \in {head, Gone} ]_vars
  BY MergedHeadStays
<1> QED
  BY <1>1, DeliveryInvariant, PTL DEF DeliverySpec, NoPushAfterMerge

=============================================================================
