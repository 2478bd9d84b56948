--------------------------- MODULE RunLoopProofs ----------------------------
(***************************************************************************)
(* Proofs about RunLoop, for every set of loops and of issues, on top of   *)
(* those about the lock: every step of a loop is a step of its claim, of   *)
(* its release, or leaves the lock alone.                                  *)
(***************************************************************************)
EXTENDS RunLoop, IssueClaimProofs, FiniteSetTheorems

(* How far the loop is and how far its claim is belong together.           *)
Matches(place, ph) ==
  /\ place \in {"tick", "wait", "stopped"}       => ph = "idle"
  /\ place = "claim"                             => ph \in {"idle", "claim_edit",
                                                            "claim_verify", "rollback"}
  /\ place \in {"claimed", "start", "prepare", "running"} => ph = "holding"
  /\ place = "release"                           => ph \in {"holding", "release_edit"}

Synced == \A l \in Clients : Matches(at[l], phase[l])

WorkersRun == \A l \in works : at[l] = "running"

(* Every loop has a bot account of its own.                                *)
OwnLogins == \A l \in Clients : HasOwnLogin(l)

(* The run of l works on issue i, or may come to.                          *)
RunsOn(l, i) == target[l] = i /\ (l \in works \/ at[l] = "prepare")

(* Every merge but one is owed to a run that outlived its loop, those that *)
(* still may merge included: the survivors, and on a closed issue the run  *)
(* of the loop that holds it.                                              *)
MergesOwed(i) ==
  LET S == Cardinality(survivors[i])
  IN  /\ IsFiniteSet(survivors[i])
      /\ i \in open => merges[i] = 0 /\ S <= survived[i]
      /\ i \notin open => merges[i] + S <= survived[i] + 1
      /\ i \notin open /\ (\E l \in Clients : RunsOn(l, i)) => merges[i] + S <= survived[i]

MergesCounted == OwnLogins => \A i \in Issues : MergesOwed(i)

LoopIInv ==
  /\ LoopTypeOK
  /\ ClaimIInv
  /\ Synced
  /\ WorkersRun
  /\ MergesCounted

LEMMA LoopInitInv == LoopInit => LoopIInv
<1> SUFFICES ASSUME LoopInit PROVE LoopIInv
  OBVIOUS
<1>1. ClaimIInv /\ phase = [c \in Clients |-> "idle"]
  BY ClaimInitInv DEF LoopInit, ClaimInit
<1>2. LoopTypeOK
  BY <1>1 DEF LoopInit, LoopTypeOK, ClaimIInv, Places
<1>3. Synced /\ WorkersRun
  BY <1>1 DEF LoopInit, Synced, Matches, WorkersRun
<1>4. MergesCounted
  BY FS_EmptySet DEF LoopInit, MergesCounted, MergesOwed
<1> QED
  BY <1>1, <1>2, <1>3, <1>4 DEF LoopIInv

-----------------------------------------------------------------------------
(* The lock.                                                               *)

(* A loop that is idle may turn to any issue.                              *)
LEMMA RetargetInv ==
  ASSUME ClaimIInv, NEW l \in Clients, phase[l] = "idle",
         target' \in [Clients -> Issues],
         \A m \in Clients : m # l => target'[m] = target[m],
         UNCHANGED <<labels, assignees, phase, reason, faulty>>
  PROVE  ClaimIInv'
<1>1. ClaimTypeOK'
  BY DEF ClaimIInv, ClaimTypeOK
<1>2. \A m \in Clients : Engaged(m)' => m # l /\ Engaged(m) /\ target'[m] = target[m]
  BY DEF Engaged
<1>3. EngagedIsAssigned'
  BY <1>2 DEF ClaimIInv, EngagedIsAssigned, HasOwnLogin
<1>4. MutualExclusion'
  <2>1. \A m \in Clients, i \in Issues : Holds(m, i)' => Holds(m, i)
    BY DEF Holds
  <2> QED
    BY <2>1 DEF ClaimIInv, MutualExclusion, HasOwnLogin
<1>5. InProgressIsOwned'
  <2> SUFFICES ASSUME ~faulty, NEW i \in Issues, "in-progress" \in labels[i]
               PROVE  \E m \in Clients : Owns(m, i)'
    BY DEF InProgressIsOwned
  <2>1. PICK m \in Clients : Owns(m, i)
    BY DEF ClaimIInv, InProgressIsOwned
  <2>2. m # l
    BY <2>1 DEF Owns, Engaged
  <2> QED
    BY <2>1, <2>2 DEF Owns, Engaged
<1> QED
  BY <1>1, <1>3, <1>4, <1>5 DEF ClaimIInv

(* The steps of a loop that are steps of its claim.                        *)
ClaimStep(l) ==
  \/ \E i \in Issues : ClaimPreRead(l, i)
  \/ ClaimEdit(l) \/ ClaimVerify(l) \/ Rollback(l)
  \/ \E r \in Reasons : ReleasePreRead(l, r)
  \/ ReleaseEdit(l)
  \/ Interrupted(l) \/ EditInterrupted(l)

(* They keep the lock's invariant and touch no other loop.                 *)
LEMMA ClaimStepInv ==
  ASSUME ClaimIInv, NEW l \in Clients, ClaimStep(l)
  PROVE  /\ ClaimIInv'
         /\ \A m \in Clients : m # l => phase'[m] = phase[m] /\ target'[m] = target[m]
<1>1. ClaimIInv'
  BY ClaimNextInv DEF ClaimStep, ClaimNext
<1>2. PICK p \in Phases : Goto(l, p)
  BY DEF ClaimStep, ClaimPreRead, ClaimEdit, ClaimVerify, Rollback, ReleasePreRead, ReleaseEdit,
     Interrupted, EditInterrupted, Phases
<1>3. \A m \in Clients : m # l => phase'[m] = phase[m]
  BY <1>2, OthersStay DEF ClaimIInv
<1>4. target' = target \/ \E i \in Issues : target' = [target EXCEPT ![l] = i]
  BY DEF ClaimStep, ClaimPreRead, ClaimEdit, ClaimVerify, Rollback, ReleasePreRead, ReleaseEdit,
     Interrupted, EditInterrupted
<1> QED
  BY <1>1, <1>3, <1>4 DEF ClaimIInv, ClaimTypeOK

LEMMA LockStays ==
  ASSUME ClaimIInv, UNCHANGED claimVars
  PROVE  ClaimIInv' /\ UNCHANGED <<phase, target>>
BY ClaimNextInv DEF claimVars

-----------------------------------------------------------------------------
(* The steps of a loop that start no work and merge nothing.               *)

(* What the loop remembers stays in its domain.                            *)
BooksOK ==
  /\ stopping \subseteq Clients
  /\ branch \in [Issues -> SUBSET Clients]
  /\ openPR \subseteq Issues
  /\ leftover \in [Issues -> SUBSET Clients]
  /\ loopLog \in [Clients -> SUBSET {"issue_claimed"}]
  /\ outcome \in [Clients -> {"not_run", "success", "failure"}]

LEMMA LoopMoves ==
  ASSUME LoopIInv, NEW l \in Clients, NEW p \in Places \ {"prepare"}, Move(l, p),
         ClaimIInv', Matches(p, phase'[l]),
         \A m \in Clients : m # l => phase'[m] = phase[m] /\ target'[m] = target[m],
         UNCHANGED <<open, survivors, survived, merges>>,
         works' = works \ {l} \/ (at[l] # "running" /\ works' = works),
         BooksOK'
  PROVE  LoopIInv'
<1>1. /\ at' \in [Clients -> Places] /\ at'[l] = p
      /\ \A m \in Clients : m # l => at'[m] = at[m]
  BY DEF LoopIInv, LoopTypeOK, Move
<1>2. works' = works \ {l} /\ works' \subseteq Clients
  BY DEF LoopIInv, WorkersRun, LoopTypeOK
<1>3. LoopTypeOK'
  BY <1>1, <1>2 DEF LoopIInv, LoopTypeOK, ClaimIInv, BooksOK
<1>4. Synced'
  BY <1>1 DEF LoopIInv, Synced
<1>5. WorkersRun'
  BY <1>1, <1>2 DEF LoopIInv, LoopTypeOK, WorkersRun
<1>6. MergesCounted'
  <2>1. \A m \in Clients, i \in Issues : RunsOn(m, i)' => RunsOn(m, i)
    BY <1>1, <1>2 DEF RunsOn
  <2>2. \A i \in Issues : MergesOwed(i) => MergesOwed(i)'
    BY <2>1 DEF MergesOwed
  <2> QED
    BY <2>2 DEF LoopIInv, MergesCounted, OwnLogins, HasOwnLogin
<1> QED
  BY <1>3, <1>4, <1>5, <1>6 DEF LoopIInv

LEMMA BooksKept ==
  ASSUME LoopIInv, UNCHANGED <<stopping, branch, openPR, leftover, loopLog, outcome>>
  PROVE  BooksOK'
BY DEF LoopIInv, LoopTypeOK, BooksOK

LEMMA SelectIssueInv ==
  ASSUME LoopIInv, NEW l \in Clients, SelectIssue(l)
  PROVE  LoopIInv'
<1>1. /\ at[l] = "tick" /\ phase[l] = "idle"
      /\ UNCHANGED <<labels, assignees, phase, reason, faulty,
                     stopping, runVars>>
  BY DEF SelectIssue, LoopIInv, Synced, Matches, runVars
<1>2. PICK p \in {"claim", "wait"} : Move(l, p)
  BY DEF SelectIssue
<1>3. target' = target \/ \E i \in Issues : target' = [target EXCEPT ![l] = i]
  BY DEF SelectIssue, Takeable, LoopIInv, LoopTypeOK
<1>4. /\ target' \in [Clients -> Issues]
      /\ \A m \in Clients : m # l => target'[m] = target[m]
  BY <1>3 DEF LoopIInv, ClaimIInv, ClaimTypeOK
<1>5. ClaimIInv'
  BY <1>1, <1>4, RetargetInv DEF LoopIInv
<1>6. BooksOK'
  BY <1>1 DEF SelectIssue, LoopIInv, LoopTypeOK, BooksOK, runVars
<1>7. p \in Places /\ Matches(p, phase'[l])
  BY <1>1, <1>2 DEF Places, Matches
<1> QED
  BY <1>1, <1>2, <1>4, <1>5, <1>6, <1>7, LoopMoves DEF runVars

LEMMA LoopClaimInv ==
  ASSUME LoopIInv, NEW l \in Clients, LoopClaim(l)
  PROVE  LoopIInv'
<1>1. /\ at[l] = "claim"
      /\ UNCHANGED <<stopping, runVars, loopLog, outcome>>
  BY DEF LoopClaim
<1>2. target[l] \in Issues /\ phase \in [Clients -> Phases]
  BY DEF LoopIInv, ClaimIInv, ClaimTypeOK
<1>3. ClaimStep(l)
  BY <1>2 DEF LoopClaim, ClaimStep
<1>4. PICK won \in {"start", "claimed"} : AfterClaimStep(l, won)
  BY DEF LoopClaim
<1>5. phase'[l] \in {"idle", "claim_edit", "claim_verify", "rollback", "holding"}
  BY <1>2 DEF LoopClaim, ClaimPreRead, ClaimEdit, ClaimVerify, Rollback, Goto
<1>6. PICK p \in Places \ {"prepare"} : Move(l, p) /\ Matches(p, phase'[l])
  BY <1>4, <1>5 DEF AfterClaimStep, Places, Matches
<1> QED
  BY <1>1, <1>3, <1>6, ClaimStepInv, BooksKept, LoopMoves DEF LoopIInv, runVars

LEMMA LoopReleaseInv ==
  ASSUME LoopIInv, NEW l \in Clients, LoopRelease(l)
  PROVE  LoopIInv'
<1>1. /\ at[l] = "release"
      /\ UNCHANGED <<stopping, runVars, loopLog, outcome>>
  BY DEF LoopRelease
<1>2. phase \in [Clients -> Phases]
  BY DEF LoopIInv, ClaimIInv, ClaimTypeOK
<1>3. DeriveReason(l) \in Reasons
  BY DEF DeriveReason, Reasons
<1>4. ClaimStep(l)
  BY <1>3 DEF LoopRelease, ClaimStep
<1>5. phase'[l] \in {"idle", "release_edit"}
  BY <1>2 DEF LoopRelease, ReleasePreRead, ReleaseEdit, Goto
<1>6. PICK p \in Places \ {"prepare"} : Move(l, p) /\ Matches(p, phase'[l])
  BY <1>5 DEF LoopRelease, AfterProcessed, Places, Matches
<1> QED
  BY <1>1, <1>4, <1>6, ClaimStepInv, BooksKept, LoopMoves DEF LoopIInv, runVars

(* What leaves the lock as it is: the loop goes on with the issue it       *)
(* holds, or waits and starts again with none.                             *)
LEMMA AsideInv ==
  ASSUME LoopIInv, NEW l \in Clients,
         \/ WriteClaimEvent(l) \/ ClaimUnavailable(l) \/ RunStartFails(l) \/ WaitEnds(l)
         \/ LoopRestart(l)
  PROVE  LoopIInv'
<1>1. UNCHANGED <<claimVars, runVars>>
  BY DEF WriteClaimEvent, ClaimUnavailable, RunStartFails, WaitEnds, LoopRestart
<1>2. ClaimIInv' /\ UNCHANGED <<phase, target>>
  BY <1>1, LockStays DEF LoopIInv
<1>3. at[l] # "running" /\ works' = works
  BY <1>1 DEF WriteClaimEvent, ClaimUnavailable, RunStartFails, WaitEnds, LoopRestart, runVars
<1>4. PICK p \in Places \ {"prepare"} : Move(l, p) /\ Matches(p, phase[l])
  <2>1. Matches(at[l], phase[l])
    BY DEF LoopIInv, Synced
  <2> QED
    BY <2>1 DEF WriteClaimEvent, ClaimUnavailable, RunStartFails, WaitEnds,
       LoopRestart, AfterProcessed, Places, Matches
<1>5. BooksOK'
  <2>1. UNCHANGED <<branch, openPR, leftover>>
    BY <1>1 DEF runVars
  <2>2. CASE WriteClaimEvent(l)
    BY <2>1, <2>2 DEF WriteClaimEvent, LoopIInv, LoopTypeOK, BooksOK
  <2>3. CASE RunStartFails(l)
    BY <2>1, <2>3 DEF RunStartFails, LoopIInv, LoopTypeOK, BooksOK
  <2>4. CASE ClaimUnavailable(l) \/ WaitEnds(l) \/ LoopRestart(l)
    BY <2>1, <2>4 DEF ClaimUnavailable, WaitEnds, LoopRestart, LoopIInv, LoopTypeOK, BooksOK
  <2> QED
    BY <2>2, <2>3, <2>4
<1> QED
  BY <1>1, <1>2, <1>3, <1>4, <1>5, LoopMoves DEF runVars

LEMMA LoopFaultInv ==
  ASSUME LoopIInv, NEW l \in Clients, LoopFault(l)
  PROVE  LoopIInv'
<1>1. /\ at[l] \in {"claim", "claimed", "release"}
      /\ Interrupted(l) \/ EditInterrupted(l)
      /\ UNCHANGED <<stopping, runVars, loopLog, outcome>>
  BY DEF LoopFault
<1>2. phase'[l] = "idle"
  BY <1>1 DEF LoopIInv, ClaimIInv, ClaimTypeOK, Interrupted, EditInterrupted, Goto
<1>3. PICK p \in Places \ {"prepare"} : Move(l, p) /\ Matches(p, "idle")
  BY DEF LoopFault, AfterProcessed, Places, Matches
<1> QED
  BY <1>1, <1>2, <1>3, ClaimStepInv, BooksKept, LoopMoves DEF ClaimStep, LoopIInv, runVars

LEMMA StopRequestedInv ==
  ASSUME LoopIInv, NEW l \in Clients, StopRequested(l)
  PROVE  LoopIInv'
<1>1. /\ stopping' = stopping \cup {l}
      /\ UNCHANGED <<claimVars, at, runVars, loopLog, outcome>>
  BY DEF StopRequested
<1>2. ClaimIInv' /\ UNCHANGED <<phase, target>>
  BY <1>1, LockStays DEF LoopIInv
<1>3. LoopTypeOK' /\ Synced' /\ WorkersRun'
  BY <1>1, <1>2 DEF LoopIInv, LoopTypeOK, ClaimIInv, Synced, WorkersRun, runVars
<1>4. MergesCounted'
  BY <1>1, <1>2 DEF LoopIInv, MergesCounted, MergesOwed, RunsOn, OwnLogins, HasOwnLogin, runVars
<1> QED
  BY <1>2, <1>3, <1>4 DEF LoopIInv

-----------------------------------------------------------------------------
(* The run of a loop.                                                      *)

(* A run goes into PREPARE only on an issue that is open.                  *)
LEMMA RunStartsInv ==
  ASSUME LoopIInv, NEW l \in Clients, RunStarts(l)
  PROVE  LoopIInv'
<1>1. /\ at[l] = "start"
      /\ UNCHANGED <<claimVars, stopping, runVars, loopLog, outcome>>
  BY DEF RunStarts
<1>2. ClaimIInv' /\ UNCHANGED <<phase, target>>
  BY <1>1, LockStays DEF LoopIInv
<1>3. PICK p \in {"prepare", "running"} : Move(l, p) /\ (p = "prepare" => target[l] \in open)
  BY DEF RunStarts
<1>4. /\ at' \in [Clients -> Places] /\ at'[l] = p
      /\ \A m \in Clients : m # l => at'[m] = at[m]
  BY <1>3 DEF LoopIInv, LoopTypeOK, Move, Places
<1>5. LoopTypeOK'
  BY <1>1, <1>2, <1>4 DEF LoopIInv, LoopTypeOK, ClaimIInv, runVars
<1>6. Synced'
  BY <1>1, <1>2, <1>4 DEF LoopIInv, Synced, Matches
<1>7. WorkersRun'
  BY <1>1, <1>4 DEF LoopIInv, LoopTypeOK, WorkersRun, runVars
<1>8. MergesCounted'
  <2>1. \A m \in Clients, i \in Issues : RunsOn(m, i)' => RunsOn(m, i) \/ i \in open
    BY <1>1, <1>2, <1>3, <1>4 DEF RunsOn, runVars
  <2>2. \A i \in Issues : MergesOwed(i) => MergesOwed(i)'
    BY <1>1, <2>1 DEF MergesOwed, runVars
  <2> QED
    BY <2>2 DEF LoopIInv, MergesCounted, OwnLogins, HasOwnLogin
<1> QED
  BY <1>2, <1>5, <1>6, <1>7, <1>8 DEF LoopIInv

LEMMA RunPreparesInv ==
  ASSUME LoopIInv, NEW l \in Clients, RunPrepares(l)
  PROVE  LoopIInv'
<1>1. /\ at[l] = "prepare" /\ Move(l, "running")
      /\ works' \in {works, works \cup {l}}
      /\ UNCHANGED <<claimVars, stopping, open, branch, openPR, leftover, survivors, survived,
                     merges, loopLog, outcome>>
  BY DEF RunPrepares
<1>2. ClaimIInv' /\ UNCHANGED <<phase, target>>
  BY <1>1, LockStays DEF LoopIInv
<1>3. /\ at' \in [Clients -> Places] /\ at'[l] = "running"
      /\ \A m \in Clients : m # l => at'[m] = at[m]
  BY <1>1 DEF LoopIInv, LoopTypeOK, Move, Places
<1>4. LoopTypeOK'
  BY <1>1, <1>2, <1>3 DEF LoopIInv, LoopTypeOK, ClaimIInv
<1>5. Synced'
  BY <1>1, <1>2, <1>3 DEF LoopIInv, Synced, Matches
<1>6. WorkersRun'
  BY <1>1, <1>3 DEF LoopIInv, LoopTypeOK, WorkersRun
<1>7. MergesCounted'
  <2>1. \A m \in Clients, i \in Issues : RunsOn(m, i)' => RunsOn(m, i)
    BY <1>1, <1>2, <1>3 DEF RunsOn
  <2>2. \A i \in Issues : MergesOwed(i) => MergesOwed(i)'
    BY <1>1, <2>1 DEF MergesOwed
  <2> QED
    BY <2>2 DEF LoopIInv, MergesCounted, OwnLogins, HasOwnLogin
<1> QED
  BY <1>2, <1>4, <1>5, <1>6, <1>7 DEF LoopIInv

(* Two loops whose runs are on one issue would both hold it.               *)
LEMMA OneRun ==
  ASSUME LoopIInv, OwnLogins, NEW i \in Issues,
         NEW l \in Clients, NEW m \in Clients, RunsOn(l, i), RunsOn(m, i)
  PROVE  l = m
<1>1. \A k \in Clients : RunsOn(k, i) => Holds(k, i)
  BY DEF LoopIInv, WorkersRun, Synced, Matches, RunsOn, Holds
<1> QED
  BY <1>1 DEF LoopIInv, ClaimIInv, MutualExclusion, OwnLogins

(* A run may merge or end without: which issue is open and how often it    *)
(* has been merged changes for the issue of the run alone.                 *)
LEMMA EndsMergesOnce ==
  ASSUME LoopIInv, NEW l \in Clients, NEW i \in Issues,
         NEW r \in {"success", "failure"}, Ends(l, i, r)
  PROVE  /\ branch' \in [Issues -> SUBSET Clients]
         /\ leftover' \in [Issues -> SUBSET Clients]
         /\ openPR' \subseteq Issues /\ open' \subseteq Issues
         /\ merges' \in [Issues -> Nat]
         /\ \A j \in Issues \ {i} : merges'[j] = merges[j] /\ (j \in open' <=> j \in open)
         /\ \/ UNCHANGED <<open, merges>>
            \/ i \notin open' /\ merges'[i] = merges[i] + 1
<1>1. leftover' \in [Issues -> SUBSET Clients]
  BY DEF Ends, LoopIInv, LoopTypeOK
<1>2. CASE Merges(l, i)
  BY <1>1, <1>2 DEF Merges, LoopIInv, LoopTypeOK
<1>3. CASE UNCHANGED <<open, branch, openPR, merges>>
  BY <1>1, <1>3 DEF LoopIInv, LoopTypeOK
<1> QED
  BY <1>2, <1>3 DEF Ends

LEMMA RunEndsInv ==
  ASSUME LoopIInv, NEW l \in Clients, RunEnds(l)
  PROVE  LoopIInv'
<1> DEFINE i == target[l]
<1>1. /\ at[l] = "running" /\ Move(l, "release") /\ works' = works \ {l}
      /\ UNCHANGED <<claimVars, stopping, survivors, survived, loopLog>>
  BY DEF RunEnds
<1>2. ClaimIInv' /\ UNCHANGED <<phase, target>>
  BY <1>1, LockStays DEF LoopIInv
<1>3. i \in Issues
  BY DEF LoopIInv, ClaimIInv, ClaimTypeOK
<1>4. PICK r \in {"success", "failure"} :
        /\ outcome' = [outcome EXCEPT ![l] = r]
        /\ IF l \in works THEN Ends(l, i, r)
           ELSE r = "failure" /\ UNCHANGED <<open, branch, openPR, leftover, merges>>
  BY DEF RunEnds
<1>5. outcome' \in [Clients -> {"not_run", "success", "failure"}]
  BY <1>4 DEF LoopIInv, LoopTypeOK
<1>6. Matches("release", phase'[l])
  BY <1>1, <1>2 DEF LoopIInv, Synced, Matches
<1>7. CASE UNCHANGED <<open, merges>>
  <2>1. BooksOK'
    <3>1. CASE l \in works
      BY <1>1, <1>3, <1>4, <1>5, <3>1, EndsMergesOnce DEF LoopIInv, LoopTypeOK, BooksOK
    <3>2. CASE l \notin works
      BY <1>1, <1>4, <1>5, <3>2 DEF LoopIInv, LoopTypeOK, BooksOK
    <3> QED
      BY <3>1, <3>2
  <2> QED
    BY <1>1, <1>2, <1>6, <1>7, <2>1, LoopMoves DEF Places
<1>8. CASE ~UNCHANGED <<open, merges>>
  <2>1. l \in works /\ Ends(l, i, r)
    BY <1>4, <1>8
  <2>2. /\ branch' \in [Issues -> SUBSET Clients]
        /\ leftover' \in [Issues -> SUBSET Clients]
        /\ openPR' \subseteq Issues /\ open' \subseteq Issues
        /\ merges' \in [Issues -> Nat]
        /\ \A j \in Issues \ {i} : merges'[j] = merges[j] /\ (j \in open' <=> j \in open)
        /\ i \notin open' /\ merges'[i] = merges[i] + 1
    BY <1>3, <1>8, <2>1, EndsMergesOnce
  <2>3. /\ at' \in [Clients -> Places] /\ at'[l] = "release"
        /\ \A m \in Clients : m # l => at'[m] = at[m]
    BY <1>1 DEF LoopIInv, LoopTypeOK, Move, Places
  <2>4. LoopTypeOK'
    BY <1>1, <1>2, <1>5, <2>2, <2>3 DEF LoopIInv, LoopTypeOK, ClaimIInv
  <2>5. Synced'
    BY <1>2, <1>6, <2>3 DEF LoopIInv, Synced
  <2>6. WorkersRun'
    BY <1>1, <2>3 DEF LoopIInv, LoopTypeOK, WorkersRun
  <2>7. MergesCounted'
    <3> SUFFICES ASSUME OwnLogins, NEW j \in Issues PROVE MergesOwed(j)'
      BY <1>2 DEF MergesCounted, OwnLogins, HasOwnLogin
    <3>1. MergesOwed(j) /\ RunsOn(l, i)
      BY <2>1 DEF LoopIInv, MergesCounted, RunsOn
    <3>2. \A m \in Clients : RunsOn(m, j)' => RunsOn(m, j) /\ m # l
      BY <1>1, <1>2, <2>3 DEF RunsOn
    <3>3. CASE j # i
      BY <1>1, <2>2, <3>1, <3>2, <3>3 DEF MergesOwed
    <3>4. CASE j = i
      <4>1. ~(\E m \in Clients : RunsOn(m, j)')
        BY <3>1, <3>2, <3>4, OneRun
      <4>2. /\ IsFiniteSet(survivors[j]) /\ Cardinality(survivors[j]) \in Nat
            /\ merges[j] \in Nat /\ survived[j] \in Nat
            /\ merges[j] + Cardinality(survivors[j]) <= survived[j]
        BY <1>3, <3>1, <3>4, FS_CardinalityType DEF MergesOwed, LoopIInv, LoopTypeOK
      <4> QED
        BY <1>1, <2>2, <3>4, <4>1, <4>2 DEF MergesOwed
    <3> QED
      BY <3>3, <3>4
  <2> QED
    BY <1>2, <2>4, <2>5, <2>6, <2>7 DEF LoopIInv
<1> QED
  BY <1>7, <1>8

-----------------------------------------------------------------------------
(* Runs and survivors.                                                     *)

LEMMA OpensPRInv ==
  ASSUME LoopIInv, NEW l \in Clients, RunOpensPR(l) \/ SurvivorOpensPR(l)
  PROVE  LoopIInv'
<1>1. PICK i \in Issues : OpensPR(l, i)
  BY DEF RunOpensPR, SurvivorOpensPR, LoopIInv, ClaimIInv, ClaimTypeOK
<1>2. UNCHANGED <<claimVars, at, stopping, open, leftover, works, survivors, survived, merges,
                  loopLog, outcome>>
  BY DEF RunOpensPR, SurvivorOpensPR, OpensPR
<1>3. ClaimIInv' /\ UNCHANGED <<phase, target>>
  BY <1>2, LockStays DEF LoopIInv
<1>4. branch' \in [Issues -> SUBSET Clients] /\ openPR' \subseteq Issues
  BY <1>1 DEF OpensPR, LoopIInv, LoopTypeOK
<1>5. LoopTypeOK' /\ Synced' /\ WorkersRun'
  BY <1>2, <1>3, <1>4 DEF LoopIInv, LoopTypeOK, ClaimIInv, Synced, WorkersRun
<1>6. MergesCounted'
  BY <1>2, <1>3 DEF LoopIInv, MergesCounted, MergesOwed, RunsOn, OwnLogins, HasOwnLogin
<1> QED
  BY <1>3, <1>5, <1>6 DEF LoopIInv

LEMMA SurvivorEndsInv ==
  ASSUME LoopIInv, NEW l \in Clients, SurvivorEnds(l)
  PROVE  LoopIInv'
<1>1. PICK i \in Issues, r \in {"success", "failure"} :
        /\ l \in survivors[i] /\ Ends(l, i, r)
        /\ survivors' = [survivors EXCEPT ![i] = @ \ {l}]
        /\ UNCHANGED <<claimVars, at, stopping, works, survived, loopLog, outcome>>
  BY DEF SurvivorEnds
<1>2. ClaimIInv' /\ UNCHANGED <<phase, target>>
  BY <1>1, LockStays DEF LoopIInv
<1>3. /\ branch' \in [Issues -> SUBSET Clients]
      /\ leftover' \in [Issues -> SUBSET Clients]
      /\ openPR' \subseteq Issues /\ open' \subseteq Issues
      /\ merges' \in [Issues -> Nat]
      /\ \A j \in Issues \ {i} : merges'[j] = merges[j] /\ (j \in open' <=> j \in open)
      /\ UNCHANGED <<open, merges>> \/ (i \notin open' /\ merges'[i] = merges[i] + 1)
  BY <1>1, EndsMergesOnce
<1>4. /\ survivors' \in [Issues -> SUBSET Clients] /\ survivors'[i] = survivors[i] \ {l}
      /\ \A j \in Issues \ {i} : survivors'[j] = survivors[j]
  BY <1>1 DEF LoopIInv, LoopTypeOK
<1>5. LoopTypeOK' /\ Synced' /\ WorkersRun'
  BY <1>1, <1>2, <1>3, <1>4 DEF LoopIInv, LoopTypeOK, ClaimIInv, Synced, WorkersRun
<1>6. MergesCounted'
  <2> SUFFICES ASSUME OwnLogins, NEW j \in Issues PROVE MergesOwed(j)'
    BY <1>2 DEF MergesCounted, OwnLogins, HasOwnLogin
  <2>1. MergesOwed(j)
    BY DEF LoopIInv, MergesCounted
  <2>2. \A m \in Clients : RunsOn(m, j)' <=> RunsOn(m, j)
    BY <1>1, <1>2 DEF RunsOn
  <2>3. CASE j # i
    BY <1>1, <1>3, <1>4, <2>1, <2>2, <2>3 DEF MergesOwed
  <2>4. CASE j = i
    <3>1. /\ IsFiniteSet(survivors'[i])
          /\ Cardinality(survivors'[i]) = Cardinality(survivors[i]) - 1
          /\ Cardinality(survivors[i]) \in Nat
      BY <1>1, <1>4, <2>1, <2>4, FS_RemoveElement, FS_CardinalityType DEF MergesOwed
    <3>2. merges[i] \in Nat /\ survived[i] \in Nat /\ survived' = survived
      BY <1>1 DEF LoopIInv, LoopTypeOK
    <3>3. CASE UNCHANGED <<open, merges>>
      BY <2>1, <2>2, <2>4, <3>1, <3>2, <3>3 DEF MergesOwed
    <3>4. CASE i \notin open' /\ merges'[i] = merges[i] + 1
      BY <2>1, <2>2, <2>4, <3>1, <3>2, <3>4 DEF MergesOwed
    <3> QED
      BY <1>3, <3>3, <3>4
  <2> QED
    BY <2>3, <2>4
<1> QED
  BY <1>2, <1>5, <1>6 DEF LoopIInv

(* A run that outlives its loop is counted as it becomes a survivor.       *)
LEMMA LoopCrashInv ==
  ASSUME LoopIInv, NEW l \in Clients, LoopCrash(l)
  PROVE  LoopIInv'
<1> DEFINE i == target[l]
<1>1. /\ Move(l, "stopped") /\ works' = works \ {l} /\ RunIsLeft(l, i)
      /\ UNCHANGED <<stopping, open, branch, openPR, merges, loopLog, outcome>>
  BY DEF LoopCrash
<1>2. /\ ClaimIInv' /\ phase'[l] = "idle" /\ target' = target
      /\ \A m \in Clients : m # l => phase'[m] = phase[m]
  <2>1. CASE phase[l] = "idle"
    BY <2>1, LockStays DEF LoopCrash, LoopIInv
  <2>2. CASE phase[l] # "idle"
    <3>1. Interrupted(l) \/ EditInterrupted(l)
      BY <2>2 DEF LoopCrash
    <3>2. phase'[l] = "idle" /\ target' = target
      BY <3>1 DEF LoopIInv, ClaimIInv, ClaimTypeOK, Interrupted, EditInterrupted, Goto
    <3> QED
      BY <3>1, <3>2, ClaimStepInv DEF ClaimStep, LoopIInv
  <2> QED
    BY <2>1, <2>2
<1>3. i \in Issues
  BY DEF LoopIInv, ClaimIInv, ClaimTypeOK
<1>4. leftover' \in [Issues -> SUBSET Clients]
  BY <1>1, <1>3 DEF RunIsLeft, LoopIInv, LoopTypeOK
<1>5. CASE UNCHANGED <<survivors, survived>>
  <2>1. BooksOK'
    BY <1>1, <1>4 DEF LoopIInv, LoopTypeOK, BooksOK
  <2> QED
    BY <1>1, <1>2, <1>5, <2>1, LoopMoves DEF Matches, Places
<1>6. CASE /\ RunsOn(l, i) /\ l \notin survivors[i]
           /\ survivors' = [survivors EXCEPT ![i] = @ \cup {l}]
           /\ survived' = [survived EXCEPT ![i] = @ + 1]
  <2>1. /\ at' \in [Clients -> Places] /\ at'[l] = "stopped"
        /\ \A m \in Clients : m # l => at'[m] = at[m]
    BY <1>1 DEF LoopIInv, LoopTypeOK, Move, Places
  <2>2. /\ survivors' \in [Issues -> SUBSET Clients] /\ survived' \in [Issues -> Nat]
        /\ survivors'[i] = survivors[i] \cup {l} /\ survived'[i] = survived[i] + 1
        /\ \A j \in Issues \ {i} : survivors'[j] = survivors[j] /\ survived'[j] = survived[j]
    BY <1>3, <1>6 DEF LoopIInv, LoopTypeOK
  <2>3. LoopTypeOK'
    BY <1>1, <1>2, <1>4, <2>1, <2>2 DEF LoopIInv, LoopTypeOK, ClaimIInv
  <2>4. Synced'
    BY <1>2, <2>1 DEF LoopIInv, Synced, Matches
  <2>5. WorkersRun'
    BY <1>1, <2>1 DEF LoopIInv, LoopTypeOK, WorkersRun
  <2>6. MergesCounted'
    <3> SUFFICES ASSUME OwnLogins, NEW j \in Issues PROVE MergesOwed(j)'
      BY <1>2 DEF MergesCounted, OwnLogins, HasOwnLogin
    <3>1. MergesOwed(j)
      BY DEF LoopIInv, MergesCounted
    <3>2. \A m \in Clients : RunsOn(m, j)' => RunsOn(m, j)
      BY <1>1, <1>2, <2>1 DEF RunsOn
    <3>3. CASE j # i
      BY <1>1, <2>2, <3>1, <3>2, <3>3 DEF MergesOwed
    <3>4. CASE j = i
      <4>1. /\ IsFiniteSet(survivors'[i])
            /\ Cardinality(survivors'[i]) = Cardinality(survivors[i]) + 1
            /\ Cardinality(survivors[i]) \in Nat
        BY <1>6, <2>2, <3>1, <3>4, FS_AddElement, FS_CardinalityType DEF MergesOwed
      <4>2. merges[i] \in Nat /\ survived[i] \in Nat
        BY <1>3 DEF LoopIInv, LoopTypeOK
      <4> QED
        BY <1>1, <1>6, <2>2, <3>1, <3>4, <4>1, <4>2 DEF MergesOwed
    <3> QED
      BY <3>3, <3>4
  <2> QED
    BY <1>2, <2>3, <2>4, <2>5, <2>6 DEF LoopIInv
<1>7. l \in works \/ at[l] = "prepare" <=> RunsOn(l, i)
  BY DEF RunsOn
<1> QED
  BY <1>1, <1>5, <1>6, <1>7 DEF RunIsLeft

-----------------------------------------------------------------------------
(* Every step.                                                             *)

(* What one loop, or a run it has left behind, may do.                     *)
StepOf(l) ==
  \/ LoopStep(l) \/ StopRequested(l) \/ LoopFault(l) \/ LoopCrash(l) \/ LoopRestart(l)
  \/ SurvivorOpensPR(l) \/ SurvivorEnds(l)

LEMMA LoopNextInv == LoopIInv /\ [LoopNext]_runLoopVars => LoopIInv'
<1> SUFFICES ASSUME LoopIInv, [LoopNext]_runLoopVars PROVE LoopIInv'
  OBVIOUS
<1>1. CASE LoopNext
  <2>1. PICK l \in Clients : StepOf(l)
    BY <1>1 DEF LoopNext, StepOf
  <2> QED
    BY <2>1, SelectIssueInv, LoopClaimInv, LoopReleaseInv, AsideInv, LoopFaultInv, LoopCrashInv,
       StopRequestedInv, RunStartsInv, RunPreparesInv, RunEndsInv, OpensPRInv, SurvivorEndsInv
       DEF StepOf, LoopStep
<1>2. CASE UNCHANGED runLoopVars
  <2>1. UNCHANGED claimVars /\ UNCHANGED <<loopVars, runVars>>
    BY <1>2 DEF runLoopVars, loopVars
  <2>2. ClaimIInv' /\ UNCHANGED <<phase, target>>
    BY <2>1, LockStays DEF LoopIInv
  <2>3. LoopTypeOK' /\ Synced' /\ WorkersRun'
    BY <2>1, <2>2 DEF loopVars, runVars, LoopIInv, LoopTypeOK, ClaimIInv, Synced, WorkersRun
  <2>4. MergesCounted'
    BY <2>1, <2>2 DEF loopVars, runVars, LoopIInv, MergesCounted, MergesOwed, RunsOn, OwnLogins,
       HasOwnLogin
  <2> QED
    BY <2>2, <2>3, <2>4 DEF LoopIInv
<1> QED
  BY <1>1, <1>2

-----------------------------------------------------------------------------
(* The theorems.                                                           *)

THEOREM LoopInvariant == LoopSpec => []LoopIInv
BY LoopInitInv, LoopNextInv, PTL DEF LoopSpec

(* Every variable stays within its domain.                                 *)
THEOREM LoopTypeCorrect == LoopSpec => []LoopTypeOK
<1>1. LoopIInv => LoopTypeOK
  BY DEF LoopIInv
<1> QED
  BY <1>1, LoopInvariant, PTL

(* The loops keep to the lock: under the schedule of the loop, with runs,  *)
(* signals, crashes and restarts, it is as exclusive as by itself.         *)
THEOREM LoopsExclude == LoopSpec => []MutualExclusion
<1>1. LoopIInv => MutualExclusion
  BY DEF LoopIInv, ClaimIInv
<1> QED
  BY <1>1, LoopInvariant, PTL

(* With bot accounts of their own, loops merge an issue once, and once more*)
(* for each run on it that outlived its loop at most: a run that a loop    *)
(* waits for works only on an issue that its loop alone holds and that was *)
(* open when it started.                                                   *)
THEOREM MergesAreAccountedFor == LoopSpec => [](OwnLogins => ExtraMergesAreSurvivors)
<1>1. LoopIInv => (OwnLogins => ExtraMergesAreSurvivors)
  <2> SUFFICES ASSUME LoopIInv, OwnLogins, NEW i \in Issues PROVE merges[i] <= 1 + survived[i]
    BY DEF ExtraMergesAreSurvivors
  <2>1. MergesOwed(i) /\ merges[i] \in Nat /\ survived[i] \in Nat
    BY DEF LoopIInv, MergesCounted, LoopTypeOK
  <2>2. Cardinality(survivors[i]) \in Nat
    BY <2>1, FS_CardinalityType DEF MergesOwed
  <2> QED
    BY <2>1, <2>2 DEF MergesOwed
<1> QED
  BY <1>1, LoopInvariant, PTL

(* Without faults, whoever stopped or waits left no issue in progress,     *)
(* whether or not loops share a login.                                     *)
THEOREM StoppedHoldsNothing == LoopSpec => []StoppedLoopHoldsNothing
<1>1. LoopIInv => StoppedLoopHoldsNothing
  <2> SUFFICES ASSUME LoopIInv, ~faulty, NEW i \in Issues, "in-progress" \in labels[i]
               PROVE  \E l \in Clients :
                        target[l] = i /\ at[l] \notin {"tick", "wait", "stopped"}
    BY DEF StoppedLoopHoldsNothing
  <2>1. PICK l \in Clients : Owns(l, i)
    BY DEF LoopIInv, ClaimIInv, InProgressIsOwned
  <2> QED
    BY <2>1 DEF Owns, Engaged, LoopIInv, Synced, Matches
<1> QED
  BY <1>1, LoopInvariant, PTL

-----------------------------------------------------------------------------
(* The loop as a user of the lock.                                         *)

(* A loop without a claim picks the issue it will try next.                *)
IdleTurns ==
  \E l \in Clients, i \in Issues :
    /\ phase[l] = "idle"
    /\ target' = [target EXCEPT ![l] = i]
    /\ UNCHANGED <<labels, assignees, phase, reason, faulty>>

LEMMA LoopNextKeepsToTheLock ==
  ASSUME LoopIInv, NEW l \in Clients, StepOf(l)
  PROVE  ClaimNext \/ IdleTurns \/ UNCHANGED claimVars
<1>1. CASE SelectIssue(l)
  <2>1. phase[l] = "idle"
    BY <1>1 DEF SelectIssue, LoopIInv, Synced, Matches
  <2>2. target' = target \/ \E i \in Issues : target' = [target EXCEPT ![l] = i]
    BY <1>1 DEF SelectIssue, Takeable, LoopIInv, LoopTypeOK
  <2> QED
    BY <1>1, <2>1, <2>2 DEF SelectIssue, IdleTurns, claimVars
<1>2. CASE LoopClaim(l) \/ LoopRelease(l) \/ LoopFault(l)
  <2>1. target[l] \in Issues /\ DeriveReason(l) \in Reasons
    BY DEF LoopIInv, ClaimIInv, ClaimTypeOK, DeriveReason, Reasons
  <2> QED
    BY <1>2, <2>1 DEF LoopClaim, LoopRelease, LoopFault, ClaimNext
<1>3. CASE LoopCrash(l)
  BY <1>3 DEF LoopCrash, ClaimNext
<1>4. CASE \/ WriteClaimEvent(l) \/ ClaimUnavailable(l) \/ RunStarts(l) \/ RunStartFails(l)
           \/ RunPrepares(l) \/ RunOpensPR(l) \/ RunEnds(l) \/ WaitEnds(l)
           \/ StopRequested(l) \/ LoopRestart(l) \/ SurvivorOpensPR(l) \/ SurvivorEnds(l)
  BY <1>4 DEF WriteClaimEvent, ClaimUnavailable, RunStarts, RunStartFails, RunPrepares, RunOpensPR,
     RunEnds, WaitEnds, StopRequested, LoopRestart, SurvivorOpensPR, SurvivorEnds
<1> QED
  BY <1>1, <1>2, <1>3, <1>4 DEF StepOf, LoopStep

(* Whatever the loops do with runs, signals and crashes, they change labels *)
(* and assignees by steps of Claim and Release alone, each in its place:   *)
(* what holds of the lock under any use of it holds in the loops.          *)
THEOREM LoopsKeepToTheLock ==
  LoopSpec => ClaimInit /\ [][ClaimNext \/ IdleTurns]_claimVars
<1>1. LoopInit => ClaimInit
  BY DEF LoopInit
<1>2. LoopIInv /\ [LoopNext]_runLoopVars => [ClaimNext \/ IdleTurns]_claimVars
  BY LoopNextKeepsToTheLock DEF LoopNext, StepOf, runLoopVars
<1> QED
  BY <1>1, <1>2, LoopInvariant, PTL DEF LoopSpec

=============================================================================
