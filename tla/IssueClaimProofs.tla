-------------------------- MODULE IssueClaimProofs --------------------------
(* Proofs about IssueClaim, for every set of clients and of issues.        *)
EXTENDS IssueClaim, TLAPS

(* Between its edit and the end of its claim a client is an assignee: only *)
(* calls under its own login unassign it.  InProgressIsOwned gives every   *)
(* issue in progress a client at work on it that can release it; all that  *)
(* unassigns also ends in-progress, so it holds with shared logins, too.   *)
Engaged(c) == phase[c] \in {"claim_verify", "rollback", "holding", "release_edit"}

EngagedIsAssigned ==
  \A c \in Clients : HasOwnLogin(c) /\ Engaged(c) => Login[c] \in assignees[target[c]]

Owns(c, i) == target[c] = i /\ Engaged(c) /\ Login[c] \in assignees[i]

InProgressIsOwned ==
  ~faulty => \A i \in Issues : "in-progress" \in labels[i] => \E c \in Clients : Owns(c, i)

ClaimIInv ==
  /\ ClaimTypeOK
  /\ EngagedIsAssigned
  /\ MutualExclusion
  /\ InProgressIsOwned

LEMMA ClaimInitInv == ClaimInit => ClaimIInv
<1> SUFFICES ASSUME ClaimInit PROVE ClaimIInv
  OBVIOUS
<1>1. /\ labels = [i \in Issues |-> {"ready-for-agent"}]
      /\ assignees = [i \in Issues |-> {}]
      /\ phase = [c \in Clients |-> "idle"]
      /\ target \in [Clients -> Issues]
      /\ reason = [c \in Clients |-> "abandoned"]
      /\ faulty = FALSE
  BY DEF ClaimInit
<1>2. ClaimTypeOK
  BY <1>1 DEF ClaimTypeOK, Labels, Phases, Reasons
<1>3. EngagedIsAssigned /\ MutualExclusion
  BY <1>1 DEF EngagedIsAssigned, Engaged, MutualExclusion, Holds
<1>4. \A i \in Issues : "in-progress" \notin labels[i]
  BY <1>1
<1> QED
  BY <1>2, <1>3, <1>4 DEF ClaimIInv, InProgressIsOwned

(* One client moves; the others stay where they are.                       *)
LEMMA OthersStay ==
  ASSUME ClaimTypeOK, NEW c \in Clients, NEW p \in Phases, Goto(c, p)
  PROVE  /\ phase' \in [Clients -> Phases]
         /\ phase'[c] = p
         /\ \A d \in Clients : d # c => phase'[d] = phase[d]
  BY DEF ClaimTypeOK, Goto

LEMMA PutClaimEffect ==
  ASSUME ClaimTypeOK, NEW c \in Clients, PutClaim(c)
  PROVE  /\ labels' \in [Issues -> SUBSET Labels]
         /\ assignees' \in [Issues -> SUBSET Logins]
         /\ \A i \in Issues : i # target[c] => labels'[i] = labels[i]
         /\ \A i \in Issues : assignees[i] \subseteq assignees'[i]
         /\ Login[c] \in assignees'[target[c]]
<1>1. target[c] \in Issues /\ Login[c] \in Logins
  BY LoginAssumption DEF ClaimTypeOK
<1>2. /\ labels' = [labels EXCEPT ![target[c]] = (@ \ {"ready-for-agent"}) \cup {"in-progress"}]
      /\ assignees' = [assignees EXCEPT ![target[c]] = @ \cup {Login[c]}]
  BY DEF PutClaim, Relabel
<1> QED
  BY <1>1, <1>2 DEF ClaimTypeOK, Labels

(* A rollback and a release both end in-progress and unassign the client.  *)
Withdraws(c) ==
  /\ labels' \in [Issues -> SUBSET Labels]
  /\ assignees' \in [Issues -> SUBSET Logins]
  /\ \A i \in Issues : "in-progress" \in labels'[i] => i # target[c] /\ "in-progress" \in labels[i]
  /\ \A i \in Issues : assignees[i] \ {Login[c]} \subseteq assignees'[i]
  /\ \A i \in Issues : i # target[c] => assignees'[i] = assignees[i]

LEMMA UndoClaimEffect ==
  ASSUME ClaimTypeOK, NEW c \in Clients, UndoClaim(c)
  PROVE  Withdraws(c)
<1>1. target[c] \in Issues
  BY DEF ClaimTypeOK
<1>2. /\ labels' = [labels EXCEPT ![target[c]] = (@ \ {"in-progress"}) \cup {"ready-for-agent"}]
      /\ assignees' = [assignees EXCEPT ![target[c]] = @ \ {Login[c]}]
  BY DEF UndoClaim, Relabel
<1> QED
  BY <1>1, <1>2 DEF ClaimTypeOK, Labels, Withdraws

LEMMA PutReleaseEffect ==
  ASSUME ClaimTypeOK, NEW c \in Clients, PutRelease(c)
  PROVE  Withdraws(c)
<1>1. target[c] \in Issues /\ reason[c] \in Reasons
  BY DEF ClaimTypeOK
<1>2. PICK add : /\ add \in {{}, {"needs-human"}, {"ready-for-agent"}}
                 /\ labels' = [labels EXCEPT ![target[c]] = (@ \ {"in-progress"}) \cup add]
  BY <1>1 DEF PutRelease, Relabel, Reasons
<1>3. assignees' = [assignees EXCEPT ![target[c]] = @ \ {Login[c]}]
  BY DEF PutRelease
<1> QED
  BY <1>1, <1>2, <1>3 DEF ClaimTypeOK, Labels, Withdraws

(* A client withdraws: it unassigns nobody with another login, and on its  *)
(* own issue nobody can be in progress any more.                           *)
LEMMA WithdrawInv ==
  ASSUME ClaimIInv, NEW c \in Clients,
         Withdraws(c), Goto(c, "idle"),
         target' = target, reason' = reason, faulty' \in BOOLEAN, faulty => faulty'
  PROVE  ClaimIInv'
<1>1. /\ phase' \in [Clients -> Phases] /\ phase'[c] = "idle"
      /\ \A d \in Clients : d # c => phase'[d] = phase[d]
  BY OthersStay DEF ClaimIInv, Phases
<1>2. ClaimTypeOK'
  BY <1>1 DEF Withdraws, ClaimIInv, ClaimTypeOK
<1>3. EngagedIsAssigned'
  <2> SUFFICES ASSUME NEW d \in Clients, HasOwnLogin(d), Engaged(d)'
               PROVE  Login[d] \in assignees'[target[d]]
    BY DEF EngagedIsAssigned, HasOwnLogin
  <2>1. d # c /\ Engaged(d)
    BY <1>1 DEF Engaged
  <2>2. Login[d] \in assignees[target[d]] /\ Login[d] # Login[c] /\ target[d] \in Issues
    BY <2>1 DEF ClaimIInv, EngagedIsAssigned, ClaimTypeOK, HasOwnLogin
  <2> QED
    BY <2>2 DEF Withdraws
<1>4. MutualExclusion'
  BY <1>1 DEF ClaimIInv, MutualExclusion, Holds, HasOwnLogin
<1>5. InProgressIsOwned'
  <2> SUFFICES ASSUME ~faulty', NEW i \in Issues, "in-progress" \in labels'[i]
               PROVE  \E d \in Clients : Owns(d, i)'
    BY DEF InProgressIsOwned
  <2>1. ~faulty /\ i # target[c] /\ "in-progress" \in labels[i]
    BY DEF Withdraws
  <2>2. PICK d \in Clients : Owns(d, i)
    BY <2>1 DEF ClaimIInv, InProgressIsOwned
  <2> QED
    BY <1>1, <2>1, <2>2 DEF Engaged, Owns, Withdraws
<1> QED
  BY <1>2, <1>3, <1>4, <1>5 DEF ClaimIInv

LEMMA ClaimPreReadInv ==
  ASSUME ClaimIInv, NEW c \in Clients, NEW i \in Issues, ClaimPreRead(c, i)
  PROVE  ClaimIInv'
<1>1. /\ phase[c] = "idle"
      /\ labels' = labels /\ assignees' = assignees /\ reason' = reason /\ faulty' = faulty
      /\ target' \in [Clients -> Issues] /\ target'[c] = i
      /\ \A d \in Clients : d # c => target'[d] = target[d]
  BY DEF ClaimPreRead, ClaimIInv, ClaimTypeOK
<1>2. PICK p \in {"idle", "claim_edit", "holding"} :
        Goto(c, p) /\ (p = "holding" => assignees[i] = {Login[c]})
  BY DEF ClaimPreRead, IsClaimedBy
<1>3. /\ phase' \in [Clients -> Phases] /\ phase'[c] = p
      /\ \A d \in Clients : d # c => phase'[d] = phase[d]
  BY <1>2, OthersStay DEF ClaimIInv, Phases
<1>4. ClaimTypeOK'
  BY <1>1, <1>3 DEF ClaimIInv, ClaimTypeOK
<1>5. EngagedIsAssigned'
  BY <1>1, <1>2, <1>3 DEF ClaimIInv, EngagedIsAssigned, Engaged, HasOwnLogin
<1>6. MutualExclusion'
  <2> SUFFICES ASSUME NEW d \in Clients, NEW e \in Clients, NEW j \in Issues,
                      HasOwnLogin(d), HasOwnLogin(e), Holds(d, j)', Holds(e, j)'
               PROVE  d = e
    BY DEF MutualExclusion, HasOwnLogin
  <2>1. CASE d # c /\ e # c
    BY <1>1, <1>3, <2>1 DEF Holds, ClaimIInv, MutualExclusion
  <2>2. ASSUME NEW f \in Clients, HasOwnLogin(f), f # c, Holds(f, j)', Holds(c, j)'
        PROVE  FALSE
    <3>1. j = i /\ assignees[i] = {Login[c]}
      BY <1>1, <1>2, <1>3, <2>2 DEF Holds
    <3>2. Login[f] \in assignees[i]
      BY <1>1, <1>3, <2>2, <3>1 DEF Holds, Engaged, ClaimIInv, EngagedIsAssigned
    <3> QED
      BY <2>2, <3>1, <3>2 DEF HasOwnLogin
  <2> QED
    BY <2>1, <2>2
<1>7. InProgressIsOwned'
  <2> SUFFICES ASSUME ~faulty, NEW j \in Issues, "in-progress" \in labels[j]
               PROVE  \E d \in Clients : Owns(d, j)'
    BY <1>1 DEF InProgressIsOwned
  <2>1. PICK d \in Clients : Owns(d, j)
    BY DEF ClaimIInv, InProgressIsOwned
  <2>2. d # c
    BY <1>1, <2>1 DEF Engaged, Owns
  <2> QED
    BY <1>1, <1>3, <2>1, <2>2 DEF Engaged, Owns
<1> QED
  BY <1>4, <1>5, <1>6, <1>7 DEF ClaimIInv

LEMMA PutClaimInv ==
  ASSUME ClaimIInv, NEW c \in Clients, phase[c] = "claim_edit", PutClaim(c),
         \/ Goto(c, "claim_verify") /\ faulty' = faulty
         \/ Goto(c, "idle") /\ faulty' = TRUE,
         target' = target, reason' = reason
  PROVE  ClaimIInv'
<1>1. PICK p \in {"claim_verify", "idle"} : Goto(c, p) /\ (p = "idle" => faulty')
  OBVIOUS
<1>2. /\ phase' \in [Clients -> Phases] /\ phase'[c] = p
      /\ \A d \in Clients : d # c => phase'[d] = phase[d]
  BY <1>1, OthersStay DEF ClaimIInv, Phases
<1>3. ClaimTypeOK'
  BY <1>2, PutClaimEffect DEF ClaimIInv, ClaimTypeOK
<1>4. EngagedIsAssigned'
  BY <1>1, <1>2, PutClaimEffect
     DEF ClaimIInv, ClaimTypeOK, EngagedIsAssigned, Engaged, HasOwnLogin
<1>5. MutualExclusion'
  BY <1>1, <1>2 DEF ClaimIInv, MutualExclusion, Holds, HasOwnLogin
<1>6. InProgressIsOwned'
  <2> SUFFICES ASSUME ~faulty', NEW i \in Issues, "in-progress" \in labels'[i]
               PROVE  \E d \in Clients : Owns(d, i)'
    BY DEF InProgressIsOwned
  <2>0. p = "claim_verify" /\ ~faulty
    BY <1>1
  <2>1. CASE i = target[c]
    BY <1>2, <2>0, <2>1, PutClaimEffect DEF ClaimIInv, Engaged, Owns
  <2>2. CASE i # target[c]
    <3>1. "in-progress" \in labels[i]
      BY <2>2, PutClaimEffect DEF ClaimIInv
    <3>2. PICK d \in Clients : Owns(d, i)
      BY <2>0, <3>1 DEF ClaimIInv, InProgressIsOwned
    <3> QED
      <4>1. d # c /\ target[d] = i
        BY <2>2, <3>2 DEF Owns
      <4> QED
        BY <1>2, <3>2, <4>1, PutClaimEffect DEF ClaimIInv, Engaged, Owns
  <2> QED
    BY <2>1, <2>2
<1> QED
  BY <1>3, <1>4, <1>5, <1>6 DEF ClaimIInv

LEMMA ClaimVerifyInv ==
  ASSUME ClaimIInv, NEW c \in Clients, ClaimVerify(c)
  PROVE  ClaimIInv'
<1>1. /\ phase[c] = "claim_verify" /\ target' = target
      /\ labels' = labels /\ assignees' = assignees /\ reason' = reason /\ faulty' = faulty
  BY DEF ClaimVerify
<1>2. PICK p \in {"holding", "rollback"} :
        Goto(c, p) /\ (p = "holding" => assignees[target[c]] = {Login[c]})
  BY DEF ClaimVerify, IsClaimedBy
<1>3. /\ phase' \in [Clients -> Phases] /\ phase'[c] = p
      /\ \A d \in Clients : d # c => phase'[d] = phase[d]
  BY <1>2, OthersStay DEF ClaimIInv, Phases
<1>4. \A d \in Clients : Engaged(d)' <=> Engaged(d)
  BY <1>1, <1>2, <1>3 DEF Engaged
<1>5. ClaimTypeOK' /\ EngagedIsAssigned' /\ InProgressIsOwned'
  BY <1>1, <1>3, <1>4 DEF ClaimIInv, ClaimTypeOK, EngagedIsAssigned, Engaged, HasOwnLogin,
     InProgressIsOwned, Owns
<1>6. MutualExclusion'
  <2> SUFFICES ASSUME NEW d \in Clients, NEW e \in Clients, NEW j \in Issues,
                      HasOwnLogin(d), HasOwnLogin(e), Holds(d, j)', Holds(e, j)'
               PROVE  d = e
    BY DEF MutualExclusion, HasOwnLogin
  <2>1. CASE d # c /\ e # c
    BY <1>1, <1>3, <2>1 DEF Holds, ClaimIInv, MutualExclusion
  <2>2. ASSUME NEW f \in Clients, HasOwnLogin(f), f # c, Holds(f, j)', Holds(c, j)'
        PROVE  FALSE
    <3>1. j = target[c] /\ assignees[j] = {Login[c]}
      BY <1>1, <1>2, <1>3, <2>2 DEF Holds
    <3>2. Login[f] \in assignees[j]
      BY <1>1, <1>3, <2>2, <3>1 DEF Holds, Engaged, ClaimIInv, EngagedIsAssigned
    <3> QED
      BY <2>2, <3>1, <3>2 DEF HasOwnLogin
  <2> QED
    BY <2>1, <2>2
<1> QED
  BY <1>5, <1>6 DEF ClaimIInv

LEMMA ReleasePreReadInv ==
  ASSUME ClaimIInv, NEW c \in Clients, NEW r \in Reasons, ReleasePreRead(c, r)
  PROVE  ClaimIInv'
<1>1. /\ phase[c] = "holding" /\ target' = target
      /\ labels' = labels /\ assignees' = assignees /\ faulty' = faulty
      /\ reason' \in [Clients -> Reasons]
  BY DEF ReleasePreRead, ClaimIInv, ClaimTypeOK
<1>2. PICK p \in {"idle", "release_edit"} :
        /\ Goto(c, p)
        /\ p = "idle" => \/ "in-progress" \notin labels[target[c]]
                         \/ Login[c] \notin assignees[target[c]]
  BY DEF ReleasePreRead
<1>3. /\ phase' \in [Clients -> Phases] /\ phase'[c] = p
      /\ \A d \in Clients : d # c => phase'[d] = phase[d]
  BY <1>2, OthersStay DEF ClaimIInv, Phases
<1>4. ClaimTypeOK' /\ EngagedIsAssigned'
  BY <1>1, <1>2, <1>3 DEF ClaimIInv, ClaimTypeOK, EngagedIsAssigned, Engaged, HasOwnLogin
<1>5. MutualExclusion'
  <2>1. \A d \in Clients, j \in Issues : Holds(d, j)' => Holds(d, j)
    BY <1>1, <1>2, <1>3 DEF Holds
  <2> QED
    BY <2>1 DEF ClaimIInv, MutualExclusion, HasOwnLogin
<1>6. InProgressIsOwned'
  <2> SUFFICES ASSUME ~faulty, NEW j \in Issues, "in-progress" \in labels[j]
               PROVE  \E d \in Clients : Owns(d, j)'
    BY <1>1 DEF InProgressIsOwned
  <2>1. PICK d \in Clients : Owns(d, j)
    BY DEF ClaimIInv, InProgressIsOwned
  <2> QED
    BY <1>1, <1>2, <1>3, <2>1 DEF Engaged, Owns
<1> QED
  BY <1>4, <1>5, <1>6 DEF ClaimIInv

LEMMA InterruptedInv ==
  ASSUME ClaimIInv, NEW c \in Clients, Interrupted(c)
  PROVE  ClaimIInv'
<1>1. /\ target' = target /\ labels' = labels /\ assignees' = assignees
      /\ reason' = reason /\ faulty' = TRUE /\ Goto(c, "idle")
  BY DEF Interrupted
<1>2. /\ phase' \in [Clients -> Phases] /\ phase'[c] = "idle"
      /\ \A d \in Clients : d # c => phase'[d] = phase[d]
  BY <1>1, OthersStay DEF ClaimIInv, Phases
<1> QED
  BY <1>1, <1>2 DEF ClaimIInv, ClaimTypeOK, EngagedIsAssigned, Engaged, MutualExclusion,
     Holds, HasOwnLogin, InProgressIsOwned, Owns

LEMMA ClaimNextInv ==
  ASSUME ClaimIInv, [ClaimNext]_claimVars
  PROVE  ClaimIInv'
<1>1. CASE UNCHANGED claimVars
  BY <1>1 DEF claimVars, ClaimIInv, ClaimTypeOK, EngagedIsAssigned, Engaged,
     MutualExclusion, Holds, HasOwnLogin, InProgressIsOwned, Owns
<1>2. CASE ClaimNext
  <2>1. PICK c \in Clients :
          \/ \E i \in Issues : ClaimPreRead(c, i)
          \/ ClaimEdit(c)
          \/ ClaimVerify(c)
          \/ Rollback(c)
          \/ \E r \in Reasons : ReleasePreRead(c, r)
          \/ ReleaseEdit(c)
          \/ Interrupted(c)
          \/ EditInterrupted(c)
    BY <1>2 DEF ClaimNext
  <2>2. faulty \in BOOLEAN /\ ClaimTypeOK
    BY DEF ClaimIInv, ClaimTypeOK
  <2>3. CASE ClaimEdit(c)
    BY <2>3, PutClaimInv DEF ClaimEdit
  <2>4. CASE Rollback(c)
    BY <2>2, <2>4, UndoClaimEffect, WithdrawInv DEF Rollback
  <2>5. CASE ReleaseEdit(c)
    BY <2>2, <2>5, PutReleaseEffect, WithdrawInv DEF ReleaseEdit
  <2>6. CASE EditInterrupted(c)
    <3>1. target' = target /\ reason' = reason /\ faulty' = TRUE /\ Goto(c, "idle")
      BY <2>6 DEF EditInterrupted
    <3>2. CASE phase[c] = "claim_edit" /\ PutClaim(c)
      BY <3>1, <3>2, PutClaimInv
    <3>3. CASE UndoClaim(c)
      BY <2>2, <3>1, <3>3, UndoClaimEffect, WithdrawInv
    <3>4. CASE PutRelease(c)
      BY <2>2, <3>1, <3>4, PutReleaseEffect, WithdrawInv
    <3> QED
      BY <2>6, <3>2, <3>3, <3>4 DEF EditInterrupted
  <2> QED
    BY <2>1, <2>3, <2>4, <2>5, <2>6, ClaimPreReadInv, ClaimVerifyInv, ReleasePreReadInv,
       InterruptedInv
<1> QED
  BY <1>1, <1>2

-----------------------------------------------------------------------------
(* The theorems.                                                           *)

THEOREM ClaimInvariant == ClaimSpec => []ClaimIInv
<1>1. ClaimIInv /\ [ClaimNext]_claimVars => ClaimIInv'
  BY ClaimNextInv
<1> QED
  BY <1>1, ClaimInitInv, PTL DEF ClaimSpec

(* Labels, assignees and the phases of a client stay within their domains. *)
THEOREM ClaimTypeCorrect == ClaimSpec => []ClaimTypeOK
<1>1. ClaimIInv => ClaimTypeOK
  BY DEF ClaimIInv
<1> QED
  BY <1>1, ClaimInvariant, PTL

(* The lock is exclusive among the clients that have a login of their own, *)
(* whatever the number of clients, the interleaving of their calls, the    *)
(* calls that fail, and the clients beside them that share a login.        *)
THEOREM ClaimIsExclusive == ClaimSpec => []MutualExclusion
<1>1. ClaimIInv => MutualExclusion
  BY DEF ClaimIInv
<1> QED
  BY <1>1, ClaimInvariant, PTL

(* Without faults no issue is left in progress with nobody working on it.  *)
THEOREM NoIssueIsLost == ClaimSpec => []NoLostIssue
<1>1. ClaimIInv => NoLostIssue
  BY DEF ClaimIInv, InProgressIsOwned, Owns, Engaged, NoLostIssue
<1> QED
  BY <1>1, ClaimInvariant, PTL

=============================================================================
