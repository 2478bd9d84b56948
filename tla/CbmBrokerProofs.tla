--------------------------- MODULE CbmBrokerProofs ---------------------------
(* Proofs about CbmBroker, for every set of clients and every capacity of  *)
(* the pipe to the child.                                                  *)
EXTENDS CbmBroker, TLAPS

(* The flags apart, every variable is in its set.                          *)
Flags == killed \in BOOLEAN /\ stdinOpen \in BOOLEAN /\ dead \in BOOLEAN

PipeTypes ==
  /\ stdin \in Seq(Requests) /\ stdout \in Seq(Requests)
  /\ inbox \subseteq Requests

TableTypes == pending \subseteq Requests /\ nextID \in Nat \ {0} /\ id \in [Callers -> Nat]

CallerTypes ==
  /\ pc \in [Callers -> Places]
  /\ replyCh \in [Callers -> Callers \cup {None, "died"}]
  /\ reply \in [Callers -> Callers \cup {None, "error"}]

PlainTypes ==
  /\ child \in {"up", "mute", "exited"} /\ phase \in Phases
  /\ writer \in Callers \cup {None}

Types == PipeTypes /\ TableTypes /\ CallerTypes /\ PlainTypes

(* stdinMu: whoever writes holds it.                                       *)
LockOK ==
  /\ \A x \in Callers : pc[x] = "writing" => writer = x
  /\ phase = "notifying" => writer = Boot
  /\ writer # None => pc[writer] = "writing" \/ phase = "notifying"

BootIsClosed == phase # "starting" => pc[Boot] = "closed"

(* Ids are given once: 1 to Boot, the count to the clients.                *)
Active(x) == pc[x] \in {"registered", "writing", "waiting"}

IdsOK ==
  /\ \A x \in Callers : pc[x] \in {"idle", "connected", "received"} => id[x] = 0
  /\ \A x \in Callers : Active(x) => id[x] # 0
  /\ \A c \in Clients : id[c] = 0 \/ (id[c] > 1 /\ id[c] <= nextID)
  /\ id[Boot] \in {0, 1}
  /\ \A c, d \in Clients : id[c] # 0 /\ id[c] = id[d] => c = d

(* What is under way carries the id of the caller it is from.              *)
Genuine(m) == m.id = 0 \/ m.id = id[m.from]

MessagesOK ==
  /\ \A k \in 1..Len(stdin) : Genuine(stdin[k])
  /\ \A k \in 1..Len(stdout) : Genuine(stdout[k])
  /\ \A m \in inbox : Genuine(m)

TableOK == \A e \in pending : e.id # 0 /\ e.id = id[e.from]

ChannelsOK == \A x \in Callers : replyCh[x] \in {None, "died", x}

RepliesOK == \A x \in Callers : reply[x] \in {None, "error", x}

NobodyForgotten ==
  \A x \in Callers : Active(x) /\ replyCh[x] = None => Entry(x, id[x]) \in pending

Links == IdsOK /\ MessagesOK /\ TableOK /\ ChannelsOK /\ RepliesOK /\ NobodyForgotten

CbmIInv == Flags /\ Types /\ LockOK /\ BootIsClosed /\ Links

LEMMA BootIsNoClient == Boot \notin Clients /\ Boot \in Callers /\ None \notin Callers
BY CbmAssumption DEF Callers

(* No two callers have the same id.                                        *)
LEMMA IdsAreUnique ==
  ASSUME IdsOK, NEW x \in Callers, NEW y \in Callers, id[x] # 0, id[x] = id[y]
  PROVE  x = y
BY DEF IdsOK, Callers

LEMMA CbmInitInv == CbmInit => CbmIInv
<1> SUFFICES ASSUME CbmInit PROVE CbmIInv
  OBVIOUS
<1>1. Flags
  BY Zenon DEF CbmInit, Flags
<1>2. /\ child = "up" /\ inbox = {} /\ stdin = <<>> /\ stdout = <<>>
      /\ writer = None /\ pending = {} /\ nextID = 1 /\ phase = "starting"
      /\ pc = [x \in Callers |-> IF x = Boot THEN "received" ELSE "idle"]
      /\ id = [x \in Callers |-> 0]
      /\ replyCh = [x \in Callers |-> None] /\ reply = [x \in Callers |-> None]
  BY Zenon DEF CbmInit
<1>3. Types
  BY <1>2 DEF Types, PipeTypes, TableTypes, CallerTypes, PlainTypes, Places, Phases
<1>4. LockOK /\ BootIsClosed
  BY <1>2 DEF LockOK, BootIsClosed
<1>5. \A x \in Callers : ~Active(x) /\ id[x] = 0 /\ replyCh[x] = None /\ reply[x] = None
  BY <1>2 DEF Active
<1>6. IdsOK
  BY <1>5, BootIsNoClient DEF IdsOK, Callers
<1>7. MessagesOK /\ TableOK /\ ChannelsOK /\ RepliesOK /\ NobodyForgotten
  BY <1>2, <1>5 DEF MessagesOK, TableOK, ChannelsOK, RepliesOK, NobodyForgotten
<1> QED
  BY <1>1, <1>3, <1>4, <1>6, <1>7 DEF CbmIInv, Links

-----------------------------------------------------------------------------
(* The flags.                                                              *)

LEMMA FlagsStay == ASSUME Flags, [CbmNext]_vars PROVE Flags'
<1>1. CASE UNCHANGED vars
  BY <1>1, Zenon DEF vars, childVars, pipeVars, tableVars, Flags
<1>2. ASSUME NEW c \in Clients, Accept(c) \/ ReadRequest(c) PROVE Flags'
  BY <1>2, Zenon DEF Accept, ReadRequest, childVars, pipeVars, tableVars, Flags
<1>3. ASSUME NEW x \in Callers, Proceed(x) PROVE Flags'
  <2>1. UNCHANGED <<killed, stdinOpen, dead>>
    BY <1>3, Zenon DEF Proceed, Register, LockStdin, Write, WriteFails, GetReply, GiveUp,
                       childVars, pipeVars, tableVars
  <2> QED
    BY <2>1, Zenon DEF Flags
<1>4. CASE Route \/ ReaderEnds
  BY <1>4, Zenon DEF Route, ReaderEnds, childVars, pipeVars, Flags
<1>5. CASE Lifecycle \/ Shutdown
  BY <1>5, Zenon DEF Lifecycle, Initialized, LockForNotification, Notify, Listen, Shutdown,
                     childVars, pipeVars, tableVars, Flags
<1>6. CASE Termination
  BY <1>6, Zenon DEF Termination, CloseStdin, Grace, HardKill, LastWait,
                     childVars, pipeVars, tableVars, Flags
<1>7. CASE Child
  BY <1>7, Zenon DEF Child, ChildReads, ChildAnswers, ChildMutes, ChildExits,
                     pipeVars, tableVars, Flags
<1> QED
  BY <1>1, <1>2, <1>3, <1>4, <1>5, <1>6, <1>7, Zenon DEF CbmNext

-----------------------------------------------------------------------------
(* The caller's steps: what each does to the caller and to the others.     *)

LEMMA AcceptInv ==
  ASSUME CbmIInv, NEW c \in Clients, Accept(c) \/ ReadRequest(c)
  PROVE  Types' /\ LockOK' /\ BootIsClosed' /\ Links'
<1>1. c \in Callers /\ c # Boot
  BY BootIsNoClient DEF Callers
<1>2. /\ pc[c] \in {"idle", "connected"}
      /\ UNCHANGED <<child, inbox, stdin, stdout, pending, nextID, writer, phase, id, replyCh>>
  BY DEF Accept, ReadRequest, childVars, pipeVars, tableVars
<1>3. \/ /\ reply' = reply
         /\ \E p \in {"connected", "received"} : pc' = [pc EXCEPT ![c] = p]
      \/ pc' = [pc EXCEPT ![c] = "closed"] /\ reply' = [reply EXCEPT ![c] = "error"]
  BY DEF Accept, ReadRequest, Leave
<1>4. CallerTypes'
  BY <1>1, <1>2, <1>3 DEF CbmIInv, Types, CallerTypes, Places
<1>5. pc'[c] \in {"connected", "received", "closed"} /\ \A x \in Callers : x # c => pc'[x] = pc[x]
  BY <1>1, <1>3 DEF CbmIInv, Types, CallerTypes
<1>6. Types'
  BY <1>2, <1>4 DEF CbmIInv, Types, PipeTypes, TableTypes, PlainTypes
<1>7. LockOK' /\ BootIsClosed'
  BY <1>1, <1>2, <1>5, BootIsNoClient DEF CbmIInv, LockOK, BootIsClosed, Types, PlainTypes
<1>8. \A x \in Callers : Active(x)' => Active(x)
  BY <1>5 DEF Active
<1>9. IdsOK'
  <2>1. \A x \in Callers : pc'[x] \in {"idle", "connected", "received"} => pc[x] \in {"idle", "connected", "received"}
    BY <1>2, <1>5
  <2> QED
    BY <1>2, <1>8, <2>1 DEF CbmIInv, Links, IdsOK
<1>10. RepliesOK'
  BY <1>1, <1>3 DEF CbmIInv, Links, RepliesOK, Types, CallerTypes
<1>11. MessagesOK' /\ TableOK' /\ ChannelsOK' /\ NobodyForgotten'
  BY <1>2, <1>8 DEF CbmIInv, Links, MessagesOK, Genuine, TableOK, ChannelsOK, NobodyForgotten
<1> QED
  BY <1>6, <1>7, <1>9, <1>10, <1>11 DEF Links

LEMMA RegisterInv ==
  ASSUME CbmIInv, NEW x \in Callers, Register(x)
  PROVE  Types' /\ LockOK' /\ BootIsClosed' /\ Links'
<1> DEFINE i == InternalID(x)
<1>1. /\ pc[x] = "received" /\ id' = [id EXCEPT ![x] = i]
      /\ nextID' = IF x = Boot THEN nextID ELSE nextID + 1
      /\ UNCHANGED <<child, inbox, stdin, stdout, writer, phase, replyCh>>
  BY DEF Register, childVars, pipeVars
<1>2. \/ /\ pc' = [pc EXCEPT ![x] = "closed"] /\ reply' = [reply EXCEPT ![x] = "error"]
         /\ pending' = pending
      \/ /\ pc' = [pc EXCEPT ![x] = "registered"] /\ reply' = reply
         /\ pending' = {e \in pending : e.id # i} \cup {Entry(x, i)}
  BY DEF Register, Leave, WithPending, WithoutPending
<1>3. /\ nextID \in Nat \ {0} /\ i \in Nat /\ i # 0
      /\ id[x] = 0 /\ id'[x] = i
      /\ \A y \in Callers : y # x => id'[y] = id[y]
  BY <1>1 DEF CbmIInv, Types, TableTypes, Links, IdsOK, InternalID
<1>4. /\ pc'[x] \in {"closed", "registered"}
      /\ \A y \in Callers : y # x => pc'[y] = pc[y]
  BY <1>2 DEF CbmIInv, Types, CallerTypes
<1>5. \A y \in Callers : y # x => id[y] # i
  BY <1>3, BootIsNoClient DEF CbmIInv, Links, IdsOK, InternalID, Callers
<1>6. TableTypes'
  BY <1>1, <1>2, <1>3 DEF CbmIInv, Types, TableTypes, Requests, Entry
<1>7. CallerTypes'
  BY <1>1, <1>2 DEF CbmIInv, Types, CallerTypes, Places
<1>8. Types'
  BY <1>1, <1>6, <1>7 DEF CbmIInv, Types, PipeTypes, PlainTypes
<1>9. LockOK' /\ BootIsClosed'
  BY <1>1, <1>4, BootIsNoClient DEF CbmIInv, LockOK, BootIsClosed, Types, PlainTypes
<1>10. IdsOK'
  <2>1. \A y \in Callers : pc'[y] \in {"idle", "connected", "received"} => id'[y] = 0
    BY <1>3, <1>4 DEF CbmIInv, Links, IdsOK
  <2>2. \A y \in Callers : Active(y)' => id'[y] # 0
    BY <1>3, <1>4 DEF CbmIInv, Links, IdsOK, Active
  <2>3. id'[Boot] \in {0, 1}
    BY <1>3, BootIsNoClient DEF CbmIInv, Links, IdsOK, InternalID
  <2>4. \A c \in Clients : id'[c] = 0 \/ (id'[c] > 1 /\ id'[c] <= nextID')
    <3> SUFFICES ASSUME NEW c \in Clients PROVE id'[c] = 0 \/ (id'[c] > 1 /\ id'[c] <= nextID')
      OBVIOUS
    <3>1. c \in Callers /\ c # Boot /\ id[c] \in Nat
      BY BootIsNoClient DEF Callers, CbmIInv, Types, TableTypes
    <3>2. CASE c = x
      BY <1>1, <1>3, <3>1, <3>2 DEF InternalID
    <3>3. CASE c # x
      BY <1>1, <1>3, <3>1, <3>3 DEF CbmIInv, Links, IdsOK
    <3> QED
      BY <3>2, <3>3
  <2>5. \A c, d \in Clients : id'[c] # 0 /\ id'[c] = id'[d] => c = d
    BY <1>3, <1>5 DEF CbmIInv, Links, IdsOK, Callers
  <2> QED
    BY <2>1, <2>2, <2>3, <2>4, <2>5 DEF IdsOK
<1>11. \A m \in Requests : Genuine(m) => Genuine(m)'
  BY <1>3 DEF Genuine, Requests
<1>12. MessagesOK'
  BY <1>1, <1>11 DEF CbmIInv, Types, PipeTypes, Links, MessagesOK
<1>13. \A e \in pending : e.from # x
  BY <1>3 DEF CbmIInv, Types, TableTypes, Requests, Links, TableOK
<1>14. TableOK'
  BY <1>2, <1>3, <1>13 DEF CbmIInv, Types, TableTypes, Requests, Links, TableOK, Entry
<1>15. ChannelsOK' /\ RepliesOK'
  BY <1>1, <1>2 DEF CbmIInv, Types, CallerTypes, Links, ChannelsOK, RepliesOK
<1>16. NobodyForgotten'
  <2> SUFFICES ASSUME NEW y \in Callers, Active(y)', replyCh'[y] = None
               PROVE Entry(y, id'[y]) \in pending'
    BY DEF NobodyForgotten
  <2>1. CASE y = x
    BY <1>2, <1>3, <2>1 DEF Active, CbmIInv, Types, CallerTypes
  <2>2. CASE y # x
    <3>1. Entry(y, id[y]) \in pending /\ id[y] # i
      BY <1>1, <1>4, <1>5, <2>2 DEF Active, CbmIInv, Links, NobodyForgotten
    <3> QED
      BY <1>2, <1>3, <2>2, <3>1 DEF Entry
  <2> QED
    BY <2>1, <2>2
<1> QED
  BY <1>8, <1>9, <1>10, <1>12, <1>14, <1>15, <1>16 DEF Links

LEMMA LockStdinInv ==
  ASSUME CbmIInv, NEW x \in Callers, LockStdin(x)
  PROVE  Types' /\ LockOK' /\ BootIsClosed' /\ Links'
<1>1. /\ pc[x] = "registered" /\ writer = None /\ writer' = x
      /\ pc' = [pc EXCEPT ![x] = "writing"]
      /\ UNCHANGED <<child, inbox, stdin, stdout, pending, nextID, phase, id, replyCh, reply>>
  BY DEF LockStdin, childVars, pipeVars, tableVars
<1>2. pc'[x] = "writing" /\ \A y \in Callers : y # x => pc'[y] = pc[y]
  BY <1>1 DEF CbmIInv, Types, CallerTypes
<1>3. Types'
  <2>1. pc' \in [Callers -> Places]
    BY <1>1 DEF CbmIInv, Types, CallerTypes, Places
  <2> QED
    BY <1>1, <2>1 DEF CbmIInv, Types, PipeTypes, TableTypes, CallerTypes, PlainTypes
<1>4. LockOK' /\ BootIsClosed'
  BY <1>1, <1>2, BootIsNoClient DEF CbmIInv, LockOK, BootIsClosed
<1>5. \A y \in Callers : Active(y)' = Active(y)
  BY <1>1, <1>2 DEF Active
<1>6. IdsOK'
  <2>1. \A y \in Callers : pc'[y] \in {"idle", "connected", "received"} => pc[y] \in {"idle", "connected", "received"}
    BY <1>1, <1>2
  <2> QED
    BY <1>1, <1>5, <2>1 DEF CbmIInv, Links, IdsOK
<1>7. MessagesOK' /\ TableOK' /\ ChannelsOK' /\ RepliesOK' /\ NobodyForgotten'
  BY <1>1, <1>5 DEF CbmIInv, Links, MessagesOK, Genuine, TableOK, ChannelsOK, RepliesOK,
                    NobodyForgotten
<1> QED
  BY <1>3, <1>4, <1>6, <1>7 DEF Links

LEMMA WriteInv ==
  ASSUME CbmIInv, NEW x \in Callers, Write(x)
  PROVE  Types' /\ LockOK' /\ BootIsClosed' /\ Links'
<1> DEFINE m == Entry(x, id[x])
<1>1. /\ pc[x] = "writing" /\ writer' = None /\ stdin' = Append(stdin, m)
      /\ pc' = [pc EXCEPT ![x] = "waiting"]
      /\ UNCHANGED <<child, inbox, stdout, pending, nextID, phase, id, replyCh, reply>>
  BY DEF Write, childVars, tableVars
<1>2. pc'[x] = "waiting" /\ \A y \in Callers : y # x => pc'[y] = pc[y]
  BY <1>1 DEF CbmIInv, Types, CallerTypes
<1>3. m \in Requests /\ Genuine(m)
  BY DEF CbmIInv, Types, TableTypes, Requests, Entry, Genuine
<1>4. stdin \in Seq(Requests)
  BY DEF CbmIInv, Types, PipeTypes
<1>5. Types'
  <2>1. pc' \in [Callers -> Places]
    BY <1>1 DEF CbmIInv, Types, CallerTypes, Places
  <2>2. PipeTypes'
    BY <1>1, <1>3, <1>4 DEF CbmIInv, Types, PipeTypes
  <2> QED
    BY <1>1, <2>1, <2>2 DEF CbmIInv, Types, TableTypes, CallerTypes, PlainTypes
<1>6. LockOK' /\ BootIsClosed'
  BY <1>1, <1>2, BootIsNoClient DEF CbmIInv, LockOK, BootIsClosed
<1>7. \A y \in Callers : Active(y)' = Active(y)
  BY <1>1, <1>2 DEF Active
<1>8. IdsOK'
  <2>1. \A y \in Callers : pc'[y] \in {"idle", "connected", "received"} => pc[y] \in {"idle", "connected", "received"}
    BY <1>1, <1>2
  <2> QED
    BY <1>1, <1>7, <2>1 DEF CbmIInv, Links, IdsOK
<1>9. \A k \in 1..Len(stdin') : Genuine(stdin'[k])
  <2>1. ASSUME NEW k \in 1..Len(stdin') PROVE stdin'[k] = m \/ (k \in 1..Len(stdin) /\ stdin'[k] = stdin[k])
    BY <1>1, <1>3, <1>4
  <2> QED
    BY <1>3, <2>1 DEF CbmIInv, Links, MessagesOK
<1>10. MessagesOK'
  BY <1>1, <1>9 DEF CbmIInv, Links, MessagesOK, Genuine
<1>11. TableOK' /\ ChannelsOK' /\ RepliesOK' /\ NobodyForgotten'
  BY <1>1, <1>7 DEF CbmIInv, Links, TableOK, ChannelsOK, RepliesOK, NobodyForgotten
<1> QED
  BY <1>5, <1>6, <1>8, <1>10, <1>11 DEF Links

(* A caller leaves with an answer: its own payload or an error.            *)
LEMMA LeaveInv ==
  ASSUME CbmIInv, NEW x \in Callers, NEW a \in {"error", x},
         pc[x] \in {"writing", "waiting"}, Leave(x, a),
         pending' = pending \/ pending' = WithoutPending(id[x]),
         writer' = IF pc[x] = "writing" THEN None ELSE writer,
         UNCHANGED <<child, inbox, stdin, stdout, nextID, phase, id, replyCh>>
  PROVE  Types' /\ LockOK' /\ BootIsClosed' /\ Links'
<1>1. pc' = [pc EXCEPT ![x] = "closed"] /\ reply' = [reply EXCEPT ![x] = a]
  BY DEF Leave
<1>2. pc'[x] = "closed" /\ \A y \in Callers : y # x => pc'[y] = pc[y]
  BY <1>1 DEF CbmIInv, Types, CallerTypes
<1>3. pending' \subseteq pending /\ \A e \in pending : e.id # id[x] => e \in pending'
  BY DEF WithoutPending
<1>4. Types'
  <2>1. CallerTypes'
    BY <1>1 DEF CbmIInv, Types, CallerTypes, Places
  <2>2. PlainTypes' /\ TableTypes' /\ PipeTypes'
    BY <1>3 DEF CbmIInv, Types, TableTypes, PipeTypes, PlainTypes
  <2> QED
    BY <2>1, <2>2 DEF Types
<1>5. LockOK' /\ BootIsClosed'
  BY <1>2, BootIsNoClient DEF CbmIInv, LockOK, BootIsClosed, Types, PlainTypes
<1>6. ~Active(x)' /\ \A y \in Callers : Active(y)' => Active(y) /\ y # x
  BY <1>2 DEF Active
<1>7. IdsOK'
  <2>1. \A y \in Callers : pc'[y] \in {"idle", "connected", "received"} => pc[y] \in {"idle", "connected", "received"}
    BY <1>2
  <2> QED
    BY <1>6, <2>1 DEF CbmIInv, Links, IdsOK
<1>8. NobodyForgotten'
  <2> SUFFICES ASSUME NEW y \in Callers, Active(y)', replyCh'[y] = None
               PROVE Entry(y, id'[y]) \in pending'
    BY DEF NobodyForgotten
  <2>1. y # x /\ Entry(y, id[y]) \in pending /\ id[y] # 0
    BY <1>6 DEF CbmIInv, Links, NobodyForgotten, IdsOK
  <2>2. id[y] # id[x]
    BY <2>1, IdsAreUnique DEF CbmIInv, Links
  <2> QED
    BY <1>3, <2>1, <2>2 DEF Entry
<1>9. RepliesOK'
  BY <1>1 DEF CbmIInv, Types, CallerTypes, Links, RepliesOK
<1>10. MessagesOK' /\ TableOK' /\ ChannelsOK'
  BY <1>3 DEF CbmIInv, Links, MessagesOK, Genuine, TableOK, ChannelsOK
<1> QED
  BY <1>4, <1>5, <1>7, <1>8, <1>9, <1>10 DEF Links

LEMMA ProceedInv ==
  ASSUME CbmIInv, NEW x \in Callers, Proceed(x)
  PROVE  Types' /\ LockOK' /\ BootIsClosed' /\ Links'
<1>1. CASE Register(x)
  BY <1>1, RegisterInv
<1>2. CASE LockStdin(x)
  BY <1>2, LockStdinInv
<1>3. CASE Write(x)
  BY <1>3, WriteInv
<1>4. CASE WriteFails(x)
  BY <1>4, LeaveInv DEF WriteFails, childVars, pipeVars
<1>5. CASE GetReply(x)
  <2>1. replyCh[x] \in {"died", x}
    BY <1>5 DEF GetReply, CbmIInv, Links, ChannelsOK
  <2>2. PICK a \in {"error", x} : Leave(x, a)
    BY <1>5, <2>1 DEF GetReply
  <2> QED
    BY <1>5, <2>2, LeaveInv DEF GetReply, childVars, pipeVars, tableVars
<1>6. CASE GiveUp(x)
  BY <1>6, LeaveInv DEF GiveUp, childVars, pipeVars
<1> QED
  BY <1>1, <1>2, <1>3, <1>4, <1>5, <1>6 DEF Proceed

-----------------------------------------------------------------------------
(* The reader of the child's output.                                       *)

LEMMA RouteInv ==
  ASSUME CbmIInv, Route
  PROVE  Types' /\ LockOK' /\ BootIsClosed' /\ Links'
<1> DEFINE m == Head(stdout)
<1>1. /\ stdout # <<>> /\ stdout' = Tail(stdout)
      /\ pending' = {e \in pending : e.id # m.id}
      /\ replyCh' = [x \in Callers |-> IF Entry(x, m.id) \in pending
                                       THEN m.from ELSE replyCh[x]]
      /\ UNCHANGED <<child, inbox, stdin, nextID, writer, phase, pc, id, reply>>
  BY DEF Route, WithoutPending, childVars
<1>2. stdout \in Seq(Requests)
  BY DEF CbmIInv, Types, PipeTypes
<1>3. m \in Requests /\ Genuine(m)
  <2>1. m \in Requests /\ m = stdout[1] /\ 1 \in 1..Len(stdout)
    BY <1>1, <1>2
  <2> QED
    BY <2>1 DEF CbmIInv, Links, MessagesOK
<1>4. m.from \in Callers
  BY <1>3 DEF Requests
<1>5. Types'
  <2>1. PipeTypes'
    BY <1>1, <1>2 DEF CbmIInv, Types, PipeTypes
  <2>2. replyCh' \in [Callers -> Callers \cup {None, "died"}]
    BY <1>1, <1>4 DEF CbmIInv, Types, CallerTypes
  <2>3. pending' \subseteq pending
    BY <1>1
  <2> QED
    BY <1>1, <2>1, <2>2, <2>3 DEF CbmIInv, Types, TableTypes, CallerTypes, PlainTypes
<1>6. LockOK' /\ BootIsClosed' /\ IdsOK' /\ RepliesOK'
  BY <1>1 DEF CbmIInv, LockOK, BootIsClosed, Links, IdsOK, Active, RepliesOK
<1>7. ASSUME NEW x \in Callers, Entry(x, m.id) \in pending PROVE m.from = x
  <2>1. m.id # 0 /\ m.id = id[x]
    BY <1>7 DEF CbmIInv, Links, TableOK, Entry
  <2>2. m.id = id[m.from]
    BY <1>3, <2>1 DEF Genuine
  <2> QED
    BY <1>4, <2>1, <2>2, IdsAreUnique DEF CbmIInv, Links
<1>8. ChannelsOK'
  BY <1>1, <1>7 DEF CbmIInv, Links, ChannelsOK
<1>9. NobodyForgotten'
  <2> SUFFICES ASSUME NEW y \in Callers, Active(y)', replyCh'[y] = None
               PROVE Entry(y, id'[y]) \in pending'
    BY DEF NobodyForgotten
  <2>1. Entry(y, m.id) \notin pending /\ replyCh[y] = None
    BY <1>1, <1>4, BootIsNoClient
  <2>2. Entry(y, id[y]) \in pending
    BY <1>1, <2>1 DEF CbmIInv, Links, NobodyForgotten, Active
  <2>3. id[y] # m.id
    BY <2>1, <2>2
  <2> QED
    BY <1>1, <2>2, <2>3 DEF Entry
<1>10. MessagesOK' /\ TableOK'
  <2>1. \A k \in 1..Len(stdout') : Genuine(stdout'[k])
    <3>1. ASSUME NEW k \in 1..Len(stdout') PROVE k + 1 \in 1..Len(stdout) /\ stdout'[k] = stdout[k + 1]
      BY <1>1, <1>2
    <3> QED
      BY <3>1 DEF CbmIInv, Links, MessagesOK
  <2> QED
    BY <1>1, <2>1 DEF CbmIInv, Links, MessagesOK, Genuine, TableOK
<1> QED
  BY <1>5, <1>6, <1>8, <1>9, <1>10 DEF Links

LEMMA ReaderEndsInv ==
  ASSUME CbmIInv, ReaderEnds
  PROVE  Types' /\ LockOK' /\ BootIsClosed' /\ Links'
<1>1. /\ pending' = {}
      /\ replyCh' = [x \in Callers |-> IF \E e \in pending : e.from = x
                                       THEN "died" ELSE replyCh[x]]
      /\ UNCHANGED <<child, inbox, stdin, stdout, nextID, writer, phase, pc, id, reply>>
  BY DEF ReaderEnds, childVars, pipeVars
<1>2. Types'
  <2>1. replyCh' \in [Callers -> Callers \cup {None, "died"}]
    BY <1>1 DEF CbmIInv, Types, CallerTypes
  <2> QED
    BY <1>1, <2>1 DEF CbmIInv, Types, PipeTypes, TableTypes, CallerTypes, PlainTypes
<1>3. LockOK' /\ BootIsClosed' /\ IdsOK' /\ RepliesOK' /\ MessagesOK' /\ TableOK'
  BY <1>1 DEF CbmIInv, LockOK, BootIsClosed, Links, IdsOK, Active, RepliesOK, MessagesOK, Genuine,
              TableOK
<1>4. ChannelsOK'
  BY <1>1 DEF CbmIInv, Links, ChannelsOK
<1>5. NobodyForgotten'
  <2> SUFFICES ASSUME NEW y \in Callers, Active(y)', replyCh'[y] = None PROVE FALSE
    BY DEF NobodyForgotten
  <2>1. replyCh[y] = None /\ ~\E e \in pending : e.from = y
    BY <1>1, CbmAssumption
  <2>2. Entry(y, id[y]) \in pending
    BY <1>1, <2>1 DEF CbmIInv, Links, NobodyForgotten, Active
  <2> QED
    BY <2>1, <2>2 DEF Entry
<1> QED
  BY <1>2, <1>3, <1>4, <1>5 DEF Links

-----------------------------------------------------------------------------
(* Start and Shutdown touch no caller and no entry.                        *)

LEMMA BrokerInv ==
  ASSUME CbmIInv, Lifecycle \/ Shutdown \/ Termination
  PROVE  Types' /\ LockOK' /\ BootIsClosed' /\ Links'
<1>1. /\ UNCHANGED <<child, inbox, stdout, pending, nextID, pc, id, replyCh, reply>>
      /\ stdin' = stdin \/ stdin' = Append(stdin, Notification)
  BY DEF Lifecycle, Initialized, LockForNotification, Notify, Listen, Shutdown, Termination,
         CloseStdin, Grace, HardKill, LastWait, childVars, pipeVars, tableVars, callerVars
<1>2. phase' \in Phases
  BY DEF Lifecycle, Initialized, LockForNotification, Notify, Listen, Shutdown, Termination,
         CloseStdin, Grace, HardKill, LastWait, Phases
<1>3. \/ writer' = writer /\ phase # "notifying" /\ phase' # "notifying"
      \/ writer = None /\ writer' = Boot /\ phase = "notify" /\ phase' = "notifying"
      \/ writer' = None /\ phase = "notifying" /\ phase' \in {"listen", "close"}
  BY DEF Lifecycle, Initialized, LockForNotification, Notify, Listen, Shutdown, Termination,
         CloseStdin, Grace, HardKill, LastWait
<1>4. phase # "starting" \/ pc[Boot] = "closed"
  BY DEF Lifecycle, Initialized, LockForNotification, Notify, Listen, Shutdown, Termination,
         CloseStdin, Grace, HardKill, LastWait
<1>5. pc[Boot] = "closed"
  BY <1>4 DEF CbmIInv, BootIsClosed
<1>6. BootIsClosed'
  BY <1>1, <1>5 DEF BootIsClosed
<1>7. LockOK'
  BY <1>1, <1>3, <1>5, BootIsNoClient DEF CbmIInv, LockOK, Types, PlainTypes
<1>8. Notification \in Requests /\ Genuine(Notification) /\ stdin \in Seq(Requests)
  BY BootIsNoClient DEF Notification, Requests, Genuine, CbmIInv, Types, PipeTypes
<1>9. Types'
  <2>1. PipeTypes'
    BY <1>1, <1>8 DEF CbmIInv, Types, PipeTypes
  <2> QED
    BY <1>1, <1>2, <1>3, <2>1, BootIsNoClient
       DEF CbmIInv, Types, TableTypes, CallerTypes, PlainTypes
<1>10. MessagesOK'
  <2>1. ASSUME NEW k \in 1..Len(stdin') PROVE Genuine(stdin'[k])
    <3>1. stdin'[k] = Notification \/ (k \in 1..Len(stdin) /\ stdin'[k] = stdin[k])
      BY <1>1, <1>8
    <3> QED
      BY <1>8, <3>1 DEF CbmIInv, Links, MessagesOK
  <2> QED
    BY <1>1, <2>1 DEF CbmIInv, Links, MessagesOK, Genuine
<1>11. IdsOK' /\ TableOK' /\ ChannelsOK' /\ RepliesOK' /\ NobodyForgotten'
  BY <1>1 DEF CbmIInv, Links, IdsOK, Active, TableOK, ChannelsOK, RepliesOK, NobodyForgotten
<1> QED
  BY <1>6, <1>7, <1>9, <1>10, <1>11 DEF Links

(* The child moves requests on or drops them, and makes up none.           *)
LEMMA ChildInv ==
  ASSUME CbmIInv, Child
  PROVE  Types' /\ LockOK' /\ BootIsClosed' /\ Links'
<1>1. UNCHANGED <<pending, nextID, writer, phase, pc, id, replyCh, reply>>
  BY DEF Child, ChildReads, ChildAnswers, ChildMutes, ChildExits, tableVars, callerVars
<1>2. child' \in {"up", "mute", "exited"}
  BY DEF Child, ChildReads, ChildAnswers, ChildMutes, ChildExits, CbmIInv, Types, PlainTypes
<1>3. /\ stdin \in Seq(Requests) /\ stdout \in Seq(Requests) /\ inbox \subseteq Requests
      /\ \A k \in 1..Len(stdin) : Genuine(stdin[k])
      /\ \A k \in 1..Len(stdout) : Genuine(stdout[k])
      /\ \A m \in inbox : Genuine(m)
  BY DEF CbmIInv, Types, PipeTypes, Links, MessagesOK
<1> DEFINE Moved == /\ PipeTypes'
                    /\ \A k \in 1..Len(stdin') : Genuine(stdin'[k])
                    /\ \A k \in 1..Len(stdout') : Genuine(stdout'[k])
                    /\ \A m \in inbox' : Genuine(m)
<1>4. ASSUME ChildReads PROVE Moved
  <2>1. /\ stdin # <<>> /\ stdin' = Tail(stdin) /\ stdout' = stdout
        /\ inbox' \subseteq inbox \cup {Head(stdin)}
    BY <1>4 DEF ChildReads
  <2>2. Head(stdin) \in Requests /\ Genuine(Head(stdin))
    <3>1. Head(stdin) \in Requests /\ Head(stdin) = stdin[1] /\ 1 \in 1..Len(stdin)
      BY <1>3, <2>1
    <3> QED
      BY <1>3, <3>1
  <2>3. ASSUME NEW k \in 1..Len(stdin') PROVE Genuine(stdin'[k])
    <3>1. k + 1 \in 1..Len(stdin) /\ stdin'[k] = stdin[k + 1]
      BY <1>3, <2>1
    <3> QED
      BY <1>3, <3>1
  <2>4. PipeTypes'
    BY <1>3, <2>1, <2>2 DEF PipeTypes
  <2> QED
    BY <1>3, <2>1, <2>2, <2>3, <2>4
<1>5. ASSUME ChildAnswers PROVE Moved
  <2>1. PICK m \in inbox : inbox' = inbox \ {m} /\ stdout' = Append(stdout, m) /\ stdin' = stdin
    BY <1>5 DEF ChildAnswers
  <2>2. ASSUME NEW k \in 1..Len(stdout') PROVE Genuine(stdout'[k])
    <3>1. stdout'[k] = m \/ (k \in 1..Len(stdout) /\ stdout'[k] = stdout[k])
      BY <1>3, <2>1
    <3> QED
      BY <1>3, <2>1, <3>1
  <2>3. PipeTypes'
    BY <1>3, <2>1 DEF PipeTypes
  <2> QED
    BY <1>3, <2>1, <2>2, <2>3
<1>6. ASSUME ChildMutes PROVE Moved
  BY <1>3, <1>6 DEF ChildMutes, pipeVars, PipeTypes
<1>7. ASSUME ChildExits PROVE Moved
  BY <1>3, <1>7 DEF ChildExits, PipeTypes
<1>8. Moved
  BY <1>4, <1>5, <1>6, <1>7 DEF Child
<1> HIDE DEF Moved
<1>9. \A m : Genuine(m) => Genuine(m)'
  BY <1>1 DEF Genuine
<1>10. PipeTypes' /\ MessagesOK'
  BY <1>1, <1>8 DEF Moved, MessagesOK, Genuine
<1>11. Types'
  BY <1>1, <1>2, <1>10 DEF CbmIInv, Types, TableTypes, CallerTypes, PlainTypes
<1>12. LockOK' /\ BootIsClosed'
  BY <1>1 DEF CbmIInv, LockOK, BootIsClosed
<1>13. IdsOK' /\ TableOK' /\ ChannelsOK' /\ RepliesOK' /\ NobodyForgotten'
  BY <1>1 DEF CbmIInv, Links, IdsOK, Active, TableOK, ChannelsOK, RepliesOK, NobodyForgotten
<1> QED
  BY <1>10, <1>11, <1>12, <1>13 DEF Links

-----------------------------------------------------------------------------
LEMMA CbmStepInv == CbmIInv /\ [CbmNext]_vars => CbmIInv'
<1> SUFFICES ASSUME CbmIInv, [CbmNext]_vars PROVE CbmIInv'
  OBVIOUS
<1>1. Flags'
  BY FlagsStay DEF CbmIInv
<1> DEFINE Kept == Types' /\ LockOK' /\ BootIsClosed' /\ Links'
<1>2. ASSUME UNCHANGED vars PROVE Kept
  <2>1. UNCHANGED <<child, inbox, stdin, stdout, writer, pending, nextID, phase,
                    pc, id, replyCh, reply>>
    BY <1>2 DEF vars, childVars, pipeVars, tableVars, callerVars
  <2>2. Types' /\ LockOK' /\ BootIsClosed'
    BY <2>1 DEF CbmIInv, Types, PipeTypes, TableTypes, CallerTypes, PlainTypes, LockOK, BootIsClosed
  <2>3. IdsOK' /\ NobodyForgotten'
    BY <2>1 DEF CbmIInv, Links, IdsOK, Active, NobodyForgotten
  <2>4. MessagesOK' /\ TableOK' /\ ChannelsOK' /\ RepliesOK'
    BY <2>1 DEF CbmIInv, Links, MessagesOK, Genuine, TableOK, ChannelsOK, RepliesOK
  <2> QED
    BY <2>2, <2>3, <2>4 DEF Links
<1>3. ASSUME \E c \in Clients : Accept(c) \/ ReadRequest(c) PROVE Kept
  BY <1>3, AcceptInv
<1>4. ASSUME \E x \in Callers : Proceed(x) PROVE Kept
  BY <1>4, ProceedInv
<1>5. ASSUME Route \/ ReaderEnds PROVE Kept
  BY <1>5, RouteInv, ReaderEndsInv
<1>6. ASSUME Lifecycle \/ Shutdown \/ Termination PROVE Kept
  BY <1>6, BrokerInv
<1>7. ASSUME Child PROVE Kept
  BY <1>7, ChildInv
<1>8. Kept
  BY <1>2, <1>3, <1>4, <1>5, <1>6, <1>7 DEF CbmNext
<1> QED
  BY <1>1, <1>8 DEF CbmIInv

(* The invariant the two theorems below rest on.                           *)
THEOREM CbmInvariant == CbmSpec => []CbmIInv
<1>1. CbmInit => CbmIInv
  BY CbmInitInv
<1>2. CbmIInv /\ [CbmNext]_vars => CbmIInv'
  BY CbmStepInv
<1> QED
  BY <1>1, <1>2, PTL DEF CbmSpec

(* The variables stay in their sets, and stdinMu is held by exactly the    *)
(* one who writes to the child.                                            *)
THEOREM CbmTypeCorrect == CbmSpec => []CbmTypeOK
<1>1. CbmIInv => CbmTypeOK
  <2> SUFFICES ASSUME CbmIInv PROVE CbmTypeOK
    OBVIOUS
  <2>1. writer = None => phase # "notifying" /\ \A x \in Callers : pc[x] # "writing"
    BY BootIsNoClient DEF CbmIInv, LockOK
  <2>2. writer # None => ~(phase # "notifying" /\ \A x \in Callers : pc[x] # "writing")
    BY DEF CbmIInv, LockOK, Types, PlainTypes
  <2>3. Flags /\ Types
    BY DEF CbmIInv
  <2> QED
    BY <2>1, <2>2, <2>3, Zenon
       DEF CbmTypeOK, Flags, Types, PipeTypes, TableTypes, CallerTypes, PlainTypes
<1> QED
  BY <1>1, CbmInvariant, PTL

(* Every reply reaches the client whose request it answers, and no caller  *)
(* that waits is forgotten, however many clients call at once and whenever *)
(* the child dies.                                                         *)
THEOREM CbmRepliesReachTheirClient == CbmSpec => []RepliesReachTheirClient
<1>1. CbmIInv => RepliesReachTheirClient
  BY DEF CbmIInv, Links, RepliesOK, NobodyForgotten, Active, RepliesReachTheirClient
<1> QED
  BY <1>1, CbmInvariant, PTL

=============================================================================
