------------------------------ MODULE CbmBroker ------------------------------
(***************************************************************************)
(* cbmbroker.Broker: one MCP child behind a unix socket.  Each connection  *)
(* carries one JSON-RPC request; the broker gives it an id of its own,     *)
(* writes it to the child and hands the response with that id back.  The   *)
(* initialize request of the broker itself (sendAndWait) takes the same    *)
(* way with id 1, so it is one more caller here, Boot.                     *)
(*                                                                         *)
(* A request is [id, from]: the caller stands for the payload.  The child  *)
(* is the environment.  It answers requests it has read, under their ids,  *)
(* in any order; it may stop reading, close its output or die.             *)
(***************************************************************************)
EXTENDS Naturals, Sequences

CONSTANTS
  Clients,   (* one connection each                                          *)
  Boot,      (* the caller that initializes the child                        *)
  None,
  Capacity   (* requests that fit into the pipe to the child                 *)

ASSUME CbmAssumption ==
  /\ Boot \notin Clients /\ None \notin Clients \cup {Boot}
  /\ None \notin {"died", "error"}
  /\ Capacity \in Nat \ {0}

Callers == Clients \cup {Boot}

VARIABLES
  child,     (* "up", "mute" (it closed its output) or "exited"              *)
  killed,    (* SIGKILL was sent to its group                                *)
  stdin,     (* requests written and not read                                *)
  stdinOpen,
  inbox,     (* requests the child has read and not answered                 *)
  stdout,    (* responses not yet read by readResponses                      *)
  writer,    (* who holds stdinMu                                            *)
  pending,   (* the map from id to reply channel, as a set of entries        *)
  nextID,
  dead,      (* readResponses has ended                                      *)
  pc, id,    (* of each caller: where it is, and its internal id             *)
  replyCh,   (* content of its reply channel: None, "died" or a payload      *)
  reply,     (* what it was given: None, "error" or a payload                *)
  phase      (* of Start and Shutdown                                        *)

childVars  == <<child, killed, inbox>>
pipeVars   == <<stdin, stdinOpen, stdout>>
callerVars == <<pc, id, replyCh, reply>>
tableVars  == <<pending, nextID, dead>>
vars == <<childVars, pipeVars, callerVars, tableVars, writer, phase>>

Places == {"idle", "connected", "received", "registered", "writing", "waiting", "closed"}
Phases == {"starting", "notify", "notifying", "listen", "serving",
           "close", "grace", "kill", "last", "stopped"}

Entry(x, i) == [id |-> i, from |-> x]

CbmInit ==
  /\ child = "up" /\ killed = FALSE /\ inbox = {}
  /\ stdin = <<>> /\ stdinOpen = TRUE /\ stdout = <<>>
  /\ writer = None /\ pending = {} /\ nextID = 1 /\ dead = FALSE
  /\ pc = [x \in Callers |-> IF x = Boot THEN "received" ELSE "idle"]
  /\ id = [x \in Callers |-> 0]
  /\ replyCh = [x \in Callers |-> None] /\ reply = [x \in Callers |-> None]
  /\ phase = "starting"

-----------------------------------------------------------------------------
(* The table of pending requests.                                          *)

WithoutPending(i)  == {e \in pending : e.id # i}
WithPending(x, i)  == WithoutPending(i) \cup {Entry(x, i)}

(* The caller leaves with a payload or an error.                           *)
Leave(x, answer) ==
  /\ pc' = [pc EXCEPT ![x] = "closed"]
  /\ reply' = [reply EXCEPT ![x] = answer]

-----------------------------------------------------------------------------
(* handleClient, and sendAndWait for Boot.                                 *)

Accept(c) ==
  /\ phase = "serving" /\ pc[c] = "idle"
  /\ pc' = [pc EXCEPT ![c] = "connected"]
  /\ UNCHANGED <<childVars, pipeVars, tableVars, writer, phase, id, replyCh, reply>>

(* The request is read, which may be after Shutdown has closed the         *)
(* listener; a malformed one is answered or dropped at once.               *)
ReadRequest(c) ==
  /\ pc[c] = "connected"
  /\ \/ pc' = [pc EXCEPT ![c] = "received"] /\ UNCHANGED reply
     \/ Leave(c, "error")
  /\ UNCHANGED <<childVars, pipeVars, tableVars, writer, phase, id, replyCh>>

(* Mutant: the client's own id is used; clients number from 1 as well.     *)
InternalIDBug(x) == IF x = Boot THEN 1 ELSE 2

InternalID(x) == IF x = Boot THEN 1 ELSE nextID + 1

(* registerPending refuses once the child is gone; sendAndWait does not.   *)
Register(x) ==
  /\ pc[x] = "received"
  /\ nextID' = IF x = Boot THEN nextID ELSE nextID + 1
  /\ id' = [id EXCEPT ![x] = InternalID(x)]
  /\ IF dead /\ x # Boot
     THEN Leave(x, "error") /\ UNCHANGED pending
     ELSE /\ pc' = [pc EXCEPT ![x] = "registered"]
          /\ pending' = WithPending(x, InternalID(x))
          /\ UNCHANGED reply
  /\ UNCHANGED <<childVars, pipeVars, dead, writer, phase, replyCh>>

LockStdin(x) ==
  /\ pc[x] = "registered" /\ writer = None
  /\ writer' = x
  /\ pc' = [pc EXCEPT ![x] = "writing"]
  /\ UNCHANGED <<childVars, pipeVars, tableVars, phase, id, replyCh, reply>>

(* A write blocks while the pipe is full; it has no deadline.              *)
Writable == stdinOpen /\ child # "exited" /\ Len(stdin) < Capacity
WriteBreaks == ~stdinOpen \/ child = "exited"

Write(x) ==
  /\ pc[x] = "writing" /\ Writable
  /\ stdin' = Append(stdin, Entry(x, id[x]))
  /\ writer' = None
  /\ pc' = [pc EXCEPT ![x] = "waiting"]
  /\ UNCHANGED <<childVars, stdinOpen, stdout, tableVars, phase, id, replyCh, reply>>

(* Mutant: the error path keeps the lock.                                  *)
WriteFailsBug(x) ==
  /\ pc[x] = "writing" /\ WriteBreaks
  /\ pending' = WithoutPending(id[x])
  /\ Leave(x, "error")
  /\ UNCHANGED <<childVars, pipeVars, nextID, dead, writer, phase, id, replyCh>>

WriteFails(x) ==
  /\ pc[x] = "writing" /\ WriteBreaks
  /\ writer' = None
  /\ pending' = WithoutPending(id[x])
  /\ Leave(x, "error")
  /\ UNCHANGED <<childVars, pipeVars, nextID, dead, phase, id, replyCh>>

(* waitForResponse: the select takes any case that is ready.               *)
GetReply(x) ==
  /\ pc[x] = "waiting" /\ replyCh[x] # None
  /\ Leave(x, IF replyCh[x] = "died" THEN "error" ELSE replyCh[x])
  /\ UNCHANGED <<childVars, pipeVars, tableVars, writer, phase, id, replyCh>>

(* The child died, or the 60 seconds (30 for Boot) are over.               *)
GiveUp(x) ==
  /\ pc[x] = "waiting"
  /\ pending' = WithoutPending(id[x])
  /\ Leave(x, "error")
  /\ UNCHANGED <<childVars, pipeVars, nextID, dead, writer, phase, id, replyCh>>

Proceed(x) ==
  Register(x) \/ LockStdin(x) \/ Write(x) \/ WriteFails(x) \/ GetReply(x) \/ GiveUp(x)

-----------------------------------------------------------------------------
(* readResponses.                                                          *)

Route ==
  /\ ~dead /\ stdout # <<>>
  /\ stdout' = Tail(stdout)
  /\ LET m == Head(stdout) IN
     /\ pending' = WithoutPending(m.id)
     /\ replyCh' = [x \in Callers |-> IF Entry(x, m.id) \in pending
                                      THEN m.from ELSE replyCh[x]]
  /\ UNCHANGED <<childVars, stdin, stdinOpen, nextID, dead, writer, phase, pc, id, reply>>

(* The output ends after its last line, or is closed by cmd.Wait with      *)
(* lines unread.  failPending answers whoever is in the table.             *)
ReaderEnds ==
  /\ ~dead
  /\ child = "exited" \/ (child = "mute" /\ stdout = <<>>)
  /\ dead' = TRUE /\ pending' = {}
  /\ replyCh' = [x \in Callers |-> IF \E e \in pending : e.from = x
                                   THEN "died" ELSE replyCh[x]]
  /\ UNCHANGED <<childVars, pipeVars, nextID, writer, phase, pc, id, reply>>

-----------------------------------------------------------------------------
(* Start, after the handshake: the notification, the socket.               *)

Initialized ==
  /\ phase = "starting" /\ pc[Boot] = "closed"
  /\ phase' = IF reply[Boot] = "error" THEN "close" ELSE "notify"
  /\ UNCHANGED <<childVars, pipeVars, tableVars, callerVars, writer>>

LockForNotification ==
  /\ phase = "notify" /\ writer = None
  /\ writer' = Boot /\ phase' = "notifying"
  /\ UNCHANGED <<childVars, pipeVars, tableVars, callerVars>>

Notification == [id |-> 0, from |-> Boot]

Notify ==
  /\ phase = "notifying"
  /\ \/ Writable /\ stdin' = Append(stdin, Notification) /\ phase' = "listen"
     \/ WriteBreaks /\ phase' = "close" /\ UNCHANGED stdin
  /\ writer' = None
  /\ UNCHANGED <<childVars, stdinOpen, stdout, tableVars, callerVars>>

(* The socket directory, the listener and their modes; any may fail.       *)
Listen ==
  /\ phase = "listen"
  /\ phase' \in {"serving", "close"}
  /\ UNCHANGED <<childVars, pipeVars, tableVars, callerVars, writer>>

-----------------------------------------------------------------------------
(* Shutdown, and terminateChild, which a failed Start calls as well.       *)

Shutdown ==
  /\ phase = "serving"
  /\ phase' = "close"
  /\ UNCHANGED <<childVars, pipeVars, tableVars, callerVars, writer>>

(* Mutant: closing the pipe waits for stdinMu.                             *)
CloseStdinBug ==
  /\ phase = "close" /\ writer = None
  /\ stdinOpen' = FALSE /\ phase' = "grace"
  /\ UNCHANGED <<childVars, stdin, stdout, tableVars, callerVars, writer>>

CloseStdin ==
  /\ phase = "close"
  /\ stdinOpen' = FALSE /\ phase' = "grace"
  /\ UNCHANGED <<childVars, stdin, stdout, tableVars, callerVars, writer>>

(* waitForDone after SIGTERM.                                              *)
Grace ==
  /\ phase = "grace"
  /\ \/ phase' = "kill"
     \/ child = "exited" /\ phase' = "stopped"
  /\ UNCHANGED <<childVars, pipeVars, tableVars, callerVars, writer>>

HardKill ==
  /\ phase = "kill"
  /\ killed' = TRUE /\ phase' = "last"
  /\ UNCHANGED <<child, inbox, pipeVars, tableVars, callerVars, writer>>

LastWait ==
  /\ phase = "last" /\ phase' = "stopped"
  /\ UNCHANGED <<childVars, pipeVars, tableVars, callerVars, writer>>

Lifecycle == Initialized \/ LockForNotification \/ Notify \/ Listen

Termination == CloseStdin \/ Grace \/ HardKill \/ LastWait

-----------------------------------------------------------------------------
(* The child.                                                              *)

ChildReads ==
  /\ child # "exited" /\ stdin # <<>>
  /\ stdin' = Tail(stdin)
  /\ inbox' = inbox \cup {m \in {Head(stdin)} : m.id # 0}
  /\ UNCHANGED <<child, killed, stdinOpen, stdout, tableVars, callerVars, writer, phase>>

ChildAnswers ==
  /\ child = "up"
  /\ \E m \in inbox : inbox' = inbox \ {m} /\ stdout' = Append(stdout, m)
  /\ UNCHANGED <<child, killed, stdin, stdinOpen, tableVars, callerVars, writer, phase>>

ChildMutes ==
  /\ child = "up" /\ child' = "mute"
  /\ UNCHANGED <<killed, inbox, pipeVars, tableVars, callerVars, writer, phase>>

ChildExits ==
  /\ child # "exited" /\ child' = "exited"
  /\ stdin' = <<>> /\ inbox' = {}
  /\ UNCHANGED <<killed, stdinOpen, stdout, tableVars, callerVars, writer, phase>>

Child == ChildReads \/ ChildAnswers \/ ChildMutes \/ ChildExits

-----------------------------------------------------------------------------
CbmNext ==
  \/ \E c \in Clients : Accept(c) \/ ReadRequest(c)
  \/ \E x \in Callers : Proceed(x)
  \/ Route \/ ReaderEnds
  \/ Lifecycle \/ Shutdown \/ Termination
  \/ Child

(* The broker's goroutines go on, and a process that got SIGKILL dies.     *)
(* Nothing else is assumed of the child, and nothing of Shutdown.          *)
CbmSpec ==
  /\ CbmInit /\ [][CbmNext]_vars
  /\ \A x \in Callers : WF_vars(Proceed(x))
  /\ WF_vars(Route \/ ReaderEnds) /\ WF_vars(Lifecycle) /\ WF_vars(Termination)
  /\ WF_vars(killed /\ ChildExits)

-----------------------------------------------------------------------------
Requests == [id : Nat, from : Callers]

(* The domains of the variables; and stdinMu is held by exactly one writer *)
(* at a time, who is writing, and is free otherwise, on error paths too.   *)
CbmTypeOK ==
  /\ child \in {"up", "mute", "exited"}
  /\ killed \in BOOLEAN /\ stdinOpen \in BOOLEAN /\ dead \in BOOLEAN
  /\ stdin \in Seq(Requests) /\ stdout \in Seq(Requests)
  /\ inbox \subseteq Requests /\ pending \subseteq Requests
  /\ nextID \in Nat /\ id \in [Callers -> Nat]
  /\ pc \in [Callers -> Places]
  /\ replyCh \in [Callers -> Callers \cup {None, "died"}]
  /\ reply \in [Callers -> Callers \cup {None, "error"}]
  /\ phase \in Phases
  /\ writer \in Callers \cup {None}
  /\ writer = None <=> phase # "notifying" /\ \A x \in Callers : pc[x] # "writing"

(* A response reaches the caller whose request it answers, however late it *)
(* comes and whoever else is waiting; and a caller that is still in the    *)
(* table's care is not forgotten: its entry is there, or its channel holds *)
(* what took the entry out (handleClient, takePending, failPending).       *)
RepliesReachTheirClient ==
  \A x \in Callers :
    /\ reply[x] \in {None, "error", x}
    /\ pc[x] \in {"registered", "writing", "waiting"} /\ replyCh[x] = None =>
         Entry(x, id[x]) \in pending

(* Every client whose request was read gets an answer, provided the child  *)
(* keeps reading or the broker is shut down: a client that is blocked in a *)
(* write to a child that stopped reading has no timeout of its own, and    *)
(* those behind it wait for stdinMu.  Shutdown frees them.                 *)
ClientsAnswered ==
  ([]<>(stdin = <<>>) \/ <>(phase \in {"close", "stopped"})) =>
    \A c \in Clients : pc[c] = "received" ~> pc[c] = "closed"

=============================================================================
