--------------------------- MODULE AgentRunProofs ---------------------------
(* Proofs about AgentRun, for every length of the model chain, every       *)
(* number of retries and every idle timeout.                               *)
EXTENDS AgentRun, TLAPS

(* What the supervisor knows at each place.  A kill has a reason; an       *)
(* attempt without an error ended by itself or by its terminal call; a     *)
(* timeout is still a timeout when the transcript is inspected.            *)
KillHasReason ==
  sup = "kill" =>
    /\ cause \in {"terminal", "timeout", "hang", "thinking_loop"}
    /\ cause = "terminal" => signalled

NoErrorIsEnded ==
  sup \in {"inspect", "returned"} /\ failure = "none" =>
    /\ cause \in {"exit", "terminal"} /\ ~Running
    /\ cause = "terminal" => signalled /\ ~Alive

TimeoutIsKept == sup = "inspect" /\ cause = "timeout" => failure = "timeout"

OkHasNoError ==
  result = "ok" =>
    sup = "returned" /\ failure = "none" /\ ~SemanticFailed /\ ~FallbackEligible

ResultIsLast == sup # "returned" => result = "none"

AgentIInv ==
  /\ AgentTypeOK
  /\ KillHasReason
  /\ NoErrorIsEnded
  /\ TimeoutIsKept
  /\ OkHasNoError
  /\ ResultIsLast

(* The type invariant in two parts: the flags, and all else.               *)
Flags ==
  /\ inTool \in BOOLEAN /\ grew \in BOOLEAN /\ signalled \in BOOLEAN
  /\ expired \in BOOLEAN /\ gaveUp \in BOOLEAN

Rest ==
  /\ sup \in {"launch", "wait", "kill", "inspect", "returned"}
  /\ model \in 1..Models /\ attempt \in 0..MaxStallRetries
  /\ proc \in {"none", "running", "exited", "killed"} /\ code \in {0, 1}
  /\ children \in {"none", "piped", "silent"}
  /\ news \in {"none", "bytes", "tool"} /\ idle \in 0..IdlePolls
  /\ cause \in Causes /\ failure \in Failures /\ last \in StopReasons
  /\ result \in Results

LEMMA TypeParts == AgentTypeOK <=> Flags /\ Rest
BY Zenon DEF AgentTypeOK, Flags, Rest

LEMMA TypePartsNext == Flags' /\ Rest' => AgentTypeOK'
BY Zenon DEF AgentTypeOK, Flags, Rest

LEMMA AgentInitInv == AgentInit => AgentIInv
<1> SUFFICES ASSUME AgentInit PROVE AgentIInv
  OBVIOUS
<1>1. Flags
  BY Zenon DEF AgentInit, Flags
<1>2. /\ sup = "launch" /\ model = 1 /\ attempt = 0
      /\ proc = "none" /\ code = 0 /\ children = "none"
      /\ news = "none" /\ idle = 0
      /\ cause = "none" /\ failure = "none" /\ last = "stop" /\ result = "none"
  BY Zenon DEF AgentInit
<1>3. Rest
  BY <1>2, AgentAssumption DEF Rest, Causes, Failures, StopReasons, Results
<1> QED
  BY <1>1, <1>2, <1>3, TypeParts
     DEF AgentIInv, KillHasReason, NoErrorIsEnded, TimeoutIsKept, OkHasNoError, ResultIsLast

-----------------------------------------------------------------------------
(* Each action keeps the variables in their sets.                          *)

LEMMA FlagsStay == ASSUME Flags, AgentNext PROVE Flags'
<1>1. CASE StartProcess
  BY <1>1, Zenon DEF StartProcess, Truncated, Flags
<1>2. CASE StartFails
  BY <1>2, Zenon DEF StartFails, Truncated, attemptVars, transcript, Flags
<1>3. CASE TerminalDone \/ TimedOut \/ ProcessDone
  BY <1>3, Zenon DEF TerminalDone, TimedOut, ProcessDone, attemptVars, transcript, Flags
<1>4. CASE KillGroup \/ Inspect
  BY <1>4, Zenon DEF KillGroup, Inspect, attemptVars, transcript, Flags
<1>5. CASE WallClock
  BY <1>5, Zenon DEF WallClock, transcript, Flags
<1>6. CASE Poll
  <2>1. GrewAfterPoll \in BOOLEAN
    BY Zenon DEF GrewAfterPoll
  <2> QED
    BY <1>6, <2>1, Zenon DEF Poll, transcript, Flags
<1>7. CASE ToolStarts \/ ProcessExits \/ ChildrenEnd
  BY <1>7, Zenon DEF ToolStarts, ProcessExits, ChildrenEnd, transcript, Flags
<1>8. CASE ToolEnds
  <2>1. signalled' = signalled \/ signalled' = TRUE
    BY <1>8, Zenon DEF ToolEnds
  <2>2. inTool' \in BOOLEAN /\ grew' = grew /\ expired' = expired /\ gaveUp' = gaveUp
    BY <1>8, Zenon DEF ToolEnds, transcript
  <2> QED
    BY <2>1, <2>2, Zenon DEF Flags
<1>9. CASE ProcessWrites
  <2>1. gaveUp' = gaveUp \/ gaveUp' = TRUE
    BY <1>9, Zenon DEF ProcessWrites
  <2>2. inTool' = inTool /\ grew' = grew /\ expired' = expired /\ signalled' = signalled
    BY <1>9, Zenon DEF ProcessWrites
  <2> QED
    BY <2>1, <2>2, Zenon DEF Flags
<1> QED
  BY <1>1, <1>2, <1>3, <1>4, <1>5, <1>6, <1>7, <1>8, <1>9, Zenon
     DEF AgentNext, Supervisor, Process

LEMMA SupervisorRest ==
  ASSUME Rest, KillHasReason, Supervisor PROVE Rest'
<1> USE DEF Rest, Causes, Failures, StopReasons, Results
<1>1. CASE StartProcess
  BY <1>1, AgentAssumption DEF StartProcess, Truncated
<1>2. CASE StartFails
  BY <1>2 DEF StartFails, Truncated, attemptVars, transcript
<1>3. CASE TerminalDone \/ TimedOut
  BY <1>3 DEF TerminalDone, TimedOut, KillFor, attemptVars, transcript
<1>4. CASE ProcessDone
  BY <1>4 DEF ProcessDone, attemptVars, transcript
<1>5. CASE KillGroup
  <2>0. UNCHANGED <<model, cause, last, result, news, idle>> /\ code' \in {0, 1}
    BY <1>5 DEF KillGroup, transcript
  <2>1. CASE Killed
    <3>1. proc' \in {"killed", proc} /\ children' = "none"
      BY <2>1 DEF Killed
    <3>2. /\ sup' \in {"launch", "inspect"}
          /\ failure' \in {"none", "timeout", "thinking_loop", "stalled"}
      BY <1>5, <2>1 DEF KillGroup, Killed, KillHasReason, AfterHang
    <3>3. sup' = "launch" => attempt < MaxStallRetries
      BY <1>5, <2>1 DEF KillGroup, Killed, KillHasReason, AfterHang
    <3>4. attempt' \in 0..MaxStallRetries
      BY <2>1, <3>3, AgentAssumption DEF Killed
    <3> QED
      BY <2>0, <3>1, <3>2, <3>4
  <2>2. CASE KillFails
    BY <2>0, <2>2 DEF KillFails, AfterTerminal
  <2> QED
    BY <1>5, <2>1, <2>2 DEF KillGroup
<1>6. CASE Inspect
  <2>1. PICK r \in Results : Return(r) \/ NextModel
    BY <1>6 DEF Inspect, AfterAttempt
  <2>2. CASE Return(r)
    BY <1>6, <2>1, <2>2 DEF Inspect, Return, attemptVars, transcript
  <2>3. CASE NextModel
    BY <1>6, <2>3, AgentAssumption DEF Inspect, NextModel, Return, attemptVars, transcript
  <2> QED
    BY <2>1, <2>2, <2>3
<1> QED
  BY <1>1, <1>2, <1>3, <1>4, <1>5, <1>6 DEF Supervisor

LEMMA OtherRest ==
  ASSUME Rest, WallClock \/ Poll \/ Process PROVE Rest'
<1> USE DEF Rest, Causes, Failures, StopReasons, Results
<1>1. CASE WallClock
  BY <1>1 DEF WallClock, transcript
<1>2. CASE Poll
  <2>1. IdleAfterPoll \in Nat
    BY AgentAssumption DEF IdleAfterPoll
  <2>2. idle' \in 0..IdlePolls
    BY <1>2, <2>1, AgentAssumption DEF Poll
  <2>3. sup' \in {"kill", "wait"} /\ cause' \in Causes
    BY <1>2 DEF Poll, KillFor
  <2> QED
    BY <1>2, <2>2, <2>3 DEF Poll, transcript
<1>3. CASE ToolStarts
  BY <1>3 DEF ToolStarts, transcript
<1>4. CASE ToolEnds
  <2>1. news' = "tool" /\ UNCHANGED <<sup, model, attempt, cause, failure, last, result,
                                     proc, code, children, idle>>
    BY <1>4 DEF ToolEnds, transcript
  <2> QED
    BY <2>1
<1>5. CASE ProcessWrites
  <2>1. /\ last' \in StopReasons /\ news' \in {"tool", "bytes"}
        /\ UNCHANGED <<sup, model, attempt, cause, failure, result, proc, code, children, idle>>
    BY <1>5 DEF ProcessWrites
  <2> QED
    BY <2>1
<1>6. CASE ProcessExits
  BY <1>6 DEF ProcessExits, transcript
<1>7. CASE ChildrenEnd
  BY <1>7 DEF ChildrenEnd, transcript
<1> QED
  BY <1>1, <1>2, <1>3, <1>4, <1>5, <1>6, <1>7 DEF Process

-----------------------------------------------------------------------------
(* The rest of the invariant, action by action.                            *)

LEMMA SupervisorKeeps ==
  ASSUME AgentIInv, Supervisor
  PROVE  KillHasReason' /\ NoErrorIsEnded' /\ TimeoutIsKept' /\ OkHasNoError' /\ ResultIsLast'
<1> USE DEF AgentIInv, KillHasReason, NoErrorIsEnded, TimeoutIsKept, OkHasNoError,
            ResultIsLast, Running, Alive
<1>1. CASE StartProcess
  BY <1>1 DEF StartProcess
<1>2. CASE StartFails
  BY <1>2 DEF StartFails
<1>3. CASE TerminalDone \/ TimedOut
  BY <1>3 DEF TerminalDone, TimedOut, KillFor, attemptVars
<1>4. CASE ProcessDone
  BY <1>4 DEF ProcessDone, attemptVars
<1>5. CASE KillGroup
  <2>1. CASE Killed
    BY <1>5, <2>1 DEF KillGroup, Killed, AfterHang
  <2>2. CASE KillFails
    BY <1>5, <2>2 DEF KillGroup, KillFails, AfterTerminal
  <2> QED
    BY <1>5, <2>1, <2>2 DEF KillGroup
<1>6. CASE Inspect
  <2>1. UNCHANGED <<cause, failure, last, gaveUp, proc, children, signalled>>
    BY <1>6 DEF Inspect, attemptVars, transcript
  <2>2. CASE FallbackEligible /\ failure # "timeout"
    BY <1>6, <2>1, <2>2 DEF Inspect, AfterAttempt, NextModel, Return
  <2>3. CASE failure # "none" /\ ~(FallbackEligible /\ failure # "timeout")
    BY <1>6, <2>1, <2>3 DEF Inspect, AfterAttempt, Return, AgentTypeOK, Failures
  <2>4. CASE failure = "none" /\ ~FallbackEligible
    BY <1>6, <2>1, <2>4 DEF Inspect, AfterAttempt, Return, SemanticFailed, FallbackEligible
  <2> QED
    BY <2>2, <2>3, <2>4
<1> QED
  BY <1>1, <1>2, <1>3, <1>4, <1>5, <1>6 DEF Supervisor

LEMMA OthersKeep ==
  ASSUME AgentIInv, WallClock \/ Poll \/ Process
  PROVE  KillHasReason' /\ NoErrorIsEnded' /\ TimeoutIsKept' /\ OkHasNoError' /\ ResultIsLast'
<1> USE DEF AgentIInv, KillHasReason, NoErrorIsEnded, TimeoutIsKept, OkHasNoError,
            ResultIsLast, Running, Alive, SemanticFailed, FallbackEligible
<1>1. CASE WallClock
  BY <1>1 DEF WallClock, transcript
<1>2. CASE Poll
  BY <1>2 DEF Poll, KillFor, transcript
<1>3. CASE ToolStarts
  BY <1>3 DEF ToolStarts, transcript
<1>4. CASE ToolEnds
  <2>1. Running /\ UNCHANGED <<sup, cause, failure, last, gaveUp, result, proc, children>>
    BY <1>4 DEF ToolEnds, transcript
  <2>2. signalled => signalled'
    BY <1>4, Zenon DEF ToolEnds
  <2> QED
    BY <2>1, <2>2
<1>5. CASE ProcessWrites
  BY <1>5 DEF ProcessWrites
<1>6. CASE ProcessExits
  BY <1>6 DEF ProcessExits, transcript
<1>7. CASE ChildrenEnd
  BY <1>7 DEF ChildrenEnd, transcript
<1> QED
  BY <1>1, <1>2, <1>3, <1>4, <1>5, <1>6, <1>7 DEF Process

LEMMA AgentStepInv == AgentIInv /\ [AgentNext]_vars => AgentIInv'
<1> SUFFICES ASSUME AgentIInv, [AgentNext]_vars PROVE AgentIInv'
  OBVIOUS
<1>0. Flags /\ Rest
  BY TypeParts DEF AgentIInv
<1>1. CASE Supervisor
  <2>1. Flags' /\ Rest'
    BY <1>0, <1>1, FlagsStay, SupervisorRest DEF AgentIInv, AgentNext
  <2> QED
    BY <1>1, <2>1, TypePartsNext, SupervisorKeeps DEF AgentIInv
<1>2. CASE WallClock \/ Poll \/ Process
  <2>1. Flags' /\ Rest'
    BY <1>0, <1>2, FlagsStay, OtherRest DEF AgentNext
  <2> QED
    BY <1>2, <2>1, TypePartsNext, OthersKeep DEF AgentIInv
<1>3. CASE UNCHANGED vars
  BY <1>3 DEF vars, attemptVars, transcript, AgentIInv, AgentTypeOK, KillHasReason, NoErrorIsEnded,
              TimeoutIsKept, OkHasNoError, ResultIsLast, Running, Alive,
              SemanticFailed, FallbackEligible
<1> QED
  BY <1>1, <1>2, <1>3 DEF AgentNext

(* The invariant the two theorems below rest on.                           *)
THEOREM AgentInvariant == AgentSpec => []AgentIInv
<1>1. AgentInit => AgentIInv
  BY AgentInitInv
<1>2. AgentIInv /\ [AgentNext]_vars => AgentIInv'
  BY AgentStepInv
<1> QED
  BY <1>1, <1>2, PTL DEF AgentSpec

(* The variables of a supervised role stay in their sets: no model beyond  *)
(* the chain, no attempt beyond the retries.                               *)
THEOREM AgentTypeCorrect == AgentSpec => []AgentTypeOK
<1>1. AgentIInv => AgentTypeOK
  BY DEF AgentIInv
<1> QED
  BY <1>1, AgentInvariant, PTL

(* Success is reported only for an attempt that ended by itself or by its  *)
(* terminal call with a clean transcript, and after a terminal call the    *)
(* whole process group is dead.                                            *)
THEOREM AgentSuccessIsClean == AgentSpec => []SuccessIsClean
<1>1. AgentIInv => SuccessIsClean
  BY DEF AgentIInv, NoErrorIsEnded, OkHasNoError, SuccessIsClean
<1> QED
  BY <1>1, AgentInvariant, PTL

-----------------------------------------------------------------------------
(* Only the end of a hang and a failure of the provider start a process.   *)

Justified ==
  \/ cause = "hang" /\ attempt < MaxStallRetries /\ ~Alive'
  \/ cause # "timeout" /\ FallbackEligible /\ model' = model + 1

LEMMA LaunchIsJustified ==
  ASSUME AgentIInv, AgentNext, sup # "launch", sup' = "launch"
  PROVE  Justified
<1>1. CASE KillGroup
  <2>1. Killed
    BY <1>1 DEF KillGroup, KillFails
  <2>2. cause = "hang" /\ attempt < MaxStallRetries
    BY <1>1, <2>1 DEF AgentIInv, KillHasReason, KillGroup, Killed, AfterHang
  <2>3. ~Alive'
    BY <1>1, <2>1 DEF KillGroup, Killed, Alive, Running
  <2> QED
    BY <2>2, <2>3 DEF Justified
<1>2. CASE Inspect
  <2>1. FallbackEligible /\ failure # "timeout" /\ NextModel
    BY <1>2 DEF Inspect, AfterAttempt, Return, AgentIInv, AgentTypeOK, Failures
  <2>2. model' = model + 1
    BY <2>1 DEF NextModel, Return
  <2>3. cause # "timeout"
    BY <1>2, <2>1 DEF AgentIInv, TimeoutIsKept, Inspect
  <2> QED
    BY <2>1, <2>2, <2>3 DEF Justified
<1>3. ~(StartProcess \/ StartFails \/ TerminalDone \/ TimedOut \/ ProcessDone)
  BY DEF StartProcess, StartFails, TerminalDone, TimedOut, ProcessDone, KillFor
<1>4. ~(WallClock \/ Poll \/ Process)
  BY DEF WallClock, Poll, KillFor, Process, ToolStarts, ToolEnds, ProcessWrites,
         ProcessExits, ChildrenEnd
<1> QED
  BY <1>1, <1>2, <1>3, <1>4 DEF AgentNext, Supervisor

(* A process is started again only after a hang whose group is dead, with  *)
(* attempts left, or for the next model after a failure of the provider;   *)
(* never once the wall clock ended an attempt.                             *)
THEOREM AgentRelaunch == AgentSpec => RelaunchIsJustified
<1>1. AgentIInv /\ [AgentNext]_vars => [sup # "launch" /\ sup' = "launch" => Justified]_vars
  <2> SUFFICES ASSUME AgentIInv, AgentNext, sup # "launch", sup' = "launch" PROVE Justified
    BY DEF vars
  <2> QED
    BY LaunchIsJustified
<1> QED
  BY <1>1, AgentInvariant, PTL DEF AgentSpec, RelaunchIsJustified, Justified

=============================================================================
