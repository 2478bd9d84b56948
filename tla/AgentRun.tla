------------------------------- MODULE AgentRun -------------------------------
(***************************************************************************)
(* agent.RunRole: one role is run by a chain of models, each with a few    *)
(* attempts.  An attempt is a process group under supervision              *)
(* (waitForProcess): it may signal that its terminal tool call ended, run  *)
(* into the wall clock, be found idle at a poll, or exit.  Several of      *)
(* these may be true at once; the select takes any of them.                *)
(*                                                                         *)
(* The process is the environment: it runs tools, writes to its activity   *)
(* file, leaves children behind and exits, or does nothing for ever.       *)
(***************************************************************************)
EXTENDS Naturals

CONSTANTS
  Models,           (* length of the model chain                            *)
  MaxStallRetries,  (* 2 unless configured                                  *)
  IdlePolls         (* the idle timeout, in poll intervals                  *)

ASSUME AgentAssumption ==
  Models \in Nat \ {0} /\ MaxStallRetries \in Nat /\ IdlePolls \in Nat \ {0}

VARIABLES
  sup,       (* where RunRole is                                             *)
  model,     (* the model in use, counted from 1                             *)
  attempt,   (* attempt with this model, from 0                              *)
  proc,      (* the process: none, running, exited, killed                   *)
  code,      (* 0, or 1 for any other exit code                              *)
  children,  (* members of its process group that outlived it: "none",       *)
             (* "piped" when they hold its output pipe, "silent" otherwise   *)
  inTool,    (* tools have started and not ended: their counter is above 0   *)
  news,      (* since the last poll: "none", "bytes", "tool"                 *)
  grew,      (* bytes were read since the last poll that saw a tool end      *)
  idle,      (* polls since then                                             *)
  signalled, (* terminalDone: the terminal tool call has ended               *)
  expired,   (* the wall clock of this attempt has run out                   *)
  cause,     (* what ended the attempt                                       *)
  failure,   (* the error of the attempt                                     *)
  last,      (* stop reason of the last assistant message in the transcript  *)
  gaveUp,    (* the transcript has an auto_retry_end without success         *)
  result     (* what RunRole returned                                        *)

attemptVars == <<proc, code, children, inTool, news, grew, idle, signalled, expired>>

transcript == <<last, gaveUp>>

vars == <<sup, model, attempt, cause, failure, transcript, result, attemptVars>>

Causes   == {"none", "exit", "terminal", "timeout", "hang", "thinking_loop"}
Failures == {"none", "timeout", "stalled", "thinking_loop", "error"}
StopReasons == {"stop", "error", "limit"}
Results  == {"none", "ok", "exit", "exhausted"} \cup (Failures \ {"none"})

AgentInit ==
  /\ sup = "launch" /\ model = 1 /\ attempt = 0
  /\ proc = "none" /\ code = 0 /\ children = "none"
  /\ inTool = FALSE /\ news = "none" /\ grew = FALSE /\ idle = 0
  /\ signalled = FALSE /\ expired = FALSE
  /\ cause = "none" /\ failure = "none" /\ last = "stop" /\ gaveUp = FALSE
  /\ result = "none"

-----------------------------------------------------------------------------
(* runModelAttempt: truncate the transcripts, start the process.           *)

Truncated == last' = "stop" /\ gaveUp' = FALSE

StartProcess ==
  /\ sup = "launch"
  /\ sup' = "wait"
  /\ proc' = "running" /\ code' = 0 /\ children' = "none"
  /\ inTool' = FALSE /\ news' = "none" /\ grew' = FALSE /\ idle' = 0
  /\ signalled' = FALSE /\ expired' = FALSE
  /\ cause' = "none" /\ Truncated
  /\ UNCHANGED <<model, attempt, failure, result>>

StartFails ==
  /\ sup = "launch"
  /\ sup' = "inspect" /\ failure' = "error" /\ cause' = "none"
  /\ Truncated \/ UNCHANGED transcript  (* opening the files failed, or Start    *)
  /\ UNCHANGED <<model, attempt, result, attemptVars>>

-----------------------------------------------------------------------------
(* The process.                                                            *)

Running == proc = "running"

ToolStarts ==
  /\ Running
  /\ inTool' = TRUE
  /\ news' = IF news = "tool" THEN news ELSE "bytes"
  /\ UNCHANGED <<sup, model, attempt, cause, failure, transcript, result,
                 proc, code, children, grew, idle, signalled, expired>>

(* Other tools may still run.  The end of a terminal tool is signalled as  *)
(* its line goes by.                                                       *)
ToolEnds ==
  /\ Running /\ inTool
  /\ inTool' \in BOOLEAN /\ news' = "tool"
  /\ signalled' \in {signalled, TRUE}
  /\ UNCHANGED <<sup, model, attempt, cause, failure, transcript, result,
                 proc, code, children, grew, idle, expired>>

(* A message without a tool call; errors of the provider show there too.   *)
ProcessWrites ==
  /\ Running
  /\ news' = IF news = "tool" THEN news ELSE "bytes"
  /\ last' \in StopReasons /\ gaveUp' \in {gaveUp, TRUE}
  /\ UNCHANGED <<sup, model, attempt, cause, failure, result,
                 proc, code, children, inTool, grew, idle, signalled, expired>>

(* A tool that ran when the process died stays open in the file.           *)
ProcessExits ==
  /\ Running
  /\ proc' = "exited" /\ code' \in {0, 1} /\ children' \in {"none", "piped", "silent"}
  /\ UNCHANGED <<sup, model, attempt, cause, failure, transcript, result,
                 inTool, news, grew, idle, signalled, expired>>

ChildrenEnd ==
  /\ children # "none"
  /\ children' = "none"
  /\ UNCHANGED <<sup, model, attempt, cause, failure, transcript, result,
                 proc, code, inTool, news, grew, idle, signalled, expired>>

Process == ToolStarts \/ ToolEnds \/ ProcessWrites \/ ProcessExits \/ ChildrenEnd

-----------------------------------------------------------------------------
(* waitForProcess: one action per case of the select.                      *)

WallClock ==
  /\ sup = "wait" /\ ~expired
  /\ expired' = TRUE
  /\ UNCHANGED <<sup, model, attempt, cause, failure, transcript, result,
                 proc, code, children, inTool, news, grew, idle, signalled>>

KillFor(reason) == sup' = "kill" /\ cause' = reason

TerminalDone ==
  /\ sup = "wait" /\ signalled
  /\ KillFor("terminal")
  /\ UNCHANGED <<model, attempt, failure, transcript, result, attemptVars>>

(* Mutant: a tool in flight suppresses the wall clock as well.             *)
TimedOutBug ==
  /\ sup = "wait" /\ expired /\ ~inTool
  /\ KillFor("timeout")
  /\ UNCHANGED <<model, attempt, failure, transcript, result, attemptVars>>

TimedOut ==
  /\ sup = "wait" /\ expired
  /\ KillFor("timeout")
  /\ UNCHANGED <<model, attempt, failure, transcript, result, attemptVars>>

(* readToolProgress and handlePollTick: a tool that ended since the last   *)
(* poll is progress; without any, and with no tool running, the attempt is *)
(* stalled after the idle timeout, and looping if its file kept growing.   *)
IdleAfterPoll == IF news = "tool" THEN 0 ELSE idle + 1
GrewAfterPoll == news # "tool" /\ (grew \/ news = "bytes")

Stalled == ~inTool /\ IdleAfterPoll >= IdlePolls

Poll ==
  /\ sup = "wait"
  /\ news' = "none"
  /\ grew' = GrewAfterPoll
  /\ idle' = IF IdleAfterPoll > IdlePolls THEN IdlePolls ELSE IdleAfterPoll
  /\ IF Stalled
     THEN KillFor(IF GrewAfterPoll THEN "thinking_loop" ELSE "hang")
     ELSE UNCHANGED <<sup, cause>>
  /\ UNCHANGED <<model, attempt, failure, transcript, result,
                 proc, code, children, inTool, signalled, expired>>

(* cmd.Wait returned, which takes the exit and the end of the output: the  *)
(* rest of the group is not killed.  An error that is not an exit code     *)
(* becomes the error of the attempt (resolveWaitError).                    *)
ProcessDone ==
  /\ sup = "wait" /\ proc = "exited" /\ children # "piped"
  /\ sup' = "inspect" /\ cause' = "exit" /\ failure' \in {"none", "error"}
  /\ UNCHANGED <<model, attempt, transcript, result, attemptVars>>

-----------------------------------------------------------------------------
(* killProcessGroup and what follows it.  ESRCH, a group that is gone, is  *)
(* an error except after a terminal call.                                  *)

Alive == Running \/ children # "none"

(* Mutant: one attempt too many.                                           *)
AfterHangBug == IF attempt <= MaxStallRetries THEN "launch" ELSE "inspect"

AfterHang == IF attempt < MaxStallRetries THEN "launch" ELSE "inspect"

Killed ==
  /\ proc' = IF Running THEN "killed" ELSE proc
  /\ children' = "none"
  /\ CASE cause = "terminal"      -> sup' = "inspect" /\ failure' = "none"
       [] cause = "timeout"       -> sup' = "inspect" /\ failure' = "timeout"
       [] cause = "thinking_loop" -> sup' = "inspect" /\ failure' = "thinking_loop"
       [] cause = "hang"          -> sup' = AfterHang /\ failure' = "stalled"
  /\ attempt' = IF sup' = "launch" THEN attempt + 1 ELSE attempt

(* Mutant: an error of the kill is ignored after every terminal call.      *)
AfterTerminalBug == "none"

AfterTerminal == IF Alive THEN "error" ELSE "none"

KillFails ==
  /\ UNCHANGED <<proc, children, attempt>>
  /\ sup' = "inspect"
  /\ failure' = CASE cause = "timeout"  -> "timeout"
                  [] cause = "terminal" -> AfterTerminal
                  [] OTHER              -> "error"

KillGroup ==
  /\ sup = "kill"
  /\ Killed \/ KillFails
  /\ code' = IF cause = "terminal" THEN 0 ELSE code
  /\ UNCHANGED <<model, cause, transcript, result, inTool, news, grew, idle, signalled, expired>>

-----------------------------------------------------------------------------
(* RunRole after an attempt: InspectTranscript decides on the next model.  *)

SemanticFailed   == last # "stop"
FallbackEligible == gaveUp \/ last = "limit"

Return(r) ==
  /\ sup' = "returned" /\ result' = r
  /\ UNCHANGED <<model, attempt>>

NextModel ==
  \/ /\ model < Models
     /\ sup' = "launch" /\ model' = model + 1 /\ attempt' = 0
     /\ UNCHANGED result
  \/ model = Models /\ Return("exhausted")

(* Mutant: the transcript is asked before the timeout is.                  *)
AfterAttemptBug ==
  CASE FallbackEligible                                   -> NextModel
    [] ~FallbackEligible /\ failure # "none"             -> Return(failure)
    [] OTHER -> Return(IF code = 0 /\ ~SemanticFailed THEN "ok" ELSE "exit")

AfterAttempt ==
  CASE failure = "timeout"                        -> Return(failure)
    [] failure # "timeout" /\ FallbackEligible    -> NextModel
    [] failure \notin {"none", "timeout"} /\ ~FallbackEligible -> Return(failure)
    [] OTHER -> Return(IF code = 0 /\ ~SemanticFailed THEN "ok" ELSE "exit")

Inspect ==
  /\ sup = "inspect"
  /\ AfterAttempt
  /\ UNCHANGED <<cause, failure, transcript, attemptVars>>

-----------------------------------------------------------------------------
Supervisor ==
  \/ StartProcess \/ StartFails
  \/ TerminalDone \/ TimedOut \/ ProcessDone
  \/ KillGroup \/ Inspect

AgentNext == Supervisor \/ WallClock \/ Poll \/ Process

(* The supervisor goes on and the wall clock runs; nothing is assumed of   *)
(* the process.                                                            *)
AgentSpec == AgentInit /\ [][AgentNext]_vars /\ WF_vars(Supervisor) /\ WF_vars(WallClock)

-----------------------------------------------------------------------------
(* Every variable stays within its domain: no attempt beyond              *)
(* MaxStallRetries, no model beyond the chain.                             *)
AgentTypeOK ==
  /\ sup \in {"launch", "wait", "kill", "inspect", "returned"}
  /\ model \in 1..Models /\ attempt \in 0..MaxStallRetries
  /\ proc \in {"none", "running", "exited", "killed"} /\ code \in {0, 1}
  /\ children \in {"none", "piped", "silent"}
  /\ inTool \in BOOLEAN /\ grew \in BOOLEAN /\ signalled \in BOOLEAN
  /\ expired \in BOOLEAN /\ gaveUp \in BOOLEAN
  /\ news \in {"none", "bytes", "tool"} /\ idle \in 0..IdlePolls
  /\ cause \in Causes /\ failure \in Failures /\ last \in StopReasons
  /\ result \in Results

(* RunRole reports success only for an attempt that ended by itself or by  *)
(* its terminal call, with a clean transcript; after a terminal call       *)
(* nothing of the group is left running to change the worktree while the   *)
(* runner commits it (killProcessGroup, terminalWaitResult).               *)
SuccessIsClean ==
  result = "ok" =>
    /\ cause \in {"exit", "terminal"} /\ ~SemanticFailed /\ ~FallbackEligible
    /\ cause = "terminal" => signalled /\ ~Alive

(* Another process is started in the worktree only when the last one hung, *)
(* its whole group is dead and attempts are left, or when its transcript   *)
(* names a failure of the provider; never after the wall clock ran out     *)
(* (RunRole: "that is terminal (not retried)").                            *)
RelaunchIsJustified ==
  [][sup # "launch" /\ sup' = "launch" =>
       \/ cause = "hang" /\ attempt < MaxStallRetries /\ ~Alive'
       \/ cause # "timeout" /\ FallbackEligible /\ model' = model + 1]_vars

(* RunRole returns, whatever the process does: a tool that never ends      *)
(* suppresses the stall detection but not the wall clock.                  *)
RoleEnds == <>(sup = "returned")

=============================================================================
