----------------------------- MODULE ReviewLoop -----------------------------
(***************************************************************************)
(* What a golemic run promises to the people who start it: a change is     *)
(* developed and reviewed in a bounded number of turns, an approval is     *)
(* void as soon as the change is touched again, and the run ends once,     *)
(* with "success" only for a change that is approved at that moment.       *)
(* RunMachine implements this specification.                               *)
(***************************************************************************)
EXTENDS Naturals

CONSTANTS
  Budget,     (* how often the reviewer may send the change back *)
  Outcomes    (* the ways a run can end                          *)

VARIABLES approved, sentBack, outcome

vars == <<approved, sentBack, outcome>>

Running == outcome = "running"

Init ==
  /\ approved = FALSE
  /\ sentBack = 0
  /\ outcome = "running"

(* The change is written, rewritten, or a conflict in it is resolved.      *)
Touch ==
  /\ Running
  /\ approved' = FALSE
  /\ UNCHANGED <<sentBack, outcome>>

Approve ==
  /\ Running
  /\ approved' = TRUE
  /\ UNCHANGED <<sentBack, outcome>>

SendBack ==
  /\ Running
  /\ ~approved
  /\ sentBack < Budget
  /\ sentBack' = sentBack + 1
  /\ UNCHANGED <<approved, outcome>>

Finish(o) ==
  /\ Running
  /\ o = "success" => approved
  /\ outcome' = o
  /\ UNCHANGED <<approved, sentBack>>

Next == Touch \/ Approve \/ SendBack \/ (\E o \in Outcomes : Finish(o))

Spec == Init /\ [][Next]_vars

=============================================================================
