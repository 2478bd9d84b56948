---------------------------- MODULE MCRunMachine ----------------------------
(* RunMachine, with the inductive invariant of its proofs, on a small      *)
(* instance; the constants are in the .cfg files.                          *)
EXTENDS RunMachineProofs

=============================================================================
