----------------------------- MODULE MCCbmBroker -----------------------------
(***************************************************************************)
(* Instances of CbmBroker for TLC.                                         *)
(***************************************************************************)
EXTENDS CbmBroker

CONSTANTS c1, c2

=============================================================================
