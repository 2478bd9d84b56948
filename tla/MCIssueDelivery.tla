--------------------------- MODULE MCIssueDelivery ---------------------------
(***************************************************************************)
(* Instances of IssueDelivery for TLC.                                     *)
(***************************************************************************)
EXTENDS IssueDelivery

=============================================================================
