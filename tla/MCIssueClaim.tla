---------------------------- MODULE MCIssueClaim ----------------------------
(* Small instances of IssueClaim, with the invariants of its proofs.       *)
EXTENDS IssueClaimProofs, TLC

CONSTANTS c1, c2, c3, c4

(* c3 and c4 have bot accounts of their own, c1 and c2 run with the        *)
(* credentials of the same bot.                                            *)
SharedLogin == [c \in Clients |-> IF c = c2 THEN c1 ELSE c]

(* Every client has a bot account of its own.                              *)
OwnLogins == [c \in Clients |-> c]

OwnLoginSymmetry == Permutations({c3, c4})

=============================================================================
