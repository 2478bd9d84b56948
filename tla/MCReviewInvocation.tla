-------------------------- MODULE MCReviewInvocation --------------------------
(* Small instances of ReviewInvocation.                                      *)
EXTENDS ReviewInvocation, TLC

CONSTANTS h1, h2, approve, reject, bad, new, old, clean, stale

HandlerSymmetry == Permutations({h1, h2})

=============================================================================
