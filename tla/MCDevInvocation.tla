-------------------------- MODULE MCDevInvocation ---------------------------
(* Small instances of DevInvocation.                                       *)
EXTENDS DevInvocationProofs, TLC

CONSTANTS h1, h2, r1, r2, bad, base, good, wrong

HandlerSymmetry == Permutations({h1, h2})

=============================================================================
