----------------------------- MODULE MCRunLoop ------------------------------
(* Small instances of RunLoop: every loop has a bot account of its own.    *)
EXTENDS RunLoop

CONSTANTS l1, l2

OwnLogins == [l \in Clients |-> l]

=============================================================================
