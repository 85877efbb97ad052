----------------------------- MODULE MCAntsPool ------------------------------
(* Instances of AntsPool for TLC.                                           *)
EXTENDS AntsPool, TLC

Opts(nonblocking, preAlloc, maxBlocking) ==
    [nonblocking |-> nonblocking, preAlloc |-> preAlloc, maxBlocking |-> maxBlocking]
(* The stack without a limit on waiters and with a limit of one, the loop   *)
(* queue, and a pool that does not block.                                   *)
MCOptions == {Opts(FALSE, FALSE, 0), Opts(FALSE, FALSE, 1), Opts(FALSE, TRUE, 0), Opts(TRUE, FALSE, 0)}
Symmetry == Permutations(Submitters) \cup Permutations(Workers)
=============================================================================
