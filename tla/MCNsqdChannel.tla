---------------------------- MODULE MCNsqdChannel ----------------------------
(* Instances of NsqdChannel for TLC.                                        *)
EXTENDS NsqdChannelImplements, TLC

Symmetry == Permutations(Clients)
(* Restricts the consumers to late answers: nobody requeues.               *)
NoRequeue == \A c \in Clients : io[c].op \notin {"REQ", "REQdelay", "TOUCH"}
=============================================================================
