----------------------------- MODULE MCNsqdTopic -----------------------------
(* Instances of NsqdTopic for TLC.                                          *)
EXTENDS NsqdTopic, TLC

(* Messages and callers are interchangeable; a message published with DPUB  *)
(* is not interchangeable with the others.                                  *)
Symmetry == Permutations(Msgs \ Deferred) \cup Permutations(Callers)
=============================================================================
