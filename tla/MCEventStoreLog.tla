-------------------------- MODULE MCEventStoreLog ---------------------------
(* Instances of EventStoreLog for TLC.                                      *)
EXTENDS EventStoreLog, EventStoreInvariant, TLC

Symmetry == Permutations(Clients) \cup Permutations(Vals)
=============================================================================
