---------------------------- MODULE MCEventStore ----------------------------
(* Instances of EventStore for TLC.                                         *)
EXTENDS EventStoreRefinement, TLC
=============================================================================
