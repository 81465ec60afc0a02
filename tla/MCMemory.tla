------------------------------ MODULE MCMemory ------------------------------
(* An instance of the two components of the memory engine for TLC.  They    *)
(* share no variable, so one moves and the other one stays as it was made.  *)
EXTENDS MCMemoryEngine, MCMemorySubscriptions

MemoryInit == Init /\ SubscriptionsInit
MemoryNext ==
  \/ SubscriptionsInit /\ AggregateInv[1] = Nil /\ Next /\ UNCHANGED subscriptionVars
  \/ Init /\ SubscriptionsNext /\ UNCHANGED vars
MemorySpec == MemoryInit /\ [][MemoryNext]_<<vars, subscriptionVars>>
=============================================================================
