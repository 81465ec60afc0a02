---------------------- MODULE MCEphemeralSubscription -----------------------
(* Instances of EphemeralSubscription for TLC.                              *)
EXTENDS EphemeralSubscription, TLC

CONSTANTS x1, k1, reader1, order, customer, placed, paid, viewed

TwoAggregates == 1 :> order @@ 2 :> customer

ThreeTypes ==
  {[agg |-> 1, type |-> placed, time |-> 2], [agg |-> 1, type |-> viewed, time |-> 1],
   [agg |-> 2, type |-> paid, time |-> 1]}

From(kind) == [kind |-> kind, id |-> 1, time |-> 2]
Wants(aggType, key, types, start) ==
  [owner |-> reader1, filter |-> [aggType |-> aggType, key |-> key, types |-> types],
   start |-> start]

\* Every kind of start, and filters by aggregate type, by key, by one event type,
\* by two and by none of these.
FiveCalls ==
  {Wants(order, NoKey, {}, From("end")), Wants(NoType, k1, {}, FromBeginning),
   Wants(order, NoKey, {placed}, From("event_id")),
   Wants(NoType, NoKey, {placed, paid}, From("timestamp")),
   Wants(NoType, NoKey, {}, From("timestamp"))}
=============================================================================
