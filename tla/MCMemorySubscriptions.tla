----------------------- MODULE MCMemorySubscriptions ------------------------
(* Instances of MemorySubscriptions for TLC.                                *)
EXTENDS MemorySubscriptions, TLC

CONSTANTS n1, n2, k1, k2, alice, bob, order, customer, placed, paid

TwoAggregates == 1 :> order @@ 2 :> customer

TwoEvents == {[agg |-> 1, type |-> placed, time |-> 0], [agg |-> 2, type |-> paid, time |-> 1]}

FromBeginning == [kind |-> "beginning", id |-> 0, time |-> 0]

\* A filter by aggregate type and event type, and one by key and two event types.
TwoCalls ==
  {[owner |-> alice, start |-> FromBeginning,
    filter |-> [aggType |-> order, key |-> Nil, types |-> {placed}]],
   [owner |-> bob, start |-> FromBeginning,
    filter |-> [aggType |-> Nil, key |-> k1, types |-> {placed, paid}]]}

\* Bound: n2 is upserted, beside aggregates that keep their keys, and nothing else
\* happens to it.
SecondIsIdle ==
  Exists(n2) => /\ At(n2).Active /\ At(n2).LeaseOwner = Nil /\ At(n2).LastEventID = 0
                /\ SubscriptionEventTypes[Subscriptions[n2]] = {}
                /\ AggregateInv[1] = k2

\* Bound: aggregate 2 has k1 and keeps it; 1 has no key, or k2, or takes k1 over.
SecondKeepsKey == AggregateInv[2] = k1
=============================================================================
