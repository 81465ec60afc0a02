----------------------- MODULE MCDurableSubscription ------------------------
(* Instances of DurableSubscription for TLC.                                *)
EXTENDS DurableSubscription, TLC

CONSTANTS w1, w2, x1, x2, alice, bob, order, placed, paid, viewed

OneAggregate == 1 :> order

Written(type, time) == [agg |-> 1, type |-> type, time |-> time]
TwoKinds == {Written(placed, 2), Written(viewed, 1)}
OneType == {Written(placed, 1)}

All == [aggType |-> NoType, key |-> NoKey, types |-> {}]
PlacedAndPaid == [aggType |-> NoType, key |-> NoKey, types |-> {placed, paid}]

Beginning == FromBeginning
End == [FromBeginning EXCEPT !.kind = "end"]
FromId == [FromBeginning EXCEPT !.kind = "event_id", !.id = 1]
FromTime == [FromBeginning EXCEPT !.kind = "timestamp", !.time = 2]

By(owner, filter, start) == [owner |-> owner, filter |-> filter, start |-> start]

\* Two owner names, either of which may be used by both workers.
DeliveryCalls == {By(o, PlacedAndPaid, FromTime) : o \in {alice, bob}}

\* Two callers of a name, of which one wants every event and the other none of those
\* that are written, so that it shows at once whose filter a fetch goes by.
Paid == [aggType |-> NoType, key |-> NoKey, types |-> {paid}]
LiveCalls == {By(alice, f, FromId) : f \in {All, Paid}}
StartEndCalls == {By(alice, All, End)}
BeginningCalls == {By(alice, All, Beginning)}

Symmetry == Permutations(Workers) \cup Permutations({alice, bob})
=============================================================================
