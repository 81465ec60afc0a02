-------------------------- MODULE CompareAndAppend --------------------------
(***************************************************************************)
(* What evercore's contexts promise about streams, and nothing of how they *)
(* keep it: a client prepares, in private, events for some streams         *)
(* together with the contents it believes those streams to have; it then   *)
(* appends to all of them in one step, which is possible only while every  *)
(* one of them still has exactly those contents.                           *)
(***************************************************************************)
EXTENDS Sequences

CONSTANTS Clients, Aggregates, Vals

VARIABLES
  stream,    \* stream[a]: the payloads of a's events, in order
  expected,  \* expected[c][a]: the contents c prepares its events for
  pending    \* pending[c][a]: the events c wants to append

cvars == <<stream, expected, pending>>

Nothing == [a \in Aggregates |-> <<>>]

Init ==
  /\ stream = Nothing
  /\ expected = [c \in Clients |-> Nothing]
  /\ pending = [c \in Clients |-> Nothing]

\* c changes its mind about what to append, or gives up.
Prepare(c) ==
  /\ \A d \in Clients \ {c} : expected'[d] = expected[d] /\ pending'[d] = pending[d]
  /\ expected'[c] \in [Aggregates -> Seq(Vals)]
  /\ pending'[c] \in [Aggregates -> Seq(Vals)]
  /\ UNCHANGED stream

\* c's events go to all of their streams at once, on the contents c expected.
AppendAll(c) ==
  /\ \A a \in Aggregates : pending[c][a] # <<>> => expected[c][a] = stream[a]
  /\ stream' = [a \in Aggregates |-> stream[a] \o pending[c][a]]
  /\ expected' = [expected EXCEPT ![c] = Nothing]
  /\ pending' = [pending EXCEPT ![c] = Nothing]

Next == \E c \in Clients : Prepare(c) \/ AppendAll(c)

Spec == Init /\ [][Next]_cvars
=============================================================================
