--------------------------- MODULE MCMemoryEngine ---------------------------
(* Instances of MemoryEngine for TLC.                                       *)
EXTENDS MemoryEngine, TLC

\* Bound: MaxLog counts what two contexts have captured as well as what is written.
FewEvents ==
  \A c, d \in Clients : c # d => Len(log) + Len(captured[c]) + Len(captured[d]) <= MaxLog

\* Bound: keys are taken over where there are no events.
TakenOverFirst == takenOver => log = <<>> /\ \A c \in Clients : captured[c] = <<>>

Symmetry == Permutations(Clients) \cup Permutations(Keys) \cup Permutations(Vals)
=============================================================================
