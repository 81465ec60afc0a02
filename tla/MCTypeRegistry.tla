--------------------------- MODULE MCTypeRegistry ---------------------------
(* Instances of TypeRegistry for TLC.                                       *)
EXTENDS TypeRegistry, TLC

CONSTANTS c1, c2, s1

OneProcess == c1 :> s1 @@ c2 :> s1

\* Sound where all clients share a store and every name is known.
Symmetry == Permutations(Clients) \cup Permutations(Names)
=============================================================================
