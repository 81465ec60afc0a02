--------------------------- MODULE MCNaturalKeys ---------------------------
(* Instances of NaturalKeys for TLC.                                        *)
EXTENDS NaturalKeys, TLC

Symmetry ==
  Permutations(Clients) \cup Permutations(Types) \cup Permutations(Keys) \cup Permutations(Ids)
=============================================================================
