------------------------- MODULE MCWeakExactHashMap -------------------------
(* Instances of WeakExactHashMap for TLC.                                  *)
EXTENDS WeakExactHashMap, TLC

Symmetry == Permutations(Vals) \cup Permutations(Hashes)
=============================================================================
