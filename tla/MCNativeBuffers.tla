--------------------------- MODULE MCNativeBuffers ---------------------------
(* Instances of NativeBuffers for TLC.                                     *)
EXTENDS NativeBuffers, TLC

Symmetry == Permutations(Arrays) \cup Permutations(Hashes)
=============================================================================
