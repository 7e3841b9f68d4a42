--------------------------- MODULE MCQuickJSBridge ---------------------------
(* Instances of QuickJSBridge for TLC.                                     *)
EXTENDS QuickJSBridge, TLC

Symmetry ==
    Permutations(Handles) \cup Permutations(Values) \cup Permutations(Addrs)
=============================================================================
