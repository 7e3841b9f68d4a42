--------------------------- MODULE MCDuktapeBridge ---------------------------
(* Instances of DuktapeBridge for TLC.                                     *)
EXTENDS DuktapeBridge, TLC

CONSTANTS v1, v2, a1, a2, a3

\* The addresses are the indices.
ExactIndex == [a \in Addrs |-> a]

\* a3 agrees with a1 in its low 32 bits.
CutIndex == [a \in Addrs |-> IF a = a3 THEN a1 ELSE a]

NoPrototypes == [v \in Values |-> None]

\* v2 was created with v1 as its prototype.
Inherits == [v \in Values |-> IF v = v2 THEN v1 ELSE None]

Symmetry == Permutations(Handles)
=============================================================================
