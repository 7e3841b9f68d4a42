----------------------------- MODULE MCCoercions -----------------------------
(* Instances of Coercions for TLC.                                         *)
EXTENDS Coercions

\* Of 2, 3, 4 and 6 bits, with 2 and 4 significant ones: as in Java, a float has every
\* short but not every int, a double every int but not every long.
Limits == [Byte |-> 2, Short |-> 4, Integer |-> 8, Long |-> 32]
Mantissa == [Float |-> 2, Double |-> 4]

\* The nearest number with m significant bits, ties to even.
Round(m, n) ==
    LET abs == IF n < 0 THEN -n ELSE n
        e == CHOOSE i \in 0 .. 7 : abs < 2 ^ (m + i) /\ (i = 0 \/ abs >= 2 ^ (m + i - 1))
        q == abs \div 2 ^ e
        r == 2 * (abs % 2 ^ e)
        up == r > 2 ^ e \/ (r = 2 ^ e /\ q % 2 = 1)
        a == 2 ^ e * (IF up THEN q + 1 ELSE q)
    IN IF n < 0 THEN -a ELSE a

Nearest == [c \in Floating |-> [n \in Halves |-> Round(Mantissa[c], n)]]

Inherits == {<<"Shape", "Round">>, <<"Shape", "Circle">>, <<"Round", "Circle">>}
=============================================================================
