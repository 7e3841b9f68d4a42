-------------------------- MODULE MCQuickJSDebugger -------------------------
(* Instances of QuickJSDebugger for TLC.                                   *)
EXTENDS QuickJSDebugger

OneFile == [f |-> <<1, 2>>]

Configured == {<<>>, <<[kind |-> "breakpoints", file |-> "f", lines |-> {1, 2}],
                       [kind |-> "continue"]>>}
=============================================================================
