----------------------------- MODULE HandleTable -----------------------------
(***************************************************************************)
(* What the bridge promises about JavaScriptObjects, with no stash, twin,  *)
(* queue or address in sight: a handle is bound to a JavaScript value when *)
(* the value is marshalled to Java, a lookup through the handle yields     *)
(* that value and no other, and the binding ends only when the context is  *)
(* closed or, once Java has let go of the handle, when it is released.  A  *)
(* released handle is never bound again.                                   *)
(***************************************************************************)
CONSTANTS
    Handles,    \* JavaScriptObject instances of the Java side
    Values,     \* JavaScript objects
    Calls,      \* activations of a native method on behalf of a handle
    None        \* no value

VARIABLES
    open,       \* the context has not been closed
    held,       \* handles the Java program can reach
    bound,      \* the value a handle stands for, None before and after
    spent,      \* handles that have been bound once
    result      \* what the lookup of an activation returned, None outside one

vars == <<open, held, bound, spent, result>>

Init ==
    /\ open = TRUE
    /\ held = {}
    /\ bound = [h \in Handles |-> None]
    /\ spent = {}
    /\ result = [c \in Calls |-> None]

\* A JavaScript value crosses to Java under a new handle.
Bind(h, v) ==
    /\ open
    /\ h \notin spent
    /\ bound' = [bound EXCEPT ![h] = v]
    /\ spent' = spent \cup {h}
    /\ held' = held \cup {h}
    /\ UNCHANGED <<open, result>>

\* The Java program lets go of a handle; methods already called on it go on.
Forget(h) ==
    /\ held' = held \ {h}
    /\ UNCHANGED <<open, bound, spent, result>>

\* The value crosses to Java again under the handle it has.
Recall(h) ==
    /\ bound[h] # None
    /\ held' = held \cup {h}
    /\ UNCHANGED <<open, bound, spent, result>>

\* The bridge learns that nobody uses the handle.
Release(h) ==
    /\ h \notin held
    /\ bound[h] # None
    /\ bound' = [bound EXCEPT ![h] = None]
    /\ UNCHANGED <<open, held, spent, result>>

\* A native method turns its handle back into the value.
Lookup(c, h) ==
    /\ bound[h] # None
    /\ result' = [result EXCEPT ![c] = bound[h]]
    /\ UNCHANGED <<open, held, bound, spent>>

\* The native method returns.
Done(c) ==
    /\ result' = [result EXCEPT ![c] = None]
    /\ UNCHANGED <<open, held, bound, spent>>

Close ==
    /\ open
    /\ open' = FALSE
    /\ bound' = [h \in Handles |-> None]
    /\ UNCHANGED <<held, spent, result>>

Next ==
    \/ \E h \in Handles, v \in Values : Bind(h, v)
    \/ \E h \in Handles : Forget(h) \/ Recall(h) \/ Release(h)
    \/ \E c \in Calls, h \in Handles : Lookup(c, h)
    \/ \E c \in Calls : Done(c)
    \/ Close

Spec == Init /\ [][Next]_vars
=============================================================================
