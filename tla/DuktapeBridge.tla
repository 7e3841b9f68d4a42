---------------------------- MODULE DuktapeBridge ----------------------------
(***************************************************************************)
(* Lifetime of the JavaScriptObjects that DuktapeContext hands to Java.    *)
(*                                                                         *)
(* Unlike QuickJSContext there is no twin: the `pointer` of a              *)
(* JavaScriptObject is the heap address of the JavaScript object itself,   *)
(* the stash maps the low 32 bits of the address to the object, and the    *)
(* object carries a weak reference to its JavaScriptObject under           *)
(* JAVA_THIS_PROP_NAME, by which popObject gives the same JavaScriptObject *)
(* again while it lives.                                                   *)
(*                                                                         *)
(* A JNI weak global reference yields its object until the JVM has         *)
(* finalized the object and cleared the reference, so popObject can hand   *)
(* out an object whose finalization is already queued.                     *)
(*                                                                         *)
(* Three things break the scheme, and nothing keeps script from them: an   *)
(* object crosses to Java again before the finalization of its earlier     *)
(* JavaScriptObject is applied, two objects share a stash slot, an object  *)
(* takes down the weak reference it inherits.  The history variable        *)
(* `crossed` collects the slots where one has happened; the properties say *)
(* what holds in all the others.                                           *)
(*                                                                         *)
(* Where the code then does what is undefined the mildest outcome is       *)
(* taken: a deleted weak reference reads as a cleared one, and nothing is  *)
(* found at the address of a freed object.                                 *)
(***************************************************************************)
EXTENDS Naturals, Sequences

CONSTANTS
    Handles,     \* JavaScriptObject instances, each created at most once
    Values,      \* JavaScript objects; an identity may be reused once freed
    Addrs,       \* heap addresses
    Index,       \* [Addrs -> ...]: the address cut to duk_uarridx_t
    Proto,       \* [Values -> Values \cup {None}]: prototypes (chains of length 1)
    None

ASSUME DuktapeAssumption ==
    /\ None \notin Handles /\ None \notin Values /\ None \notin Addrs
    /\ Proto \in [Values -> Values \cup {None}]
    /\ DOMAIN Index = Addrs

VARIABLES
    context,             \* JSEngineContext.context # 0
    javaRoots,           \* handles the Java program can reach
    pointer,             \* JavaScriptObject.pointer, None before creation
    made,                \* the value the handle was created for
    fin,                 \* how far JavaScriptObject.finalize has got
    weak,                \* the weak global reference to the handle
    finalizationQueue,   \* JSEngineContext.finalizationQueue
    draining,            \* finalizeJavaScriptObjects is past the queue lock
    copy,                \* its local array
    place,               \* address of an allocated value, None if freed
    javaThis,            \* own JAVA_THIS property of a value: a handle or None
    stash,               \* global stash: index -> value or None
    jsRoots,             \* values the JavaScript program can reach
    mute,                \* values whose finalizer a drain has unset
    popped,              \* last result of popObject on an object
    crossed              \* history: slots of the stash that are not sound any more

vars == <<context, javaRoots, pointer, made, fin, weak, finalizationQueue, draining,
          copy, place, javaThis, stash, jsRoots, mute, popped, crossed>>

javaVars == <<javaRoots, pointer, made, fin>>
queueVars == <<finalizationQueue, draining, copy>>

Elements(s) == {s[i] : i \in 1 .. Len(s)}
Indices == {Index[a] : a \in Addrs}
Allocated == {v \in Values : place[v] # None}
Slot(h) == Index[pointer[h]]

Init ==
    /\ context = TRUE
    /\ javaRoots = {}
    /\ pointer = [h \in Handles |-> None]
    /\ made = [h \in Handles |-> None]
    /\ fin = [h \in Handles |-> "none"]
    /\ weak = [h \in Handles |-> "none"]
    /\ finalizationQueue = <<>>
    /\ draining = FALSE
    /\ copy = <<>>
    /\ place = [v \in Values |-> None]
    /\ javaThis = [v \in Values |-> None]
    /\ stash = [i \in Indices |-> None]
    /\ jsRoots = {}
    /\ mute = {}
    /\ popped = [value |-> None, handle |-> None]
    /\ crossed = {}

JavaScriptRuns == context /\ ~draining

\* Prototypes are kept by the objects that inherit from them.
WithPrototypes(S) == S \cup {Proto[v] : v \in {u \in S : Proto[u] # None}}
Reachable == WithPrototypes(jsRoots \cup {stash[i] : i \in {j \in Indices : stash[j] # None}})

------------------------------------------------------------------------------
(* The JavaScript program and Duktape's collector.                         *)

\* The script allocates an object it can reach.
NewValue(v, a) ==
    /\ JavaScriptRuns
    /\ place[v] = None
    /\ \A u \in Values : place[u] # a
    /\ Proto[v] # None => Proto[v] \in Allocated
    /\ place' = [place EXCEPT ![v] = a]
    /\ jsRoots' = jsRoots \cup {v}
    /\ UNCHANGED <<context, javaVars, weak, queueVars, javaThis, stash, mute, popped, crossed>>

\* The script forgets an object.
DropValue(v) ==
    /\ JavaScriptRuns
    /\ v \in jsRoots
    /\ jsRoots' = jsRoots \ {v}
    /\ UNCHANGED <<context, javaVars, weak, queueVars, place, javaThis, stash, mute, popped, crossed>>

\* DeleteWeakGlobalRef on the references to a set of handles.
DeleteWeak(H) == weak' = [h \in Handles |-> IF h \in H THEN "deleted" ELSE weak[h]]

\* javascriptObjectFinalizerInternal looks JAVA_THIS up along the prototype chain
\* (duk_get_prop_string), and so do duk_has_prop_string and popObject.
FoundThis(v) ==
    IF javaThis[v] # None THEN javaThis[v]
    ELSE IF Proto[v] # None THEN javaThis[Proto[v]] ELSE None

\* Weak references deleted for an object that does not carry them itself: the slots
\* of the JavaScriptObjects they refer to, unless those are finalized.
Bereft(H) == {Slot(h) : h \in {g \in H \ {None} : fin[g] # "done"}}
InheritedThis(v) ==
    IF javaThis[v] = None /\ Proto[v] # None THEN javaThis[Proto[v]] ELSE None

\* The collector frees an object, after the objects that inherit from it, and runs
\* javascriptObjectFinalizer, its own or the inherited one, which deletes the weak
\* reference it finds.
FreeValue(v) ==
    /\ context
    /\ v \in Allocated \ Reachable
    /\ \A u \in Allocated : Proto[u] # v
    /\ place' = [place EXCEPT ![v] = None]
    /\ DeleteWeak(IF v \in mute THEN {} ELSE {FoundThis(v)})
    /\ javaThis' = [javaThis EXCEPT ![v] = None]
    /\ mute' = mute \ {v}
    /\ crossed' = IF v \in mute THEN crossed ELSE crossed \cup Bereft({InheritedThis(v)})
    /\ UNCHANGED <<context, javaVars, queueVars, stash, jsRoots, popped>>

------------------------------------------------------------------------------
(* popObject.                                                              *)

\* Mutant: the test of IsSameObject(javaThis, nullptr) is the wrong way round.
WeakDead(h) == h # None /\ weak[h] # "set"

\* A reference was found and IsSameObject(javaThis, nullptr) is false.
WeakAlive(h) == h # None /\ weak[h] = "set"

\* A live weak reference: the JavaScriptObject it refers to is returned, also when
\* the JVM's finalizer has got hold of it.
PopExisting(v) ==
    /\ JavaScriptRuns
    /\ v \in Allocated \cap Reachable
    /\ WeakAlive(FoundThis(v))
    /\ javaRoots' = javaRoots \cup {FoundThis(v)}
    /\ popped' = [value |-> v, handle |-> FoundThis(v)]
    /\ crossed' = IF fin[FoundThis(v)] = "none" THEN crossed ELSE crossed \cup {Slot(FoundThis(v))}
    /\ UNCHANGED <<context, pointer, made, fin, weak, queueVars, place, javaThis, stash, jsRoots, mute>>

\* The slot of v is not free for it: another object is there, or the finalization
\* of an earlier JavaScriptObject of v is still to be applied.
Occupied(v) ==
    \/ stash[Index[place[v]]] \notin {None, v}
    \/ javaThis[v] # None /\ fin[javaThis[v]] = "done"

\* No reference, or a dead one, which is deleted: stash the object and make a
\* new JavaScriptObject.
PopNew(v, h) ==
    /\ JavaScriptRuns
    /\ v \in Allocated \cap Reachable
    /\ ~WeakAlive(FoundThis(v))
    /\ pointer[h] = None
    /\ pointer' = [pointer EXCEPT ![h] = place[v]]
    /\ made' = [made EXCEPT ![h] = v]
    /\ javaRoots' = javaRoots \cup {h}
    /\ stash' = [stash EXCEPT ![Index[place[v]]] = v]
    /\ javaThis' = [javaThis EXCEPT ![v] = h]
    /\ weak' = [g \in Handles |-> IF g = h THEN "set"
                                  ELSE IF g = FoundThis(v) THEN "deleted" ELSE weak[g]]
    /\ mute' = mute \ {v}
    /\ popped' = [value |-> v, handle |-> h]
    /\ crossed' = IF Occupied(v) THEN crossed \cup {Index[place[v]]} ELSE crossed
    /\ UNCHANGED <<context, fin, queueVars, place, jsRoots>>

\* pushObject on a JavaScriptObject of this context, as receiver, argument or
\* value to store: whatever object is at its pointer.
PushObject(h) ==
    /\ JavaScriptRuns
    /\ h \in javaRoots
    /\ jsRoots' = jsRoots \cup {v \in Values : place[v] = pointer[h]}
    /\ UNCHANGED <<context, javaVars, weak, queueVars, place, javaThis, stash, mute, popped, crossed>>

------------------------------------------------------------------------------
(* The Java program, the JVM's collector and its finalizer thread.         *)

\* The Java program forgets a JavaScriptObject.
DropHandle(h) ==
    /\ h \in javaRoots
    /\ javaRoots' = javaRoots \ {h}
    /\ UNCHANGED <<context, pointer, made, fin, weak, queueVars, place, javaThis, stash, jsRoots, mute, popped, crossed>>

\* Mutants: an object without a pointer is finalized; an object is finalized
\* twice.
FinalizableUnmade(h) == h \notin javaRoots /\ fin[h] = "none"
FinalizableAgain(h) == pointer[h] # None /\ h \notin javaRoots /\ fin[h] # "adding"

\* The JVM finalizes an unreachable object once.
Finalizable(h) == pointer[h] # None /\ h \notin javaRoots /\ fin[h] = "none"

\* JavaScriptObject.finalize: the unsynchronized test of context.
Finalize(h) ==
    /\ Finalizable(h)
    /\ fin' = [fin EXCEPT ![h] = IF context THEN "adding" ELSE "done"]
    /\ UNCHANGED <<context, javaRoots, pointer, made, weak, queueVars, place, javaThis, stash, jsRoots, mute, popped, crossed>>

\* synchronized (finalizationQueue) { add }
FinalizeAdd(h) ==
    /\ fin[h] = "adding"
    /\ finalizationQueue' = Append(finalizationQueue, pointer[h])
    /\ fin' = [fin EXCEPT ![h] = "done"]
    /\ UNCHANGED <<context, javaRoots, pointer, made, weak, draining, copy, place, javaThis, stash, jsRoots, mute, popped, crossed>>

\* The JVM clears the weak references to a finalized, unreachable object.
ClearWeak(h) ==
    /\ weak[h] = "set" /\ h \notin javaRoots /\ fin[h] = "done"
    /\ weak' = [weak EXCEPT ![h] = "cleared"]
    /\ UNCHANGED <<context, javaVars, queueVars, place, javaThis, stash, jsRoots, mute, popped, crossed>>

------------------------------------------------------------------------------
(* Draining and closing, under the monitor.                                *)

\* Mutant: the queue is not cleared.
DrainCopyKeepingQueue ==
    /\ ~draining
    /\ finalizationQueue # <<>>
    /\ copy' = finalizationQueue
    /\ draining' = TRUE
    /\ UNCHANGED <<context, javaVars, weak, finalizationQueue, place, javaThis, stash, jsRoots, mute, popped, crossed>>

\* JSEngineContext.finalizeJavaScriptObjects, up to the end of the queue's lock.
DrainCopy ==
    /\ ~draining
    /\ finalizationQueue # <<>>
    /\ copy' = finalizationQueue
    /\ finalizationQueue' = <<>>
    /\ draining' = TRUE
    /\ UNCHANGED <<context, javaVars, weak, place, javaThis, stash, jsRoots, mute, popped, crossed>>

\* DuktapeContext::finalizeJavaScriptObjects: the objects at these addresses lose their
\* finalizers, whatever JAVA_THIS is found on them now, also an inherited one (the
\* second time, if an address is there twice), and their stash entries.
Unstash(ptrs) ==
    LET freed == {v \in Allocated : place[v] \in Elements(ptrs)}
        twice == {v \in freed : \E i, j \in 1 .. Len(ptrs) : i < j /\ ptrs[i] = place[v] /\ ptrs[j] = place[v]}
        inherited == {InheritedThis(v) : v \in freed}
                     \cup {javaThis[Proto[v]] : v \in {u \in twice : Proto[u] # None}}
    IN  /\ DeleteWeak({javaThis[v] : v \in freed} \cup inherited)
        /\ javaThis' = [v \in Values |-> IF v \in freed THEN None ELSE javaThis[v]]
        /\ stash' = [i \in Indices |-> IF i \in {Index[p] : p \in Elements(ptrs)} THEN None ELSE stash[i]]
        /\ mute' = mute \cup freed
        /\ crossed' = crossed \cup Bereft(inherited)

\* The rest of it: nothing if the context is closed.
DrainErase ==
    /\ draining
    /\ IF context THEN Unstash(copy) ELSE UNCHANGED <<weak, javaThis, stash, mute, crossed>>
    /\ draining' = FALSE
    /\ copy' = <<>>
    /\ UNCHANGED <<context, javaVars, finalizationQueue, place, jsRoots, popped>>

\* close(): duk_destroy_heap frees every object and runs its finalizer.
Close ==
    /\ context
    /\ ~draining
    /\ context' = FALSE
    /\ place' = [v \in Values |-> None]
    /\ DeleteWeak({javaThis[v] : v \in Values})
    /\ javaThis' = [v \in Values |-> None]
    /\ stash' = [i \in Indices |-> None]
    /\ jsRoots' = {}
    /\ mute' = {}
    /\ UNCHANGED <<javaVars, queueVars, popped, crossed>>

Next ==
    \/ \E v \in Values, a \in Addrs : NewValue(v, a)
    \/ \E v \in Values : DropValue(v) \/ FreeValue(v) \/ PopExisting(v)
    \/ \E v \in Values, h \in Handles : PopNew(v, h)
    \/ \E h \in Handles : PushObject(h) \/ DropHandle(h) \/ Finalize(h) \/ FinalizeAdd(h) \/ ClearWeak(h)
    \/ DrainCopy \/ DrainErase \/ Close

Spec == Init /\ [][Next]_vars

------------------------------------------------------------------------------
(* Correctness.                                                            *)

\* The fields of JSEngineContext and the properties DuktapeContext keeps on its
\* objects have their kinds; only heap addresses are queued.
TypeOK ==
    /\ context \in BOOLEAN
    /\ javaRoots \subseteq Handles
    /\ pointer \in [Handles -> Addrs \cup {None}]
    /\ made \in [Handles -> Values \cup {None}]
    /\ fin \in [Handles -> {"none", "adding", "done"}]
    /\ weak \in [Handles -> {"none", "set", "cleared", "deleted"}]
    /\ finalizationQueue \in Seq(Addrs)
    /\ draining \in BOOLEAN
    /\ copy \in Seq(Addrs)
    /\ place \in [Values -> Addrs \cup {None}]
    /\ javaThis \in [Values -> Handles \cup {None}]
    /\ stash \in [Indices -> Values \cup {None}]
    /\ jsRoots \subseteq Values
    /\ mute \subseteq Values
    /\ popped \in [value : Values \cup {None}, handle : Handles \cup {None}]
    /\ crossed \subseteq Indices

\* "the Java side kept this duktape heap object alive with a reference in the
\* global stash": the object of every JavaScriptObject Java can reach is
\* allocated at its pointer and hard referenced by the stash.
HardReferenced ==
    context => \A h \in javaRoots :
        /\ place[made[h]] = pointer[h]
        /\ stash[Index[pointer[h]]] = made[h]

\* The same of every JavaScriptObject whose slot has not been crossed: a finalization
\* applied late, a reused address or a collection takes no other object's reference.
HardReferencedUncrossed ==
    context => \A h \in javaRoots : Slot(h) \notin crossed =>
        /\ place[made[h]] = pointer[h]
        /\ stash[Slot(h)] = made[h]

\* duk_push_heapptr in the drain is only given addresses of allocated objects, in
\* slots that have not been crossed.
QueuedPointerLive ==
    context => \A p \in Elements(finalizationQueue) \cup Elements(copy) :
        Index[p] \notin crossed => \E v \in Values : place[v] = p

\* README, "Garbage Collection": JavaScriptObjects are deduped, the same proxy
\* instance is always used; so it is in slots that have not been crossed.
SameProxyInstance ==
    context => \A g, h \in javaRoots :
        made[g] = made[h] /\ {Slot(g), Slot(h)} \cap crossed = {} => g = h

\* popObject's "internal this which points to the Java instance of that object":
\* the JavaScriptObject returned for an object is one made for it.
PoppedIsItself ==
    popped.handle # None => made[popped.handle] = popped.value

\* What duk_push_heapptr makes of an address.
ObjectAt(p) ==
    IF \E v \in Values : place[v] = p THEN CHOOSE v \in Values : place[v] = p ELSE None

\* The JavaScriptObjects with pointers in a slot of the stash, as a table of handles.
\* pushObject is one step, so that there are no activations to tell apart: a handle is
\* bound to what pushObject finds at its pointer.
InSlot(h, i) == pointer[h] # None /\ Slot(h) = i
Table(i) == INSTANCE HandleTable WITH
    Calls <- {},
    open <- context,
    held <- {h \in javaRoots : InSlot(h, i)},
    bound <- [h \in Handles |->
                IF context /\ InSlot(h, i) /\ fin[h] = "none"
                THEN ObjectAt(pointer[h]) ELSE None],
    spent <- {h \in Handles : InSlot(h, i)},
    result <- <<>>

\* Slot by slot and until it is crossed, DuktapeContext keeps the contract of
\* JavaScriptObjects: pushObject finds at a pointer the object that popObject made the
\* JavaScriptObject for, until close or, once Java has let go of it, its finalization.
ImplementsHandleTable ==
    /\ \A i \in Indices : Table(i)!Init
    /\ [][\A i \in Indices \ crossed' : [Table(i)!Next]_(Table(i)!vars)]_vars
=============================================================================
