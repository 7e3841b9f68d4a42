---------------------------- MODULE QuickJSBridge ----------------------------
(***************************************************************************)
(* Lifetime of the JavaScriptObjects that QuickJSContext hands to Java.    *)
(*                                                                         *)
(* Marshalling a JavaScript object to Java (QuickJSContext::toObject)      *)
(* allocates a "twin" object, stores the value in the twin, stashes the    *)
(* twin under its own address and gives the address to a new               *)
(* JavaScriptObject as its `pointer`.  The JVM collects JavaScriptObjects  *)
(* whenever it likes; JavaScriptObject.finalize, on the finalizer thread   *)
(* and without the context's monitor, puts the pointer on                  *)
(* finalizationQueue; finalizeJavaScriptObjects, under the monitor, takes  *)
(* a copy of the queue, clears it and erases the stash entries.  Erasing   *)
(* the entry frees the twin, so its address may be given to a later twin.  *)
(*                                                                         *)
(* Every action but the finalizer's and the two collectors' runs under the *)
(* context's monitor; activations in native code are all of one thread     *)
(* (nested through callbacks), which is what ContextMonitor is about.      *)
(***************************************************************************)
EXTENDS Naturals, Sequences

CONSTANTS
    Handles,      \* JavaScriptObject instances, each created at most once
    Values,       \* JavaScript objects; an identity may be reused once freed
    Addrs,        \* heap addresses the allocator may give to a twin
    Calls,        \* activations of native methods that take a `pointer`
    None,         \* no value, no address
    PinReceiver   \* TRUE: the JVM keeps `this` reachable until its method
                  \* returns.  FALSE: `this` may be finalized once its fields
                  \* have been read (JLS 12.6.1)

ASSUME ConstantsAssumption ==
    /\ None \notin Handles /\ None \notin Values /\ None \notin Addrs
    /\ PinReceiver \in BOOLEAN

VARIABLES
    context,             \* JSEngineContext.context # 0
    javaRoots,           \* handles the Java program can reach
    pointer,             \* JavaScriptObject.pointer, None before creation
    made,                \* the value the handle was created for
    fin,                 \* how far JavaScriptObject.finalize has got
    finalizationQueue,   \* JSEngineContext.finalizationQueue
    draining,            \* finalizeJavaScriptObjects is past the queue lock
    copy,                \* its local array
    stash,               \* keys of QuickJSContext::stash
    twin,                \* the value held by the twin at an address, None if
                         \* the address holds no twin
    jsRoots,             \* values the JavaScript program can reach
    heap,                \* values that have not been freed
    call                 \* per activation: pc, handle, value resolved

vars == <<context, javaRoots, pointer, made, fin, finalizationQueue, draining,
          copy, stash, twin, jsRoots, heap, call>>

javaVars == <<javaRoots, pointer, made, fin>>
queueVars == <<finalizationQueue, draining, copy>>
jsVars == <<stash, twin, jsRoots, heap>>

Idle == [pc |-> "idle", handle |-> None, value |-> None]
CallRecord ==
    [pc : {"idle", "captured", "native"},
     handle : Handles \cup {None},
     value : Values \cup {None}]

Elements(s) == {s[i] : i \in 1 .. Len(s)}

Init ==
    /\ context = TRUE
    /\ javaRoots = {}
    /\ pointer = [h \in Handles |-> None]
    /\ made = [h \in Handles |-> None]
    /\ fin = [h \in Handles |-> "none"]
    /\ finalizationQueue = <<>>
    /\ draining = FALSE
    /\ copy = <<>>
    /\ stash = {}
    /\ twin = [a \in Addrs |-> None]
    /\ jsRoots = {}
    /\ heap = {}
    /\ call = [c \in Calls |-> Idle]

InNative(c) == call[c].pc = "native"

\* JavaScript executes only inside a native call (or a job of one), with the
\* context open; a running drain holds the monitor and calls no JavaScript.
JavaScriptRuns == context /\ ~draining

\* Reachable on the JavaScript side: from the program, from a stashed twin, or
\* from the JSValueHolder of a native activation.
ReachableFrom(twins) ==
    jsRoots \cup twins \cup {call[c].value : c \in {d \in Calls : InNative(d)}}
Reachable == ReachableFrom({twin[a] : a \in stash})

\* The JSValue a twin holds, given the twin's address.
toValueAsLocal(ptr) == twin[ptr]

------------------------------------------------------------------------------
(* The JavaScript program and the QuickJS collector.                       *)

\* The script allocates an object it can reach.
NewValue(v) ==
    /\ JavaScriptRuns
    /\ v \notin heap
    /\ heap' = heap \cup {v}
    /\ jsRoots' = jsRoots \cup {v}
    /\ UNCHANGED <<context, javaVars, queueVars, stash, twin, call>>

\* The script forgets an object.
DropValue(v) ==
    /\ JavaScriptRuns
    /\ v \in jsRoots
    /\ jsRoots' = jsRoots \ {v}
    /\ UNCHANGED <<context, javaVars, queueVars, stash, twin, heap, call>>

\* Reference counting or JS_RunGC frees an unreachable object.
FreeValue(v) ==
    /\ context
    /\ v \in heap \ Reachable
    /\ heap' = heap \ {v}
    /\ UNCHANGED <<context, javaVars, queueVars, stash, twin, jsRoots, call>>

------------------------------------------------------------------------------
(* Marshalling.                                                            *)

\* QuickJSContext::toObject(JNIEnv*, JSValue) on an object value: the handle is
\* always new (trackJavaScriptObjectInstance is false), the twin's address is
\* any address the allocator has free.
ToJava(h, v, a) ==
    /\ JavaScriptRuns
    /\ pointer[h] = None
    /\ v \in heap \cap Reachable
    /\ twin[a] = None
    /\ pointer' = [pointer EXCEPT ![h] = a]
    /\ made' = [made EXCEPT ![h] = v]
    /\ javaRoots' = javaRoots \cup {h}
    /\ stash' = stash \cup {a}
    /\ twin' = [twin EXCEPT ![a] = v]
    /\ UNCHANGED <<context, fin, queueVars, jsRoots, heap, call>>

\* QuickJSContext::toObject(JNIEnv*, jobject) on a JavaScriptObject of this
\* context (getNativePointer # 0), stored by the script where it can reach it.
ToJS(h) ==
    /\ JavaScriptRuns
    /\ h \in javaRoots
    /\ jsRoots' = jsRoots \cup ({toValueAsLocal(pointer[h])} \ {None})
    /\ UNCHANGED <<context, javaVars, queueVars, stash, twin, heap, call>>

------------------------------------------------------------------------------
(* A Java method of a JavaScriptObject: call, get, set, stringify, ...     *)

\* The method reads its final field `pointer` and passes it on, waiting for the
\* context's monitor from here.
Capture(c, h) ==
    /\ call[c] = Idle
    /\ h \in javaRoots
    /\ call' = [call EXCEPT ![c] = [pc |-> "captured", handle |-> h, value |-> None]]
    /\ UNCHANGED <<context, javaVars, queueVars, jsVars>>

\* Mutant: the Java method does not test context.
EnterUnchecked(c) ==
    /\ call[c].pc = "captured"
    /\ ~draining
    /\ call' = [call EXCEPT ![c].pc = "native",
                            ![c].value = toValueAsLocal(pointer[call[c].handle])]
    /\ UNCHANGED <<context, javaVars, queueVars, jsVars>>

\* The synchronized JSEngineContext method: null if closed, else the native
\* method, which begins with toValueAsLocal(pointer).
Enter(c) ==
    /\ call[c].pc = "captured"
    /\ ~draining
    /\ call' = [call EXCEPT ![c] =
                  IF context
                  THEN [pc |-> "native", handle |-> call[c].handle,
                        value |-> toValueAsLocal(pointer[call[c].handle])]
                  ELSE Idle]
    /\ UNCHANGED <<context, javaVars, queueVars, jsVars>>

\* The native method returns and its JSValueHolder goes out of scope.
Return(c) ==
    /\ InNative(c)
    /\ ~draining
    /\ call' = [call EXCEPT ![c] = Idle]
    /\ UNCHANGED <<context, javaVars, queueVars, jsVars>>

------------------------------------------------------------------------------
(* The Java program and the JVM's collector and finalizer thread.          *)

DropHandle(h) ==
    /\ h \in javaRoots
    /\ javaRoots' = javaRoots \ {h}
    /\ UNCHANGED <<context, pointer, made, fin, queueVars, jsVars, call>>

\* Mutant: an object whose constructor never got its pointer is finalized.
FinalizableUnmade(h) == h \notin javaRoots /\ fin[h] = "none"

\* Mutant: a second notification for the same object.
FinalizableAgain(h) ==
    /\ pointer[h] # None
    /\ h \notin javaRoots
    /\ \A c \in Calls : call[c].handle # h

\* The JVM may finalize an unreachable object, once, unless it is the receiver
\* of a running method and the JVM keeps such receivers.
Finalizable(h) ==
    /\ pointer[h] # None
    /\ h \notin javaRoots
    /\ fin[h] = "none"
    /\ PinReceiver => \A c \in Calls : call[c].handle # h

\* JavaScriptObject.finalize -> finalizeJavaScriptObject: the unsynchronized
\* test of context.
Finalize(h) ==
    /\ Finalizable(h)
    /\ fin' = [fin EXCEPT ![h] = IF context THEN "adding" ELSE "done"]
    /\ UNCHANGED <<context, javaRoots, pointer, made, queueVars, jsVars, call>>

\* finalizeJavaScriptObject: synchronized (finalizationQueue) { add }.  The
\* context may have been closed since the test.
FinalizeAdd(h) ==
    /\ fin[h] = "adding"
    /\ finalizationQueue' = Append(finalizationQueue, pointer[h])
    /\ fin' = [fin EXCEPT ![h] = "done"]
    /\ UNCHANGED <<context, javaRoots, pointer, made, draining, copy, jsVars, call>>

------------------------------------------------------------------------------
(* Draining and closing, under the monitor.                                *)

\* Mutant: the queue is not cleared.
DrainCopyKeepingQueue ==
    /\ ~draining
    /\ finalizationQueue # <<>>
    /\ copy' = finalizationQueue
    /\ draining' = TRUE
    /\ UNCHANGED <<context, javaVars, finalizationQueue, jsVars, call>>

\* finalizeJavaScriptObjects up to the end of its synchronized block: called by
\* runPostInvocation at the end of an invocation, by the executor, and by gc().
DrainCopy ==
    /\ ~draining
    /\ finalizationQueue # <<>>
    /\ copy' = finalizationQueue
    /\ finalizationQueue' = <<>>
    /\ draining' = TRUE
    /\ UNCHANGED <<context, javaVars, jsVars, call>>

\* Mutant: the loop starts at the second pointer.
EraseAllButFirst(ptrs) ==
    /\ stash' = stash \ Elements(Tail(ptrs))
    /\ twin' = [a \in Addrs |-> IF a \in Elements(Tail(ptrs)) THEN None ELSE twin[a]]
    /\ UNCHANGED heap

\* Mutant: the entry goes, the twin keeps its value.
EraseLeavingTwin(ptrs) ==
    /\ stash' = stash \ Elements(ptrs)
    /\ UNCHANGED <<twin, heap>>

\* QuickJSContext::finalizeJavaScriptObjects: the stash held the only reference
\* to each twin, so erasing the entry frees the twin; then JS_RunGC.
finalizeJavaScriptObjects(ptrs) ==
    /\ stash' = stash \ Elements(ptrs)
    /\ twin' = [a \in Addrs |-> IF a \in stash \cap Elements(ptrs) THEN None ELSE twin[a]]
    /\ heap' = heap \cap ReachableFrom({twin[a] : a \in stash \ Elements(ptrs)})

\* The rest of the Java method: nothing if the context is closed, else the
\* native method.
DrainErase ==
    /\ draining
    /\ IF context
       THEN finalizeJavaScriptObjects(copy)
       ELSE UNCHANGED <<stash, twin, heap>>
    /\ draining' = FALSE
    /\ copy' = <<>>
    /\ UNCHANGED <<context, javaVars, finalizationQueue, jsRoots, call>>

\* ~QuickJSContext: the stash is cleared and the runtime freed.
destroyContext ==
    /\ stash' = {}
    /\ twin' = [a \in Addrs |-> None]
    /\ jsRoots' = {}
    /\ heap' = {}

\* close(): context = 0, then destroyContext.  (A close from a callback, under native activations, is the
\* business of ContextMonitor.)
Close ==
    /\ context
    /\ ~draining
    /\ \A c \in Calls : ~InNative(c)
    /\ context' = FALSE
    /\ destroyContext
    /\ UNCHANGED <<javaVars, queueVars, call>>

Next ==
    \/ \E v \in Values : NewValue(v) \/ DropValue(v) \/ FreeValue(v)
    \/ \E h \in Handles, v \in Values, a \in Addrs : ToJava(h, v, a)
    \/ \E h \in Handles : ToJS(h) \/ DropHandle(h) \/ Finalize(h) \/ FinalizeAdd(h)
    \/ \E c \in Calls, h \in Handles : Capture(c, h)
    \/ \E c \in Calls : Enter(c) \/ Return(c)
    \/ DrainCopy \/ DrainErase \/ Close

Spec == Init /\ [][Next]_vars

------------------------------------------------------------------------------
(* Correctness.                                                            *)

\* The state of the context, the queue, the stash and the activations is of the
\* kind the fields and locals of JSEngineContext and QuickJSContext can hold; in
\* particular only addresses of twins are ever queued for erasure.
TypeOK ==
    /\ context \in BOOLEAN
    /\ javaRoots \subseteq Handles
    /\ pointer \in [Handles -> Addrs \cup {None}]
    /\ made \in [Handles -> Values \cup {None}]
    /\ fin \in [Handles -> {"none", "adding", "done"}]
    /\ finalizationQueue \in Seq(Addrs)
    /\ draining \in BOOLEAN
    /\ copy \in Seq(Addrs)
    /\ stash \subseteq Addrs
    /\ twin \in [Addrs -> Values \cup {None}]
    /\ jsRoots \subseteq Values
    /\ heap \subseteq Values
    /\ call \in [Calls -> CallRecord]

Born == {h \in Handles : pointer[h] # None}

\* Handles whose stash entry nobody has been asked to erase yet.
Owners == {h \in Born : fin[h] # "done"}

\* Handles some Java code can still call through.
Usable == javaRoots \cup {call[c].handle : c \in {d \in Calls : call[d].pc # "idle"}}

Pending == Elements(finalizationQueue) \cup Elements(copy)

\* Every handle Java can still use names a stashed twin, the twin holds the
\* value the handle was created for, and the value has not been freed: no
\* order of collections, queued finalizations, drains and address reuse lets a
\* live JavaScriptObject dangle or stand for another object (the "GC race
\* conditions" of the comment in toObject).
HandleResolves ==
    context => \A h \in Usable :
        /\ pointer[h] \in stash
        /\ twin[pointer[h]] = made[h]
        /\ made[h] \in heap

\* The value a native method works on is the one its receiver was created for,
\* even if the receiver waited for the monitor while others ran, drained or
\* closed; and it stays allocated until the method returns.
ResolvedIsMade ==
    \A c \in Calls : InNative(c) =>
        /\ call[c].value = made[call[c].handle]
        /\ call[c].value \in heap

\* While the context is open the stash holds exactly the twins of handles not
\* yet finalized and of finalizations not yet applied: nothing leaks past a
\* drain and nothing is erased early.
StashAccounted ==
    context => stash = {pointer[h] : h \in Owners} \cup Pending

\* A pointer waits for erasure at most once over the queue and the drain's
\* copy, and never while a handle that is not finalized uses the address.
PendingExclusive ==
    /\ \A i, j \in 1 .. Len(finalizationQueue) :
          finalizationQueue[i] = finalizationQueue[j] => i = j
    /\ \A i, j \in 1 .. Len(copy) : copy[i] = copy[j] => i = j
    /\ Elements(finalizationQueue) \cap Elements(copy) = {}
    /\ \A h \in Owners : pointer[h] \notin Pending

(***************************************************************************)
(* The inductive strengthening.  HandleResolves speaks of handles Java can *)
(* use; the address of such a handle is safe only because every handle not *)
(* yet finalized, usable or not, owns its address alone and is not pending. *)
(***************************************************************************)

\* Java reaches only created handles whose finalizer has not started.
HandlesInv ==
    /\ \A h \in javaRoots : h \in Born /\ fin[h] = "none"
    /\ \A h \in Handles : (pointer[h] = None) <=> (made[h] = None)
    /\ \A h \in Handles : pointer[h] = None => fin[h] = "none"

\* An activation keeps its receiver from being finalized.
CallsInv ==
    \A c \in Calls :
        /\ call[c].pc = "idle" => call[c] = Idle
        /\ call[c].pc # "idle" => call[c].handle \in Born /\ fin[call[c].handle] = "none"
        /\ call[c].pc = "captured" => call[c].value = None
        /\ InNative(c) => context

\* Owners have distinct addresses; while open each twin holds its owner's value.
OwnersInv ==
    /\ \A g, h \in Owners : pointer[g] = pointer[h] => g = h
    /\ context => \A h \in Owners : pointer[h] \in stash /\ twin[pointer[h]] = made[h]

\* Twins are exactly what the stash keeps, and what they hold is allocated.
TwinsInv ==
    /\ \A a \in Addrs : (twin[a] # None) <=> (a \in stash)
    /\ \A a \in stash : twin[a] \in heap
    /\ jsRoots \subseteq heap

DrainInv == ~draining => copy = <<>>

IInv ==
    /\ TypeOK
    /\ HandlesInv
    /\ CallsInv
    /\ ResolvedIsMade
    /\ OwnersInv
    /\ TwinsInv
    /\ DrainInv
    /\ StashAccounted
    /\ PendingExclusive

\* The bridge implements the handle table: a handle is bound while nobody has
\* begun to finalize it, and to whatever its twin holds.
Table == INSTANCE HandleTable WITH
    open <- context,
    held <- javaRoots,
    bound <- [h \in Handles |->
                IF context /\ pointer[h] # None /\ fin[h] = "none"
                THEN twin[pointer[h]] ELSE None],
    spent <- Born,
    result <- [c \in Calls |-> call[c].value]

\* Every behaviour of the bridge is one of the handle table: a binding is made
\* once, by toObject, ends only by close or, once Java has let go of the handle,
\* by finalization, and every native lookup returns it.
ImplementsHandleTable == Table!Spec
=============================================================================
