# Verification of the Java/JavaScript bridge of JSEngine

JSEngine embeds QuickJS (or Duktape) in the JVM and lets Java and JavaScript
hold on to each other's objects. What is hard about it is not the interpreters,
which are third-party code, but the layer between two garbage collectors and
several Java threads: who keeps an object alive, when a finalization that a JVM
thread queued is applied to the JavaScript heap, and who is inside the
single-threaded runtime meanwhile. That layer is what these modules are about.

Paths below are relative to `src/jsengine/`; `J/` is
`jsengine-java/src/main/java/com/hyprmx/android/jsengine/` and `N/` is
`jsengine-jni/src/main/jni/`.

## Inventory

| component | state | operations | interacts with | hard behaviour | what makes it correct |
|---|---|---|---|---|---|
| Context (`J/JSEngineContext.java`, `N/context-jni.cpp`) | `context`, its monitor, `finalizationQueue`, `jobExecutor` | evaluate, call*, get/setKey*, compileFunction, getGlobalObject, debugger methods, gc, close, finalize, post-invocation work | everything; called by any thread, re-entered from script callbacks | re-entrancy, unsynchronized methods, close at any time, executor tasks | one thread in the runtime; nobody runs on a destroyed context; jobs and finalizations are not stranded; the finalizer thread is never blocked |
| Object bridge, QuickJS (`N/quickjs-jni/QuickJSContext.cpp`, `J/JavaScriptObject.java`) | `stash`, twins, `JavaScriptObject.pointer` | toObject both ways, native methods taking a pointer, finalize, drain | both collectors, the finalizer thread, the monitor | queued pointers against reused addresses; close against queued finalizations | a JavaScriptObject Java can use stands for its object; the stash neither leaks nor loses |
| Object bridge, Duktape (`N/duktape-jni/DuktapeContext.cpp`) | global stash, `JAVA_THIS` weak references | popObject, pushObject, object finalizer, drain | as above | a weak reference outlives its object's finalization; prototypes; 32-bit stash index | as above, and one JavaScriptObject per object |
| Native mappings (`J/WeakExactHashMap.java`) | hash map with weak keys, purge threshold | get, put, purge, clear | bridge (DirectByteBuffer to JavaScriptObject) | keys die, keys' hash codes change | a live key is found; dead entries are bounded |
| Shared ByteBuffers (`N/quickjs-jni/QuickJSContext.cpp`) | ArrayBuffers over Java memory, DirectByteBuffers over JavaScript memory, global references | toObject both ways, ByteBufferFree, finalizers, close | native mappings, stash, both collectors | each side keeps the other's memory, any end may go first | memory that either side can reach is there |
| Java proxies (`J/JavaObject.java`, `J/JavaMethodObject.java`) | none of their own, `Memoize` caches | has, get, set, call, construct | callbacks of script | overload selection | the member selected is the one the arguments fit |
| Memoize (`J/Memoize.java`) | static maps from hash to answer | memoize, clear | Java proxies of all contexts | hash collisions, unsynchronized sharing | an answer belongs to its question |
| Coercions (`J/JSEngineContext.java`, scalars of both native contexts) | two tables per context | put*Coercion, coerce* | bridge, every call and callback | registration during a search; widths and precision of numbers | the right coercion is found; numbers survive the way there and back; a parameter gets its class |
| Exceptions (`J/JSEngineException.java`, rethrow* in the contexts) | pending exceptions | rethrow both ways | nested calls | exception in the handling of an exception | none is lost |
| QuickJS debugger (`../quickjs/quickjs-debugger.c`) | `JSDebuggerInfo`, marks per function, message buffer | attach, check, exception, cooperate, messages, free | runs inside the interpreter, talks to a client over a socket | client and script at once, loss of the client, re-attachment | the client knows whether the script is stopped; breakpoints and steps are obeyed; nobody waits for a client that is gone |

Third-party or out of scope: the QuickJS and Duktape engines, their debug
transports, RAII helpers, annotations and
interfaces, the sample application, tests and build files. `PROJECT.json` gives
the reason for each and lists the hazards, line by line.

## Modules

| module | models | role |
|---|---|---|
| `HandleTable` | | abstract specification of the object bridge, which the QuickJS bridge implements and the Duktape bridge slot by slot until a slot is crossed |
| `QuickJSBridge` | QuickJS object bridge | component; instance `MCQuickJSBridge` |
| `QuickJSBridgeProofs` | | theorems about it |
| `ContextMonitor` | JSEngineContext's monitor, post-invocation work, close, debugger entry | component, run as it is |
| `ContextMonitorProofs` | | theorems about it |
| `WeakExactHashMap` | native mappings | component; instance `MCWeakExactHashMap` |
| `WeakExactHashMapProofs` | | theorems about it |
| `NativeBuffers` | ByteBuffers shared with QuickJS | extends `WeakExactHashMap` with the heaps around it; instance `MCNativeBuffers` |
| `NativeBuffersProofs` | | theorems about it, on top of the map's |
| `QuickJSDebugger` | the in-thread debugger and its client | component; instance `MCQuickJSDebugger` |
| `QuickJSDebuggerProofs` | | theorems about it |
| `Coercions` | coercion tables, numbers in both directions | component; instance `MCCoercions` |
| `CoercionsProofs` | | theorems about its searches and about numbers |
| `DuktapeBridge` | Duktape object bridge | component; instance `MCDuktapeBridge` |
| `DuktapeBridgeProofs` | | theorems about it |
| `JavaObject` | Java proxies and the Memoize caches | component; instance `MCJavaObject`, a small Java program |
| `JavaObjectProofs` | | theorems about it |

Definitions called "Mutant" in a comment are plausible mistakes next to the
definition they vary. No specification uses them; they are there to show that the
properties tell the code from the mistake.

### QuickJSBridge

`toObject(JNIEnv*, JSValue)` allocates a *twin* that holds the value, stashes the
twin under its own address and gives that address to a new `JavaScriptObject`
(`ToJava`). A method of the JavaScriptObject reads `pointer` (`Capture`), waits for
the monitor, and resolves the address to the value (`Enter`, `toValueAsLocal`,
`Return`). When the JVM finds the JavaScriptObject unreachable, its finalizer tests
`context` (`Finalize`) and appends the pointer to `finalizationQueue`
(`FinalizeAdd`); these are two steps because neither is under the context's monitor
and `close` may come between. `finalizeJavaScriptObjects` copies and clears the
queue under the queue's lock (`DrainCopy`) and then, outside that lock, has the
native side erase the stash entries and run the JavaScript collector
(`DrainErase`). Erasing frees the twin, and its address may be used by the next one.

`javaRoots`, `jsRoots` and `heap` stand for what either program can reach and what
is allocated; the collectors free anything unreachable at any time. `made` is a
history variable: the value a handle was created for. `javaRoots` includes the
JavaScriptObjects that native mappings hold on behalf of DirectByteBuffers.

Abstractions: values other than JavaScript objects (numbers, strings, Java proxies)
do not occur. A `close` inside a native activation (a callback that closes its own
context) is left to `ContextMonitor`, so `Close` waits for activations to end. No
user code resurrects a JavaScriptObject from a finalizer.

`PinReceiver` is the one assumption on the JVM. Java allows an object to be
finalized while one of its methods runs, once no field of it is read any more; the
runtime Android apps run on keeps `this` reachable until the method exits (so a
comment in `WeakExactHashMapTests.java`). TRUE is the second, FALSE the first. The
runs and proofs are for TRUE. With FALSE `ResolvedIsMade` fails: a method that waits
for the monitor is resolved through a twin that was freed or reused.

### ContextMonitor

Each thread has a stack of frames, one per method of JSEngineContext it is in, with
a program point. Methods fall into the kinds that differ in their locking and tests:
`invoke` (evaluate, call and friends, with post-invocation work), `access` (get, set,
stringify, ...), `unchecked` (compileFunction and getGlobalObject do not test
`context`), `debug` (waitForDebugger and isDebugging take no monitor), `gc`, `close`
(also called by `finalize`) and the executor's `post`. Script may call back into Java
and from there into further methods (`Callback`). An invocation ends with
`HasFinalizations`, `HasPendingJobs`, `HandlePostInvocation` and, inline or in a
task (`Execute`), `RunPostInvocation`, the drain, `RunJob`*, `JobsDone`. The lock on
`finalizationQueue` is a variable of its own, `queueLock`: `HasFinalizations` and `Copy`
hold it from `LockQueue` to their end, the drain calls native code only after it has
given it back (`Erase`, `EndDrain`), and the JVM's finalizer thread waits for it
(`FinalizerAdd`). `gc()` drains twice in a loop; each round is one `gc` frame. `setJobExecutor` takes no lock:
`SetJobExecutor` gives the field an executor and takes it away again, also between the
test in `HandlePostInvocation` and the use in `Execute`, where a
NullPointerException then ends the invocation and its jobs wait for the next one.

### WeakExactHashMap

The Java HashMap is a set of entries with the hash the key had when it was filed.
`Matches` is what `HashMap.get` compares: the filed hash, then `Entry.equals`.
`Collect` kills a key at any time; `Mutate` changes the hash code of a ByteBuffer
(`ByteBuffer.hashCode` depends on contents, position and limit). `last` and `peak`
are history variables. `setPurgeThreshold` has one caller, `purge`.

### NativeBuffers

`toObject(JSValue)` gives Java a DirectByteBuffer over an ArrayBuffer's own memory (not
the deep copy of README.md:202) and maps it, weakly, to a new JavaScriptObject
(`PassToJava`); `toObject(jobject)` gives the ArrayBuffer back if `unmapNative` finds the
mapping, and otherwise makes a new ArrayBuffer over the buffer's memory that holds the
buffer by a global reference (`PassToScript`). So a chain through both heaps keeps the
memory: weak key, JavaScriptObject, stash, twin, or in the other direction the global
reference. The collectors (`CollectBuffer`, `CollectObject`, `FreeArrayBuffer`) take
whatever nothing holds, at any time; `WriteBuffer` changes a buffer's hash code and
makes its mapping unfindable. What keeps a written buffer safe is that its entry,
found or not, still holds the JavaScriptObject for as long as the key lives. The module
extends `WeakExactHashMap`, whose actions are parts of its own, so the map's properties
are checked in the states the bridge really drives it to. After `close()` a buffer that
Java kept views freed memory; `MemoryLive` speaks of an open context.

### QuickJSDebugger

`js_debugger_check` runs before every opcode. It returns early without a transport
(`CheckDisconnected`) or at the place that was resumed (`CheckSkips`), brings the
function's marks up to date (`Refreshed`), stops (`CheckStops`), goes on with a step
(`CheckPasses`) or looks at the socket every `PeekEvery` checks (`CheckGoes`, `Peek`).
`js_process_debugger_messages` blocks and handles one request per step (`Resume`,
`Pause`, `SetBreakpoints`, `StopOnException`, `Inspect`) until it is told to resume;
`caller` says whom it returns to, and reading fails for good once the client is gone
(`ReadEnd`) or if the message buffer is missing (`ReadNoBuffer`). The client sends and
vanishes at any time. `info` is `JSDebuggerInfo`, `cache` the marks and counters of each
function, `told` what the client was last told, `left` a history variable: the frame
that was resumed has been left.

Code is a sequence of lines per function, in the order of its pc2line table, and the
script moves between them as it likes; `Marked` is what the scan of the table marks. A
message is its kind; of its length only matters whether it is the longer one. An
assertion or a NULL context that ends the process is a value of `fault`.

What the model shows beside its properties: while a `next` or `stepOut` is under way the
check returns before it looks at the socket, so neither a pause nor the loss of the
client is noticed until the step ends (the comment at quickjs-debugger.c:647 speaks of
the stream being looked at "if not paused"; `RunningClientHeard` is stated for no step
under way). `js_debugger_free` frees the message buffer and keeps its length, so a
second session can end in the assertion on a message's length; `ClientViewRight` and
`BreakpointsObeyed` speak of the first session, because later ones also inherit steps
and marks.

### Coercions

A conversion begins with the early returns of `coerceJavaScriptToJava` (`Begin`), then
searches a table: `coerce.get` (`Lookup`), then one loop (to JavaScript) or two (to Java)
over the LinkedHashMap (`Iterate`, `Examine`). A registration is two steps (`PutBegin`,
`PutEnd`). The put methods are synchronized on the context, so that there is one
registration at a time, but the searches are not: a lookup next to a registration may
miss an entry, and an iterator notices growth. `ToScript` and `ToJava` are the scalars of both native contexts,
`Coerced` the coercions the constructor registers; an application's may also answer
null. `Send`, `TakeBack` and `Receive` take a value through all of it in either
direction. Numbers are counted in halves. `Wrap` and `Saturate` are Java's narrowings to
an integer class, with `MAX_VALUE + 1` of the classes as the constant `Limit`; IEEE 754
rounding is the constant function `Rounded`, of which `RoundingAssumption` says what the
code relies on: a rounded number stays as it is, a Double has every Integer, and it has
every Float. `MCCoercions` gives `Rounded` as rounding to the nearest number with so many
significant bits, ties to even.

Two statements of the README's type table do not hold and are exempted: a `long`
passed to QuickJS is a number and loses digits beyond the precision of a double
(README.md:207 says string; only Duktape registers that coercion), and
`JavaScriptObject.set` passes its value without coercion, so that a `byte`, `short` or
`float` becomes a proxy (README.md:209 says number).

### DuktapeBridge

No twins: `pointer` is the object's own heap address, the stash is indexed by its low
32 bits (`Index`, any function of addresses), and `JAVA_THIS` is a weak reference that
`popObject` and the finalizer look up along the prototype chain (`FoundThis`; `Proto`
gives chains of length one). A JNI weak global reference is cleared only after
finalization (`ClearWeak`), so `PopExisting` may return an object whose finalization is
queued. A drain unsets the finalizer of the objects it works on (`mute`), and so works on
an object twice if its address was queued twice (`Unstash`).

Script does as it likes, and three things it may do defeat the scheme: an object
crosses to Java again before the finalization of its earlier JavaScriptObject is applied;
two objects share a slot of the stash; an object takes down the weak reference it inherits
from its prototype. The history variable `crossed` collects the slots where one of them
has happened. Nothing is assumed about script, prototypes or the cut; the properties say
what holds in the slots that are not crossed, whatever goes on in those that are, and the
run `DuktapeRemarshal` and the source's own comment at line 336 show what is lost in one
that is. Each of the causes is needed: without it in `crossed` a property fails. Where
the code would use a deleted reference or a freed address the mildest outcome is taken.

`Table(i)` maps the JavaScriptObjects with pointers in slot `i` to `HandleTable`: one is
bound to what `duk_push_heapptr` finds at its pointer (`ObjectAt`) from `PopNew` to
`Finalize`, and `PopExisting` recalls it. `ImplementsHandleTable` says that every step
is, for every slot not crossed, a step of its table or a stutter.

### JavaObject

Script's get, set, call and construct on Java objects, through the static `Memoize`
caches. A get looks for an entry of the map, the length of an array, a field, a getter and
a method, in this order; a set for a field, a setter and a map to put the entry into
(`Start`, `Continue`; `AccessKind` states the two orders for `MemberFound`).
Reflection is given by constants (`Fields`, `Methods`, ...); `findField`,
`getGetterMethod`, `hasMethod`, `Best` and `getInterfaceMethod` are what the code
computes from it, and `Hash` is what it files the answer under. The score of an overload
is the penalty for its number of parameters less the points of its parameters; the
points are counted as a set (`Earned`). `memoize` is three
steps: `Probe` (containsKey), then `Fetch` (get) or `Fill` (process and put). The maps
have no lock and are shared by all contexts. The race inside HashMap is a choice: next
to a put of another thread an entry may not be seen or a put may be lost (`Racing`).
`alone` and `outcome` are history variables; `alone` says that no other thread was at
work during a request, and an outcome tells whether the target was a Map with the key.
Hashes agree when all that is hashed agrees; for a Method that
is its class and its name. Left out: numeric keys, which go straight to the array or
List (`set` of an array element is refused, because it tests for
`java.lang.reflect.Array`), the conversion of arguments and results, and functions'
`call` and `apply`.

## Runs

Passing runs:

| run | instance and why it is enough | shows |
|---|---|---|
| `QuickJSBridge` | 4 handles over 2 addresses and 2 values, 2 overlapping activations: an address has up to four owners in turn, a finalization can be queued, another in the copy, while a third handle is live | `HandleResolves`, `ResolvedIsMade`, `StashAccounted`, `PendingExclusive`, the inductive invariant `IInv`, and `ImplementsHandleTable` |
| `ContextMonitor` | 2 threads, one of them also the executor's, 3 nested methods, every kind of method, callbacks that invoke and close, an executor that comes and goes, up to 2 outstanding tasks, fairness | `OneThreadRunsScript`, `CloseHurtsOnlyItself`, `QueueLockBrief`, `NoStrandedJobs`, `FinalizationsApplied`, `FinalizerNeverBlocks` |
| `NativeBuffers` | 3 buffers over 2 hash codes (so some collide), one of them written to, 2 ArrayBuffers: two buffers view one array while a third, or an array over a buffer, goes | `MemoryLive`, `SameArrayBuffer`, and of the map `MappedStaysFound`, `BoundInv`, `GarbageBounded` |
| `QuickJSDebugger` | a function of 2 lines, breakpoints in 2 files, 2 frames (recursion included), 2 sessions, 2 messages of every kind after the opening ones, fairness | `ClientViewRight`, `BreakpointsObeyed`, `StopsWhereAsked`, `FaultsExplained`, `PausedIsReleased`, `RunningClientHeard` |
| `Coercions` | every number of scaled-down classes (2, 3, 4 and 6 bits; floating numbers of 2 and 4 significant bits; in the order of Java's) on both engines, a hierarchy of 3 classes, 2 registrations at any moment | `NumbersComeBack`, `ParameterFits`, `SearchRight` |
| `DuktapeBridge` | 3 handles; 2 objects, one the prototype of the other; 3 addresses, two of them in one slot of the stash, so that one slot stays sound while the other is crossed in any of the three ways | `HardReferencedUncrossed`, `QueuedPointerLive`, `SameProxyInstance`, and `ImplementsHandleTable` |
| `JavaObject` | 2 threads, 3 requests (one fills a cache, two race) out of 15 on objects, Classes, a Map with a getter of one key and a setter of another, an array and a dynamic proxy | `AnswerBelongs`, `MemberFound`, `ExactOverloadWins` |

Bounds: `MaxRequests` caps the requests and coercion registrations of `JavaObject`;
`MaxDepth`, `MaxJobs`, `MaxQueue` and `MaxTasks` cap the frames of a thread,
pending jobs, queued finalizations, and tasks with the invocations that may submit
one. The counts are only ever compared with zero, so one job and one finalization
reach every branch. `SetJobExecutor` sets and resets once. `MaxSends` caps what a
debugger client sends after its opening, `MaxSessions` its attachments, `PeekEvery`
stands for 10000 with the smallest value that has both outcomes, `MaxPuts` caps
registrations of coercions. `CHECK_DEADLOCK FALSE` is set where handles are used up: each
JavaScriptObject is created at most once, so a bridge may come to rest; so do requests,
buffers, registrations, and a debugged process that has ended.

Symmetry: handles, values and addresses are interchangeable in the bridge, threads
in `JavaObject`, arrays and hash codes in `NativeBuffers`. No run that checks a liveness
property uses symmetry.

Runs that show a disagreement between the code and what the repository says of it
(details and quotations under "findings" in `PROJECT.json`):

| run | statement | what happens |
|---|---|---|
| `ContextDebuggerClose` | README.md:237, thread safe by way of Java synchronization | close destroys the context between the test and the use in a debugger method |
| `WeakMapBuffers` | JSEngineContext.java:30, a JS buffer is mapped from its DirectByteBuffer | a write to the buffer changes its hash code; the mapping is not found |
| `DuktapeRemarshal` | DuktapeContext.cpp:1001, the stash reference kept the object for the Java side and can go | it goes although the object was passed to Java again |
| `DuktapePrototype` | DuktapeContext.cpp:286, the internal "this" points to the Java instance of that object | it is inherited from a prototype |
| `JavaStatics` | JSEngineTests.java:913, a static field set through a Class is that class's | all Class objects share one memoized field per name, that of the first class asked |

One more such statement has no run of its own, because it needs none: README.md:242 says
that JavaScriptObjects are deduped, "so the same proxy instance is always used";
`QuickJSContext::toObject` (line 476) makes a new one every time, as `ToJava` of
`QuickJSBridge` does. Duktape dedupes (`SameProxyInstance`), but only in slots of the
stash that have not been crossed.

### Fairness

`ContextMonitor` and `QuickJSDebugger` use it. In `ContextMonitor` a thread that is in
Java code of the context is scheduled (weak fairness of `Step`); a monitor or a lock that
becomes free again and again is acquired (strong fairness of `Acquire` and of
`FinalizerAdd`: the JVM does not promise FIFO, but starves no thread for ever in
practice); and the executor starts its tasks, which is what an Executor is for. That
scripts return is not part of it: `FinalizerNeverBlocks` holds although a script may run
under the context's monitor for ever. `FinalizationsApplied` has it as its hypothesis
(`ScriptsEnd`: native code returns, and chains of promise jobs end; a script that
re-queues itself for ever never returns from `runJobs`). Nothing says that a thread calls
a method, that script calls back or creates jobs, or that the JVM collects anything.
Callbacks of the run invoke and close but use no accessors: with those, a script that
calls back for ever would starve the executor's thread without ending, which is no
fault of the context.

In `QuickJSDebugger` the script's thread is scheduled (weak fairness of what it does
next). Nothing says that a script leaves its line, returns, or that a client sends.

## Proofs

All theorems are about arbitrary, also infinite, constant sets.

`QuickJSBridgeProofs`, from `PinReceiver` and `ConstantsAssumption`:

* `Inductive`: `IInv` is an invariant. `HandleResolves` alone is not inductive: it speaks
  of handles Java can still use, but the danger comes from addresses. Call a handle
  an *owner* of its address until its pointer has been queued. `IInv` says that owners
  have distinct addresses (`OwnersInv`), that the stash is exactly the owned and the
  pending addresses (`StashAccounted`), that no address is pending twice or both
  pending and owned (`PendingExclusive`), that twins and stash agree and hold allocated
  values (`TwinsInv`), and that activations pin their receivers (`CallsInv`). A new twin
  then gets an address that nobody owns and nothing pending names, and a drain can
  only hit addresses without an owner.
* `TypeCorrect`, `HandleSafety` (`HandleResolves`), `LookupSafety` (`ResolvedIsMade`),
  `StashSafety` (`StashAccounted`) and `PendingSafety` (`PendingExclusive`) follow.
* `Refinement`: `Spec => ImplementsHandleTable`. A handle is bound from `ToJava` to
  `Finalize`; drains are stuttering steps of the table because what they erase is not
  bound any more.

`WeakExactHashMapProofs`, without assumptions beyond the constants':

* `BoundInductive`, `TypeCorrect`, `BoundedGarbage`: the map fits its threshold, the threshold is at
  most twice the peak of live entries, hence `GarbageBounded`.
* `StableKeysFound`: `MappedStaysFound`; the entry of a live, stable key stays in the map,
  and no other entry has its key and hash.

`NativeBuffersProofs`, from the constants' assumptions alone:

* `BuffersUseTheMap`: `BufferSpec => Spec`. Whatever the two heaps do, the map sees its own
  operations, so the theorems above hold of it here too.
* `HeapInductive`: `TypeOK /\ HeapInv`. `MemoryLive` is about buffers a program can reach;
  what keeps their memory is a chain the program does not see. `HeapInv` states its
  links: a live buffer over an ArrayBuffer has an entry in the map for as long as it
  lives, findable or not (`Mapped`); an entry names the JavaScriptObject of its key, whose
  twin is stashed (`Entries`); what is stashed is not freed (`Held`); an ArrayBuffer over
  a Java buffer keeps the buffer (`Pinned`). A purge erases only entries of dead keys, and
  a put replaces only an entry with the same key. The step that returns a mapped buffer
  to script needs the map's `FoundInv` beside it.
* `MemorySafety` (`MemoryLive`) and `SameBufferBack` (`SameArrayBuffer`) follow.

`ContextMonitorProofs`, from `MonitorAssumption`, for any threads, depth of callbacks and
bounds:

* `Inductive`: `IInv`. A monitor is held once however often it is re-entered, so the
  invariant is about every frame of every stack: one that holds the monitor is on the
  owner's stack (`MonitorInv`); on a closed context every frame is the closer's or at a
  program point before the test of `context`, after the use of it, or in a method
  without a test (`CloseInv`); whoever is at `jobExecutor.execute` has seen an
  executor (`ExecuteInv`); the queue's lock is held exactly by the frame that tests or
  copies the queue.
* `TypeCorrect`, `MutualExclusion` (`OneThreadRunsScript`), `CloseSafety`
  (`CloseHurtsOnlyItself`), `QueueLockNeverWaits` (`QueueLockBrief`) and the action
  property `JobsHandedOn` (`NoStrandedJobs`).

`DuktapeBridgeProofs`, from `DuktapeAssumption` alone, for any script, prototypes and cut of
the addresses:

* `Inductive`: `IInv`. As long as the context is open, objects have distinct addresses
  (`PlaceInv`), and in a slot that is not crossed: the object of a JavaScriptObject that is
  not finalized is at its pointer, stashed, refers back to it, and nothing is queued for
  the slot (`PendingInv`); a `JAVA_THIS` that refers to a finalized one has its address
  queued (`ThisInv`); a queued pointer is the address of an object still stashed, in the
  queue or in the copy but not in both (`QueueInv`). So the drain never hits an address
  that was given away again. What a step does in a crossed slot cannot reach another one:
  stash entries are erased by slot, and a weak reference deleted for an object that only
  inherits it crosses the slot it is taken from.
* `TypeCorrect`, `StashSafety` (`HardReferencedUncrossed`; its corollary
  `StashSafetyUncrossed` is `HardReferenced` where no slot was ever crossed), `DrainSafety`
  (`QueuedPointerLive`), `Deduplicated` (`SameProxyInstance`).
* `PoppedRight`: what `popObject` returns was made for the object it was asked for or for
  its prototype. That it may be the prototype's is the run `DuktapePrototype`.
* `Refinement`: `Spec => ImplementsHandleTable`, slot by slot. What is at the pointer of a
  JavaScriptObject that is not finalized is what it was made for (`FindsMade`); `PopNew`
  binds, `Finalize` releases, `PopExisting` recalls what is bound, because recalling a
  finalized one crosses the slot, and crossings are for good (`CrossedGrows`).

`QuickJSDebuggerProofs`, from `DebuggerAssumption`, for any program, number of sessions,
frames and messages:

* `Inductive`: `IInv`. Beside types and where the thread can be (`ThreadInv`) it relates the
  message buffer to the session (`BufferInv`: a freed buffer with a length takes a second
  session), requests for a frame to the stack (`InspectInv`: one sent before anything
  that resumes finds the stack it was sent for), what the client was told to the loop
  (`ToldInv`), and the depth kept for a step to the frame that was resumed (`LeftInv`).
* `TypeCorrect`, `ClientView` (`ClientViewRight`), `StepSafety` (`StopsWhereAsked`),
  `FaultSafety` (`FaultsExplained`).
* `BreakpointSafety` (`BreakpointsObeyed`), under `Rising`: every table of lines ends on its
  largest line. The proof needs it and so does the code: `last_line_num` is the line of
  the table's last entry, and breakpoints beyond it are passed over, so that in a
  function whose last entry jumps back (a loop's) they are lost when the function
  is brought up to date a second time. The functions of the run satisfy it. `CacheInv`
  says that a function whose counter is up to date has the marks of the breakpoints last
  received for its file.

`JavaObjectProofs`, from `WorldAssumption`, `ReflectionAssumption` (reflection answers with
arrays) and `HashesTellApart`: classes whose arrays of
members hash alike have the same members, and `java.lang.Class` hashes like no other. It
holds of classes with distinct names unless the bits of two hashes happen to agree;
TLC evaluates it on the run's program (`MembersAssumption`).

* `Inductive`: `IInv`. Every entry of a cache is the answer to some request that asks this
  cache (`StoreInv`); that it is the answer to every request with this hash is what the
  lemmas about `Hash` show. A request undisturbed by other threads has come to its present
  cache because the earlier ones had nothing (`ProgressInv`), and a get because the map
  has no entry for it still (`EntryInv`), which needs it that the frames of all threads
  are well formed and that whoever is alone is the only one at work (`WorkInv`).
* `TypeCorrect`, `CacheSafety` (`AnswerBelongs`), `AccessSafety` (`MemberFound`).
* `OverloadSafety` (`ExactOverloadWins`), for any number of overloads and arguments. Identity
  earns an argument more than anything else can and another number of parameters costs
  more than it can earn, so that whoever scores as low as an exact overload has its
  parameters (`ExactScoresLowest`); some overload scores lowest, by well-founded
  induction (`LeastOf`), and `Best` is the first such (`BestIsExact`). `OverloadInv` carries
  this through the caches on top of `IInv`: an entry for the request is an answer to it,
  a frame that asks for the interface method has already got the overload, and an
  undisturbed one fetches only what is there.

`CoercionsProofs`, from `CoercionAssumption` and `RoundingAssumption`, for any classes,
inheritance, registrations, limits and rounding:

* `Inductive`: `IInv`. A loop began with the first entries of the table as it is now, and
  only classes of the application follow them (`SearchInv`); in a search during which no
  registration was under way the table is the one it began with, `get` has not found the
  class, the first loop has passed classes that do not extend it, the second classes it
  does not extend (`SeenInv`).
* `SearchSafety` (`SearchRight`), an action property of the step with which a search ends.
* `ConversionsInductive`: `ConversionInv`, on top of `IInv`. The tables keep the
  constructor's coercions for the engine and hold a class once (`KeysInv`); the last loop
  has passed only entries the class does not extend, also in a race (`ExaminedInv`);
  the value it carries is what this engine makes of the value given (`AskedInv`); and
  what a conversion has ended with is right for what it was asked (`AnsweredInv`). Below
  it are lemmas about the operators: the narrowings end in the range of their class and
  leave alone what is in it (`WrapIn`, `CastsIn`, `NarrowIn`), a wider class has every
  number of a narrower one (`Wider`), and marshalling keeps the number unless a double
  has to stand for it (`Marshalled`, `RoundTrip`).
* `TypeCorrect` (`TypeOK`), `NumbersSurvive` (`NumbersComeBack`) and `ParametersFit`
  (`ParameterFits`) follow.

Model-checked only: liveness (`FinalizationsApplied`, `FinalizerNeverBlocks`,
`PausedIsReleased`, `RunningClientHeard`), because fairness and `ENABLED` are out of the
prover's reach. That a rounding to so many significant bits has the three properties of
`RoundingAssumption` is evaluated by TLC on the run's numbers; for Java's it is IEEE 754.

## Not modelled

The two engines and their libraries are nearly all of the repository's lines; they are
third-party code and appear as what they do to the bridge: allocation, reachability,
freeing, pending jobs, and the debugger's hooks. Of the library itself: exception
translation, global references of Java proxies (see the plan), the reflection of
interface proxies and `JSValue` (stateless), the promise interfaces, the Duktape debug
transport (socket I/O), RAII helpers. Within modelled parts: what debugger inspections
compute (among them that an `evaluate` which throws during a stop for an exception
clears the exception the script was about to see), its context events and its
attachment by environment variables; arrays, ByteBuffers and functional interfaces in
coercions; `unmapNative` called by an application without the monitor; accidental
collisions of 32-bit hashes; map entries that Java itself adds or removes.

## Plan

Done: HandleTable; QuickJSBridge, ContextMonitor, WeakExactHashMap, NativeBuffers,
DuktapeBridge, QuickJSDebugger, JavaObject (with Memoize) and Coercions, each with its
proofs.

Next, in this order:

1. Java proxies: global references held by proxies in both engines, freed once each.
2. Exception translation through nested calls.
