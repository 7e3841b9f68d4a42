--------------------------- MODULE ContextMonitor ---------------------------
(***************************************************************************)
(* Who is inside the JavaScript runtime, and when: the methods of          *)
(* JSEngineContext seen as critical sections of its (reentrant) monitor.   *)
(*                                                                         *)
(* A thread carries a stack of frames, one per JSEngineContext method it   *)
(* is executing; script running in native code may call back into Java,    *)
(* which may call further methods on the same thread.  An invocation ends  *)
(* with handlePostInvocation, which applies queued finalizations and runs  *)
(* promise jobs, inline or through the job executor.  close() zeroes the   *)
(* field `context` and then destroys the native context.                   *)
(***************************************************************************)
EXTENDS Naturals, Sequences, FiniteSets

CONSTANTS
    Threads,      \* Java threads using the context
    Workers,      \* the threads the job executor runs tasks on
    Ops,          \* kinds of method a thread starts
    CallbackOps,  \* kinds of method a Java callback of a script starts
    MaxDepth,     \* bound: methods nested on one thread
    MaxJobs,      \* bound: pending promise jobs
    MaxQueue,     \* bound: queued finalizations
    MaxTasks,     \* bound: tasks submitted and invocations that may submit one
    None

\* invoke:    evaluate, evaluateModule, call, callConstructor, callMethod,
\*            callProperty
\* access:    getKey*, setKey*, stringify, getHeapSize, cooperateDebugger,
\*            debuggerAppNotify
\* unchecked: compileFunction, getGlobalObject
\* debug:     waitForDebugger, isDebugging
\* gc:        gc()
Kinds == {"invoke", "access", "unchecked", "debug", "gc", "close"}

ASSUME MonitorAssumption ==
    /\ None \notin Threads /\ Workers \subseteq Threads
    /\ Ops \subseteq Kinds /\ CallbackOps \subseteq Kinds
    /\ {MaxDepth, MaxJobs, MaxQueue, MaxTasks} \subseteq Nat \ {0}

VARIABLES
    context,    \* the field JSEngineContext.context is not 0
    native,     \* the native context: "live" or "destroyed"
    closer,     \* the thread whose close() zeroed the field
    owner,      \* owner of the JSEngineContext's monitor
    stack,      \* per thread, innermost frame first
    jobs,       \* pending jobs of the JavaScript runtime
    queue,      \* length of finalizationQueue
    queueLock,  \* owner of finalizationQueue's monitor, the finalizer apart
    finalizer,  \* the JVM's finalizer thread in finalizeJavaScriptObject
    tasks,      \* runPostInvocation tasks the executor has not started
    executor    \* jobExecutor: "null", "set", or "reset" to null

vars == <<context, native, closer, owner, stack, jobs, queue, queueLock, finalizer, tasks, executor>>

Frame(op, pc) == [op |-> op, pc |-> pc]

\* Program points at which a frame is inside a synchronized method.
HoldsMonitor(f) == f.pc \notin {"enter", "debugCheck", "debugNative"}

Busy(t) == stack[t] # <<>>
At(t, pc) == Busy(t) /\ Head(stack[t]).pc = pc

Goto(t, pc) == stack' = [stack EXCEPT ![t] = <<Frame(Head(@).op, pc)>> \o Tail(@)]

\* A synchronized method returns: the monitor is free once no frame holds it.
Leave(t) ==
    /\ stack' = [stack EXCEPT ![t] = Tail(@)]
    /\ owner' = IF \E i \in 2 .. Len(stack[t]) : HoldsMonitor(stack[t][i])
                THEN owner ELSE None

\* Tasks submitted, and invocations that may still submit one.
TaskLoad ==
    tasks + Cardinality({p \in Threads \X (1 .. MaxDepth) :
                            p[2] <= Len(stack[p[1]]) /\ stack[p[1]][p[2]].op = "invoke"})

Init ==
    /\ context = TRUE
    /\ native = "live"
    /\ closer = None
    /\ owner = None
    /\ stack = [t \in Threads |-> <<>>]
    /\ jobs = 0
    /\ queue = 0
    /\ queueLock = None
    /\ finalizer = "idle"
    /\ tasks = 0
    /\ executor = "null"

------------------------------------------------------------------------------
(* Entering and leaving methods.                                           *)

Push(t, op) ==
    /\ Len(stack[t]) < MaxDepth
    /\ op = "invoke" => TaskLoad < MaxTasks
    /\ stack' = [stack EXCEPT ![t] =
                   <<Frame(op, IF op = "debug" THEN "debugCheck" ELSE "enter")>> \o @]
    /\ UNCHANGED <<context, native, closer, owner, jobs, queue, queueLock, finalizer, tasks, executor>>

\* An idle thread calls a method of the context.
Begin(t) == ~Busy(t) /\ \E op \in Ops : Push(t, op)

\* Script of an invocation, an accessor or a job calls back into Java (proxyGet,
\* proxyApply, ...), and the callback calls a method of the context.
Callback(t) == (At(t, "native") \/ At(t, "jobs")) /\ \E op \in CallbackOps : Push(t, op)

\* Where a method goes once it has the monitor.
FirstPoint(op) ==
    CASE op = "close" -> "close"
      [] op = "post" -> "post"
      [] op = "unchecked" -> "native"
      [] op = "gc" -> "drain"
      [] OTHER -> "check"

\* Mutant: runPostInvocation is not synchronized.
AcquireExceptPost(t) ==
    /\ At(t, "enter")
    /\ owner \in {None, t} \/ Head(stack[t]).op = "post"
    /\ owner' = IF owner = None THEN t ELSE owner
    /\ Goto(t, FirstPoint(Head(stack[t]).op))
    /\ UNCHANGED <<context, native, closer, jobs, queue, queueLock, finalizer, tasks, executor>>

\* monitorenter: free, or held by the same thread further out.
Acquire(t) ==
    /\ At(t, "enter")
    /\ owner \in {None, t}
    /\ owner' = t
    /\ Goto(t, FirstPoint(Head(stack[t]).op))
    /\ UNCHANGED <<context, native, closer, jobs, queue, queueLock, finalizer, tasks, executor>>

\* Mutant: no test of context.
CheckNothing(t) ==
    /\ At(t, "check")
    /\ Goto(t, "native")
    /\ UNCHANGED <<context, native, closer, owner, jobs, queue, queueLock, finalizer, tasks, executor>>

\* if (context == 0) return null;  else the native method.
Check(t) ==
    /\ At(t, "check")
    /\ IF context THEN Goto(t, "native") /\ UNCHANGED owner ELSE Leave(t)
    /\ UNCHANGED <<context, native, closer, jobs, queue, queueLock, finalizer, tasks, executor>>

\* Running script creates a promise job.
EnqueueJob(t) ==
    /\ At(t, "native")
    /\ jobs < MaxJobs
    /\ jobs' = jobs + 1
    /\ UNCHANGED <<context, native, closer, owner, stack, queue, queueLock, finalizer, tasks, executor>>

\* The native method returns or throws: an invocation goes on to its finally
\* block, the others leave.
NativeReturn(t) ==
    /\ At(t, "native")
    /\ IF Head(stack[t]).op = "invoke"
       THEN Goto(t, "tasks") /\ UNCHANGED owner
       ELSE Leave(t)
    /\ UNCHANGED <<context, native, closer, jobs, queue, queueLock, finalizer, tasks, executor>>

------------------------------------------------------------------------------
(* handlePostInvocation.                                                   *)

\* synchronized (finalizationQueue), in hasPostInvocationTasks and in
\* finalizeJavaScriptObjects.
LockQueue(t) ==
    /\ \/ At(t, "tasks") /\ Goto(t, "isEmpty")
       \/ At(t, "drain") /\ Goto(t, "copy")
    /\ queueLock = None
    /\ queueLock' = t
    /\ UNCHANGED <<context, native, closer, owner, jobs, queue, finalizer, tasks, executor>>

\* hasPostInvocationTasks, under the queue's lock: anything to finalize?
HasFinalizations(t) ==
    /\ At(t, "isEmpty")
    /\ Goto(t, IF queue > 0 THEN "handle" ELSE "hasJobs")
    /\ queueLock' = None
    /\ UNCHANGED <<context, native, closer, owner, jobs, queue, finalizer, tasks, executor>>

\* Mutant: only finalizations count as post-invocation tasks.
NeverPendingJobs(t) ==
    /\ At(t, "hasJobs")
    /\ Leave(t)
    /\ UNCHANGED <<context, native, closer, jobs, queue, queueLock, finalizer, tasks, executor>>

\* hasPostInvocationTasks, outside the queue's lock: hasPendingJobs(context),
\* with no test of context.
HasPendingJobs(t) ==
    /\ At(t, "hasJobs")
    /\ IF jobs > 0 THEN Goto(t, "handle") /\ UNCHANGED owner ELSE Leave(t)
    /\ UNCHANGED <<context, native, closer, jobs, queue, queueLock, finalizer, tasks, executor>>

\* if (jobExecutor == null) runPostInvocation();
HandlePostInvocation(t) ==
    /\ At(t, "handle")
    /\ Goto(t, IF executor = "set" THEN "execute" ELSE "post")
    /\ UNCHANGED <<context, native, closer, owner, jobs, queue, queueLock, finalizer, tasks, executor>>

\* jobExecutor.execute(...), which reads the field again: a NullPointerException
\* ends the invocation if it was reset meanwhile.
Execute(t) ==
    /\ At(t, "execute")
    /\ Leave(t)
    /\ tasks' = IF executor = "set" THEN tasks + 1 ELSE tasks
    /\ UNCHANGED <<context, native, closer, jobs, queue, queueLock, finalizer, executor>>

\* setJobExecutor, unsynchronized: an executor is set and, bounded to once, taken
\* away again at any moment.
SetJobExecutor ==
    /\ Workers # {}
    /\ \/ executor = "null" /\ executor' = "set"
       \/ executor = "set" /\ executor' = "reset"
    /\ UNCHANGED <<context, native, closer, owner, stack, jobs, queue, queueLock, finalizer, tasks>>

\* The executor starts a task.
RunTask(t) ==
    /\ t \in Workers /\ ~Busy(t)
    /\ tasks > 0
    /\ tasks' = tasks - 1
    /\ stack' = [stack EXCEPT ![t] = <<Frame("post", "enter")>>]
    /\ UNCHANGED <<context, native, closer, owner, jobs, queue, queueLock, finalizer, executor>>

\* Mutant: jobs only, no finalizeJavaScriptObjects.
RunJobsOnly(t) ==
    /\ At(t, "post")
    /\ IF context THEN Goto(t, "jobs") /\ UNCHANGED owner ELSE Leave(t)
    /\ UNCHANGED <<context, native, closer, jobs, queue, queueLock, finalizer, tasks, executor>>

\* runPostInvocation: if (context == 0) return;
RunPostInvocation(t) ==
    /\ At(t, "post")
    /\ IF context THEN Goto(t, "drain") /\ UNCHANGED owner ELSE Leave(t)
    /\ UNCHANGED <<context, native, closer, jobs, queue, queueLock, finalizer, tasks, executor>>

\* The end of finalizeJavaScriptObjects: runJobs follows, except in gc().
EndDrain(t) ==
    IF Head(stack[t]).op = "gc" THEN Leave(t) ELSE Goto(t, "jobs") /\ UNCHANGED owner

\* Mutant: takes one element off a queue that may be empty.
CopyOne(t) ==
    /\ At(t, "copy")
    /\ queue' = queue - 1
    /\ queueLock' = None
    /\ IF context THEN Goto(t, "erase") /\ UNCHANGED owner ELSE EndDrain(t)
    /\ UNCHANGED <<context, native, closer, jobs, finalizer, tasks, executor>>

\* Mutant: the native finalizeJavaScriptObjects is called inside the synchronized block.
CopyLocked(t) ==
    /\ At(t, "copy")
    /\ queue' = 0
    /\ IF queue > 0 /\ context
       THEN Goto(t, "erase") /\ UNCHANGED <<owner, queueLock>>
       ELSE EndDrain(t) /\ queueLock' = None
    /\ UNCHANGED <<context, native, closer, jobs, finalizer, tasks, executor>>

\* finalizeJavaScriptObjects, under the queue's lock: empties the queue, whether or not
\* the context is still there to be told.
Copy(t) ==
    /\ At(t, "copy")
    /\ queue' = 0
    /\ queueLock' = None
    /\ IF queue > 0 /\ context THEN Goto(t, "erase") /\ UNCHANGED owner ELSE EndDrain(t)
    /\ UNCHANGED <<context, native, closer, jobs, finalizer, tasks, executor>>

\* finalizeJavaScriptObjects(context, copy), outside the queue's lock.
Erase(t) ==
    /\ At(t, "erase")
    /\ EndDrain(t)
    /\ UNCHANGED <<context, native, closer, jobs, queue, queueLock, finalizer, tasks, executor>>

\* runJobs: one pending job runs; it may leave a new one behind.
RunJob(t) ==
    /\ At(t, "jobs")
    /\ jobs > 0
    /\ jobs' \in {jobs - 1, jobs}
    /\ UNCHANGED <<context, native, closer, owner, stack, queue, queueLock, finalizer, tasks, executor>>

\* runJobs returns when no job is pending.
JobsDone(t) ==
    /\ At(t, "jobs")
    /\ jobs = 0
    /\ Leave(t)
    /\ UNCHANGED <<context, native, closer, jobs, queue, queueLock, finalizer, tasks, executor>>

------------------------------------------------------------------------------
(* Closing.                                                                *)

\* close(): a second close finds context == 0.
CloseField(t) ==
    /\ At(t, "close")
    /\ IF context
       THEN /\ context' = FALSE
            /\ closer' = t
            /\ Goto(t, "destroy")
            /\ UNCHANGED owner
       ELSE Leave(t) /\ UNCHANGED <<context, closer>>
    /\ UNCHANGED <<native, jobs, queue, queueLock, finalizer, tasks, executor>>

\* destroyContext: pending jobs go with the runtime.
DestroyContext(t) ==
    /\ At(t, "destroy")
    /\ native' = "destroyed"
    /\ jobs' = 0
    /\ Leave(t)
    /\ UNCHANGED <<context, closer, queue, queueLock, finalizer, tasks, executor>>

------------------------------------------------------------------------------
(* waitForDebugger and isDebugging: no monitor.                            *)

\* if (context == 0) return;
DebugCheck(t) ==
    /\ At(t, "debugCheck")
    /\ IF context THEN Goto(t, "debugNative") ELSE stack' = [stack EXCEPT ![t] = Tail(@)]
    /\ UNCHANGED <<context, native, closer, owner, jobs, queue, queueLock, finalizer, tasks, executor>>

\* The native method returns.
DebugReturn(t) ==
    /\ At(t, "debugNative")
    /\ stack' = [stack EXCEPT ![t] = Tail(@)]
    /\ UNCHANGED <<context, native, closer, owner, jobs, queue, queueLock, finalizer, tasks, executor>>

------------------------------------------------------------------------------
(* The JVM's finalizer thread: finalizeJavaScriptObject.                   *)

\* The unsynchronized test of context.
FinalizerCheck ==
    /\ finalizer = "idle"
    /\ queue < MaxQueue
    /\ context
    /\ finalizer' = "adding"
    /\ UNCHANGED <<context, native, closer, owner, stack, jobs, queue, queueLock, tasks, executor>>

\* Mutant: finalizeJavaScriptObject is synchronized.
FinalizerAddSynchronized ==
    /\ finalizer = "adding"
    /\ owner = None /\ queueLock = None
    /\ queue' = queue + 1
    /\ finalizer' = "idle"
    /\ UNCHANGED <<context, native, closer, owner, stack, jobs, queueLock, tasks, executor>>

\* synchronized (finalizationQueue) { add }
FinalizerAdd ==
    /\ finalizer = "adding"
    /\ queueLock = None
    /\ queue' = queue + 1
    /\ finalizer' = "idle"
    /\ UNCHANGED <<context, native, closer, owner, stack, jobs, queueLock, tasks, executor>>

------------------------------------------------------------------------------
\* Script ends, or the debugger lets go: the thread comes back from native code.
Resume(t) == NativeReturn(t) \/ DebugReturn(t)

\* What the thread does inside a method, script apart.
Step(t) ==
    \/ Check(t) \/ LockQueue(t) \/ HasFinalizations(t) \/ HasPendingJobs(t)
    \/ HandlePostInvocation(t) \/ Execute(t)
    \/ RunPostInvocation(t) \/ Copy(t) \/ Erase(t) \/ JobsDone(t)
    \/ CloseField(t) \/ DestroyContext(t) \/ DebugCheck(t)

Next ==
    \/ \E t \in Threads : Begin(t) \/ Callback(t) \/ Acquire(t) \/ Step(t)
                          \/ Resume(t) \/ EnqueueJob(t) \/ RunTask(t) \/ RunJob(t)
    \/ FinalizerCheck \/ FinalizerAdd \/ SetJobExecutor

Spec == Init /\ [][Next]_vars

------------------------------------------------------------------------------
(* Fairness.  A thread inside a method of JSEngineContext is scheduled; a  *)
(* lock that is free again and again is eventually acquired; the executor  *)
(* starts its tasks.  Nothing says that a script returns, that a thread    *)
(* ever calls a method, that a script ever calls back or creates jobs, or  *)
(* that the JVM ever collects an object.                                   *)

Fairness ==
    /\ \A t \in Threads : WF_vars(Step(t)) /\ SF_vars(Acquire(t))
    /\ \A t \in Workers : SF_vars(RunTask(t))
    /\ SF_vars(FinalizerAdd)

FairSpec == Spec /\ Fairness

------------------------------------------------------------------------------
(* Correctness.                                                            *)

PCs == {"enter", "check", "native", "tasks", "hasJobs", "handle", "execute", "post",
        "isEmpty", "drain", "copy", "erase", "jobs", "close", "destroy", "debugCheck",
        "debugNative"}

\* The monitor, the frames, the job and task counts and the finalization queue
\* of JSEngineContext keep their kinds; no count drops below zero.
TypeOK ==
    /\ context \in BOOLEAN
    /\ native \in {"live", "destroyed"}
    /\ closer \in Threads \cup {None}
    /\ owner \in Threads \cup {None}
    /\ stack \in [Threads -> Seq([op : Kinds \cup {"post"}, pc : PCs])]
    /\ jobs \in Nat
    /\ queue \in Nat
    /\ queueLock \in Threads \cup {None}
    /\ finalizer \in {"idle", "adding"}
    /\ tasks \in Nat
    /\ executor \in {"null", "set", "reset"}

\* Thread t has a frame, innermost or suspended in a callback, at one of points.
Inside(t, points) == \E i \in 1 .. Len(stack[t]) : stack[t][i].pc \in points

\* Points in or at the door of native code entered from a synchronized method.
ScriptPoints == {"native", "hasJobs", "erase", "jobs", "destroy"}

\* Of all the methods but waitForDebugger and isDebugging, at most one thread is
\* in the runtime, callbacks, nested invocations and executor tasks included.
OneThreadRunsScript ==
    \A t, u \in Threads :
        Inside(t, ScriptPoints) /\ Inside(u, ScriptPoints) => t = u

\* Script is executed on a destroyed or null native context only by the thread
\* that closed it from its own callback, or by the two methods that do not test
\* `context`; no other thread's close can pull the runtime from under it.
CloseHurtsOnlyItself ==
    native = "destroyed" =>
        \A t \in Threads : \A i \in 1 .. Len(stack[t]) :
            /\ stack[t][i].pc \in {"native", "hasJobs", "erase", "jobs"}
            /\ stack[t][i].op # "unchecked"
            => closer = t

\* jsengine/README.md, "Concurrency": all execution in the runtime is thread safe
\* by way of Java synchronization.  The native context that waitForDebugger or
\* isDebugging has entered exists until the method returns.
DebuggerContextLive ==
    \A t \in Threads : Inside(t, {"debugNative"}) => native = "live"

\* A thread is about to bring handlePostInvocation's work to an end.
WorkWaits ==
    \/ tasks > 0
    \/ \E t \in Threads : \E i \in 1 .. Len(stack[t]) : stack[t][i].op = "post"

\* When the monitor is released at the end of an invocation and the context is
\* still open, no job is left that nothing will run: either none is pending, or
\* the executor has a task for it, or setJobExecutor(null) came between the test of
\* jobExecutor and its use.  Accessors make no such promise.
NoStrandedJobs ==
    [][\A t \in Threads :
         (/\ owner = t /\ owner' = None
          /\ Head(stack[t]).op = "invoke"
          /\ context)
         => (jobs' = 0 \/ WorkWaits' \/ (At(t, "execute") /\ executor = "reset"))]_vars

JobWithoutSuccessor(t) == RunJob(t) /\ jobs' < jobs

\* Scripts return, and so does waitForDebugger; chains of promise jobs end.
ScriptsEnd ==
    \A t \in Threads : WF_vars(Resume(t)) /\ SF_vars(JobWithoutSuccessor(t))

\* Queued finalizations the executor has a task for are applied, unless the
\* context is closed first, whatever the other threads do meanwhile, if their
\* scripts end.
FinalizationsApplied ==
    ScriptsEnd => ((queue > 0 /\ tasks > 0 /\ context) ~> (queue = 0 \/ ~context))

\* Whoever holds the lock on finalizationQueue is at its last step under it: no native
\* code, no wait for the context's monitor and no callback comes between
\* hasPostInvocationTasks' or finalizeJavaScriptObjects' lock and unlock.
QueueLockBrief ==
    queueLock # None => At(queueLock, "isEmpty") \/ At(queueLock, "copy")

\* JSEngineContext.java: finalizeJavaScriptObject "should NOT be synchronized at
\* the JSEngineContext level, so it never blocks a finalizer": it gets the queue's lock
\* and ends although scripts may run under the context's monitor for ever, because
\* nobody runs script or waits for the monitor while holding the queue's lock.
FinalizerNeverBlocks == (finalizer = "adding") ~> (finalizer = "idle")
=============================================================================
