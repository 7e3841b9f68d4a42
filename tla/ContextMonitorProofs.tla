------------------------ MODULE ContextMonitorProofs ------------------------
(***************************************************************************)
(* The monitor of JSEngineContext for every number of threads, depth of    *)
(* callbacks, and number of jobs, finalizations and tasks.                 *)
(***************************************************************************)
EXTENDS ContextMonitor, TLAPS

FrameRecord == [op : Kinds \cup {"post"}, pc : PCs]

FramesOf(t) == {stack[t][i] : i \in 1 .. Len(stack[t])}

\* Methods and suspended callbacks inside a synchronized method are the owner's.
MonitorInv ==
    \A t \in Threads : \A f \in FramesOf(t) : HoldsMonitor(f) => owner = t

\* Where a thread that did not close the context can be once it is closed.
Outside(f) ==
    \/ f.pc \in {"enter", "debugCheck", "debugNative", "check", "post", "close"}
    \/ f.pc = "native" /\ f.op = "unchecked"
    \/ f.pc \in {"drain", "copy"} /\ f.op = "gc"

\* The native context goes after the field, by the thread that cleared the field;
\* the others are outside of it, or leave at their next test.
CloseInv ==
    /\ native = "destroyed" => ~context
    /\ \A t \in Threads : \A f \in FramesOf(t) :
          /\ f.pc = "destroy" => ~context
          /\ ~context => closer = t \/ Outside(f)

\* A thread at jobExecutor.execute has seen an executor.
ExecuteInv ==
    \A t \in Threads : \A f \in FramesOf(t) : f.pc = "execute" => executor # "null"

IInv == TypeOK /\ MonitorInv /\ CloseInv /\ ExecuteInv

------------------------------------------------------------------------------
(* What entering, moving and leaving do to the frames of the threads.      *)

\* The innermost frame of a busy thread.
LEMMA HeadFrame ==
    ASSUME NEW s \in Seq(FrameRecord), s # <<>>
    PROVE  /\ Head(s) = s[1] /\ 1 \in 1 .. Len(s) /\ Head(s) \in FrameRecord
           /\ Head(s) \in {s[i] : i \in 1 .. Len(s)}
  OBVIOUS

\* A frame on top of the others.
LEMMA PushSeq ==
    ASSUME NEW s \in Seq(FrameRecord), NEW f \in FrameRecord
    PROVE  /\ <<f>> \o s \in Seq(FrameRecord)
           /\ \A i \in 1 .. Len(<<f>> \o s) :
                 (<<f>> \o s)[i] = f \/ \E j \in 1 .. Len(s) : (<<f>> \o s)[i] = s[j]
<1>1. /\ <<f>> \o s \in Seq(FrameRecord)
      /\ Len(<<f>> \o s) = Len(s) + 1
      /\ (<<f>> \o s)[1] = f
      /\ \A i \in 2 .. Len(s) + 1 : (<<f>> \o s)[i] = s[i - 1] /\ i - 1 \in 1 .. Len(s)
  OBVIOUS
<1>2. ASSUME NEW i \in 1 .. Len(<<f>> \o s)
      PROVE  (<<f>> \o s)[i] = f \/ \E j \in 1 .. Len(s) : (<<f>> \o s)[i] = s[j]
  <2>1. CASE i = 1
    BY <1>1, <2>1
  <2>2. CASE i # 1
    BY <1>1, <2>2
  <2> QED
    BY <2>1, <2>2
<1> QED
  BY <1>1, <1>2

\* The frames below the innermost one.
LEMMA PopSeq ==
    ASSUME NEW s \in Seq(FrameRecord), s # <<>>
    PROVE  /\ Tail(s) \in Seq(FrameRecord)
           /\ \A i \in 1 .. Len(Tail(s)) : i + 1 \in 2 .. Len(s) /\ Tail(s)[i] = s[i + 1]
  OBVIOUS

\* A method is entered: one frame more, on one thread.
LEMMA PushFrames ==
    ASSUME TypeOK, NEW t \in Threads, NEW f \in FrameRecord,
           stack' = [stack EXCEPT ![t] = <<f>> \o @]
    PROVE  /\ stack' \in [Threads -> Seq(FrameRecord)]
           /\ FramesOf(t)' \subseteq FramesOf(t) \cup {f}
           /\ \A u \in Threads \ {t} : FramesOf(u)' = FramesOf(u)
<1> stack[t] \in Seq(FrameRecord) /\ stack \in [Threads -> Seq(FrameRecord)]
  BY DEF TypeOK, FrameRecord
<1> DEFINE s == stack[t]
           r == <<f>> \o s
<1>1. stack'[t] = r /\ \A u \in Threads \ {t} : stack'[u] = stack[u]
  OBVIOUS
<1>2. /\ r \in Seq(FrameRecord)
      /\ \A i \in 1 .. Len(r) : r[i] = f \/ \E j \in 1 .. Len(s) : r[i] = s[j]
  BY PushSeq
<1>3. FramesOf(t)' \subseteq FramesOf(t) \cup {f}
  <2> HIDE DEF r, s
  <2>1. FramesOf(t)' = {r[i] : i \in 1 .. Len(r)} /\ FramesOf(t) = {s[i] : i \in 1 .. Len(s)}
    BY <1>1 DEF FramesOf, s
  <2> QED
    BY <1>2, <2>1
<1> QED
  BY <1>1, <1>2, <1>3 DEF FramesOf

\* A method goes on to another point.
LEMMA GotoFrames ==
    ASSUME TypeOK, NEW t \in Threads, Busy(t), NEW pc \in PCs, Goto(t, pc)
    PROVE  /\ stack' \in [Threads -> Seq(FrameRecord)]
           /\ FramesOf(t)' \subseteq FramesOf(t) \cup {Frame(Head(stack[t]).op, pc)}
           /\ \A u \in Threads \ {t} : FramesOf(u)' = FramesOf(u)
<1> /\ stack[t] \in Seq(FrameRecord) /\ stack \in [Threads -> Seq(FrameRecord)]
    /\ stack[t] # <<>>
  BY DEF TypeOK, FrameRecord, Busy
<1> DEFINE f == Frame(Head(stack[t]).op, pc)
           s == stack[t]
           r == <<f>> \o Tail(s)
<1>1. f \in FrameRecord
  BY HeadFrame DEF Frame, FrameRecord
<1>2. stack'[t] = r /\ \A u \in Threads \ {t} : stack'[u] = stack[u]
  BY DEF Goto
<1> HIDE DEF f
<1>3. /\ r \in Seq(FrameRecord)
      /\ \A i \in 1 .. Len(r) : r[i] = f \/ \E j \in 1 .. Len(s) : r[i] = s[j]
  <2>1. /\ Tail(s) \in Seq(FrameRecord)
        /\ \A i \in 1 .. Len(Tail(s)) : \E j \in 1 .. Len(s) : Tail(s)[i] = s[j]
    BY PopSeq
  <2>2. /\ r \in Seq(FrameRecord)
        /\ \A i \in 1 .. Len(r) : r[i] = f \/ \E j \in 1 .. Len(Tail(s)) : r[i] = Tail(s)[j]
    BY <1>1, <2>1, PushSeq
  <2> HIDE DEF r, s
  <2> QED
    BY <2>1, <2>2
<1>4. FramesOf(t)' \subseteq FramesOf(t) \cup {f}
  <2> HIDE DEF r, s
  <2>1. FramesOf(t)' = {r[i] : i \in 1 .. Len(r)} /\ FramesOf(t) = {s[i] : i \in 1 .. Len(s)}
    BY <1>2 DEF FramesOf, s
  <2> QED
    BY <1>3, <2>1
<1> QED
  BY <1>2, <1>3, <1>4 DEF FramesOf, Goto, f

\* A method ends.
LEMMA PopFrames ==
    ASSUME TypeOK, NEW t \in Threads, Busy(t), stack' = [stack EXCEPT ![t] = Tail(@)]
    PROVE  /\ stack' \in [Threads -> Seq(FrameRecord)]
           /\ FramesOf(t)' \subseteq {stack[t][i] : i \in 2 .. Len(stack[t])}
           /\ FramesOf(t)' \subseteq FramesOf(t)
           /\ \A u \in Threads \ {t} : FramesOf(u)' = FramesOf(u)
<1> /\ stack[t] \in Seq(FrameRecord) /\ stack \in [Threads -> Seq(FrameRecord)]
    /\ stack[t] # <<>>
  BY DEF TypeOK, FrameRecord, Busy
<1> DEFINE s == stack[t]
           r == Tail(s)
<1>1. stack'[t] = r /\ \A u \in Threads \ {t} : stack'[u] = stack[u]
  OBVIOUS
<1>2. FramesOf(t)' \subseteq {s[i] : i \in 2 .. Len(s)}
  <2>1. \A j \in 1 .. Len(r) : \E i \in 2 .. Len(s) : r[j] = s[i]
    BY PopSeq
  <2> HIDE DEF r
  <2>2. FramesOf(t)' = {r[j] : j \in 1 .. Len(r)}
    BY <1>1 DEF FramesOf
  <2> HIDE DEF s
  <2> QED
    BY <2>1, <2>2
<1>3. FramesOf(t)' \subseteq FramesOf(t)
  BY <1>2 DEF FramesOf
<1> QED
  BY <1>1, <1>2, <1>3, PopSeq DEF FramesOf

\* A synchronized method ends: the monitor stays with the frames that hold it.
LEMMA LeaveFrames ==
    ASSUME TypeOK, NEW t \in Threads, Busy(t), Leave(t)
    PROVE  /\ stack' \in [Threads -> Seq(FrameRecord)]
           /\ FramesOf(t)' \subseteq FramesOf(t)
           /\ \A u \in Threads \ {t} : FramesOf(u)' = FramesOf(u)
           /\ owner' \in {owner, None}
           /\ owner' = owner \/ \A f \in FramesOf(t)' : ~HoldsMonitor(f)
<1>1. stack' = [stack EXCEPT ![t] = Tail(@)]
  BY DEF Leave
<1>2. /\ stack' \in [Threads -> Seq(FrameRecord)]
      /\ FramesOf(t)' \subseteq {stack[t][i] : i \in 2 .. Len(stack[t])}
      /\ FramesOf(t)' \subseteq FramesOf(t)
      /\ \A u \in Threads \ {t} : FramesOf(u)' = FramesOf(u)
  BY <1>1, PopFrames
<1>3. CASE \E i \in 2 .. Len(stack[t]) : HoldsMonitor(stack[t][i])
  BY <1>2, <1>3 DEF Leave
<1>4. CASE ~\E i \in 2 .. Len(stack[t]) : HoldsMonitor(stack[t][i])
  <2>1. owner' = None
    BY <1>4 DEF Leave
  <2>2. \A f \in FramesOf(t)' : ~HoldsMonitor(f)
    BY <1>2, <1>4
  <2> QED
    BY <1>2, <2>1, <2>2
<1> QED
  BY <1>3, <1>4

------------------------------------------------------------------------------
(* The three ways a step can go.                                           *)

\* A thread gets a frame, or its innermost frame moves, and the fields stay: the
\* new frame must be one the invariant allows.
LEMMA NewFrame ==
    ASSUME IInv, NEW t \in Threads, NEW f,
           FramesOf(t)' \subseteq FramesOf(t) \cup {f},
           \A u \in Threads \ {t} : FramesOf(u)' = FramesOf(u),
           UNCHANGED <<context, native, closer, owner, executor>>,
           HoldsMonitor(f) => owner = t,
           f.pc = "destroy" => ~context,
           ~context => closer = t \/ Outside(f),
           f.pc = "execute" => executor # "null"
    PROVE  MonitorInv' /\ CloseInv' /\ ExecuteInv'
<1>1. \A u \in Threads : \A g \in FramesOf(u)' : g \in FramesOf(u) \/ (u = t /\ g = f)
  OBVIOUS
<1>2. MonitorInv'
  BY <1>1 DEF IInv, MonitorInv, HoldsMonitor
<1>3. CloseInv'
  BY <1>1 DEF IInv, CloseInv, Outside
<1>4. ExecuteInv'
  BY <1>1 DEF IInv, ExecuteInv
<1> QED
  BY <1>2, <1>3, <1>4

\* A thread inside a synchronized method owns the monitor.
LEMMA HolderOwns ==
    ASSUME IInv, NEW t \in Threads, Busy(t), HoldsMonitor(Head(stack[t]))
    PROVE  owner = t
<1>1. Head(stack[t]) \in FramesOf(t)
  BY HeadFrame DEF IInv, TypeOK, FrameRecord, FramesOf, Busy
<1> QED
  BY <1>1 DEF IInv, MonitorInv

\* A synchronized method ends.
LEMMA OneFrameLess ==
    ASSUME IInv, NEW t \in Threads, Busy(t), HoldsMonitor(Head(stack[t])), Leave(t),
           UNCHANGED <<context, closer, executor>>, native' = "destroyed" => ~context
    PROVE  MonitorInv' /\ CloseInv' /\ ExecuteInv'
<1>1. owner = t
  BY HolderOwns
<1>2. /\ FramesOf(t)' \subseteq FramesOf(t)
      /\ \A u \in Threads \ {t} : FramesOf(u)' = FramesOf(u)
      /\ owner' = owner \/ \A f \in FramesOf(t)' : ~HoldsMonitor(f)
  BY LeaveFrames DEF IInv
<1>3. \A u \in Threads : FramesOf(u)' \subseteq FramesOf(u)
  BY <1>2
<1>4. MonitorInv'
  BY <1>1, <1>2, <1>3 DEF IInv, MonitorInv, HoldsMonitor
<1>5. CloseInv'
  BY <1>3 DEF IInv, CloseInv, Outside
<1>6. ExecuteInv'
  BY <1>3 DEF IInv, ExecuteInv
<1> QED
  BY <1>4, <1>5, <1>6

\* The frames stay as they are.
LEMMA SameFrames ==
    ASSUME IInv, UNCHANGED <<context, native, closer, owner, stack>>,
           executor # "null" => executor' # "null"
    PROVE  MonitorInv' /\ CloseInv' /\ ExecuteInv'
<1>1. \A u \in Threads : FramesOf(u)' = FramesOf(u)
  BY DEF FramesOf
<1> QED
  BY <1>1 DEF IInv, MonitorInv, CloseInv, ExecuteInv, HoldsMonitor, Outside

\* The innermost frame of a thread at a point.
LEMMA AtFrame ==
    ASSUME IInv, NEW t \in Threads, NEW pc, At(t, pc)
    PROVE  /\ Busy(t) /\ Head(stack[t]) \in FramesOf(t) /\ Head(stack[t]) \in FrameRecord
           /\ Head(stack[t]).pc = pc /\ Head(stack[t]).op \in Kinds \cup {"post"}
  BY HeadFrame DEF IInv, TypeOK, FrameRecord, FramesOf, Busy, At

------------------------------------------------------------------------------
\* A fresh context satisfies the invariant.
LEMMA InitIInv == Init => IInv
<1> SUFFICES ASSUME Init PROVE IInv
  OBVIOUS
<1>1. \A t \in Threads : FramesOf(t) = {}
  BY DEF Init, FramesOf
<1>2. TypeOK
  BY DEF Init, TypeOK
<1> QED
  BY <1>1, <1>2 DEF Init, IInv, MonitorInv, CloseInv, ExecuteInv

\* Push, for Begin and Callback: a method that is entered holds nothing yet.
LEMMA PushKeeps ==
    ASSUME IInv, NEW t \in Threads, NEW op \in Kinds, Push(t, op)
    PROVE  IInv'
<1> DEFINE f == Frame(op, IF op = "debug" THEN "debugCheck" ELSE "enter")
<1>1. f \in FrameRecord /\ f.pc \in {"enter", "debugCheck"}
  BY DEF Frame, FrameRecord, PCs
<1>2. stack' = [stack EXCEPT ![t] = <<f>> \o @]
  BY DEF Push
<1> HIDE DEF f
<1>3. /\ stack' \in [Threads -> Seq(FrameRecord)]
      /\ FramesOf(t)' \subseteq FramesOf(t) \cup {f}
      /\ \A u \in Threads \ {t} : FramesOf(u)' = FramesOf(u)
  BY <1>1, <1>2, PushFrames DEF IInv
<1>4. TypeOK'
  BY <1>3 DEF Push, IInv, TypeOK, FrameRecord
<1>5. ~HoldsMonitor(f) /\ Outside(f) /\ f.pc \notin {"destroy", "execute"}
  BY <1>1 DEF HoldsMonitor, Outside
<1>6. MonitorInv' /\ CloseInv' /\ ExecuteInv'
  BY <1>3, <1>5, NewFrame DEF Push
<1> QED
  BY <1>4, <1>6 DEF IInv

\* A method goes on to a point the invariant allows.
LEMMA GotoKeeps ==
    ASSUME IInv, NEW t \in Threads, NEW p, At(t, p), NEW pc \in PCs, Goto(t, pc),
           UNCHANGED <<context, native, closer, owner, executor>>,
           HoldsMonitor(Frame(Head(stack[t]).op, pc)) => owner = t,
           pc = "destroy" => ~context,
           ~context => closer = t \/ Outside(Frame(Head(stack[t]).op, pc)),
           pc = "execute" => executor # "null"
    PROVE  /\ stack' \in [Threads -> Seq(FrameRecord)]
           /\ MonitorInv' /\ CloseInv' /\ ExecuteInv'
<1> DEFINE f == Frame(Head(stack[t]).op, pc)
<1>1. f.pc = pc
  BY DEF Frame
<1>2. Busy(t)
  BY DEF At
<1>3. /\ stack' \in [Threads -> Seq(FrameRecord)]
      /\ FramesOf(t)' \subseteq FramesOf(t) \cup {f}
      /\ \A u \in Threads \ {t} : FramesOf(u)' = FramesOf(u)
  BY <1>2, GotoFrames DEF IInv
<1>4. HoldsMonitor(f) => owner = t
  OBVIOUS
<1>5. ~context => closer = t \/ Outside(f)
  OBVIOUS
<1> HIDE DEF f
<1>6. MonitorInv' /\ CloseInv' /\ ExecuteInv'
  BY <1>1, <1>3, <1>4, <1>5, NewFrame
<1> QED
  BY <1>3, <1>6

\* A synchronized method ends.
LEMMA LeaveKeeps ==
    ASSUME IInv, NEW t \in Threads,
           NEW p, p \notin {"enter", "debugCheck", "debugNative"}, At(t, p), Leave(t),
           UNCHANGED <<context, closer, executor>>, native' = "destroyed" => ~context
    PROVE  /\ stack' \in [Threads -> Seq(FrameRecord)]
           /\ owner' \in Threads \cup {None}
           /\ MonitorInv' /\ CloseInv' /\ ExecuteInv'
<1>1. Busy(t) /\ HoldsMonitor(Head(stack[t]))
  BY DEF At, HoldsMonitor
<1>2. stack' \in [Threads -> Seq(FrameRecord)] /\ owner' \in {owner, None}
  BY <1>1, LeaveFrames DEF IInv
<1>3. MonitorInv' /\ CloseInv' /\ ExecuteInv'
  BY <1>1, OneFrameLess
<1> QED
  BY <1>2, <1>3 DEF IInv, TypeOK

\* At a point inside a synchronized method the thread owns the monitor, and on a
\* closed context it is the closer or about to leave.
LEMMA AtPoint ==
    ASSUME IInv, NEW t \in Threads, NEW pc, At(t, pc)
    PROVE  /\ pc \notin {"enter", "debugCheck", "debugNative"} => owner = t
           /\ pc = "destroy" => ~context
           /\ pc = "execute" => executor # "null"
           /\ ~context => closer = t \/ Outside(Head(stack[t]))
           /\ Head(stack[t]).pc = pc
           /\ Head(stack[t]).op \in Kinds \cup {"post"}
<1>1. Head(stack[t]) \in FramesOf(t) /\ Head(stack[t]).pc = pc
  BY AtFrame
<1> QED
  BY <1>1, AtFrame DEF IInv, MonitorInv, CloseInv, ExecuteInv, HoldsMonitor

\* finalizeJavaScriptObjects ends: gc() returns, runPostInvocation goes on to the jobs.
LEMMA EndDrainKeeps ==
    ASSUME IInv, NEW t \in Threads, NEW p \in {"copy", "erase"}, At(t, p), EndDrain(t),
           UNCHANGED <<context, native, closer, executor>>
    PROVE  /\ stack' \in [Threads -> Seq(FrameRecord)]
           /\ owner' \in Threads \cup {None}
           /\ MonitorInv' /\ CloseInv' /\ ExecuteInv'
<1>1. /\ owner = t /\ (~context => closer = t \/ Outside(Head(stack[t])))
      /\ Head(stack[t]).pc = p
  BY AtPoint
<1>2. CASE Head(stack[t]).op = "gc"
  <2>1. Leave(t)
    BY <1>2 DEF EndDrain
  <2> QED
    BY <2>1, LeaveKeeps DEF IInv, CloseInv
<1>3. CASE Head(stack[t]).op # "gc"
  <2>1. Goto(t, "jobs") /\ UNCHANGED owner
    BY <1>3 DEF EndDrain
  <2>2. ~context => closer = t \/ Outside(Frame(Head(stack[t]).op, "jobs"))
    BY <1>1, <1>3 DEF Outside
  <2>3. /\ stack' \in [Threads -> Seq(FrameRecord)]
        /\ MonitorInv' /\ CloseInv' /\ ExecuteInv'
    BY <1>1, <2>1, <2>2, GotoKeeps DEF PCs
  <2> QED
    BY <1>1, <2>1, <2>3
<1> QED
  BY <1>2, <1>3

\* Every step preserves the invariant.
LEMMA NextIInv == ASSUME IInv, Next PROVE IInv'
<1> USE MonitorAssumption
<1>1. ASSUME NEW t \in Threads, Begin(t) PROVE IInv'
  BY <1>1, PushKeeps DEF Begin
<1>2. ASSUME NEW t \in Threads, Callback(t) PROVE IInv'
  BY <1>2, PushKeeps DEF Callback
<1>3. ASSUME NEW t \in Threads, Acquire(t) PROVE IInv'
  <2> DEFINE op == Head(stack[t]).op
             f == Frame(op, FirstPoint(op))
  <2>1. At(t, "enter") /\ owner \in {None, t} /\ owner' = t /\ Goto(t, FirstPoint(op))
    BY <1>3 DEF Acquire
  <2>2. op \in Kinds \cup {"post"}
    BY <2>1, AtPoint
  <2>3. /\ FirstPoint(op) \in {"close", "post", "native", "drain", "check"}
        /\ FirstPoint(op) = "native" => op = "unchecked"
        /\ FirstPoint(op) = "drain" => op = "gc"
    BY <2>2 DEF FirstPoint, Kinds
  <2>4. /\ stack' \in [Threads -> Seq(FrameRecord)]
        /\ FramesOf(t)' \subseteq FramesOf(t) \cup {f}
        /\ \A u \in Threads \ {t} : FramesOf(u)' = FramesOf(u)
    <3>1. Busy(t) /\ FirstPoint(op) \in PCs
      BY <2>1, <2>3 DEF At, PCs
    <3> QED
      BY <2>1, <3>1, GotoFrames DEF IInv
  <2>5. f.pc = FirstPoint(op) /\ f.op = op
    BY DEF Frame
  <2> HIDE DEF f, op
  <2>6. TypeOK'
    BY <1>3, <2>1, <2>4 DEF Acquire, IInv, TypeOK, FrameRecord
  <2>7. MonitorInv'
    <3>1. \A u \in Threads \ {t} : \A h \in FramesOf(u)' : ~HoldsMonitor(h)
      BY <2>1, <2>4 DEF IInv, MonitorInv
    <3> QED
      BY <2>1, <3>1 DEF MonitorInv, HoldsMonitor
  <2>8. Outside(f) /\ f.pc \notin {"destroy", "execute"}
    BY <2>3, <2>5 DEF Outside
  <2>9. \A u \in Threads : \A h \in FramesOf(u)' : h \in FramesOf(u) \/ h = f
    BY <2>4
  <2>10. UNCHANGED <<context, native, closer, executor>>
    BY <1>3 DEF Acquire
  <2>11. CloseInv' /\ ExecuteInv'
    BY <2>8, <2>9, <2>10 DEF IInv, CloseInv, ExecuteInv, Outside
  <2> QED
    BY <2>6, <2>7, <2>11 DEF IInv
<1>4. ASSUME NEW t \in Threads, Check(t) PROVE IInv'
  <2> USE <1>4 DEF Check
  <2>1. At(t, "check")
    OBVIOUS
  <2>2. /\ owner = t /\ (~context => closer = t \/ Outside(Head(stack[t])))
        /\ Head(stack[t]).pc = "check"
    BY <2>1, AtPoint
  <2>3. CASE context
    <3>1. Goto(t, "native") /\ "native" \in PCs
      BY <2>3 DEF PCs
    <3>2. ~context => closer = t \/ Outside(Frame(Head(stack[t]).op, "native"))
      BY <2>2, <2>3 DEF Outside, Frame
    <3>3. /\ stack' \in [Threads -> Seq(FrameRecord)]
          /\ MonitorInv' /\ CloseInv' /\ ExecuteInv'
      BY <2>1, <2>2, <2>3, <3>1, <3>2, GotoKeeps
    <3> QED
      BY <2>3, <3>3 DEF IInv, TypeOK, FrameRecord
  <2>4. CASE ~context
    <3>1. Leave(t)
      BY <2>4
    <3>2. /\ stack' \in [Threads -> Seq(FrameRecord)] /\ owner' \in Threads \cup {None}
          /\ MonitorInv' /\ CloseInv' /\ ExecuteInv'
      BY <2>1, <2>4, <3>1, LeaveKeeps DEF IInv, CloseInv
    <3> QED
      BY <2>4, <3>2 DEF IInv, TypeOK, FrameRecord
  <2> QED
    BY <2>3, <2>4
<1>5. ASSUME NEW t \in Threads, NativeReturn(t) PROVE IInv'
  <2> USE <1>5 DEF NativeReturn
  <2>1. At(t, "native")
    OBVIOUS
  <2>2. /\ owner = t /\ (~context => closer = t \/ Outside(Head(stack[t])))
        /\ Head(stack[t]).pc = "native"
    BY <2>1, AtPoint
  <2>3. CASE Head(stack[t]).op = "invoke"
    <3>1. Goto(t, "tasks") /\ "tasks" \in PCs
      BY <2>3 DEF PCs
    <3>2. ~context => closer = t \/ Outside(Frame(Head(stack[t]).op, "tasks"))
      BY <2>2, <2>3 DEF Outside, Frame
    <3>3. /\ stack' \in [Threads -> Seq(FrameRecord)]
          /\ MonitorInv' /\ CloseInv' /\ ExecuteInv'
      BY <2>1, <2>2, <2>3, <3>1, <3>2, GotoKeeps
    <3> QED
      BY <2>3, <3>3 DEF IInv, TypeOK, FrameRecord
  <2>4. CASE Head(stack[t]).op # "invoke"
    <3>1. Leave(t)
      BY <2>4
    <3>2. /\ stack' \in [Threads -> Seq(FrameRecord)] /\ owner' \in Threads \cup {None}
          /\ MonitorInv' /\ CloseInv' /\ ExecuteInv'
      BY <2>1, <2>4, <3>1, LeaveKeeps DEF IInv, CloseInv
    <3> QED
      BY <2>4, <3>2 DEF IInv, TypeOK, FrameRecord
  <2> QED
    BY <2>3, <2>4
<1>6. ASSUME NEW t \in Threads, HasFinalizations(t) PROVE IInv'
  <2> USE <1>6 DEF HasFinalizations
  <2>1. At(t, "isEmpty")
    OBVIOUS
  <2>2. /\ owner = t /\ (~context => closer = t \/ Outside(Head(stack[t])))
        /\ Head(stack[t]).pc = "isEmpty"
    BY <2>1, AtPoint
  <2>3. CASE queue > 0
    <3>1. Goto(t, "handle") /\ "handle" \in PCs
      BY <2>3 DEF PCs
    <3>2. ~context => closer = t \/ Outside(Frame(Head(stack[t]).op, "handle"))
      BY <2>2, <2>3 DEF Outside, Frame
    <3>3. /\ stack' \in [Threads -> Seq(FrameRecord)]
          /\ MonitorInv' /\ CloseInv' /\ ExecuteInv'
      BY <2>1, <2>2, <2>3, <3>1, <3>2, GotoKeeps
    <3> QED
      BY <2>3, <3>3 DEF IInv, TypeOK, FrameRecord
  <2>4. CASE ~(queue > 0)
    <3>1. Goto(t, "hasJobs") /\ "hasJobs" \in PCs
      BY <2>4 DEF PCs
    <3>2. ~context => closer = t \/ Outside(Frame(Head(stack[t]).op, "hasJobs"))
      BY <2>2, <2>4 DEF Outside, Frame
    <3>3. /\ stack' \in [Threads -> Seq(FrameRecord)]
          /\ MonitorInv' /\ CloseInv' /\ ExecuteInv'
      BY <2>1, <2>2, <2>4, <3>1, <3>2, GotoKeeps
    <3> QED
      BY <2>4, <3>3 DEF IInv, TypeOK, FrameRecord
  <2> QED
    BY <2>3, <2>4
<1>7. ASSUME NEW t \in Threads, HasPendingJobs(t) PROVE IInv'
  <2> USE <1>7 DEF HasPendingJobs
  <2>1. At(t, "hasJobs")
    OBVIOUS
  <2>2. /\ owner = t /\ (~context => closer = t \/ Outside(Head(stack[t])))
        /\ Head(stack[t]).pc = "hasJobs"
    BY <2>1, AtPoint
  <2>3. CASE jobs > 0
    <3>1. Goto(t, "handle") /\ "handle" \in PCs
      BY <2>3 DEF PCs
    <3>2. ~context => closer = t \/ Outside(Frame(Head(stack[t]).op, "handle"))
      BY <2>2, <2>3 DEF Outside, Frame
    <3>3. /\ stack' \in [Threads -> Seq(FrameRecord)]
          /\ MonitorInv' /\ CloseInv' /\ ExecuteInv'
      BY <2>1, <2>2, <2>3, <3>1, <3>2, GotoKeeps
    <3> QED
      BY <2>3, <3>3 DEF IInv, TypeOK, FrameRecord
  <2>4. CASE ~(jobs > 0)
    <3>1. Leave(t)
      BY <2>4
    <3>2. /\ stack' \in [Threads -> Seq(FrameRecord)] /\ owner' \in Threads \cup {None}
          /\ MonitorInv' /\ CloseInv' /\ ExecuteInv'
      BY <2>1, <2>4, <3>1, LeaveKeeps DEF IInv, CloseInv
    <3> QED
      BY <2>4, <3>2 DEF IInv, TypeOK, FrameRecord
  <2> QED
    BY <2>3, <2>4
<1>8. ASSUME NEW t \in Threads, HandlePostInvocation(t) PROVE IInv'
  <2> USE <1>8 DEF HandlePostInvocation
  <2>1. At(t, "handle")
    OBVIOUS
  <2>2. /\ owner = t /\ (~context => closer = t \/ Outside(Head(stack[t])))
        /\ Head(stack[t]).pc = "handle"
    BY <2>1, AtPoint
  <2>3. CASE executor = "set"
    <3>1. Goto(t, "execute") /\ "execute" \in PCs
      BY <2>3 DEF PCs
    <3>2. ~context => closer = t \/ Outside(Frame(Head(stack[t]).op, "execute"))
      BY <2>2, <2>3 DEF Outside, Frame
    <3>3. /\ stack' \in [Threads -> Seq(FrameRecord)]
          /\ MonitorInv' /\ CloseInv' /\ ExecuteInv'
      BY <2>1, <2>2, <2>3, <3>1, <3>2, GotoKeeps
    <3> QED
      BY <2>3, <3>3 DEF IInv, TypeOK, FrameRecord
  <2>4. CASE executor # "set"
    <3>1. Goto(t, "post") /\ "post" \in PCs
      BY <2>4 DEF PCs
    <3>2. ~context => closer = t \/ Outside(Frame(Head(stack[t]).op, "post"))
      BY <2>2, <2>4 DEF Outside, Frame
    <3>3. /\ stack' \in [Threads -> Seq(FrameRecord)]
          /\ MonitorInv' /\ CloseInv' /\ ExecuteInv'
      BY <2>1, <2>2, <2>4, <3>1, <3>2, GotoKeeps
    <3> QED
      BY <2>4, <3>3 DEF IInv, TypeOK, FrameRecord
  <2> QED
    BY <2>3, <2>4
<1>9. ASSUME NEW t \in Threads, Execute(t) PROVE IInv'
  <2> USE <1>9 DEF Execute
  <2>1. At(t, "execute")
    OBVIOUS
  <2>2. /\ owner = t /\ (~context => closer = t \/ Outside(Head(stack[t])))
        /\ Head(stack[t]).pc = "execute"
    BY <2>1, AtPoint
  <2>3. CASE executor = "set"
    <3>1. Leave(t)
      BY <2>3
    <3>2. /\ stack' \in [Threads -> Seq(FrameRecord)] /\ owner' \in Threads \cup {None}
          /\ MonitorInv' /\ CloseInv' /\ ExecuteInv'
      BY <2>1, <2>3, <3>1, LeaveKeeps DEF IInv, CloseInv
    <3>3. tasks' \in Nat
      BY <2>3 DEF IInv, TypeOK
    <3>4. /\ context' \in BOOLEAN /\ native' \in {"live", "destroyed"}
          /\ closer' \in Threads \cup {None} /\ jobs' \in Nat /\ queue' \in Nat
          /\ queueLock' \in Threads \cup {None}
          /\ finalizer' \in {"idle", "adding"} /\ executor' \in {"null", "set", "reset"}
      BY DEF IInv, TypeOK
    <3> HIDE <1>9
    <3> QED
      BY <3>2, <3>3, <3>4 DEF IInv, TypeOK, FrameRecord
  <2>4. CASE executor # "set"
    <3>1. Leave(t)
      BY <2>4
    <3>2. /\ stack' \in [Threads -> Seq(FrameRecord)] /\ owner' \in Threads \cup {None}
          /\ MonitorInv' /\ CloseInv' /\ ExecuteInv'
      BY <2>1, <2>4, <3>1, LeaveKeeps DEF IInv, CloseInv
    <3> QED
      BY <2>4, <3>2 DEF IInv, TypeOK, FrameRecord
  <2> QED
    BY <2>3, <2>4
<1>10. ASSUME NEW t \in Threads, RunPostInvocation(t) PROVE IInv'
  <2> USE <1>10 DEF RunPostInvocation
  <2>1. At(t, "post")
    OBVIOUS
  <2>2. /\ owner = t /\ (~context => closer = t \/ Outside(Head(stack[t])))
        /\ Head(stack[t]).pc = "post"
    BY <2>1, AtPoint
  <2>3. CASE context
    <3>1. Goto(t, "drain") /\ "drain" \in PCs
      BY <2>3 DEF PCs
    <3>2. ~context => closer = t \/ Outside(Frame(Head(stack[t]).op, "drain"))
      BY <2>2, <2>3 DEF Outside, Frame
    <3>3. /\ stack' \in [Threads -> Seq(FrameRecord)]
          /\ MonitorInv' /\ CloseInv' /\ ExecuteInv'
      BY <2>1, <2>2, <2>3, <3>1, <3>2, GotoKeeps
    <3> QED
      BY <2>3, <3>3 DEF IInv, TypeOK, FrameRecord
  <2>4. CASE ~context
    <3>1. Leave(t)
      BY <2>4
    <3>2. /\ stack' \in [Threads -> Seq(FrameRecord)] /\ owner' \in Threads \cup {None}
          /\ MonitorInv' /\ CloseInv' /\ ExecuteInv'
      BY <2>1, <2>4, <3>1, LeaveKeeps DEF IInv, CloseInv
    <3> QED
      BY <2>4, <3>2 DEF IInv, TypeOK, FrameRecord
  <2> QED
    BY <2>3, <2>4
<1>11. ASSUME NEW t \in Threads, LockQueue(t) PROVE IInv'
  <2> USE <1>11 DEF LockQueue
  <2>1. CASE At(t, "tasks") /\ Goto(t, "isEmpty")
    <3>1. owner = t /\ Head(stack[t]).pc = "tasks" /\ (~context => closer = t \/ Outside(Head(stack[t])))
      BY <2>1, AtPoint
    <3>2. ~context => closer = t \/ Outside(Frame(Head(stack[t]).op, "isEmpty"))
      BY <3>1 DEF Outside, Frame
    <3>3. /\ stack' \in [Threads -> Seq(FrameRecord)]
          /\ MonitorInv' /\ CloseInv' /\ ExecuteInv'
      BY <2>1, <3>1, <3>2, GotoKeeps DEF PCs
    <3> QED
      BY <3>3 DEF IInv, TypeOK, FrameRecord
  <2>2. CASE At(t, "drain") /\ Goto(t, "copy")
    <3>1. owner = t /\ Head(stack[t]).pc = "drain" /\ (~context => closer = t \/ Outside(Head(stack[t])))
      BY <2>2, AtPoint
    <3>2. ~context => closer = t \/ Outside(Frame(Head(stack[t]).op, "copy"))
      BY <3>1 DEF Outside, Frame
    <3>3. /\ stack' \in [Threads -> Seq(FrameRecord)]
          /\ MonitorInv' /\ CloseInv' /\ ExecuteInv'
      BY <2>2, <3>1, <3>2, GotoKeeps DEF PCs
    <3> QED
      BY <3>3 DEF IInv, TypeOK, FrameRecord
  <2> QED
    BY <2>1, <2>2
<1>24. ASSUME NEW t \in Threads, Copy(t) PROVE IInv'
  <2> USE <1>24 DEF Copy
  <2>1. At(t, "copy") /\ UNCHANGED <<context, native, closer, executor>>
    OBVIOUS
  <2>2. /\ stack' \in [Threads -> Seq(FrameRecord)] /\ owner' \in Threads \cup {None}
        /\ MonitorInv' /\ CloseInv' /\ ExecuteInv'
    <3>1. CASE queue > 0 /\ context
      <4>1. owner = t /\ Goto(t, "erase") /\ UNCHANGED owner
        BY <2>1, <3>1, AtPoint
      <4>2. /\ stack' \in [Threads -> Seq(FrameRecord)]
            /\ MonitorInv' /\ CloseInv' /\ ExecuteInv'
        BY <2>1, <3>1, <4>1, GotoKeeps DEF PCs
      <4> QED
        BY <4>1, <4>2
    <3>2. CASE ~(queue > 0 /\ context)
      BY <2>1, <3>2, EndDrainKeeps
    <3> QED
      BY <3>1, <3>2
  <2> QED
    BY <2>2 DEF IInv, TypeOK, FrameRecord
<1>25. ASSUME NEW t \in Threads, Erase(t) PROVE IInv'
  <2> USE <1>25 DEF Erase
  <2>1. /\ stack' \in [Threads -> Seq(FrameRecord)] /\ owner' \in Threads \cup {None}
        /\ MonitorInv' /\ CloseInv' /\ ExecuteInv'
    BY EndDrainKeeps
  <2> QED
    BY <2>1 DEF IInv, TypeOK, FrameRecord
<1>12. ASSUME NEW t \in Threads, JobsDone(t) PROVE IInv'
  <2> USE <1>12 DEF JobsDone
  <2>1. At(t, "jobs")
    OBVIOUS
  <2>2. /\ owner = t /\ (~context => closer = t \/ Outside(Head(stack[t])))
        /\ Head(stack[t]).pc = "jobs"
    BY <2>1, AtPoint
  <2>3. CASE TRUE
    <3>1. Leave(t)
      BY <2>3
    <3>2. /\ stack' \in [Threads -> Seq(FrameRecord)] /\ owner' \in Threads \cup {None}
          /\ MonitorInv' /\ CloseInv' /\ ExecuteInv'
      BY <2>1, <2>3, <3>1, LeaveKeeps DEF IInv, CloseInv
    <3> QED
      BY <2>3, <3>2 DEF IInv, TypeOK, FrameRecord
  <2> QED
    BY <2>3
<1>13. ASSUME NEW t \in Threads, CloseField(t) PROVE IInv'
  <2> USE <1>13 DEF CloseField
  <2>1. At(t, "close")
    OBVIOUS
  <2>2. owner = t
    BY <2>1, AtPoint
  <2>3. CASE context
    <3>1. Busy(t) /\ Goto(t, "destroy") /\ "destroy" \in PCs
      BY <2>1, <2>3 DEF At, PCs
    <3>2. /\ stack' \in [Threads -> Seq(FrameRecord)]
          /\ FramesOf(t)' \subseteq FramesOf(t) \cup {Frame(Head(stack[t]).op, "destroy")}
          /\ \A u \in Threads \ {t} : FramesOf(u)' = FramesOf(u)
      BY <3>1, GotoFrames DEF IInv
    <3>3. ~context' /\ closer' = t /\ UNCHANGED <<native, owner, executor>>
      BY <2>3
    <3>4. MonitorInv'
      BY <2>2, <3>2, <3>3 DEF IInv, MonitorInv, HoldsMonitor
    <3>5. CloseInv'
      <4>1. \A u \in Threads \ {t} : \A f \in FramesOf(u) : Outside(f)
        BY <2>2 DEF IInv, MonitorInv, HoldsMonitor, Outside
      <4> QED
        BY <3>2, <3>3, <4>1 DEF CloseInv, Outside
    <3>6. ExecuteInv'
      BY <3>2, <3>3 DEF IInv, ExecuteInv, Frame
    <3> QED
      BY <2>3, <3>2, <3>4, <3>5, <3>6 DEF IInv, TypeOK, FrameRecord
  <2>4. CASE ~context
    <3>1. Leave(t)
      BY <2>4
    <3>2. /\ stack' \in [Threads -> Seq(FrameRecord)] /\ owner' \in Threads \cup {None}
          /\ MonitorInv' /\ CloseInv' /\ ExecuteInv'
      BY <2>1, <2>4, <3>1, LeaveKeeps DEF IInv, CloseInv
    <3> QED
      BY <2>4, <3>2 DEF IInv, TypeOK, FrameRecord
  <2> QED
    BY <2>3, <2>4
<1>14. ASSUME NEW t \in Threads, DestroyContext(t) PROVE IInv'
  <2> USE <1>14 DEF DestroyContext
  <2>1. ~context
    BY AtPoint
  <2>2. /\ stack' \in [Threads -> Seq(FrameRecord)] /\ owner' \in Threads \cup {None}
        /\ MonitorInv' /\ CloseInv' /\ ExecuteInv'
    BY <2>1, LeaveKeeps
  <2> QED
    BY <2>2 DEF IInv, TypeOK, FrameRecord
<1>15. ASSUME NEW t \in Threads, DebugCheck(t) PROVE IInv'
  <2> USE <1>15 DEF DebugCheck
  <2>1. CASE context
    <3>1. /\ stack' \in [Threads -> Seq(FrameRecord)]
          /\ MonitorInv' /\ CloseInv' /\ ExecuteInv'
      BY <2>1, GotoKeeps DEF HoldsMonitor, Frame, PCs
    <3> QED
      BY <3>1 DEF IInv, TypeOK, FrameRecord
  <2>2. CASE ~context
    <3>1. Busy(t) /\ stack' = [stack EXCEPT ![t] = Tail(@)]
      BY <2>2 DEF At
    <3>2. /\ stack' \in [Threads -> Seq(FrameRecord)]
          /\ \A u \in Threads : FramesOf(u)' \subseteq FramesOf(u)
      BY <3>1, PopFrames DEF IInv
    <3> QED
      BY <3>2 DEF IInv, TypeOK, FrameRecord, MonitorInv, CloseInv, ExecuteInv,
                  HoldsMonitor, Outside
  <2> QED
    BY <2>1, <2>2
<1>16. ASSUME NEW t \in Threads, DebugReturn(t) PROVE IInv'
  <2> USE <1>16 DEF DebugReturn
  <2>1. Busy(t) /\ stack' = [stack EXCEPT ![t] = Tail(@)]
    BY DEF At
  <2>2. /\ stack' \in [Threads -> Seq(FrameRecord)]
        /\ \A u \in Threads : FramesOf(u)' \subseteq FramesOf(u)
    BY <2>1, PopFrames DEF IInv
  <2> QED
    BY <2>2 DEF IInv, TypeOK, FrameRecord, MonitorInv, CloseInv, ExecuteInv,
                HoldsMonitor, Outside
<1>17. ASSUME NEW t \in Threads, EnqueueJob(t) PROVE IInv'
  <2>1. jobs' \in Nat
    BY <1>17 DEF EnqueueJob, IInv, TypeOK
  <2> QED
    BY <1>17, <2>1, SameFrames DEF EnqueueJob, IInv, TypeOK
<1>18. ASSUME NEW t \in Threads, RunJob(t) PROVE IInv'
  <2>1. jobs' \in Nat
    BY <1>18 DEF RunJob, IInv, TypeOK
  <2> QED
    BY <1>18, <2>1, SameFrames DEF RunJob, IInv, TypeOK
<1>19. ASSUME NEW t \in Threads, RunTask(t) PROVE IInv'
  <2> DEFINE f == Frame("post", "enter")
  <2>1. f \in FrameRecord /\ f.pc = "enter"
    BY DEF Frame, FrameRecord, PCs
  <2>2. stack[t] = <<>> /\ <<f>> \o <<>> = <<f>>
    BY <1>19, <2>1 DEF RunTask, Busy
  <2>3. stack' = [stack EXCEPT ![t] = <<f>> \o @]
    BY <1>19, <2>2 DEF RunTask
  <2> HIDE DEF f
  <2>4. /\ stack' \in [Threads -> Seq(FrameRecord)]
        /\ FramesOf(t)' \subseteq FramesOf(t) \cup {f}
        /\ \A u \in Threads \ {t} : FramesOf(u)' = FramesOf(u)
    BY <2>1, <2>3, PushFrames DEF IInv
  <2>5. MonitorInv' /\ CloseInv' /\ ExecuteInv'
    BY <1>19, <2>1, <2>4, NewFrame DEF RunTask, HoldsMonitor, Outside
  <2>6. tasks' \in Nat
    BY <1>19 DEF RunTask, IInv, TypeOK
  <2> QED
    BY <1>19, <2>4, <2>5, <2>6 DEF RunTask, IInv, TypeOK, FrameRecord
<1>20. ASSUME FinalizerCheck PROVE IInv'
  BY <1>20, SameFrames DEF FinalizerCheck, IInv, TypeOK
<1>21. ASSUME FinalizerAdd PROVE IInv'
  <2>1. queue' \in Nat
    BY <1>21 DEF FinalizerAdd, IInv, TypeOK
  <2> QED
    BY <1>21, <2>1, SameFrames DEF FinalizerAdd, IInv, TypeOK
<1>22. ASSUME SetJobExecutor PROVE IInv'
  BY <1>22, SameFrames DEF SetJobExecutor, IInv, TypeOK
<1>23. ASSUME NEW t \in Threads, Step(t) PROVE IInv'
  BY <1>4, <1>6, <1>7, <1>8, <1>9, <1>10, <1>11, <1>12, <1>13, <1>14, <1>15, <1>23, <1>24, <1>25
     DEF Step
<1> QED
  BY <1>1, <1>2, <1>3, <1>5, <1>16, <1>17, <1>18, <1>19, <1>20, <1>21, <1>22, <1>23 DEF Next, Resume

------------------------------------------------------------------------------
(* The theorems.                                                           *)

\* The inductive invariant of JSEngineContext's methods, whatever the number of
\* threads, the depth of their callbacks and the number of jobs and tasks.
THEOREM Inductive == Spec => []IInv
<1>1. Init => IInv
  BY InitIInv
<1>2. IInv /\ [Next]_vars => IInv'
  <2>1. ASSUME IInv, UNCHANGED vars PROVE IInv'
    BY <2>1, SameFrames DEF vars, IInv, TypeOK
  <2> QED
    BY <2>1, NextIInv
<1> QED
  BY <1>1, <1>2, PTL DEF Spec

\* The monitor, the frames and the counts of JSEngineContext keep their kinds:
\* no executor task and no promise job is counted below zero.
THEOREM TypeCorrect == Spec => []TypeOK
  BY Inductive, PTL DEF IInv

\* The synchronized methods of JSEngineContext keep all threads but one out of the
\* JavaScript runtime, callbacks, nested invocations and executor tasks included.
THEOREM MutualExclusion == Spec => []OneThreadRunsScript
<1>1. IInv => OneThreadRunsScript
  <2> SUFFICES ASSUME IInv, NEW t \in Threads, NEW u \in Threads,
                      Inside(t, ScriptPoints), Inside(u, ScriptPoints)
               PROVE  t = u
    BY DEF OneThreadRunsScript
  <2>1. ASSUME NEW v \in Threads, Inside(v, ScriptPoints) PROVE owner = v
    <3>1. \E f \in FramesOf(v) : f.pc \in ScriptPoints
      BY <2>1 DEF Inside, FramesOf
    <3> QED
      BY <3>1 DEF IInv, MonitorInv, HoldsMonitor, ScriptPoints
  <2> QED
    BY <2>1
<1> QED
  BY <1>1, Inductive, PTL

\* After JSEngineContext.close only the closing thread, from its own callback, and the
\* two methods without a test of the field reach the destroyed native context.
THEOREM CloseSafety == Spec => []CloseHurtsOnlyItself
<1>1. IInv => CloseHurtsOnlyItself
  <2> SUFFICES ASSUME IInv, native = "destroyed", NEW t \in Threads,
                      NEW i \in 1 .. Len(stack[t]),
                      stack[t][i].pc \in {"native", "hasJobs", "erase", "jobs"},
                      stack[t][i].op # "unchecked"
               PROVE  closer = t
    BY DEF CloseHurtsOnlyItself
  <2>1. stack[t][i] \in FramesOf(t)
    BY DEF FramesOf
  <2> QED
    BY <2>1 DEF IInv, CloseInv, Outside
<1> QED
  BY <1>1, Inductive, PTL

\* The lock on finalizationQueue is only ever held by a thread whose next step gives it
\* back: finalizeJavaScriptObject, which takes no other lock, waits for nothing else.
THEOREM QueueLockNeverWaits == Spec => []QueueLockBrief
<1>1. Init => QueueLockBrief
  BY DEF Init, QueueLockBrief
<1>2. ASSUME IInv, QueueLockBrief, [Next]_vars PROVE QueueLockBrief'
  <2> SUFFICES ASSUME queueLock' # None
               PROVE  (At(queueLock, "isEmpty") \/ At(queueLock, "copy"))'
    BY DEF QueueLockBrief
  <2>1. ASSUME NEW t \in Threads, LockQueue(t)
        PROVE  (At(queueLock, "isEmpty") \/ At(queueLock, "copy"))'
    <3>1. queueLock' = t /\ stack[t] \in Seq(FrameRecord) /\ stack[t] # <<>>
      BY <1>2, <2>1 DEF LockQueue, At, Busy, IInv, TypeOK, FrameRecord
    <3>2. ASSUME NEW pc \in PCs, Goto(t, pc) PROVE At(t, pc)'
      <4>1. stack'[t] = <<Frame(Head(stack[t]).op, pc)>> \o Tail(stack[t])
        BY <1>2, <3>2 DEF Goto, IInv, TypeOK
      <4>2. Tail(stack[t]) \in Seq(FrameRecord) /\ Frame(Head(stack[t]).op, pc) \in FrameRecord
        BY <3>1, PopSeq, HeadFrame DEF Frame, FrameRecord
      <4>3. stack'[t] # <<>> /\ Head(stack'[t]) = Frame(Head(stack[t]).op, pc)
        BY <4>1, <4>2
      <4> QED
        BY <4>3 DEF At, Busy, Frame
    <3> QED
      BY <2>1, <3>1, <3>2 DEF LockQueue, PCs
  <2>2. ASSUME queueLock' = queueLock, stack'[queueLock] = stack[queueLock]
        PROVE  (At(queueLock, "isEmpty") \/ At(queueLock, "copy"))'
    BY <1>2, <2>2 DEF QueueLockBrief, At, Busy
  <2>3. ASSUME NEW u \in Threads, queueLock' = queueLock, u # queueLock,
               \A w \in Threads \ {u} : stack'[w] = stack[w]
        PROVE  (At(queueLock, "isEmpty") \/ At(queueLock, "copy"))'
    BY <1>2, <2>2, <2>3 DEF IInv, TypeOK
  <2>4. ASSUME NEW u \in Threads, u = queueLock
        PROVE  Busy(u) /\ (At(u, "isEmpty") \/ At(u, "copy")) /\ queueLock # None
    BY <1>2, <2>4, MonitorAssumption DEF QueueLockBrief, At
  <2>5. ASSUME NEW u \in Threads, ~LockQueue(u),
               Begin(u) \/ Callback(u) \/ Acquire(u) \/ Step(u) \/ Resume(u) \/ RunTask(u)
        PROVE  (At(queueLock, "isEmpty") \/ At(queueLock, "copy"))'
    <3>1. ~HasFinalizations(u) /\ ~Copy(u)
      BY DEF HasFinalizations, Copy
    <3>2. queueLock' = queueLock /\ \A w \in Threads \ {u} : stack'[w] = stack[w]
      <4>1. CASE Begin(u) \/ Callback(u) \/ RunTask(u)
        BY <1>2, <4>1 DEF Begin, Callback, RunTask, Push, IInv, TypeOK
      <4>2. CASE Acquire(u) \/ Resume(u)
        BY <1>2, <4>2 DEF Acquire, Resume, NativeReturn, DebugReturn, Goto, Leave, IInv, TypeOK
      <4>3. CASE Step(u)
        BY <1>2, <2>5, <3>1, <4>3
           DEF Step, Check, HasPendingJobs, HandlePostInvocation, Execute, RunPostInvocation,
               Erase, EndDrain, JobsDone, CloseField, DestroyContext, DebugCheck, Goto, Leave,
               IInv, TypeOK
      <4> QED
        BY <2>5, <4>1, <4>2, <4>3
    <3>3. u # queueLock
      <4>1. CASE Begin(u) \/ Callback(u) \/ RunTask(u) \/ Acquire(u) \/ Resume(u)
        BY <2>4, <4>1 DEF Begin, Callback, RunTask, Acquire, Resume, NativeReturn, DebugReturn, At
      <4>2. CASE Step(u)
        BY <2>4, <2>5, <3>1, <4>2
           DEF Step, Check, HasPendingJobs, HandlePostInvocation, Execute, RunPostInvocation,
               Erase, JobsDone, CloseField, DestroyContext, DebugCheck, At
      <4> QED
        BY <2>5, <4>1, <4>2
    <3> QED
      BY <2>3, <3>2, <3>3
  <2>6. ASSUME \/ FinalizerCheck \/ FinalizerAdd \/ SetJobExecutor \/ UNCHANGED vars
               \/ \E u \in Threads : EnqueueJob(u) \/ RunJob(u)
        PROVE  (At(queueLock, "isEmpty") \/ At(queueLock, "copy"))'
    BY <2>2, <2>6 DEF FinalizerCheck, FinalizerAdd, SetJobExecutor, EnqueueJob, RunJob, vars
  <2> QED
    BY <1>2, <2>1, <2>5, <2>6 DEF Next
<1> QED
  BY <1>1, <1>2, Inductive, PTL DEF Spec

\* The invocation that releases the monitor of an open context leaves no promise job
\* behind that handlePostInvocation has not run or handed to the job executor, unless
\* setJobExecutor(null) came between its two reads of the executor.
THEOREM JobsHandedOn == Spec => NoStrandedJobs
<1> DEFINE Released(t) == /\ owner = t /\ owner' = None
                          /\ Head(stack[t]).op = "invoke" /\ context
           Cared(t) == jobs' = 0 \/ WorkWaits' \/ (At(t, "execute") /\ executor = "reset")
<1>1. ASSUME IInv, Next, NEW t \in Threads, Released(t) PROVE Cared(t)
  <2> USE MonitorAssumption
  <2> DEFINE A(u) == \/ Begin(u) \/ Callback(u) \/ Acquire(u) \/ Step(u)
                     \/ Resume(u) \/ EnqueueJob(u) \/ RunTask(u) \/ RunJob(u)
  <2>1. owner' # owner /\ owner = t /\ owner' = None
    BY <1>1
  <2>2. ~FinalizerCheck /\ ~FinalizerAdd /\ ~SetJobExecutor
    BY <2>1 DEF FinalizerCheck, FinalizerAdd, SetJobExecutor
  <2>3. PICK u \in Threads : A(u)
    BY <1>1, <2>2 DEF Next
  <2>4. ~Begin(u) /\ ~Callback(u) /\ ~EnqueueJob(u) /\ ~RunTask(u) /\ ~RunJob(u)
    BY <2>1 DEF Begin, Callback, Push, EnqueueJob, RunTask, RunJob
  <2>5. ~Acquire(u)
    BY <2>1 DEF Acquire
  <2>6. Step(u) \/ Resume(u)
    BY <2>3, <2>4, <2>5
  <2>7. /\ ~DebugCheck(u) /\ ~DebugReturn(u) /\ ~LockQueue(u) /\ ~HasFinalizations(u)
        /\ ~HandlePostInvocation(u)
    BY <2>1 DEF DebugCheck, DebugReturn, LockQueue, HasFinalizations, HandlePostInvocation
  <2>8. u = t
    <3>1. \E pc \in PCs \ {"enter", "debugCheck", "debugNative"} : At(u, pc)
      BY <2>6, <2>7 DEF Step, Resume, Check, NativeReturn, HasPendingJobs, Execute,
                        RunPostInvocation, Copy, Erase, JobsDone, CloseField, DestroyContext, PCs
    <3> QED
      BY <1>1, <2>1, <3>1, AtPoint
  <2>9. /\ ~Check(t) /\ ~NativeReturn(t) /\ ~RunPostInvocation(t)
        /\ ~Copy(t) /\ ~Erase(t) /\ ~CloseField(t)
    BY <1>1, <2>1 DEF Check, NativeReturn, RunPostInvocation, Copy, Erase, EndDrain, CloseField
  <2>10. CASE HasPendingJobs(t)
    <3>1. jobs' = 0
      BY <1>1, <2>1, <2>10 DEF HasPendingJobs, IInv, TypeOK
    <3> QED
      BY <3>1
  <2>11. CASE Execute(t)
    <3>1. CASE executor = "set"
      <4>1. tasks' > 0
        BY <1>1, <2>11, <3>1 DEF Execute, IInv, TypeOK
      <4> QED
        BY <4>1 DEF WorkWaits
    <3>2. CASE executor # "set"
      <4>1. At(t, "execute")
        BY <2>11 DEF Execute
      <4>2. executor # "null"
        BY <1>1, <4>1, AtPoint
      <4> QED
        BY <1>1, <3>2, <4>1, <4>2 DEF IInv, TypeOK
    <3> QED
      BY <3>1, <3>2
  <2>12. CASE JobsDone(t)
    BY <2>12 DEF JobsDone
  <2>13. CASE DestroyContext(t)
    BY <2>13 DEF DestroyContext
  <2> QED
    BY <2>6, <2>7, <2>8, <2>9, <2>10, <2>11, <2>12, <2>13 DEF Step, Resume
<1>2. ASSUME UNCHANGED vars, NEW t \in Threads, Released(t) PROVE Cared(t)
  BY <1>2, MonitorAssumption DEF vars
<1>3. IInv /\ [Next]_vars =>
        [\A t \in Threads :
           (/\ owner = t /\ owner' = None
            /\ Head(stack[t]).op = "invoke"
            /\ context)
           => (jobs' = 0 \/ WorkWaits' \/ (At(t, "execute") /\ executor = "reset"))]_vars
  BY <1>1, <1>2
<1> QED
  BY <1>3, Inductive, PTL DEF Spec, NoStrandedJobs
=============================================================================
