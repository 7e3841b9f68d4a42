------------------------ MODULE QuickJSBridgeProofs ------------------------
(***************************************************************************)
(* Handle safety of the QuickJS bridge for every number of handles,        *)
(* values, addresses and activations, provided the JVM keeps the receiver  *)
(* of a running method reachable.                                          *)
(***************************************************************************)
EXTENDS QuickJSBridge, TLAPS

\* What ArrayList.add does to the elements of the finalization queue.
LEMMA ElementsAppend ==
    ASSUME NEW S, NEW s \in Seq(S), NEW x \in S
    PROVE  Elements(Append(s, x)) = Elements(s) \cup {x}
  BY DEF Elements

\* Nothing waits in an empty queue.
LEMMA ElementsEmpty == Elements(<<>>) = {}
  BY DEF Elements

\* A pointer that is not queued can be added without making a duplicate.
LEMMA AppendKeepsDistinct ==
    ASSUME NEW S, NEW s \in Seq(S), NEW x \in S, x \notin Elements(s),
           \A i, j \in 1 .. Len(s) : s[i] = s[j] => i = j
    PROVE  \A i, j \in 1 .. Len(Append(s, x)) :
               Append(s, x)[i] = Append(s, x)[j] => i = j
  BY DEF Elements

\* A fresh context satisfies the inductive invariant.
LEMMA InitIInv == Init => IInv
<1> SUFFICES ASSUME Init PROVE IInv
  OBVIOUS
<1> USE ConstantsAssumption DEF Init
<1>1. TypeOK
  <2>1. Idle \in CallRecord
    BY DEF Idle, CallRecord
  <2>2. call \in [Calls -> CallRecord]
    BY <2>1
  <2>3. context \in BOOLEAN /\ draining \in BOOLEAN
    OBVIOUS
  <2>4. /\ finalizationQueue \in Seq(Addrs)
        /\ copy \in Seq(Addrs)
    OBVIOUS
  <2>5. /\ pointer \in [Handles -> Addrs \cup {None}]
        /\ made \in [Handles -> Values \cup {None}]
        /\ fin \in [Handles -> {"none", "adding", "done"}]
        /\ twin \in [Addrs -> Values \cup {None}]
    OBVIOUS
  <2> QED
    BY <2>2, <2>3, <2>4, <2>5 DEF TypeOK
<1>2. HandlesInv /\ TwinsInv /\ DrainInv
  BY DEF HandlesInv, TwinsInv, DrainInv
<1>3. CallsInv /\ ResolvedIsMade
  BY DEF CallsInv, ResolvedIsMade, InNative, Idle
<1>4. Owners = {} /\ Pending = {}
  BY ElementsEmpty DEF Owners, Born, Pending
<1>5. OwnersInv /\ StashAccounted
  BY <1>4 DEF OwnersInv, StashAccounted
<1>6. PendingExclusive
  BY <1>4, ElementsEmpty DEF PendingExclusive
<1> QED
  BY <1>1, <1>2, <1>3, <1>5, <1>6 DEF IInv

\* Every step of the bridge preserves the inductive invariant.  The
\* interesting cases: a new twin takes an address that is neither owned nor
\* pending (ToJava), a finalized handle turns from owner to pending exactly once
\* (FinalizeAdd), a drain erases only what no owner uses (DrainErase).
LEMMA NextIInv == ASSUME PinReceiver, IInv, Next PROVE IInv'
<1> USE ConstantsAssumption
    DEF IInv, Born, Owners, InNative, Idle, CallRecord, JavaScriptRuns,
        javaVars, queueVars, jsVars, Reachable, ReachableFrom, toValueAsLocal
<1>1. ASSUME NEW v \in Values, NewValue(v) PROVE IInv'
  <2> USE <1>1 DEF NewValue
  <2>1. /\ HandlesInv'
        /\ CallsInv'
        /\ OwnersInv'
        /\ DrainInv'
        /\ StashAccounted'
        /\ PendingExclusive'
    BY DEF HandlesInv, TypeOK, CallsInv, OwnersInv, TwinsInv, DrainInv,
         StashAccounted, Pending, PendingExclusive
  <2>2. TypeOK'
    BY DEF TypeOK
  <2>3. TwinsInv'
    BY DEF TwinsInv, TypeOK, HandlesInv, OwnersInv, Reachable
  <2>4. ResolvedIsMade'
    BY DEF ResolvedIsMade, TypeOK, CallsInv, Reachable, HandlesInv
  <2> QED
    BY <2>1, <2>2, <2>3, <2>4
<1>2. ASSUME NEW v \in Values, DropValue(v) PROVE IInv'
  <2> USE <1>2 DEF DropValue
  <2>1. /\ HandlesInv'
        /\ CallsInv'
        /\ ResolvedIsMade'
        /\ OwnersInv'
        /\ DrainInv'
        /\ StashAccounted'
        /\ PendingExclusive'
    BY DEF HandlesInv, TypeOK, CallsInv, ResolvedIsMade, Reachable, OwnersInv,
         TwinsInv, DrainInv, StashAccounted, Pending, PendingExclusive
  <2>2. TypeOK'
    BY DEF TypeOK
  <2>3. TwinsInv'
    BY DEF TwinsInv, TypeOK, HandlesInv, OwnersInv, Reachable
  <2> QED
    BY <2>1, <2>2, <2>3
<1>3. ASSUME NEW v \in Values, FreeValue(v) PROVE IInv'
  <2> USE <1>3 DEF FreeValue
  <2>1. /\ HandlesInv'
        /\ CallsInv'
        /\ OwnersInv'
        /\ DrainInv'
        /\ StashAccounted'
        /\ PendingExclusive'
    BY DEF HandlesInv, TypeOK, CallsInv, OwnersInv, TwinsInv, DrainInv,
         StashAccounted, Pending, PendingExclusive
  <2>2. TypeOK'
    BY DEF TypeOK
  <2>3. ResolvedIsMade'
    BY DEF ResolvedIsMade, TypeOK, CallsInv, Reachable, HandlesInv
  <2>4. TwinsInv'
    BY DEF TwinsInv, TypeOK, HandlesInv, OwnersInv, Reachable
  <2> QED
    BY <2>1, <2>2, <2>3, <2>4
<1>4. ASSUME NEW h \in Handles, NEW v \in Values, NEW a \in Addrs, ToJava(h, v, a) PROVE IInv'
  <2> USE <1>4 DEF ToJava
  <2>1. DrainInv'
    BY DEF DrainInv
  <2>2. TypeOK'
    BY DEF TypeOK
  <2>3. HandlesInv'
    BY DEF HandlesInv, TypeOK
  <2>4. CallsInv'
    BY DEF CallsInv, TypeOK, HandlesInv
  <2>5. ResolvedIsMade'
    BY DEF ResolvedIsMade, TypeOK, CallsInv, Reachable, HandlesInv
  <2>6. OwnersInv'
    BY DEF OwnersInv, TypeOK, HandlesInv, TwinsInv
  <2>7. TwinsInv'
    BY DEF TwinsInv, TypeOK, HandlesInv, OwnersInv, Reachable
  <2>8. StashAccounted'
    BY DEF StashAccounted, TypeOK, Pending, HandlesInv
  <2>9. PendingExclusive'
    <3>1. a \notin Pending /\ Pending' = Pending
      BY DEF StashAccounted, TwinsInv, Pending
    <3>2. Owners' \subseteq Owners \cup {h} /\ \A g \in Owners : pointer'[g] = pointer[g]
      BY DEF TypeOK
    <3>3. pointer'[h] = a
      BY DEF TypeOK
    <3> QED
      BY <3>1, <3>2, <3>3 DEF PendingExclusive
  <2> QED
    BY <2>1, <2>2, <2>3, <2>4, <2>5, <2>6, <2>7, <2>8, <2>9
<1>5. ASSUME NEW h \in Handles, ToJS(h) PROVE IInv'
  <2> USE <1>5 DEF ToJS
  <2>1. /\ HandlesInv'
        /\ CallsInv'
        /\ ResolvedIsMade'
        /\ OwnersInv'
        /\ DrainInv'
        /\ StashAccounted'
        /\ PendingExclusive'
    BY DEF HandlesInv, TypeOK, CallsInv, ResolvedIsMade, Reachable, OwnersInv,
         TwinsInv, DrainInv, StashAccounted, Pending, PendingExclusive
  <2>2. TypeOK'
    BY DEF TypeOK, HandlesInv
  <2>3. TwinsInv'
    BY DEF TwinsInv, TypeOK, HandlesInv, OwnersInv, Reachable
  <2> QED
    BY <2>1, <2>2, <2>3
<1>6. ASSUME NEW c \in Calls, NEW h \in Handles, Capture(c, h) PROVE IInv'
  <2> USE <1>6 DEF Capture
  <2>1. /\ HandlesInv'
        /\ OwnersInv'
        /\ TwinsInv'
        /\ DrainInv'
        /\ StashAccounted'
        /\ PendingExclusive'
    BY DEF HandlesInv, TypeOK, OwnersInv, TwinsInv, Reachable, DrainInv,
         StashAccounted, Pending, PendingExclusive
  <2>2. TypeOK'
    BY DEF TypeOK
  <2>3. CallsInv'
    BY DEF CallsInv, TypeOK, HandlesInv
  <2>4. ResolvedIsMade'
    BY DEF ResolvedIsMade, TypeOK, CallsInv, Reachable, HandlesInv
  <2> QED
    BY <2>1, <2>2, <2>3, <2>4
<1>7. ASSUME NEW c \in Calls, Enter(c) PROVE IInv'
  <2> USE <1>7 DEF Enter
  <2>1. /\ HandlesInv'
        /\ OwnersInv'
        /\ TwinsInv'
        /\ DrainInv'
        /\ StashAccounted'
        /\ PendingExclusive'
    BY DEF HandlesInv, TypeOK, OwnersInv, TwinsInv, Reachable, DrainInv,
         StashAccounted, Pending, PendingExclusive
  <2>2. TypeOK'
    <3>1. CASE context
      <4>1. twin[pointer[call[c].handle]] \in Values
        BY <3>1 DEF CallsInv, OwnersInv, TwinsInv, TypeOK
      <4>2. call' = [call EXCEPT ![c] = [pc |-> "native", handle |-> call[c].handle,
                                         value |-> twin[pointer[call[c].handle]]]]
        BY <3>1
      <4>3. call[c].handle \in Handles
        BY DEF CallsInv
      <4> QED
        BY <4>1, <4>2, <4>3 DEF TypeOK
    <3>2. CASE ~context
      BY <3>2 DEF TypeOK
    <3> QED
      BY <3>1, <3>2
  <2>3. CallsInv'
    BY DEF CallsInv, TypeOK, HandlesInv
  <2>4. ResolvedIsMade'
    <3>1. CASE context
      <4>1. call[c].handle \in Owners
        BY DEF CallsInv, TypeOK
      <4>2. /\ twin[pointer[call[c].handle]] = made[call[c].handle]
            /\ twin[pointer[call[c].handle]] \in heap
        BY <3>1, <4>1 DEF OwnersInv, TwinsInv
      <4>3. call' = [call EXCEPT ![c] = [pc |-> "native", handle |-> call[c].handle,
                                         value |-> twin[pointer[call[c].handle]]]]
        BY <3>1
      <4> QED
        BY <4>2, <4>3 DEF ResolvedIsMade, TypeOK
    <3>2. CASE ~context
      BY <3>2 DEF ResolvedIsMade, TypeOK
    <3> QED
      BY <3>1, <3>2
  <2> QED
    BY <2>1, <2>2, <2>3, <2>4
<1>8. ASSUME NEW c \in Calls, Return(c) PROVE IInv'
  <2> USE <1>8 DEF Return
  <2>1. /\ HandlesInv'
        /\ OwnersInv'
        /\ TwinsInv'
        /\ DrainInv'
        /\ StashAccounted'
        /\ PendingExclusive'
    BY DEF HandlesInv, TypeOK, OwnersInv, TwinsInv, Reachable, DrainInv,
         StashAccounted, Pending, PendingExclusive
  <2>2. TypeOK'
    BY DEF TypeOK
  <2>3. CallsInv'
    BY DEF CallsInv, TypeOK, HandlesInv
  <2>4. ResolvedIsMade'
    BY DEF ResolvedIsMade, TypeOK, CallsInv, Reachable, HandlesInv
  <2> QED
    BY <2>1, <2>2, <2>3, <2>4
<1>9. ASSUME NEW h \in Handles, DropHandle(h) PROVE IInv'
  <2> USE <1>9 DEF DropHandle
  <2>1. /\ CallsInv'
        /\ ResolvedIsMade'
        /\ OwnersInv'
        /\ TwinsInv'
        /\ DrainInv'
        /\ StashAccounted'
        /\ PendingExclusive'
    BY DEF CallsInv, TypeOK, HandlesInv, ResolvedIsMade, Reachable, OwnersInv,
         TwinsInv, DrainInv, StashAccounted, Pending, PendingExclusive
  <2>2. TypeOK'
    BY DEF TypeOK
  <2>3. HandlesInv'
    BY DEF HandlesInv, TypeOK
  <2> QED
    BY <2>1, <2>2, <2>3
<1>10. ASSUME NEW h \in Handles, Finalize(h) PROVE IInv'
  <2> USE <1>10 DEF Finalizable, Finalize
  <2>1. ResolvedIsMade' /\ TwinsInv' /\ DrainInv'
    BY DEF ResolvedIsMade, TypeOK, CallsInv, Reachable, HandlesInv, TwinsInv,
         OwnersInv, DrainInv
  <2>2. TypeOK'
    BY DEF TypeOK
  <2>3. HandlesInv'
    BY DEF HandlesInv, TypeOK
  <2>4. CallsInv'
    BY DEF CallsInv, TypeOK, HandlesInv
  <2>5. OwnersInv'
    BY DEF OwnersInv, TypeOK, HandlesInv, TwinsInv
  <2>6. StashAccounted'
    BY DEF StashAccounted, TypeOK, Pending, HandlesInv
  <2>7. PendingExclusive'
    BY DEF PendingExclusive, TypeOK, Pending, HandlesInv
  <2> QED
    BY <2>1, <2>2, <2>3, <2>4, <2>5, <2>6, <2>7
<1>11. ASSUME NEW h \in Handles, FinalizeAdd(h) PROVE IInv'
  <2> USE <1>11 DEF FinalizeAdd
  <2>1. ResolvedIsMade' /\ TwinsInv' /\ DrainInv'
    BY DEF ResolvedIsMade, TypeOK, CallsInv, Reachable, HandlesInv, TwinsInv,
         OwnersInv, DrainInv
  <2>2. TypeOK'
    BY DEF TypeOK, HandlesInv
  <2>3. HandlesInv'
    BY DEF HandlesInv, TypeOK
  <2>4. CallsInv'
    BY DEF CallsInv, TypeOK, HandlesInv
  <2>5. OwnersInv'
    BY DEF OwnersInv, TypeOK, HandlesInv, TwinsInv
  <2>6. StashAccounted'
    <3>0. pointer[h] \in Addrs
      BY DEF TypeOK, HandlesInv
    <3>1. Elements(finalizationQueue') = Elements(finalizationQueue) \cup {pointer[h]}
      BY <3>0, ElementsAppend DEF TypeOK
    <3>2. Pending' = Pending \cup {pointer[h]}
      BY <3>1 DEF Pending
    <3>3. h \in Owners /\ Owners' = Owners \ {h}
      BY DEF TypeOK, HandlesInv
    <3> QED
      BY <3>2, <3>3 DEF StashAccounted
  <2>7. PendingExclusive'
    <3>1. h \in Owners /\ Owners' = Owners \ {h} /\ pointer[h] \in Addrs
      BY DEF TypeOK, HandlesInv
    <3>2. Elements(finalizationQueue') = Elements(finalizationQueue) \cup {pointer[h]}
      BY <3>1, ElementsAppend DEF TypeOK
    <3>3. pointer[h] \notin Elements(finalizationQueue) /\ pointer[h] \notin Elements(copy)
      BY <3>1 DEF PendingExclusive, Pending
    <3>4. \A i, j \in 1 .. Len(finalizationQueue') :
             finalizationQueue'[i] = finalizationQueue'[j] => i = j
      <4>1. \A i, j \in 1 .. Len(finalizationQueue) :
               finalizationQueue[i] = finalizationQueue[j] => i = j
        BY DEF PendingExclusive
      <4> QED
        BY <4>1, <3>1, <3>3, AppendKeepsDistinct DEF TypeOK
    <3>5. \A g \in Owners' : pointer[g] \notin Pending /\ pointer[g] # pointer[h]
      BY <3>1 DEF PendingExclusive, OwnersInv
    <3>6. Pending' = Pending \cup {pointer[h]}
      BY <3>2 DEF Pending
    <3>7. Elements(finalizationQueue') \cap Elements(copy') = {}
      BY <3>2, <3>3 DEF PendingExclusive
    <3> QED
      BY <3>4, <3>5, <3>6, <3>7 DEF PendingExclusive
  <2> QED
    BY <2>1, <2>2, <2>3, <2>4, <2>5, <2>6, <2>7
<1>12. ASSUME DrainCopy PROVE IInv'
  <2> USE <1>12 DEF DrainCopy
  <2>1. HandlesInv' /\ CallsInv' /\ ResolvedIsMade' /\ OwnersInv' /\ TwinsInv'
    BY DEF HandlesInv, TypeOK, CallsInv, ResolvedIsMade, Reachable, OwnersInv,
         TwinsInv
  <2>2. TypeOK'
    BY DEF TypeOK
  <2>3. DrainInv'
    BY DEF DrainInv
  <2>4. StashAccounted'
    <3>1. Pending' = Pending
      BY ElementsEmpty DEF Pending, DrainInv
    <3> QED
      BY <3>1 DEF StashAccounted
  <2>5. PendingExclusive'
    <3>1. Pending' = Pending /\ Elements(finalizationQueue') = {}
      BY ElementsEmpty DEF Pending, DrainInv
    <3> QED
      BY <3>1 DEF PendingExclusive
  <2> QED
    BY <2>1, <2>2, <2>3, <2>4, <2>5
<1>13. ASSUME DrainErase PROVE IInv'
  <2> USE <1>13 DEF DrainErase, finalizeJavaScriptObjects
  <2>1. HandlesInv' /\ CallsInv' /\ ResolvedIsMade'
    BY DEF HandlesInv, TypeOK, CallsInv, ResolvedIsMade, Reachable
  <2>2. TypeOK'
    <3>1. stash' \subseteq Addrs /\ twin' \in [Addrs -> Values \cup {None}]
      <4>1. CASE context
        BY <4>1 DEF TypeOK
      <4>2. CASE ~context
        BY <4>2 DEF TypeOK
      <4> QED
        BY <4>1, <4>2
    <3>2. copy' \in Seq(Addrs)
      OBVIOUS
    <3>3. draining' \in BOOLEAN
      OBVIOUS
    <3> QED
      BY <3>1, <3>2, <3>3 DEF TypeOK
  <2>3. DrainInv'
    BY DEF DrainInv
  <2>4. OwnersInv'
    <3>1. \A h \in Owners : pointer[h] \notin Elements(copy)
      BY DEF PendingExclusive, Pending
    <3>2. CASE context
      BY <3>1, <3>2 DEF OwnersInv, TypeOK
    <3>3. CASE ~context
      BY <3>3 DEF OwnersInv
    <3> QED
      BY <3>2, <3>3
  <2>5. TwinsInv'
    BY DEF TwinsInv, TypeOK, HandlesInv, OwnersInv, Reachable
  <2>6. StashAccounted'
    <3>1. Pending' = Pending \ Elements(copy)
      BY ElementsEmpty DEF Pending, PendingExclusive
    <3>2. \A h \in Owners : pointer[h] \notin Elements(copy)
      BY DEF PendingExclusive, Pending
    <3> QED
      BY <3>1, <3>2 DEF StashAccounted
  <2>7. PendingExclusive'
    <3>1. Pending' \subseteq Pending /\ Elements(copy') = {}
      BY ElementsEmpty DEF Pending
    <3> QED
      BY <3>1 DEF PendingExclusive
  <2> QED
    BY <2>1, <2>2, <2>3, <2>4, <2>5, <2>6, <2>7
<1>14. ASSUME Close PROVE IInv'
  <2> USE <1>14 DEF Close, destroyContext
  <2>1. HandlesInv' /\ DrainInv' /\ PendingExclusive'
    BY DEF HandlesInv, TypeOK, DrainInv, PendingExclusive, Pending
  <2>2. TypeOK'
    BY DEF TypeOK
  <2>3. CallsInv'
    BY DEF CallsInv, TypeOK, HandlesInv
  <2>4. ResolvedIsMade'
    BY DEF ResolvedIsMade, TypeOK, CallsInv, Reachable, HandlesInv
  <2>5. OwnersInv'
    BY DEF OwnersInv, TypeOK, HandlesInv, TwinsInv
  <2>6. TwinsInv'
    BY DEF TwinsInv, TypeOK, HandlesInv, OwnersInv, Reachable
  <2>7. StashAccounted'
    BY DEF StashAccounted, TypeOK, Pending, HandlesInv
  <2> QED
    BY <2>1, <2>2, <2>3, <2>4, <2>5, <2>6, <2>7
<1> QED
  BY <1>1, <1>2, <1>3, <1>4, <1>5, <1>6, <1>7, <1>8,
     <1>9, <1>10, <1>11, <1>12, <1>13, <1>14 DEF Next

\* Stuttering preserves it too.
LEMMA StutterIInv == ASSUME IInv, UNCHANGED vars PROVE IInv'
<1> USE DEF vars, IInv
<1>1. TypeOK'
  BY DEF TypeOK
<1>2. HandlesInv' /\ TwinsInv' /\ DrainInv'
  BY DEF HandlesInv, TwinsInv, DrainInv, Born
<1>3. CallsInv' /\ ResolvedIsMade'
  BY DEF CallsInv, ResolvedIsMade, InNative, Born
<1>4. Owners' = Owners /\ Pending' = Pending
  BY DEF Owners, Born, Pending
<1>5. OwnersInv' /\ StashAccounted' /\ PendingExclusive'
  BY <1>4 DEF OwnersInv, StashAccounted, PendingExclusive
<1> QED
  BY <1>1, <1>2, <1>3, <1>5

\* The inductive invariant holds in every reachable state.
THEOREM Inductive == ASSUME PinReceiver PROVE Spec => []IInv
<1>1. IInv /\ [Next]_vars => IInv'
  BY NextIInv, StutterIInv
<1> QED
  BY InitIInv, <1>1, PTL DEF Spec

\* Type correctness of the bridge's state.
THEOREM TypeCorrect == ASSUME PinReceiver PROVE Spec => []TypeOK
<1>1. IInv => TypeOK
  BY DEF IInv
<1> QED
  BY Inductive, <1>1, PTL

\* A usable JavaScriptObject never dangles and never stands for another object.
THEOREM HandleSafety == ASSUME PinReceiver PROVE Spec => []HandleResolves
<1>1. IInv => HandleResolves
  <2> SUFFICES ASSUME IInv, context, NEW h \in Usable
               PROVE  /\ pointer[h] \in stash
                      /\ twin[pointer[h]] = made[h]
                      /\ made[h] \in heap
    BY DEF HandleResolves
  <2>1. h \in Owners
    BY DEF Usable, IInv, TypeOK, HandlesInv, CallsInv, Owners, Born
  <2> QED
    BY <2>1 DEF IInv, OwnersInv, TwinsInv
<1> QED
  BY Inductive, <1>1, PTL

\* A native method works on the object its receiver was created for.
THEOREM LookupSafety == ASSUME PinReceiver PROVE Spec => []ResolvedIsMade
<1>1. IInv => ResolvedIsMade
  BY DEF IInv
<1> QED
  BY Inductive, <1>1, PTL

\* The stash neither leaks nor loses an entry.
THEOREM StashSafety == ASSUME PinReceiver PROVE Spec => []StashAccounted
<1>1. IInv => StashAccounted
  BY DEF IInv
<1> QED
  BY Inductive, <1>1, PTL

\* finalizationQueue and the drain's copy: a pointer waits for erasure at most once, and
\* never while a handle that is not finalized uses the address.
THEOREM PendingSafety == ASSUME PinReceiver PROVE Spec => []PendingExclusive
<1>1. IInv => PendingExclusive
  BY DEF IInv
<1> QED
  BY Inductive, <1>1, PTL

\* The bridge implements the handle table: marshalling binds, the start of a
\* finalization releases, a native lookup returns the binding, close ends all of
\* them, and every other step leaves the table alone.
THEOREM Refinement == ASSUME PinReceiver PROVE Spec => ImplementsHandleTable
<1> DEFINE B == [h \in Handles |->
                   IF context /\ pointer[h] # None /\ fin[h] = "none"
                   THEN twin[pointer[h]] ELSE None]
           R == [c \in Calls |-> call[c].value]
<1>1. Init => Table!Init
  BY ConstantsAssumption DEF Init, Table!Init, Born, Idle
<1>2. ASSUME IInv, IInv', [Next]_vars
      PROVE  [Table!Next]_(Table!vars)
  <2> USE <1>2, ConstantsAssumption DEF Born, InNative, Idle, javaVars,
       queueVars, jsVars, JavaScriptRuns, toValueAsLocal
  <2> SUFFICES ASSUME UNCHANGED <<context, javaRoots, B, Born, R>> => FALSE
               PROVE  Table!Next
    BY DEF Table!vars
  <2>0. ~ UNCHANGED vars
    BY DEF vars
  <2>1. ASSUME NEW v \in Values, NewValue(v) \/ DropValue(v) \/ FreeValue(v) PROVE FALSE
    BY <2>1 DEF NewValue, DropValue, FreeValue
  <2>2. ASSUME NEW h \in Handles, NEW v \in Values, NEW a \in Addrs, ToJava(h, v, a)
        PROVE  Table!Bind(h, v)
    <3>1. context /\ context' = context /\ R' = R
      BY <2>2 DEF ToJava
    <3>2. h \notin Born /\ Born' = Born \cup {h} /\ javaRoots' = javaRoots \cup {h}
      BY <2>2 DEF ToJava, IInv, TypeOK
    <3>3. B' = [B EXCEPT ![h] = v]
      <4>1. \A g \in Handles \ {h} : B'[g] = B[g]
        BY <2>2 DEF ToJava, IInv, TypeOK, OwnersInv, TwinsInv, Owners
      <4>2. B'[h] = v
        BY <2>2 DEF ToJava, IInv, TypeOK, HandlesInv
      <4> QED
        BY <4>1, <4>2
    <3> QED
      BY <3>1, <3>2, <3>3 DEF Table!Bind
  <2>3. ASSUME NEW h \in Handles, ToJS(h) \/ FinalizeAdd(h) PROVE FALSE
    <3>1. UNCHANGED <<context, javaRoots, Born, R, twin, pointer>>
      BY <2>3 DEF ToJS, FinalizeAdd
    <3>2. \A g \in Handles : (fin'[g] = "none") <=> (fin[g] = "none")
      BY <2>3 DEF ToJS, FinalizeAdd, IInv, TypeOK
    <3> QED
      BY <3>1, <3>2
  <2>11. ASSUME NEW h \in Handles, DropHandle(h) PROVE Table!Forget(h)
    <3>1. UNCHANGED <<context, B, Born, R>> /\ javaRoots' = javaRoots \ {h}
      BY <2>11 DEF DropHandle
    <3> QED
      BY <3>1 DEF Table!Forget
  <2>4. ASSUME NEW h \in Handles, Finalize(h) PROVE Table!Release(h)
    <3>1. UNCHANGED <<context, javaRoots, Born, R, twin, pointer>> /\ fin'[h] # "none"
      BY <2>4 DEF Finalize, IInv, TypeOK
    <3>2. B' = [B EXCEPT ![h] = None]
      <4>1. \A g \in Handles \ {h} : fin'[g] = fin[g]
        BY <2>4 DEF Finalize, IInv, TypeOK
      <4>2. B'[h] = None /\ \A g \in Handles \ {h} : B'[g] = B[g]
        BY <3>1, <4>1
      <4> QED
        BY <4>2
    <3>3. context
      <4>1. CASE ~context
        BY <4>1, <3>1
      <4> QED
        BY <4>1
    <3>4. B[h] # None
      BY <2>4, <3>3 DEF Finalize, Finalizable, IInv, TypeOK, OwnersInv, Owners,
           HandlesInv
    <3>5. h \notin javaRoots
      BY <2>4 DEF Finalize, Finalizable
    <3> QED
      BY <3>1, <3>2, <3>4, <3>5 DEF Table!Release
  <2>5. ASSUME NEW c \in Calls, NEW h \in Handles, Capture(c, h) PROVE FALSE
    <3>1. R' = R
      BY <2>5 DEF Capture, IInv, TypeOK, CallRecord
    <3> QED
      BY <3>1, <2>5 DEF Capture
  <2>6. ASSUME NEW c \in Calls, Enter(c) PROVE \E h \in Handles : Table!Lookup(c, h)
    <3>1. UNCHANGED <<context, javaRoots, Born, B>>
      BY <2>6 DEF Enter
    <3>2. context
      <4>1. ASSUME ~context PROVE FALSE
        <5>1. R' = R
          BY <2>6, <4>1 DEF Enter, IInv, TypeOK, CallRecord, CallsInv
        <5> QED
          BY <5>1, <3>1
      <4> QED
        BY <4>1
    <3>3. PICK h \in Handles : h = call[c].handle
      BY <2>6 DEF Enter, IInv, CallsInv
    <3>4. B[h] = twin[pointer[h]] /\ B[h] # None
      BY <2>6, <3>2, <3>3 DEF Enter, IInv, CallsInv, OwnersInv, Owners,
           HandlesInv, TypeOK
    <3>5. R' = [R EXCEPT ![c] = B[h]]
      BY <2>6, <3>2, <3>3, <3>4 DEF Enter, IInv, TypeOK, CallRecord
    <3> QED
      BY <3>1, <3>4, <3>5 DEF Table!Lookup
  <2>7. ASSUME NEW c \in Calls, Return(c) PROVE Table!Done(c)
    <3>1. R' = [R EXCEPT ![c] = None]
      BY <2>7 DEF Return, IInv, TypeOK, CallRecord
    <3> QED
      BY <2>7, <3>1 DEF Return, Table!Done
  <2>8. CASE DrainCopy
    BY <2>8 DEF DrainCopy
  <2>9. CASE DrainErase
    <3>1. UNCHANGED <<context, javaRoots, Born, R, pointer, fin>>
      BY <2>9 DEF DrainErase
    <3>2. \A h \in Owners : pointer[h] \notin Elements(copy)
      BY DEF IInv, PendingExclusive, Pending
    <3>3. \A h \in Handles : context /\ pointer[h] # None /\ fin[h] = "none"
                             => twin'[pointer[h]] = twin[pointer[h]]
      BY <2>9, <3>2 DEF DrainErase, finalizeJavaScriptObjects, Owners, IInv, TypeOK
    <3> QED
      BY <3>1, <3>3
  <2>10. CASE Close
    <3>1. B' = [h \in Handles |-> None] /\ context /\ context' = FALSE
      BY <2>10 DEF Close
    <3>2. UNCHANGED <<javaRoots, Born, R>>
      BY <2>10 DEF Close
    <3>3. Table!Close
      BY <3>1, <3>2 DEF Table!Close
    <3> QED
      BY <3>3 DEF Table!Next
  <2> QED
    BY <2>0, <2>1, <2>2, <2>3, <2>4, <2>5, <2>6, <2>7, <2>8, <2>9, <2>10, <2>11 DEF
         Next, Table!Next
<1> QED
  BY Inductive, <1>1, <1>2, PTL DEF Spec, Table!Spec, ImplementsHandleTable
=============================================================================
