------------------------- MODULE DuktapeBridgeProofs -------------------------
(***************************************************************************)
(* Lifetime of the JavaScriptObjects of DuktapeContext for any number of   *)
(* objects and addresses, any prototypes, any way of cutting addresses to  *)
(* indices and any script: what holds in every slot of the stash that has  *)
(* not been crossed, whatever happens in the others.                       *)
(***************************************************************************)
EXTENDS DuktapeBridge, TLAPS

Queued == Elements(finalizationQueue) \cup Elements(copy)

\* A JavaScriptObject whose pointer is not queued yet.
Pending(h) == pointer[h] # None /\ fin[h] # "done"

\* Objects have addresses of their own.
PlaceInv ==
    \A u, v \in Values : place[u] # None /\ place[u] = place[v] => u = v

\* JavaScriptObjects are created for an object, and finalized when unreachable; only a
\* crossing brings one back.
HandleInv ==
    /\ \A h \in Handles : pointer[h] = None => fin[h] = "none"
    /\ \A h \in Handles : pointer[h] # None => made[h] \in Values
    /\ \A h \in javaRoots : pointer[h] # None
    /\ \A h \in javaRoots : Slot(h) \notin crossed => fin[h] = "none"

\* The object of a JavaScriptObject not yet finalized is where its pointer says, in the
\* stash, and refers back to it; nothing is queued in its slot.
PendingInv ==
    \A h \in Handles : Pending(h) /\ Slot(h) \notin crossed =>
        /\ place[made[h]] = pointer[h]
        /\ stash[Slot(h)] = made[h]
        /\ javaThis[made[h]] = h
        /\ weak[h] = "set"
        /\ \A q \in Queued : Index[q] # Slot(h)

\* JAVA_THIS refers to a JavaScriptObject made for the object, until its pointer has
\* been drained.
ThisInv ==
    \A v \in Values : javaThis[v] # None =>
        /\ made[javaThis[v]] = v
        /\ place[v] # None /\ pointer[javaThis[v]] = place[v]
        /\ fin[javaThis[v]] = "done" /\ Index[place[v]] \notin crossed => place[v] \in Queued

\* A queued pointer is the address of an object that is still in the stash and still
\* refers to the finalized JavaScriptObject; its slot is drained once.
QueueInv ==
    /\ ~draining => Elements(copy) = {}
    /\ \A q \in Elements(finalizationQueue), p \in Elements(copy) :
          Index[q] = Index[p] => Index[q] \in crossed
    /\ \A q \in Queued : Index[q] \notin crossed => \E v \in Values :
          /\ place[v] = q
          /\ stash[Index[q]] = v
          /\ javaThis[v] # None
          /\ fin[javaThis[v]] = "done"

\* The JavaScriptObject returned for an object is one made for it or for its prototype.
PoppedExplained ==
    popped.handle # None => made[popped.handle] \in {popped.value, Proto[popped.value]}

PoppedInv ==
    PoppedExplained /\ (popped.handle # None => pointer[popped.handle] # None)

OpenInv == PlaceInv /\ PendingInv /\ ThisInv /\ QueueInv

IInv == TypeOK /\ HandleInv /\ PoppedInv /\ (context => OpenInv)

------------------------------------------------------------------------------
\* What ArrayList.add and clear do to the elements of the finalization queue.
LEMMA ElementsAppend ==
    ASSUME NEW S, NEW s \in Seq(S), NEW x \in S
    PROVE  Elements(Append(s, x)) = Elements(s) \cup {x}
  BY DEF Elements

\* Nothing is in the empty sequence.
LEMMA ElementsEmpty == Elements(<<>>) = {}
  BY DEF Elements

\* The elements of a sequence over a set.
LEMMA ElementsType == ASSUME NEW S, NEW s \in Seq(S) PROVE Elements(s) \subseteq S
  BY DEF Elements

\* JAVA_THIS is found on the object or on its prototype.
LEMMA FoundWhere ==
    ASSUME IInv, NEW v \in Values, FoundThis(v) # None
    PROVE  /\ FoundThis(v) \in Handles
           /\ \E u \in Values : FoundThis(v) = javaThis[u] /\ u \in {v, Proto[v]}
           /\ FoundThis(v) \in {javaThis[v], InheritedThis(v)}
  BY DuktapeAssumption DEF FoundThis, InheritedThis, IInv, TypeOK

\* The slots of JavaScriptObjects not finalized whose weak references are deleted.
LEMMA BereftSlots ==
    ASSUME IInv, NEW H, H \subseteq Handles \cup {None},
           \A h \in H \ {None} : pointer[h] # None
    PROVE  /\ Bereft(H) \subseteq Indices
           /\ \A h \in Handles \cap H : Pending(h) => Slot(h) \in Bereft(H)
  BY DuktapeAssumption DEF Bereft, Slot, Indices, Pending, IInv, TypeOK

\* What the stash names cannot be collected.
LEMMA StashedReachable ==
    ASSUME NEW i \in Indices, NEW v \in Values, stash[i] = v
    PROVE  v \in Reachable
  BY DuktapeAssumption DEF Reachable, WithPrototypes

\* The objects of pending JavaScriptObjects and of queued pointers are reachable.
LEMMA KeptReachable ==
    ASSUME IInv, context, NEW v \in Values
    PROVE  /\ \A h \in Handles : Pending(h) /\ Slot(h) \notin crossed /\ made[h] = v
                  => v \in Reachable
           /\ \A q \in Queued : stash[Index[q]] = v => v \in Reachable
<1>1. Queued \subseteq Addrs
  BY ElementsType DEF IInv, TypeOK, Queued
<1>2. ASSUME NEW h \in Handles, Pending(h), Slot(h) \notin crossed, made[h] = v PROVE v \in Reachable
  <2>1. pointer[h] \in Addrs /\ stash[Index[pointer[h]]] = v
    BY <1>2 DEF IInv, TypeOK, OpenInv, PendingInv, Pending, Slot
  <2> QED
    BY <2>1, StashedReachable DEF Indices
<1>3. ASSUME NEW q \in Queued, stash[Index[q]] = v PROVE v \in Reachable
  BY <1>1, <1>3, StashedReachable DEF Indices
<1> QED
  BY <1>2, <1>3

\* Two JavaScriptObjects not yet finalized are in different slots.
LEMMA PendingDistinct ==
    ASSUME IInv, context, NEW g \in Handles, NEW h \in Handles,
           Pending(g), Pending(h), Slot(g) = Slot(h), Slot(g) \notin crossed
    PROVE  g = h
  BY DEF IInv, OpenInv, PendingInv

\* Types and slots.
LEMMA SlotType ==
    ASSUME IInv, NEW h \in Handles, pointer[h] # None
    PROVE  pointer[h] \in Addrs /\ Slot(h) \in Indices /\ Slot(h) = Index[pointer[h]]
  BY DEF Slot, Indices, IInv, TypeOK

\* Nothing is shared yet.
LEMMA InitIInv == Init => IInv
<1> USE DuktapeAssumption
<1> SUFFICES ASSUME Init PROVE IInv
  OBVIOUS
<1>1. TypeOK
  <2>1. finalizationQueue \in Seq(Addrs) /\ copy \in Seq(Addrs)
    BY DEF Init
  <2>2. popped \in [value : Values \cup {None}, handle : Handles \cup {None}]
    BY DEF Init
  <2>3. /\ pointer \in [Handles -> Addrs \cup {None}] /\ made \in [Handles -> Values \cup {None}]
        /\ fin \in [Handles -> {"none", "adding", "done"}]
        /\ weak \in [Handles -> {"none", "set", "cleared", "deleted"}]
    BY DEF Init
  <2>4. /\ place \in [Values -> Addrs \cup {None}] /\ javaThis \in [Values -> Handles \cup {None}]
        /\ stash \in [Indices -> Values \cup {None}]
    BY DEF Init
  <2>5. /\ context \in BOOLEAN /\ draining \in BOOLEAN
        /\ javaRoots \subseteq Handles /\ jsRoots \subseteq Values
        /\ mute \subseteq Values /\ crossed \subseteq Indices
    BY DEF Init
  <2> QED
    BY <2>1, <2>2, <2>3, <2>4, <2>5 DEF TypeOK
<1>2. HandleInv /\ PoppedInv
  BY DEF Init, HandleInv, PoppedInv, PoppedExplained
<1>3. PlaceInv /\ PendingInv
  BY DEF Init, PlaceInv, PendingInv, Pending
<1>5. \A v \in Values : javaThis[v] = None
  BY DEF Init
<1>6. ThisInv
  BY <1>5 DEF ThisInv
<1>4. QueueInv
  BY ElementsEmpty DEF Init, QueueInv, Queued
<1> QED
  BY <1>1, <1>2, <1>3, <1>4, <1>6 DEF IInv, OpenInv

\* A step that leaves the bookkeeping alone.
LEMMA SameBooks ==
    ASSUME IInv,
           UNCHANGED <<pointer, made, fin, weak, finalizationQueue, draining, copy,
                       place, javaThis, stash, popped, crossed>>,
           context' = context, javaRoots' \subseteq javaRoots
    PROVE  HandleInv' /\ PoppedInv' /\ (context' => OpenInv')
<1>1. HandleInv' /\ PoppedInv'
  BY DEF IInv, HandleInv, PoppedInv, PoppedExplained, Slot
<1>2. Queued' = Queued
  BY DEF Queued
<1>3. ASSUME context PROVE PlaceInv' /\ PendingInv' /\ ThisInv'
  BY <1>2, <1>3 DEF IInv, OpenInv, PlaceInv, PendingInv, ThisInv, Pending, Slot
<1>4. ASSUME context PROVE QueueInv'
  BY <1>2, <1>4 DEF IInv, OpenInv, QueueInv
<1> QED
  BY <1>1, <1>3, <1>4 DEF OpenInv

\* popObject finds a JavaScriptObject that is not cleared.
LEMMA PopExistingKeeps ==
    ASSUME IInv, NEW v \in Values, PopExisting(v) PROVE IInv'
<1> USE DuktapeAssumption
<1> DEFINE h == FoundThis(v)
<1>1. /\ context /\ h # None /\ h \in Handles /\ made[h] \in {v, Proto[v]} /\ pointer[h] # None
  <2>1. context /\ h # None
    BY DEF PopExisting, JavaScriptRuns, WeakAlive
  <2>2. PICK u \in Values : h = javaThis[u] /\ u \in {v, Proto[v]}
    BY <2>1, FoundWhere
  <2> QED
    BY <2>1, <2>2, FoundWhere DEF IInv, TypeOK, OpenInv, ThisInv
<1>2. /\ javaRoots' = javaRoots \cup {h} /\ popped' = [value |-> v, handle |-> h]
      /\ crossed' = IF fin[h] = "none" THEN crossed ELSE crossed \cup {Slot(h)}
      /\ UNCHANGED <<context, pointer, made, fin, weak, queueVars, place, javaThis, stash, jsRoots, mute>>
  BY DEF PopExisting
<1> HIDE DEF h
<1>3. Slot(h) \in Indices
  BY <1>1, SlotType
<1>4. crossed \subseteq crossed' /\ crossed' \subseteq Indices
  BY <1>2, <1>3 DEF IInv, TypeOK
<1>5. PoppedInv'
  BY <1>1, <1>2 DEF PoppedInv, PoppedExplained
<1>6. TypeOK'
  BY <1>1, <1>2, <1>4 DEF IInv, TypeOK, queueVars
<1>7. HandleInv'
  <2>1. fin[h] # "none" => Slot(h) \in crossed'
    BY <1>2
  <2> QED
    BY <1>1, <1>2, <1>4, <2>1 DEF IInv, HandleInv, Slot
<1>8. PlaceInv' /\ PendingInv' /\ ThisInv'
  BY <1>1, <1>2, <1>4 DEF IInv, OpenInv, PlaceInv, PendingInv, ThisInv, Pending, Slot, Queued, queueVars
<1>9. QueueInv'
  BY <1>1, <1>2, <1>4 DEF IInv, OpenInv, QueueInv, Queued, queueVars
<1> QED
  BY <1>5, <1>6, <1>7, <1>8, <1>9 DEF IInv, OpenInv

\* popObject on an object without a live JavaScriptObject.
LEMMA PopNewKeeps ==
    ASSUME IInv, NEW v \in Values, NEW h \in Handles, PopNew(v, h) PROVE IInv'
<1> USE DuktapeAssumption
<1> DEFINE p == place[v]
           i == Index[p]
<1>1. /\ context /\ p # None /\ p \in Addrs /\ pointer[h] = None /\ fin[h] = "none"
      /\ i \in Indices
  BY DEF PopNew, JavaScriptRuns, Allocated, IInv, TypeOK, HandleInv, Indices
<1>2. /\ pointer' = [pointer EXCEPT ![h] = p] /\ made' = [made EXCEPT ![h] = v]
      /\ javaRoots' = javaRoots \cup {h}
      /\ stash' = [stash EXCEPT ![i] = v]
      /\ javaThis' = [javaThis EXCEPT ![v] = h]
      /\ popped' = [value |-> v, handle |-> h]
      /\ mute' = mute \ {v}
      /\ crossed' = IF Occupied(v) THEN crossed \cup {i} ELSE crossed
      /\ UNCHANGED <<context, fin, finalizationQueue, draining, copy, place, jsRoots>>
  BY DEF PopNew, queueVars
<1>3. weak' = [g \in Handles |-> IF g = h THEN "set"
                                 ELSE IF g = FoundThis(v) THEN "deleted" ELSE weak[g]]
  BY DEF PopNew
<1>4. FoundThis(v) = None \/ weak[FoundThis(v)] # "set"
  BY DEF PopNew, WeakAlive
<1>5. /\ pointer'[h] = p /\ made'[h] = v /\ javaThis'[v] = h /\ stash'[i] = v
      /\ weak'[h] = "set"
      /\ \A g \in Handles \ {h} : pointer'[g] = pointer[g] /\ made'[g] = made[g]
      /\ \A u \in Values \ {v} : javaThis'[u] = javaThis[u]
      /\ \A j \in Indices \ {i} : stash'[j] = stash[j]
  BY <1>1, <1>2, <1>3 DEF IInv, TypeOK
<1>6. Queued' = Queued /\ Queued \subseteq Addrs
  BY <1>2, ElementsType DEF Queued, IInv, TypeOK
<1>7. crossed \subseteq crossed' /\ crossed' \subseteq Indices
  BY <1>1, <1>2 DEF IInv, TypeOK
<1>8. Slot(h)' = i /\ \A g \in Handles \ {h} : Slot(g)' = Slot(g)
  BY <1>5 DEF Slot
<1>9. i \notin crossed' => /\ stash[i] \in {None, v} /\ i \notin crossed
                           /\ javaThis[v] # None => fin[javaThis[v]] # "done"
  BY <1>2 DEF Occupied
<1>10. TypeOK'
  <2>1. weak' \in [Handles -> {"none", "set", "cleared", "deleted"}]
    BY <1>3 DEF IInv, TypeOK
  <2> QED
    BY <1>1, <1>2, <1>7, <2>1 DEF IInv, TypeOK
<1>11. HandleInv'
  BY <1>1, <1>2, <1>5, <1>7, <1>8 DEF IInv, HandleInv, TypeOK
<1>12. PoppedInv'
  BY <1>1, <1>2, <1>5 DEF PoppedInv, PoppedExplained
<1>13. PlaceInv'
  BY <1>1, <1>2 DEF IInv, OpenInv, PlaceInv
<1> HIDE DEF i
<1>14. ASSUME i \notin crossed', NEW q \in Queued PROVE Index[q] # i
  <2> SUFFICES ASSUME Index[q] = i PROVE FALSE
    OBVIOUS
  <2>1. PICK u \in Values : stash[i] = u /\ javaThis[u] # None /\ fin[javaThis[u]] = "done"
    BY <1>1, <1>9, <1>14 DEF IInv, OpenInv, QueueInv
  <2> QED
    BY <1>9, <1>14, <2>1
<1>15. ASSUME NEW g \in Handles, Pending(g), Slot(g) \notin crossed'
       PROVE  made[g] # v /\ made[g] \in Values /\ Slot(g) # i /\ g # FoundThis(v)
  <2>1. /\ made[g] \in Values /\ place[made[g]] = pointer[g] /\ javaThis[made[g]] = g
        /\ weak[g] = "set" /\ stash[Slot(g)] = made[g]
    BY <1>1, <1>7, <1>15 DEF IInv, HandleInv, OpenInv, PendingInv, Pending
  <2>2. g # FoundThis(v)
    BY <1>4, <2>1
  <2>3. made[g] # v
    BY <2>1, <2>2 DEF FoundThis
  <2>4. Slot(g) # i
    BY <1>9, <1>15, <2>1, <2>3
  <2> QED
    BY <2>1, <2>2, <2>3, <2>4
<1> HIDE DEF p
<1>16. PendingInv'
  <2> SUFFICES ASSUME NEW g \in Handles, Pending(g)', Slot(g)' \notin crossed'
               PROVE  /\ place[made'[g]] = pointer'[g]
                      /\ stash'[Slot(g)'] = made'[g]
                      /\ javaThis'[made'[g]] = g
                      /\ weak'[g] = "set"
                      /\ \A q \in Queued : Index[q] # Slot(g)'
    BY <1>2, <1>6 DEF PendingInv
  <2>1. CASE g = h
    <3>1. Slot(g)' = i
      BY <1>8, <2>1
    <3> QED
      BY <1>5, <1>14, <2>1, <3>1 DEF p
  <2>2. CASE g # h
    <3>1. /\ Pending(g) /\ pointer'[g] = pointer[g] /\ made'[g] = made[g]
          /\ Slot(g)' = Slot(g) /\ Slot(g) \in Indices
      BY <1>2, <1>5, <1>8, <2>2, SlotType DEF Pending
    <3>2. /\ place[made[g]] = pointer[g] /\ stash[Slot(g)] = made[g]
          /\ javaThis[made[g]] = g /\ weak[g] = "set"
          /\ \A q \in Queued : Index[q] # Slot(g)
      BY <1>1, <1>7, <3>1 DEF IInv, OpenInv, PendingInv
    <3>3. made[g] # v /\ made[g] \in Values /\ Slot(g) # i /\ g # FoundThis(v)
      BY <1>15, <3>1
    <3> QED
      BY <1>3, <1>5, <2>2, <3>1, <3>2, <3>3
  <2> QED
    BY <2>1, <2>2
<1>17. ThisInv'
  <2> SUFFICES ASSUME NEW u \in Values, javaThis'[u] # None
               PROVE  /\ made'[javaThis'[u]] = u
                      /\ place[u] # None /\ pointer'[javaThis'[u]] = place[u]
                      /\ fin[javaThis'[u]] = "done" /\ Index[place[u]] \notin crossed'
                            => place[u] \in Queued
    BY <1>2, <1>6 DEF ThisInv
  <2>1. CASE u = v
    BY <1>1, <1>5, <2>1 DEF p
  <2>2. CASE u # v
    <3>1. javaThis'[u] = javaThis[u] /\ javaThis[u] \in Handles
      BY <1>5, <2>2 DEF IInv, TypeOK
    <3>2. /\ made[javaThis[u]] = u /\ place[u] # None /\ pointer[javaThis[u]] = place[u]
          /\ fin[javaThis[u]] = "done" /\ Index[place[u]] \notin crossed => place[u] \in Queued
      BY <1>1, <3>1 DEF IInv, OpenInv, ThisInv
    <3> QED
      BY <1>1, <1>5, <1>7, <3>1, <3>2
  <2> QED
    BY <2>1, <2>2
<1>18. QueueInv'
  <2>1. /\ ~draining' => Elements(copy') = {}
        /\ \A q \in Elements(finalizationQueue'), r \in Elements(copy') :
              Index[q] = Index[r] => Index[q] \in crossed'
    BY <1>1, <1>2, <1>7 DEF QueueInv, IInv, OpenInv
  <2>2. ASSUME NEW q \in Queued, Index[q] \notin crossed'
        PROVE  \E u \in Values : /\ place[u] = q /\ stash'[Index[q]] = u
                                 /\ javaThis'[u] # None
                                 /\ fin[javaThis'[u]] = "done"
    <3>1. PICK u \in Values : /\ place[u] = q /\ stash[Index[q]] = u
                              /\ javaThis[u] # None /\ fin[javaThis[u]] = "done"
      BY <1>1, <1>7, <2>2 DEF IInv, OpenInv, QueueInv
    <3>2. Index[q] # i /\ q \in Addrs /\ Index[q] \in Indices
      BY <1>6, <1>14, <2>2 DEF Indices
    <3>3. u # v
      BY <3>1, <3>2 DEF p, i
    <3> QED
      BY <1>5, <3>1, <3>2, <3>3
  <2> QED
    BY <1>2, <1>6, <2>1, <2>2 DEF QueueInv
<1> QED
  BY <1>10, <1>11, <1>12, <1>13, <1>16, <1>17, <1>18 DEF IInv, OpenInv

\* The collector frees an object.
LEMMA FreeKeeps ==
    ASSUME IInv, NEW v \in Values, FreeValue(v) PROVE IInv'
<1> USE DuktapeAssumption
<1> DEFINE D == IF v \in mute THEN {} ELSE {FoundThis(v)}
           N == IF v \in mute THEN {} ELSE {InheritedThis(v)}
<1>1. /\ context /\ v \notin Reachable
      /\ place' = [place EXCEPT ![v] = None] /\ javaThis' = [javaThis EXCEPT ![v] = None]
      /\ mute' = mute \ {v}
      /\ UNCHANGED <<context, javaRoots, pointer, made, fin, finalizationQueue, draining, copy,
                     stash, jsRoots, popped>>
  BY DEF FreeValue, javaVars, queueVars
<1>2. weak' = [g \in Handles |-> IF g \in D THEN "deleted" ELSE weak[g]]
  BY DEF FreeValue, DeleteWeak
<1>3. crossed' = crossed \cup Bereft(N)
  <2>1. CASE v \in mute
    BY <2>1 DEF FreeValue, Bereft
  <2>2. CASE v \notin mute
    BY <2>2 DEF FreeValue
  <2> QED
    BY <2>1, <2>2
<1>4. /\ place'[v] = None /\ javaThis'[v] = None
      /\ \A u \in Values \ {v} : place'[u] = place[u] /\ javaThis'[u] = javaThis[u]
  BY <1>1 DEF IInv, TypeOK
<1>5. Queued' = Queued /\ Queued \subseteq Addrs
  BY <1>1, ElementsType DEF Queued, IInv, TypeOK
<1>6. /\ Bereft(N) \subseteq Indices
      /\ \A g \in Handles \cap N : Pending(g) => Slot(g) \in crossed'
      /\ crossed \subseteq crossed'
  <2>1. InheritedThis(v) # None =>
          /\ InheritedThis(v) \in Handles /\ pointer[InheritedThis(v)] # None
    BY <1>1 DEF InheritedThis, IInv, TypeOK, OpenInv, ThisInv
  <2> QED
    BY <1>3, <2>1, BereftSlots
<1>7. \A g \in Handles \cap D : g = javaThis[v] \/ g \in N
  BY FoundWhere
<1> HIDE DEF D, N
<1>8. TypeOK'
  <2>1. weak' \in [Handles -> {"none", "set", "cleared", "deleted"}]
    BY <1>2 DEF IInv, TypeOK
  <2>2. crossed' \subseteq Indices /\ mute' \subseteq Values
    BY <1>1, <1>3, <1>6 DEF IInv, TypeOK
  <2> QED
    BY <1>1, <2>1, <2>2 DEF IInv, TypeOK
<1>9. HandleInv' /\ PoppedInv'
  BY <1>1, <1>6 DEF IInv, HandleInv, PoppedInv, PoppedExplained, Slot
<1>10. PlaceInv'
  BY <1>1, <1>4 DEF IInv, OpenInv, PlaceInv
<1>11. PendingInv'
  <2> SUFFICES ASSUME NEW g \in Handles, Pending(g), Slot(g) \notin crossed'
               PROVE  /\ place'[made[g]] = pointer[g]
                      /\ stash[Slot(g)] = made[g]
                      /\ javaThis'[made[g]] = g
                      /\ weak'[g] = "set"
                      /\ \A q \in Queued : Index[q] # Slot(g)
    BY <1>1, <1>5 DEF PendingInv, Pending, Slot
  <2>1. /\ place[made[g]] = pointer[g] /\ stash[Slot(g)] = made[g]
        /\ javaThis[made[g]] = g /\ weak[g] = "set" /\ \A q \in Queued : Index[q] # Slot(g)
    BY <1>1, <1>6 DEF IInv, OpenInv, PendingInv
  <2>2. made[g] # v /\ made[g] \in Values
    BY <1>1, <1>6, KeptReachable DEF IInv, HandleInv, Pending
  <2>3. g # javaThis[v]
    BY <1>1, <2>2 DEF IInv, OpenInv, ThisInv
  <2>4. g \notin D
    BY <1>6, <1>7, <2>3
  <2> QED
    BY <1>2, <1>4, <2>1, <2>2, <2>4
<1>12. ThisInv'
  BY <1>1, <1>4, <1>5, <1>6 DEF IInv, OpenInv, ThisInv
<1>13. QueueInv'
  <2> SUFFICES ASSUME NEW q \in Queued, Index[q] \notin crossed'
               PROVE  \E u \in Values : /\ place'[u] = q /\ stash[Index[q]] = u
                                        /\ javaThis'[u] # None
                                        /\ fin[javaThis'[u]] = "done"
    BY <1>1, <1>5, <1>6 DEF QueueInv, IInv, OpenInv
  <2>1. PICK u \in Values : /\ place[u] = q /\ stash[Index[q]] = u
                            /\ javaThis[u] # None /\ fin[javaThis[u]] = "done"
    BY <1>1, <1>6 DEF IInv, OpenInv, QueueInv
  <2>2. u # v
    BY <1>1, <2>1, KeptReachable
  <2> QED
    BY <1>4, <2>1, <2>2
<1> QED
  BY <1>8, <1>9, <1>10, <1>11, <1>12, <1>13 DEF IInv, OpenInv

\* finalizeJavaScriptObject queues a pointer.
LEMMA AddKeeps ==
    ASSUME IInv, NEW h \in Handles, FinalizeAdd(h) PROVE IInv'
<1> USE DuktapeAssumption
<1> DEFINE p == pointer[h]
<1>1. /\ fin[h] = "adding" /\ fin' = [fin EXCEPT ![h] = "done"]
      /\ finalizationQueue' = Append(finalizationQueue, p)
      /\ UNCHANGED <<context, javaRoots, pointer, made, weak, draining, copy, place,
                     javaThis, stash, jsRoots, mute, popped, crossed>>
  BY DEF FinalizeAdd
<1>2. p \in Addrs /\ Pending(h) /\ Slot(h) = Index[p]
  BY <1>1 DEF IInv, TypeOK, HandleInv, Pending, Slot
<1>3. fin'[h] = "done" /\ \A g \in Handles \ {h} : fin'[g] = fin[g]
  BY <1>1 DEF IInv, TypeOK
<1>4. /\ Elements(finalizationQueue') = Elements(finalizationQueue) \cup {p}
      /\ finalizationQueue' \in Seq(Addrs)
  BY <1>1, <1>2, ElementsAppend DEF IInv, TypeOK
<1>5. Queued' = Queued \cup {p}
  BY <1>1, <1>4 DEF Queued
<1>6. TypeOK'
  BY <1>1, <1>4 DEF IInv, TypeOK
<1>7. HandleInv' /\ PoppedInv'
  <2>1. h \in javaRoots => Slot(h) \in crossed
    BY <1>1 DEF IInv, HandleInv
  <2> QED
    BY <1>1, <1>2, <1>3, <2>1 DEF IInv, TypeOK, HandleInv, PoppedInv, PoppedExplained, Slot
<1> HIDE DEF p
<1>8. ASSUME context PROVE OpenInv'
  <2>1. PlaceInv'
    BY <1>1, <1>8 DEF IInv, OpenInv, PlaceInv
  <2>2. PendingInv'
    <3> SUFFICES ASSUME NEW g \in Handles, Pending(g)', Slot(g) \notin crossed
                 PROVE  Pending(g) /\ Slot(g) # Index[p]
      BY <1>1, <1>5, <1>8 DEF IInv, OpenInv, PendingInv, Slot
    <3>1. g # h /\ Pending(g)
      BY <1>1, <1>3 DEF Pending
    <3> QED
      BY <1>2, <1>8, <3>1, PendingDistinct
  <2>3. ThisInv'
    <3> SUFFICES ASSUME NEW v \in Values, javaThis[v] # None,
                        fin'[javaThis[v]] = "done", Index[place[v]] \notin crossed
                 PROVE  place[v] \in Queued'
      BY <1>1, <1>8 DEF IInv, OpenInv, ThisInv
    <3>1. CASE javaThis[v] = h
      <4>1. place[v] = p
        BY <1>8, <3>1 DEF IInv, OpenInv, ThisInv, p
      <4> QED
        BY <1>5, <4>1
    <3>2. CASE javaThis[v] # h
      BY <1>3, <1>5, <1>8, <3>2 DEF IInv, TypeOK, OpenInv, ThisInv
    <3> QED
      BY <3>1, <3>2
  <2>4. Index[p] \notin crossed => \A q \in Queued : Index[q] # Index[p]
    BY <1>2, <1>8 DEF IInv, OpenInv, PendingInv
  <2>5. Index[p] \notin crossed =>
          /\ made[h] \in Values /\ place[made[h]] = p /\ stash[Index[p]] = made[h]
          /\ javaThis[made[h]] = h
    BY <1>2, <1>8 DEF IInv, OpenInv, PendingInv, HandleInv, Pending, p
  <2>6. QueueInv'
    <3>1. /\ ~draining' => Elements(copy') = {}
          /\ \A q \in Elements(finalizationQueue'), r \in Elements(copy') :
                Index[q] = Index[r] => Index[q] \in crossed
      BY <1>1, <1>4, <1>8, <2>4 DEF IInv, OpenInv, QueueInv, Queued
    <3>2. ASSUME NEW q \in Queued', Index[q] \notin crossed
          PROVE  \E v \in Values : /\ place[v] = q /\ stash[Index[q]] = v
                                   /\ javaThis[v] # None /\ fin'[javaThis[v]] = "done"
      <4>1. CASE q = p
        BY <1>3, <2>5, <3>2, <4>1
      <4>2. CASE q \in Queued
        <5>1. PICK v \in Values : /\ place[v] = q /\ stash[Index[q]] = v
                                  /\ javaThis[v] # None /\ fin[javaThis[v]] = "done"
          BY <1>8, <3>2, <4>2 DEF IInv, OpenInv, QueueInv
        <5>2. javaThis[v] # h /\ javaThis[v] \in Handles
          BY <1>1, <5>1 DEF IInv, TypeOK
        <5> QED
          BY <1>3, <5>1, <5>2
      <4> QED
        BY <1>5, <4>1, <4>2
    <3> QED
      BY <1>1, <3>1, <3>2 DEF QueueInv
  <2> QED
    BY <2>1, <2>2, <2>3, <2>6 DEF OpenInv
<1> QED
  BY <1>1, <1>6, <1>7, <1>8 DEF IInv

\* finalizeJavaScriptObjects has drained the copied pointers of an open context.
LEMMA EraseKeeps ==
    ASSUME IInv, DrainErase, context PROVE IInv'
<1> USE DuktapeAssumption
<1> DEFINE ptrs == Elements(copy)
           freed == {v \in Allocated : place[v] \in ptrs}
           twice == {v \in freed : \E i, j \in 1 .. Len(copy) :
                                      i < j /\ copy[i] = place[v] /\ copy[j] = place[v]}
           N == {InheritedThis(v) : v \in freed}
                \cup {javaThis[Proto[v]] : v \in {u \in twice : Proto[u] # None}}
<1>1. /\ copy' = <<>> /\ draining' = FALSE
      /\ UNCHANGED <<context, javaRoots, pointer, made, fin, finalizationQueue, place,
                     jsRoots, popped>>
  BY DEF DrainErase, javaVars
<1>2. /\ weak' = [h \in Handles |-> IF h \in {javaThis[v] : v \in freed} \cup N
                                    THEN "deleted" ELSE weak[h]]
      /\ javaThis' = [v \in Values |-> IF v \in freed THEN None ELSE javaThis[v]]
      /\ stash' = [i \in Indices |-> IF i \in {Index[p] : p \in ptrs} THEN None ELSE stash[i]]
      /\ mute' = mute \cup freed
      /\ crossed' = crossed \cup Bereft(N)
  BY DEF DrainErase, Unstash, DeleteWeak
<1>3. /\ ptrs \subseteq Addrs /\ Elements(finalizationQueue) \subseteq Addrs
      /\ Queued' = Elements(finalizationQueue) /\ ptrs \subseteq Queued
      /\ Queued = Queued' \cup ptrs
  BY <1>1, ElementsType, ElementsEmpty DEF Queued, IInv, TypeOK
<1>4. freed \subseteq Values /\ twice \subseteq freed
  BY DEF Allocated
<1>5. \A v \in Values : v \in freed <=> place[v] \in ptrs
  BY <1>3 DEF Allocated
<1> HIDE DEF ptrs, freed, twice
<1>6. \A h \in N : h = None \/ \E u \in Values : h = javaThis[u]
  BY <1>4 DEF InheritedThis
<1> HIDE DEF N
<1>7. N \subseteq Handles \cup {None} /\ \A h \in N \ {None} : pointer[h] # None
  <2>1. \A u \in Values : javaThis[u] # None => javaThis[u] \in Handles /\ pointer[javaThis[u]] # None
    BY DEF IInv, TypeOK, OpenInv, ThisInv
  <2> QED
    BY <1>6, <2>1
<1>8. /\ Bereft(N) \subseteq Indices /\ crossed \subseteq crossed'
      /\ \A h \in Handles \cap N : Pending(h) => Slot(h) \in crossed'
  BY <1>2, <1>7, BereftSlots
<1>9. TypeOK'
  <2>1. weak' \in [Handles -> {"none", "set", "cleared", "deleted"}]
    BY <1>2 DEF IInv, TypeOK
  <2>2. javaThis' \in [Values -> Handles \cup {None}] /\ stash' \in [Indices -> Values \cup {None}]
    BY <1>2 DEF IInv, TypeOK
  <2>3. copy' \in Seq(Addrs)
    BY <1>1
  <2>4. mute' \subseteq Values /\ crossed' \subseteq Indices
    BY <1>2, <1>4, <1>8 DEF IInv, TypeOK
  <2> QED
    BY <1>1, <2>1, <2>2, <2>3, <2>4 DEF IInv, TypeOK
<1>10. HandleInv' /\ PoppedInv'
  BY <1>1, <1>8 DEF IInv, HandleInv, PoppedInv, PoppedExplained, Slot
<1>11. PlaceInv'
  BY <1>1 DEF IInv, OpenInv, PlaceInv
<1>12. ASSUME NEW i \in Indices, \A q \in ptrs : Index[q] # i PROVE stash'[i] = stash[i]
  BY <1>2, <1>12
<1>13. PendingInv'
  <2> SUFFICES ASSUME NEW h \in Handles, Pending(h), Slot(h) \notin crossed'
               PROVE  /\ place[made[h]] = pointer[h]
                      /\ stash'[Slot(h)] = made[h]
                      /\ javaThis'[made[h]] = h
                      /\ weak'[h] = "set"
                      /\ \A q \in Queued' : Index[q] # Slot(h)
    BY <1>1 DEF PendingInv, Pending, Slot
  <2>1. /\ place[made[h]] = pointer[h] /\ stash[Slot(h)] = made[h]
        /\ javaThis[made[h]] = h /\ weak[h] = "set" /\ \A q \in Queued : Index[q] # Slot(h)
        /\ made[h] \in Values
    BY <1>8 DEF IInv, OpenInv, PendingInv, HandleInv, Pending
  <2>2. Slot(h) = Index[pointer[h]] /\ Slot(h) \in Indices
    BY SlotType DEF Pending
  <2>3. made[h] \notin freed
    BY <1>3, <1>5, <2>1, <2>2
  <2>4. h \notin {javaThis[v] : v \in freed}
    <3> SUFFICES ASSUME NEW v \in freed, javaThis[v] = h PROVE FALSE
      OBVIOUS
    <3>1. v \in Values /\ made[h] = v
      BY <1>4 DEF IInv, TypeOK, OpenInv, ThisInv
    <3> QED
      BY <2>3, <3>1
  <2>5. h \notin N
    BY <1>8
  <2>6. stash'[Slot(h)] = stash[Slot(h)]
    BY <1>3, <1>12, <2>1, <2>2
  <2> QED
    BY <1>2, <1>3, <2>1, <2>3, <2>4, <2>5, <2>6
<1>14. ThisInv'
  <2> SUFFICES ASSUME NEW v \in Values, javaThis'[v] # None
               PROVE  /\ made[javaThis'[v]] = v
                      /\ place[v] # None /\ pointer[javaThis'[v]] = place[v]
                      /\ fin[javaThis'[v]] = "done" /\ Index[place[v]] \notin crossed'
                            => place[v] \in Queued'
    BY <1>1 DEF ThisInv
  <2>1. javaThis'[v] = javaThis[v] /\ v \notin freed
    BY <1>2
  <2> QED
    BY <1>3, <1>5, <1>8, <2>1 DEF IInv, OpenInv, ThisInv
<1>15. QueueInv'
  <2>1. Elements(copy') = {}
    BY <1>1, ElementsEmpty
  <2>2. ASSUME NEW q \in Queued', Index[q] \notin crossed'
        PROVE  \E v \in Values : /\ place[v] = q /\ stash'[Index[q]] = v
                                 /\ javaThis'[v] # None /\ fin[javaThis'[v]] = "done"
    <3>1. /\ q \in Addrs /\ q \in Queued /\ Index[q] \in Indices
          /\ \A r \in ptrs : Index[r] # Index[q]
      BY <1>3, <1>8, <2>2 DEF IInv, OpenInv, QueueInv, ptrs, Indices
    <3>2. PICK v \in Values : /\ place[v] = q /\ stash[Index[q]] = v
                              /\ javaThis[v] # None /\ fin[javaThis[v]] = "done"
      BY <1>8, <2>2, <3>1 DEF IInv, OpenInv, QueueInv
    <3>3. v \notin freed
      BY <1>5, <3>1, <3>2
    <3> QED
      BY <1>2, <1>12, <3>1, <3>2, <3>3
  <2> QED
    BY <1>1, <2>1, <2>2 DEF QueueInv
<1> QED
  BY <1>9, <1>10, <1>11, <1>13, <1>14, <1>15 DEF IInv, OpenInv

\* Every step keeps the books of DuktapeContext and JSEngineContext together.
LEMMA NextIInv == ASSUME IInv, [Next]_vars PROVE IInv'
<1> USE DuktapeAssumption
<1>1. ASSUME NEW v \in Values, NEW a \in Addrs, NewValue(v, a) PROVE IInv'
  <2>1. /\ context /\ place[v] = None /\ \A u \in Values : place[u] # a
        /\ place' = [place EXCEPT ![v] = a] /\ jsRoots' = jsRoots \cup {v}
        /\ UNCHANGED <<context, javaRoots, pointer, made, fin, weak, finalizationQueue,
                       draining, copy, javaThis, stash, mute, popped, crossed>>
    BY <1>1 DEF NewValue, JavaScriptRuns, javaVars, queueVars
  <2>2. place'[v] = a /\ \A u \in Values \ {v} : place'[u] = place[u]
    BY <2>1 DEF IInv, TypeOK
  <2>3. Queued' = Queued /\ Queued \subseteq Addrs
    BY <2>1, ElementsType DEF Queued, IInv, TypeOK
  <2>4. TypeOK'
    BY <2>1 DEF IInv, TypeOK
  <2>5. HandleInv' /\ PoppedInv'
    BY <2>1 DEF IInv, HandleInv, PoppedInv, PoppedExplained, Slot
  <2>6. PlaceInv'
    BY <2>1, <2>2 DEF IInv, OpenInv, PlaceInv
  <2>7. PendingInv'
    <3> SUFFICES ASSUME NEW h \in Handles, Pending(h), Slot(h) \notin crossed
                 PROVE  place'[made[h]] = place[made[h]]
      BY <2>1, <2>3 DEF IInv, OpenInv, PendingInv, Pending, Slot
    <3>1. made[h] \in Values /\ made[h] # v
      BY <2>1 DEF IInv, HandleInv, OpenInv, PendingInv, Pending
    <3> QED
      BY <2>2, <3>1
  <2>8. ThisInv'
    BY <2>1, <2>2, <2>3 DEF IInv, OpenInv, ThisInv
  <2>9. QueueInv'
    <3> SUFFICES ASSUME NEW q \in Queued, Index[q] \notin crossed
                 PROVE  \E u \in Values : /\ place'[u] = q /\ stash[Index[q]] = u
                                          /\ javaThis[u] # None
                                          /\ fin[javaThis[u]] = "done"
      BY <2>1, <2>3 DEF QueueInv, IInv, OpenInv
    <3>1. PICK u \in Values : /\ place[u] = q /\ stash[Index[q]] = u
                              /\ javaThis[u] # None /\ fin[javaThis[u]] = "done"
      BY <2>1 DEF IInv, OpenInv, QueueInv
    <3>2. u # v
      BY <2>1, <2>3, <3>1
    <3> QED
      BY <2>2, <3>1, <3>2
  <2> QED
    BY <2>4, <2>5, <2>6, <2>7, <2>8, <2>9 DEF IInv, OpenInv
<1>2. ASSUME NEW v \in Values, DropValue(v) PROVE IInv'
  <2>1. TypeOK'
    BY <1>2 DEF DropValue, javaVars, queueVars, IInv, TypeOK
  <2> QED
    BY <1>2, <2>1, SameBooks DEF DropValue, javaVars, queueVars, IInv
<1>3. ASSUME NEW v \in Values, FreeValue(v) PROVE IInv'
  BY <1>3, FreeKeeps
<1>4. ASSUME NEW v \in Values, PopExisting(v) PROVE IInv'
  BY <1>4, PopExistingKeeps
<1>5. ASSUME NEW v \in Values, NEW h \in Handles, PopNew(v, h) PROVE IInv'
  BY <1>5, PopNewKeeps
<1>6. ASSUME NEW h \in Handles, PushObject(h) PROVE IInv'
  <2>1. TypeOK'
    BY <1>6 DEF PushObject, javaVars, queueVars, IInv, TypeOK
  <2> QED
    BY <1>6, <2>1, SameBooks DEF PushObject, javaVars, queueVars, IInv
<1>7. ASSUME NEW h \in Handles, DropHandle(h) PROVE IInv'
  <2>1. TypeOK'
    BY <1>7 DEF DropHandle, queueVars, IInv, TypeOK
  <2> QED
    BY <1>7, <2>1, SameBooks DEF DropHandle, queueVars, IInv
<1>8. ASSUME NEW h \in Handles, Finalize(h) PROVE IInv'
  <2>1. /\ pointer[h] # None /\ h \notin javaRoots /\ fin[h] = "none"
        /\ fin' = [fin EXCEPT ![h] = IF context THEN "adding" ELSE "done"]
        /\ UNCHANGED <<context, javaRoots, pointer, made, weak, finalizationQueue,
                       draining, copy, place, javaThis, stash, jsRoots, mute, popped, crossed>>
    BY <1>8 DEF Finalize, Finalizable, queueVars
  <2>2. /\ \A g \in Handles \ {h} : fin'[g] = fin[g]
        /\ fin'[h] = IF context THEN "adding" ELSE "done"
    BY <2>1 DEF IInv, TypeOK
  <2>3. TypeOK'
    BY <2>1 DEF IInv, TypeOK
  <2>4. HandleInv' /\ PoppedInv'
    BY <2>1, <2>2 DEF IInv, TypeOK, HandleInv, PoppedInv, PoppedExplained, Slot
  <2>5. Queued' = Queued
    BY <2>1 DEF Queued
  <2>6. ASSUME context PROVE OpenInv'
    <3>1. \A g \in Handles : (fin'[g] = "done") <=> (fin[g] = "done")
      BY <2>1, <2>2, <2>6
    <3>2. PlaceInv' /\ PendingInv'
      BY <2>1, <2>5, <2>6, <3>1 DEF IInv, OpenInv, PlaceInv, PendingInv, Pending, Slot
    <3>3. ThisInv' /\ QueueInv'
      BY <2>1, <2>5, <2>6, <3>1 DEF IInv, TypeOK, OpenInv, ThisInv, QueueInv
    <3> QED
      BY <3>2, <3>3 DEF OpenInv
  <2> QED
    BY <2>1, <2>3, <2>4, <2>6 DEF IInv
<1>9. ASSUME NEW h \in Handles, FinalizeAdd(h) PROVE IInv'
  BY <1>9, AddKeeps
<1>10. ASSUME NEW h \in Handles, ClearWeak(h) PROVE IInv'
  <2>1. /\ fin[h] = "done" /\ weak' = [weak EXCEPT ![h] = "cleared"]
        /\ UNCHANGED <<context, javaRoots, pointer, made, fin, finalizationQueue,
                       draining, copy, place, javaThis, stash, jsRoots, mute, popped, crossed>>
    BY <1>10 DEF ClearWeak, javaVars, queueVars
  <2>2. \A g \in Handles \ {h} : weak'[g] = weak[g]
    BY <2>1 DEF IInv, TypeOK
  <2>3. TypeOK' /\ HandleInv' /\ PoppedInv'
    BY <2>1 DEF IInv, TypeOK, HandleInv, PoppedInv, PoppedExplained, Slot
  <2>4. Queued' = Queued
    BY <2>1 DEF Queued
  <2>5. context => PlaceInv' /\ PendingInv' /\ ThisInv'
    BY <2>1, <2>2, <2>4 DEF IInv, OpenInv, PlaceInv, PendingInv, ThisInv, Pending, Slot
  <2>6. context => QueueInv'
    BY <2>1, <2>4 DEF IInv, OpenInv, QueueInv
  <2> QED
    BY <2>1, <2>3, <2>5, <2>6 DEF IInv, OpenInv
<1>11. CASE DrainCopy
  <2>1. /\ copy' = finalizationQueue /\ finalizationQueue' = <<>> /\ draining' = TRUE
        /\ UNCHANGED <<context, javaRoots, pointer, made, fin, weak, place, javaThis, stash,
                       jsRoots, mute, popped, crossed>>
    BY <1>11 DEF DrainCopy, javaVars
  <2>2. Elements(finalizationQueue') = {} /\ Queued' = Elements(finalizationQueue)
    BY <2>1, ElementsEmpty DEF Queued
  <2>3. TypeOK' /\ HandleInv' /\ PoppedInv'
    BY <2>1 DEF IInv, TypeOK, HandleInv, PoppedInv, PoppedExplained, Slot
  <2>4. context => Queued' = Queued
    BY <1>11, <2>2 DEF DrainCopy, Queued, IInv, OpenInv, QueueInv
  <2>5. context => PlaceInv' /\ PendingInv' /\ ThisInv'
    BY <2>1, <2>4 DEF IInv, OpenInv, PlaceInv, PendingInv, ThisInv, Pending, Slot
  <2>6. context => QueueInv'
    BY <2>1, <2>2, <2>4 DEF IInv, OpenInv, QueueInv
  <2> QED
    BY <2>1, <2>3, <2>5, <2>6 DEF IInv, OpenInv
<1>12. CASE DrainErase
  <2>1. CASE context
    BY <1>12, <2>1, EraseKeeps
  <2>2. CASE ~context
    <3>1. /\ UNCHANGED <<context, javaRoots, pointer, made, fin, weak, finalizationQueue, place,
                         javaThis, stash, jsRoots, mute, popped, crossed>>
          /\ copy' = <<>> /\ draining' = FALSE
      BY <1>12, <2>2 DEF DrainErase, javaVars
    <3>2. copy' \in Seq(Addrs)
      BY <3>1
    <3>3. TypeOK' /\ HandleInv' /\ PoppedInv'
      BY <3>1, <3>2 DEF IInv, TypeOK, HandleInv, PoppedInv, PoppedExplained, Slot
    <3> QED
      BY <2>2, <3>1, <3>3 DEF IInv
  <2> QED
    BY <2>1, <2>2
<1>13. CASE Close
  <2>1. /\ context' = FALSE /\ jsRoots' = {}
        /\ place' = [v \in Values |-> None] /\ javaThis' = [v \in Values |-> None]
        /\ stash' = [i \in Indices |-> None]
        /\ mute' = {}
        /\ UNCHANGED <<javaRoots, pointer, made, fin, finalizationQueue, draining, copy, popped, crossed>>
    BY <1>13 DEF Close, javaVars, queueVars
  <2>2. weak' \in [Handles -> {"none", "set", "cleared", "deleted"}]
    BY <1>13 DEF Close, DeleteWeak, IInv, TypeOK
  <2>3. TypeOK' /\ HandleInv' /\ PoppedInv'
    BY <2>1, <2>2 DEF IInv, TypeOK, HandleInv, PoppedInv, PoppedExplained, Slot
  <2> QED
    BY <2>1, <2>3 DEF IInv
<1>14. CASE UNCHANGED vars
  <2>1. TypeOK'
    BY <1>14 DEF vars, IInv, TypeOK
  <2> QED
    BY <1>14, <2>1, SameBooks DEF vars, IInv
<1> QED
  BY <1>1, <1>2, <1>3, <1>4, <1>5, <1>6, <1>7, <1>8, <1>9, <1>10, <1>11, <1>12, <1>13, <1>14
     DEF Next

------------------------------------------------------------------------------
(* The theorems.                                                           *)

\* The inductive invariant of popObject, the finalization queue and the stash, for any
\* script, any prototypes and any cut of the addresses.
THEOREM Inductive == Spec => []IInv
  BY InitIInv, NextIInv, PTL DEF Spec

\* The fields of JSEngineContext and the properties of Duktape objects keep their
\* kinds: only heap addresses reach the finalization queue.
THEOREM TypeCorrect == Spec => []TypeOK
<1>1. IInv => TypeOK
  BY DEF IInv
<1> QED
  BY <1>1, Inductive, PTL

\* DuktapeContext::popObject and finalizeJavaScriptObjects keep the object of every
\* JavaScriptObject Java can reach allocated at its pointer and in the global stash, as
\* long as its slot has not been crossed, whatever happens in the other slots.
THEOREM StashSafety == Spec => []HardReferencedUncrossed
<1>1. IInv => HardReferencedUncrossed
  <2> SUFFICES ASSUME IInv, context, NEW h \in javaRoots, Slot(h) \notin crossed
               PROVE  place[made[h]] = pointer[h] /\ stash[Slot(h)] = made[h]
    BY DEF HardReferencedUncrossed
  <2>1. h \in Handles /\ Pending(h)
    BY DEF IInv, TypeOK, HandleInv, Pending
  <2> QED
    BY <2>1 DEF IInv, OpenInv, PendingInv
<1> QED
  BY <1>1, Inductive, PTL

\* Where no slot has ever been crossed, all of them are.
COROLLARY StashSafetyUncrossed == Spec => [](crossed = {} => HardReferenced)
<1>1. HardReferencedUncrossed => (crossed = {} => HardReferenced)
  BY DEF HardReferencedUncrossed, HardReferenced, Slot
<1> QED
  BY <1>1, StashSafety, PTL

\* The native drain dereferences (duk_push_heapptr) only addresses of allocated objects,
\* in slots that have not been crossed.
THEOREM DrainSafety == Spec => []QueuedPointerLive
<1>1. IInv => QueuedPointerLive
  BY DEF IInv, OpenInv, QueueInv, Queued, QueuedPointerLive
<1> QED
  BY <1>1, Inductive, PTL

\* popObject gives Java one JavaScriptObject per object, never two at a time, in slots that
\* have not been crossed.
THEOREM Deduplicated == Spec => []SameProxyInstance
<1>1. IInv => SameProxyInstance
  <2> SUFFICES ASSUME IInv, context, NEW g \in javaRoots, NEW h \in javaRoots, made[g] = made[h],
                      Slot(g) \notin crossed, Slot(h) \notin crossed
               PROVE  g = h
    BY DEF SameProxyInstance
  <2>1. g \in Handles /\ h \in Handles /\ Pending(g) /\ Pending(h)
    BY DEF IInv, TypeOK, HandleInv, Pending
  <2> QED
    BY <2>1 DEF IInv, OpenInv, PendingInv
<1> QED
  BY <1>1, Inductive, PTL

\* The JavaScriptObject popObject returns is one made for the object it was asked for or
\* for its prototype, whatever identities, addresses and slots have been reused.
THEOREM PoppedRight == Spec => []PoppedExplained
<1>1. IInv => PoppedExplained
  BY DEF IInv, PoppedInv
<1> QED
  BY <1>1, Inductive, PTL

\* What pushObject finds at the pointer of a JavaScriptObject that is not finalized is the
\* object it was made for.
LEMMA FindsMade ==
    ASSUME IInv, NEW i, i \notin crossed
    PROVE  [h \in Handles |-> IF context /\ InSlot(h, i) /\ fin[h] = "none"
                              THEN ObjectAt(pointer[h]) ELSE None]
           = [h \in Handles |-> IF context /\ InSlot(h, i) /\ fin[h] = "none"
                                THEN made[h] ELSE None]
<1> SUFFICES ASSUME NEW h \in Handles, context, InSlot(h, i), fin[h] = "none"
             PROVE  ObjectAt(pointer[h]) = made[h]
  OBVIOUS
<1>1. made[h] \in Values /\ place[made[h]] = pointer[h]
  BY DEF IInv, HandleInv, OpenInv, PendingInv, Pending, InSlot
<1>2. \A v \in Values : place[v] = pointer[h] => v = made[h]
  BY <1>1 DEF IInv, OpenInv, PlaceInv, InSlot
<1> QED
  BY <1>1, <1>2 DEF ObjectAt

\* No step makes a crossed slot sound again.
LEMMA CrossedGrows == ASSUME [Next]_vars PROVE crossed \subseteq crossed'
  BY DEF Next, vars, NewValue, DropValue, FreeValue, PopExisting, PopNew, PushObject, DropHandle,
         Finalize, FinalizeAdd, ClearWeak, DrainCopy, DrainErase, Unstash, Close

\* Slot by slot DuktapeContext keeps the contract of JavaScriptObjects until the slot is
\* crossed: popObject binds one once, to the object it was made for, and the binding ends
\* only by close or, after Java let go of it, by finalization.
THEOREM Refinement == Spec => ImplementsHandleTable
<1> DEFINE B(i) == [h \in Handles |-> IF context /\ InSlot(h, i) /\ fin[h] = "none"
                                      THEN ObjectAt(pointer[h]) ELSE None]
           M(i) == [h \in Handles |-> IF context /\ InSlot(h, i) /\ fin[h] = "none"
                                      THEN made[h] ELSE None]
           S(i) == {h \in Handles : InSlot(h, i)}
           R(i) == {h \in javaRoots : InSlot(h, i)}
<1>1. Init => \A i \in Indices : Table(i)!Init
  BY DEF Init, Table!Init, InSlot
<1>2. IInv => \A i \in Indices \ crossed : B(i) = M(i)
  BY FindsMade
<1> HIDE DEF B, M
<1>3. (IInv => \A i \in Indices \ crossed : B(i) = M(i))'
  BY <1>2, PTL
<1> USE DEF M
<1>4. ASSUME IInv, IInv', [Next]_vars, NEW i \in Indices \ crossed'
      PROVE  [Table(i)!Next]_(Table(i)!vars)
  <2>1. B(i) = M(i) /\ B(i)' = M(i)'
    BY <1>4, <1>2, <1>3, CrossedGrows
  <2>2. ASSUME UNCHANGED <<context, javaRoots, pointer, made, fin>>
        PROVE  UNCHANGED Table(i)!vars
    <3>1. M(i)' = M(i) /\ S(i)' = S(i) /\ R(i)' = R(i) /\ context' = context
      BY <2>2 DEF InSlot, Slot
    <3> QED
      BY <2>1, <3>1 DEF Table!vars, B
  <2>3. ASSUME NEW v \in Values, NEW a \in Addrs, NewValue(v, a)
        PROVE  UNCHANGED Table(i)!vars
    BY <2>2, <2>3 DEF NewValue, javaVars
  <2>4. ASSUME NEW v \in Values, DropValue(v) \/ FreeValue(v) PROVE UNCHANGED Table(i)!vars
    BY <2>2, <2>4 DEF DropValue, FreeValue, javaVars
  <2>5. ASSUME NEW v \in Values, PopExisting(v)
        PROVE  (\E h \in Handles : Table(i)!Recall(h)) \/ UNCHANGED Table(i)!vars
    <3> DEFINE h == FoundThis(v)
    <3>1. /\ context /\ h # None /\ UNCHANGED <<context, pointer, made, fin>>
          /\ javaRoots' = javaRoots \cup {h}
          /\ fin[h] # "none" => Slot(h) \in crossed'
      BY <2>5 DEF PopExisting, JavaScriptRuns, WeakAlive
    <3>2. h \in Handles
      BY <1>4, <3>1, FoundWhere
    <3>3. M(i)' = M(i) /\ S(i)' = S(i)
      BY <3>1 DEF InSlot, Slot
    <3>4. CASE InSlot(h, i)
      <4>1. fin[h] = "none"
        BY <1>4, <3>1, <3>4 DEF InSlot
      <4>2. M(i)[h] # None
        BY <1>4, <3>1, <3>2, <3>4, <4>1, DuktapeAssumption DEF IInv, HandleInv, InSlot
      <4>3. R(i)' = R(i) \cup {h}
        BY <3>1, <3>4 DEF InSlot, Slot
      <4>4. Table(i)!Recall(h)
        BY <2>1, <3>1, <3>3, <4>2, <4>3 DEF Table!Recall, B
      <4> QED
        BY <3>2, <4>4
    <3>5. CASE ~InSlot(h, i)
      <4>1. R(i)' = R(i)
        BY <3>1, <3>5 DEF InSlot, Slot
      <4> QED
        BY <2>1, <3>1, <3>3, <4>1 DEF Table!vars, B
    <3> QED
      BY <3>4, <3>5
  <2>6. ASSUME NEW v \in Values, NEW h \in Handles, PopNew(v, h)
        PROVE  Table(i)!Bind(h, v) \/ UNCHANGED Table(i)!vars
    <3>1. /\ context /\ context' = context /\ pointer[h] = None /\ fin[h] = "none"
          /\ place[v] # None /\ fin' = fin /\ javaRoots' = javaRoots \cup {h}
          /\ h \notin javaRoots
      BY <1>4, <2>6 DEF PopNew, JavaScriptRuns, Allocated, IInv, HandleInv
    <3>2. /\ pointer'[h] = place[v] /\ made'[h] = v
          /\ \A g \in Handles \ {h} : pointer'[g] = pointer[g] /\ made'[g] = made[g]
      BY <1>4, <2>6 DEF PopNew, IInv, TypeOK
    <3>3. /\ ~InSlot(h, i) /\ (InSlot(h, i)' <=> Index[place[v]] = i)
          /\ \A g \in Handles \ {h} : InSlot(g, i)' <=> InSlot(g, i)
      BY <3>1, <3>2 DEF InSlot, Slot
    <3>4. javaRoots \subseteq Handles
      BY <1>4 DEF IInv, TypeOK
    <3>5. CASE Index[place[v]] = i
      <4>1. h \notin S(i) /\ S(i)' = S(i) \cup {h}
        BY <3>3, <3>5
      <4>2. R(i)' = R(i) \cup {h}
        BY <3>1, <3>3, <3>4, <3>5
      <4>3. M(i)' = [M(i) EXCEPT ![h] = v]
        BY <3>1, <3>2, <3>3, <3>5
      <4> QED
        BY <2>1, <3>1, <4>1, <4>2, <4>3 DEF Table!Bind, B
    <3>6. CASE Index[place[v]] # i
      <4>1. S(i)' = S(i)
        BY <3>3, <3>6
      <4>2. R(i)' = R(i)
        BY <3>1, <3>3, <3>4, <3>6
      <4>3. M(i)' = M(i)
        BY <3>1, <3>2, <3>3, <3>6
      <4> QED
        BY <2>1, <3>1, <4>1, <4>2, <4>3 DEF Table!vars, B
    <3> QED
      BY <3>5, <3>6
  <2>7. ASSUME NEW h \in Handles, PushObject(h) \/ ClearWeak(h) PROVE UNCHANGED Table(i)!vars
    BY <2>2, <2>7 DEF PushObject, ClearWeak, javaVars
  <2>8. ASSUME NEW h \in Handles, DropHandle(h) PROVE Table(i)!Forget(h)
    <3>1. /\ UNCHANGED <<context, pointer, made, fin>> /\ javaRoots' = javaRoots \ {h}
      BY <2>8 DEF DropHandle
    <3>2. M(i)' = M(i) /\ S(i)' = S(i) /\ R(i)' = R(i) \ {h}
      BY <3>1 DEF InSlot, Slot
    <3> QED
      BY <2>1, <3>1, <3>2 DEF Table!Forget, B
  <2>9. ASSUME NEW h \in Handles, FinalizeAdd(h) PROVE UNCHANGED Table(i)!vars
    <3>1. UNCHANGED <<context, javaRoots, pointer, made>>
      BY <2>9 DEF FinalizeAdd
    <3>2. \A g \in Handles : (fin'[g] = "none") <=> (fin[g] = "none")
      BY <1>4, <2>9 DEF FinalizeAdd, IInv, TypeOK
    <3>3. M(i)' = M(i) /\ S(i)' = S(i) /\ R(i)' = R(i)
      BY <3>1, <3>2 DEF InSlot, Slot
    <3> QED
      BY <2>1, <3>1, <3>3 DEF Table!vars, B
  <2>10. ASSUME NEW h \in Handles, Finalize(h)
         PROVE  Table(i)!Release(h) \/ UNCHANGED Table(i)!vars
    <3>1. /\ UNCHANGED <<context, javaRoots, pointer, made>> /\ h \notin javaRoots
          /\ pointer[h] # None /\ fin[h] = "none" /\ fin'[h] # "none"
          /\ \A g \in Handles \ {h} : fin'[g] = fin[g]
      BY <1>4, <2>10 DEF Finalize, Finalizable, IInv, TypeOK
    <3>2. S(i)' = S(i) /\ R(i)' = R(i) /\ \A g \in Handles : InSlot(g, i)' <=> InSlot(g, i)
      BY <3>1 DEF InSlot, Slot
    <3>3. CASE context /\ InSlot(h, i)
      <4>1. M(i)' = [M(i) EXCEPT ![h] = None]
        BY <3>1, <3>2, <3>3
      <4>2. M(i)[h] # None
        BY <1>4, <3>1, <3>3, DuktapeAssumption DEF IInv, HandleInv
      <4> QED
        BY <2>1, <3>1, <3>2, <4>1, <4>2 DEF Table!Release, B
    <3>4. CASE ~(context /\ InSlot(h, i))
      <4>1. M(i)' = M(i)
        BY <3>1, <3>2, <3>4
      <4> QED
        BY <2>1, <3>1, <3>2, <4>1 DEF Table!vars, B
    <3> QED
      BY <3>3, <3>4
  <2>11. ASSUME DrainCopy \/ DrainErase PROVE UNCHANGED Table(i)!vars
    BY <2>2, <2>11 DEF DrainCopy, DrainErase, javaVars
  <2>12. ASSUME Close PROVE Table(i)!Close
    <3>1. /\ context /\ context' = FALSE /\ M(i)' = [h \in Handles |-> None]
          /\ UNCHANGED <<javaRoots, pointer>>
      BY <2>12 DEF Close, javaVars
    <3>2. S(i)' = S(i) /\ R(i)' = R(i)
      BY <3>1 DEF InSlot, Slot
    <3> QED
      BY <2>1, <3>1, <3>2 DEF Table!Close, B
  <2>13. ASSUME UNCHANGED vars PROVE UNCHANGED Table(i)!vars
    BY <2>2, <2>13 DEF vars
  <2> QED
    BY <1>4, <2>3, <2>4, <2>5, <2>6, <2>7, <2>8, <2>9, <2>10, <2>11, <2>12, <2>13
       DEF Next, Table!Next
<1>5. IInv /\ IInv' /\ [Next]_vars =>
          [\A i \in Indices \ crossed' : [Table(i)!Next]_(Table(i)!vars)]_vars
  BY <1>4
<1> QED
  BY Inductive, <1>1, <1>5, PTL DEF Spec, ImplementsHandleTable
=============================================================================
