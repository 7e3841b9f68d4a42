------------------------- MODULE NativeBuffersProofs -------------------------
(***************************************************************************)
(* Memory shared between QuickJS and Java for any number of ArrayBuffers   *)
(* and DirectByteBuffers and any hash codes.                               *)
(***************************************************************************)
EXTENDS NativeBuffers, WeakExactHashMapProofs

BufferTypeOK ==
    /\ open \in BOOLEAN
    /\ script \subseteq made /\ freed \subseteq made /\ made \subseteq Arrays
    /\ pins \in [Arrays -> Keys \cup {None}]
    /\ of \in [Keys -> Arrays \cup {Own, None}]
    /\ java \subseteq live /\ live \subseteq Keys
    /\ stash \subseteq Keys

\* Buffers that do not exist yet have not been collected and are not in Java's hands.
Fresh == \A k \in Keys : of[k] = None => k \in live \ java

\* An entry names the JavaScriptObject made for its buffer, and keeps its twin stashed.
Entries == \A e \in map : e.value = e.key /\ of[e.key] \in Arrays /\ e.key \in stash

\* Until close(), a buffer that came from script has an entry for as long as it lives.
Mapped ==
    open => \A k \in Keys : of[k] \in Arrays =>
        /\ last[k] = k
        /\ k \in live => \E e \in map : e.key = k

\* A stashed twin keeps its ArrayBuffer's memory, and so does script.
Held ==
    /\ \A k \in stash : of[k] \in made \ freed
    /\ script \cap freed = {}

\* An ArrayBuffer over a Java buffer keeps the buffer.
Pinned ==
    \A a \in Arrays : pins[a] # None =>
        /\ a \in made
        /\ of[pins[a]] # None
        /\ a \notin freed => pins[a] \in live

HeapInv == BufferTypeOK /\ Fresh /\ Entries /\ Mapped /\ Held /\ Pinned /\ SameArrayBuffer

------------------------------------------------------------------------------
\* Whatever the two heaps do, nativeMappings sees calls of get, put, purge and clear,
\* deaths of keys and changes of hash codes.
LEMMA MapStep == [BufferNext]_bufferVars => [Next]_vars
<1> SUFFICES ASSUME [BufferNext]_bufferVars PROVE [Next]_vars
  OBVIOUS
<1> USE BufferAssumption
<1>1. ASSUME NEW a \in Arrays, NewArrayBuffer(a) \/ FreeArrayBuffer(a) \/ ForgetInScript(a)
      PROVE  UNCHANGED vars
  BY <1>1 DEF NewArrayBuffer, FreeArrayBuffer, ForgetInScript
<1>2. ASSUME NEW a \in Arrays, NEW k \in Keys, PassToJava(a, k) PROVE Next
  BY <1>2 DEF PassToJava, Next
<1>3. ASSUME NEW k \in Keys, AllocateDirect(k) \/ CollectObject(k) \/ ForgetInJava(k)
      PROVE  UNCHANGED vars
  BY <1>3 DEF AllocateDirect, CollectObject, ForgetInJava
<1>4. ASSUME NEW k \in Keys, PassToScript(k) PROVE Next
  BY <1>4 DEF PassToScript, Next
<1>5. ASSUME NEW k \in Keys, CollectBuffer(k) PROVE Next
  BY <1>5 DEF CollectBuffer, Next
<1>6. ASSUME NEW k \in Keys, NEW h \in Hashes, WriteBuffer(k, h) PROVE Next
  BY <1>6 DEF WriteBuffer, Next
<1>7. CASE PurgeNativeMappings
  BY <1>7 DEF PurgeNativeMappings, Next
<1>8. CASE Close
  BY <1>8 DEF Close, Next
<1>9. CASE UNCHANGED bufferVars
  BY <1>9 DEF bufferVars
<1> QED
  BY <1>1, <1>2, <1>3, <1>4, <1>5, <1>6, <1>7, <1>8, <1>9 DEF BufferNext

\* JSEngineContext's native mappings under the traffic of buffers are the map
\* WeakExactHashMap specifies: its theorems hold of them.
THEOREM BuffersUseTheMap == BufferSpec => Spec
<1>1. BufferInit => Init
  BY DEF BufferInit
<1> QED
  BY <1>1, MapStep, PTL DEF BufferSpec, Spec

------------------------------------------------------------------------------
(* The heaps.                                                              *)

\* What get() and purge() leave of the map is part of it, and has the live entries.
LEMMA ShrinkKeeps ==
    ASSUME HeapInv, map' \subseteq map, LiveEntries(map, live) \subseteq map',
           UNCHANGED <<open, of, stash, live, last>>
    PROVE  Entries' /\ Mapped'
  BY DEF HeapInv, Entries, Mapped, LiveEntries

\* A buffer of memory script shares is held by its entry in the map.
LEMMA SharedNotFreed ==
    ASSUME HeapInv, open, NEW k \in live, k \in Keys, of[k] # None
    PROVE  of[k] \notin freed
<1>1. CASE of[k] \in Arrays
  <2>1. PICK e \in map : e.key = k
    BY <1>1 DEF HeapInv, Mapped
  <2> QED
    BY <2>1 DEF HeapInv, Entries, Held
<1>2. CASE of[k] = Own
  BY <1>2, BufferAssumption DEF HeapInv, BufferTypeOK
<1> QED
  BY <1>1, <1>2 DEF HeapInv, BufferTypeOK

\* The lookup of a live buffer that came from script and was not written to finds its
\* JavaScriptObject.
LEMMA StableFound ==
    ASSUME HeapInv, FoundInv, open, NEW k \in live \ Mutable, k \in Keys, of[k] \in Arrays
    PROVE  Lookup(MapAfterPurge, k) # None
<1>1. last[k] = k /\ k # None
  BY BufferAssumption, MapAssumption DEF HeapInv, Mapped
<1>2. EntryOf(k) \in LiveEntries(map, live)
  BY <1>1 DEF FoundInv, Kept, EntryOf, LiveEntries
<1>3. EntryOf(k) \in MapAfterPurge /\ Matches(EntryOf(k), k)
  BY <1>2, PurgeKeepsLive DEF Matches, EntryOf
<1> DEFINE e == CHOOSE f \in MapAfterPurge : Matches(f, k)
<1>4. e \in MapAfterPurge /\ Matches(e, k)
  BY <1>3
<1>5. Lookup(MapAfterPurge, k) = e.value
  BY <1>3, Zenon DEF Lookup
<1> HIDE DEF e
<1>6. e.value = k
  BY <1>4, PurgeKeepsLive DEF Matches, HeapInv, Entries
<1> QED
  BY <1>1, <1>5, <1>6

\* A lookup that succeeds names a JavaScriptObject of the stash.
LEMMA FoundStashed ==
    ASSUME HeapInv, NEW k \in Keys, Lookup(MapAfterPurge, k) # None
    PROVE  Lookup(MapAfterPurge, k) \in stash
<1>1. \E f \in MapAfterPurge : Matches(f, k)
  BY Zenon DEF Lookup
<1> DEFINE e == CHOOSE f \in MapAfterPurge : Matches(f, k)
<1>2. e \in MapAfterPurge
  BY <1>1
<1>3. Lookup(MapAfterPurge, k) = e.value
  BY <1>1, Zenon DEF Lookup
<1> HIDE DEF e
<1> QED
  BY <1>2, <1>3, PurgeKeepsLive DEF HeapInv, Entries

\* Before anything is shared.
LEMMA InitHeapInv == BufferInit => HeapInv
<1> USE MapAssumption, BufferAssumption
<1> SUFFICES ASSUME BufferInit PROVE HeapInv
  OBVIOUS
<1>1. BufferTypeOK /\ Fresh
  BY DEF BufferInit, Init, BufferTypeOK, Fresh
<1>2. Entries /\ Held
  BY DEF BufferInit, Init, Entries, Held
<1>3. Mapped
  BY DEF BufferInit, Mapped
<1>4. Pinned /\ SameArrayBuffer
  BY DEF BufferInit, Pinned, SameArrayBuffer
<1> QED
  BY <1>1, <1>2, <1>3, <1>4 DEF HeapInv

\* Every operation on the heaps, and every collection, preserves the invariant.
LEMMA NextHeapInv ==
    ASSUME TypeOK, FoundInv, HeapInv, [BufferNext]_bufferVars PROVE HeapInv'
<1> USE MapAssumption, BufferAssumption
<1>1. ASSUME NEW a \in Arrays, NewArrayBuffer(a) PROVE HeapInv'
  <2>1. BufferTypeOK' /\ Fresh' /\ Entries' /\ Mapped'
    BY <1>1 DEF NewArrayBuffer, vars, HeapInv, BufferTypeOK, Fresh, Entries, Mapped
  <2>2. Held' /\ Pinned' /\ SameArrayBuffer'
    BY <1>1 DEF NewArrayBuffer, vars, HeapInv, BufferTypeOK, Held, Pinned, SameArrayBuffer
  <2> QED
    BY <2>1, <2>2 DEF HeapInv
<1>2. ASSUME NEW a \in Arrays, FreeArrayBuffer(a) PROVE HeapInv'
  <2>1. BufferTypeOK' /\ Fresh' /\ Entries' /\ Mapped'
    BY <1>2 DEF FreeArrayBuffer, vars, HeapInv, BufferTypeOK, Fresh, Entries, Mapped
  <2>2. Held' /\ Pinned' /\ SameArrayBuffer'
    BY <1>2 DEF FreeArrayBuffer, vars, HeapInv, BufferTypeOK, Held, Pinned, SameArrayBuffer
  <2> QED
    BY <2>1, <2>2 DEF HeapInv
<1>3. ASSUME NEW a \in Arrays, ForgetInScript(a) PROVE HeapInv'
  <2>1. BufferTypeOK' /\ Fresh' /\ Entries' /\ Mapped'
    BY <1>3 DEF ForgetInScript, vars, HeapInv, BufferTypeOK, Fresh, Entries, Mapped
  <2>2. Held' /\ Pinned' /\ SameArrayBuffer'
    BY <1>3 DEF ForgetInScript, vars, HeapInv, BufferTypeOK, Held, Pinned, SameArrayBuffer
  <2> QED
    BY <2>1, <2>2 DEF HeapInv
<1>4. ASSUME NEW a \in Arrays, NEW k \in Keys, PassToJava(a, k) PROVE HeapInv'
  <2> DEFINE e == [key |-> k, hash |-> hashCode[k], value |-> k]
             kept == {f \in MapAfterPurge : ~Matches(f, k)}
  <2>1. /\ map' = kept \cup {e} /\ k \in live /\ UNCHANGED live
        /\ last' = [last EXCEPT ![k] = k]
        /\ of' = [of EXCEPT ![k] = a] /\ of[k] = None
        /\ java' = java \cup {k} /\ stash' = stash \cup {k}
        /\ a \in script /\ UNCHANGED <<open, made, script, freed, pins>>
    BY <1>4 DEF PassToJava, Put
  <2>2. /\ of'[k] = a /\ last'[k] = k
        /\ \A j \in Keys \ {k} : of'[j] = of[j] /\ last'[j] = last[j]
    BY <2>1 DEF HeapInv, BufferTypeOK, TypeOK
  <2>3. kept \subseteq map
    BY PurgeKeepsLive
  <2>4. ASSUME NEW f \in map, f.key \in live, f.key # k PROVE f \in kept
    BY <2>4, PurgeKeepsLive DEF LiveEntries, Matches
  <2>5. e.key = k /\ e.value = k /\ e \in map'
    BY <2>1
  <2>6. \A f \in map' : f = e \/ f \in kept
    BY <2>1
  <2>7. \A f \in kept : f \in map'
    BY <2>1
  <2> HIDE DEF e, kept
  <2>8. BufferTypeOK' /\ Fresh'
    BY <2>1, <2>2 DEF HeapInv, BufferTypeOK, Fresh
  <2>9. k \notin stash
    BY <2>1 DEF HeapInv, BufferTypeOK, Held
  <2>10. Entries'
    <3> SUFFICES ASSUME NEW f \in map'
                 PROVE  f.value = f.key /\ of'[f.key] \in Arrays /\ f.key \in stash'
      BY DEF Entries
    <3>1. CASE f = e
      BY <2>1, <2>2, <2>5, <3>1
    <3>2. CASE f \in kept
      <4>1. f.value = f.key /\ of[f.key] \in Arrays /\ f.key \in stash
        BY <2>3, <3>2 DEF HeapInv, Entries
      <4> QED
        BY <2>1, <2>2, <2>9, <4>1 DEF HeapInv, BufferTypeOK
    <3> QED
      BY <2>6, <3>1, <3>2
  <2>11. Mapped'
    <3> SUFFICES ASSUME open, NEW j \in Keys, of'[j] \in Arrays
                 PROVE  last'[j] = j /\ (j \in live => \E f \in map' : f.key = j)
      BY <2>1 DEF Mapped
    <3>1. CASE j = k
      BY <2>2, <2>5, <3>1
    <3>2. CASE j # k
      <4>1. last[j] = j /\ (j \in live => \E f \in map : f.key = j)
        BY <2>2, <3>2 DEF HeapInv, Mapped
      <4> QED
        BY <2>2, <2>4, <2>7, <3>2, <4>1
    <3> QED
      BY <3>1, <3>2
  <2>12. Held'
    BY <2>1, <2>2, <2>9 DEF HeapInv, BufferTypeOK, Held
  <2>13. Pinned' /\ SameArrayBuffer'
    <3>1. \A b \in Arrays : pins[b] # None => pins[b] # k /\ pins[b] \in Keys
      BY <2>1 DEF HeapInv, Pinned, BufferTypeOK
    <3>2. \A b \in Arrays : pins[b] # None => of'[pins[b]] = of[pins[b]]
      BY <2>2, <3>1
    <3> QED
      BY <2>1, <3>2 DEF HeapInv, BufferTypeOK, Pinned, SameArrayBuffer
  <2> QED
    BY <2>8, <2>10, <2>11, <2>12, <2>13 DEF HeapInv
<1>5. ASSUME NEW k \in Keys, AllocateDirect(k) PROVE HeapInv'
  <2>1. /\ of[k] = None /\ of'[k] = Own /\ k \in live
        /\ \A j \in Keys \ {k} : of'[j] = of[j]
    BY <1>5 DEF AllocateDirect, HeapInv, BufferTypeOK, Fresh
  <2>2. k \notin stash /\ \A e \in map : e.key # k /\ e.key \in Keys
    BY <2>1 DEF HeapInv, BufferTypeOK, Held, Entries
  <2>3. \A b \in Arrays : pins[b] # None => pins[b] # k /\ pins[b] \in Keys
    BY <2>1 DEF HeapInv, Pinned, BufferTypeOK
  <2>4. BufferTypeOK' /\ Fresh'
    BY <1>5, <2>1 DEF AllocateDirect, vars, HeapInv, BufferTypeOK, Fresh
  <2>5. Entries' /\ Mapped'
    BY <1>5, <2>1, <2>2 DEF AllocateDirect, vars, HeapInv, BufferTypeOK, Entries, Mapped
  <2>6. Held'
    BY <1>5, <2>1, <2>2 DEF AllocateDirect, vars, HeapInv, BufferTypeOK, Held
  <2>7. Pinned' /\ SameArrayBuffer'
    BY <1>5, <2>1, <2>3
       DEF AllocateDirect, vars, HeapInv, BufferTypeOK, Pinned, SameArrayBuffer
  <2> QED
    BY <2>4, <2>5, <2>6, <2>7 DEF HeapInv
<1>6. ASSUME NEW k \in Keys, PassToScript(k) PROVE HeapInv'
  <2> DEFINE found == Lookup(MapAfterPurge, k)
  <2>1. /\ open /\ k \in java /\ k \in live
        /\ map' = MapAfterPurge /\ UNCHANGED <<live, last, open, freed, of, java, stash>>
    BY <1>6 DEF PassToScript, Get
  <2>2. Entries' /\ Mapped'
    BY <2>1, PurgeKeepsLive, ShrinkKeeps
  <2>3. Fresh'
    BY <2>1 DEF HeapInv, Fresh
  <2>4. CASE found # None
    <3>1. script' = script \cup {of[found]} /\ UNCHANGED <<made, pins>>
      BY <1>6, <2>4 DEF PassToScript
    <3>2. of[found] \in made \ freed
      BY <2>4, FoundStashed DEF HeapInv, Held
    <3> HIDE DEF found
    <3>3. BufferTypeOK' /\ Held' /\ Pinned' /\ SameArrayBuffer'
      BY <2>1, <3>1, <3>2 DEF HeapInv, BufferTypeOK, Held, Pinned, SameArrayBuffer
    <3> QED
      BY <2>2, <2>3, <3>3 DEF HeapInv
  <2>5. CASE found = None
    <3>1. PICK a \in Arrays \ made :
            /\ made' = made \cup {a} /\ script' = script \cup {a}
            /\ pins' = [pins EXCEPT ![a] = k]
      BY <1>6, <2>5 DEF PassToScript
    <3>2. pins'[a] = k /\ \A b \in Arrays \ {a} : pins'[b] = pins[b]
      BY <3>1 DEF HeapInv, BufferTypeOK
    <3>3. of[k] # None
      BY <2>1 DEF HeapInv, Fresh
    <3>4. k \in Mutable \/ of[k] = Own
      BY <2>1, <2>5, <3>3, StableFound DEF HeapInv, BufferTypeOK
    <3> HIDE DEF found
    <3>5. BufferTypeOK' /\ Held'
      BY <2>1, <3>1 DEF HeapInv, BufferTypeOK, Held
    <3>6. Pinned'
      BY <2>1, <3>1, <3>2, <3>3 DEF HeapInv, BufferTypeOK, Pinned
    <3>7. SameArrayBuffer'
      BY <2>1, <3>1, <3>2, <3>4 DEF HeapInv, BufferTypeOK, SameArrayBuffer
    <3> QED
      BY <2>2, <2>3, <3>5, <3>6, <3>7 DEF HeapInv
  <2> QED
    BY <2>4, <2>5
<1>7. ASSUME NEW k \in Keys, CollectObject(k) PROVE HeapInv'
  <2>1. BufferTypeOK' /\ Fresh' /\ Entries' /\ Mapped'
    BY <1>7 DEF CollectObject, vars, HeapInv, BufferTypeOK, Fresh, Entries, Mapped
  <2>2. Held' /\ Pinned' /\ SameArrayBuffer'
    BY <1>7 DEF CollectObject, vars, HeapInv, BufferTypeOK, Held, Pinned, SameArrayBuffer
  <2> QED
    BY <2>1, <2>2 DEF HeapInv
<1>8. ASSUME NEW k \in Keys, CollectBuffer(k) PROVE HeapInv'
  <2>1. /\ live' = live \ {k} /\ of[k] # None /\ k \notin java /\ PinnedBy(k) = {}
        /\ UNCHANGED <<map, last, open, made, script, freed, pins, of, java, stash>>
    BY <1>8 DEF CollectBuffer, Collect, heapVars
  <2>2. BufferTypeOK' /\ Fresh' /\ Entries' /\ Mapped'
    BY <2>1 DEF HeapInv, BufferTypeOK, Fresh, Entries, Mapped
  <2>3. Held' /\ SameArrayBuffer'
    BY <2>1 DEF HeapInv, BufferTypeOK, Held, SameArrayBuffer
  <2>4. Pinned'
    BY <2>1 DEF HeapInv, BufferTypeOK, Pinned, PinnedBy
  <2> QED
    BY <2>2, <2>3, <2>4 DEF HeapInv
<1>9. ASSUME NEW k \in Keys, ForgetInJava(k) PROVE HeapInv'
  <2>1. BufferTypeOK' /\ Fresh' /\ Entries' /\ Mapped'
    BY <1>9 DEF ForgetInJava, vars, HeapInv, BufferTypeOK, Fresh, Entries, Mapped
  <2>2. Held' /\ Pinned' /\ SameArrayBuffer'
    BY <1>9 DEF ForgetInJava, vars, HeapInv, BufferTypeOK, Held, Pinned, SameArrayBuffer
  <2> QED
    BY <2>1, <2>2 DEF HeapInv
<1>10. ASSUME NEW k \in Keys, NEW h \in Hashes, WriteBuffer(k, h) PROVE HeapInv'
  <2>1. BufferTypeOK' /\ Fresh' /\ Entries' /\ Mapped'
    BY <1>10 DEF WriteBuffer, Mutate, heapVars, HeapInv, BufferTypeOK, Fresh, Entries, Mapped
  <2>2. Held' /\ Pinned' /\ SameArrayBuffer'
    BY <1>10 DEF WriteBuffer, Mutate, heapVars, HeapInv, BufferTypeOK, Held, Pinned, SameArrayBuffer
  <2> QED
    BY <2>1, <2>2 DEF HeapInv
<1>11. CASE PurgeNativeMappings
  <2>1. map' = LiveEntries(map, live) /\ UNCHANGED <<live, last, heapVars>>
    BY <1>11 DEF PurgeNativeMappings, Purge, Purged
  <2>2. Entries' /\ Mapped'
    <3>1. map' \subseteq map
      BY <2>1 DEF LiveEntries
    <3> QED
      BY <2>1, <3>1, ShrinkKeeps DEF heapVars
  <2>3. BufferTypeOK' /\ Fresh' /\ Held' /\ Pinned' /\ SameArrayBuffer'
    BY <2>1 DEF heapVars, HeapInv, BufferTypeOK, Fresh, Held, Pinned, SameArrayBuffer
  <2> QED
    BY <2>2, <2>3 DEF HeapInv
<1>12. CASE Close
  <2>1. BufferTypeOK' /\ Fresh' /\ Entries' /\ Mapped'
    BY <1>12 DEF Close, Clear, HeapInv, BufferTypeOK, Fresh, Entries, Mapped
  <2>2. Held' /\ Pinned' /\ SameArrayBuffer'
    BY <1>12 DEF Close, Clear, HeapInv, BufferTypeOK, Held, Pinned, SameArrayBuffer
  <2> QED
    BY <2>1, <2>2 DEF HeapInv
<1>13. CASE UNCHANGED bufferVars
  <2>1. BufferTypeOK' /\ Fresh' /\ Entries' /\ Mapped'
    BY <1>13 DEF bufferVars, vars, heapVars, HeapInv, BufferTypeOK, Fresh, Entries, Mapped
  <2>2. Held' /\ Pinned' /\ SameArrayBuffer'
    BY <1>13 DEF bufferVars, vars, heapVars, HeapInv, BufferTypeOK, Held, Pinned, SameArrayBuffer
  <2> QED
    BY <2>1, <2>2 DEF HeapInv
<1> QED
  BY <1>1, <1>2, <1>3, <1>4, <1>5, <1>6, <1>7, <1>8, <1>9, <1>10, <1>11, <1>12, <1>13
     DEF BufferNext

\* The invariant of the two heaps and the native mappings between them.
THEOREM HeapInductive == BufferSpec => [](TypeOK /\ HeapInv)
<1>1. BufferSpec => []TypeOK
  BY BuffersUseTheMap, BoundInductive, PTL
<1>2. Init => FoundInv
  BY DEF Init, FoundInv, OneEntryPerKeyAndHash, Kept
<1>3. BufferSpec => []FoundInv
  BY <1>1, <1>2, BuffersUseTheMap, NextFoundInv, PTL DEF Spec
<1> QED
  BY <1>1, <1>3, InitHeapInv, NextHeapInv, PTL DEF BufferSpec

\* Until the context is closed, memory that script or Java can touch through an
\* ArrayBuffer or a DirectByteBuffer has not been freed.
THEOREM MemorySafety == BufferSpec => []MemoryLive
<1>1. HeapInv => MemoryLive
  <2> SUFFICES ASSUME HeapInv, open PROVE MemoryLive
    BY DEF MemoryLive
  <2>1. ASSUME NEW k \in java PROVE of[k] \notin freed
    BY SharedNotFreed DEF HeapInv, BufferTypeOK, Fresh
  <2>2. ASSUME NEW a \in script, pins[a] # None
        PROVE  pins[a] \in live /\ of[pins[a]] \notin freed
    BY <2>2, SharedNotFreed DEF HeapInv, BufferTypeOK, Held, Pinned
  <2> QED
    BY <2>1, <2>2 DEF MemoryLive, HeapInv, Held
<1> QED
  BY <1>1, HeapInductive, PTL

\* A DirectByteBuffer that came from script and was not written to goes back to script
\* as the ArrayBuffer it came from.
THEOREM SameBufferBack == BufferSpec => []SameArrayBuffer
<1>1. HeapInv => SameArrayBuffer
  BY DEF HeapInv
<1> QED
  BY <1>1, HeapInductive, PTL
=============================================================================
