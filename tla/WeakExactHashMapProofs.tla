----------------------- MODULE WeakExactHashMapProofs -----------------------
(***************************************************************************)
(* The map of native mappings cannot fill up with dead keys and does not   *)
(* lose a live key whose hash code is stable, for any set of keys, values  *)
(* and hash codes.                                                         *)
(***************************************************************************)
EXTENDS WeakExactHashMap, FiniteSetTheorems, TLAPS

IInv == TypeOK /\ BoundInv

\* maybePurge makes room: what it leaves is part of the map, and one more entry
\* still fits the threshold it leaves.
LEMMA PurgeMakesRoom ==
    ASSUME IInv
    PROVE  /\ MapAfterPurge \subseteq map
           /\ IsFiniteSet(MapAfterPurge)
           /\ Cardinality(MapAfterPurge) \in Nat
           /\ ThresholdAfterPurge \in Nat
           /\ ThresholdAfterPurge <= 2 * peak
           /\ Cardinality(MapAfterPurge) + 1 <= Larger(ThresholdAfterPurge, 1)
<1>1. /\ Purged \subseteq map
      /\ IsFiniteSet(map)
  BY DEF IInv, BoundInv, Purged, LiveEntries
<1>2. IsFiniteSet(Purged) /\ Cardinality(Purged) \in Nat /\ Cardinality(map) \in Nat
  BY <1>1, FS_Subset, FS_CardinalityType
<1>3. Cardinality(Purged) <= peak
  BY DEF IInv, BoundInv, Purged
<1>4. CASE NeedsPurge
  BY <1>1, <1>2, <1>3, <1>4
     DEF MapAfterPurge, ThresholdAfterPurge, Larger, IInv, TypeOK
<1>5. CASE ~NeedsPurge
  BY <1>1, <1>2, <1>5
     DEF MapAfterPurge, ThresholdAfterPurge, NeedsPurge, Larger, IInv, TypeOK, BoundInv
<1> QED
  BY <1>4, <1>5

\* Shrinking the map or losing live keys does not need a larger peak.
LEMMA FewerLive ==
    ASSUME NEW m, NEW n \in SUBSET m, NEW l, NEW k \in SUBSET l, IsFiniteSet(m)
    PROVE  /\ Cardinality(LiveEntries(n, k)) \in Nat
           /\ Cardinality(LiveEntries(m, l)) \in Nat
           /\ Cardinality(LiveEntries(n, k)) <= Cardinality(LiveEntries(m, l))
<1>1. LiveEntries(n, k) \in SUBSET LiveEntries(m, l) /\ LiveEntries(m, l) \in SUBSET m
  BY DEF LiveEntries
<1>2. IsFiniteSet(LiveEntries(m, l))
  BY <1>1, FS_Subset
<1> QED
  BY <1>1, <1>2, FS_Subset, FS_CardinalityType

\* The empty map satisfies the bound.
LEMMA InitIInv == Init => IInv
<1> SUFFICES ASSUME Init PROVE IInv
  OBVIOUS
<1>1. LiveEntries(map, live) = {}
  BY DEF Init, LiveEntries
<1>2. BoundInv
  BY <1>1, FS_EmptySet DEF Init, BoundInv, Larger
<1>3. TypeOK
  BY DEF Init, TypeOK
<1> QED
  BY <1>2, <1>3 DEF IInv

\* Every operation preserves the bound.
LEMMA NextIInv == ASSUME IInv, [Next]_vars PROVE IInv'
<1> USE DEF IInv
<1>1. ASSUME NEW k \in Keys, Get(k) PROVE IInv'
  <2>1. TypeOK'
    BY <1>1, PurgeMakesRoom DEF Get, TypeOK
  <2>2. Cardinality(LiveEntries(map', live')) <= peak'
    BY <1>1, PurgeMakesRoom, FewerLive DEF Get, TypeOK, BoundInv
  <2>3. Cardinality(map') <= Larger(purgeThreshold', 1)
    BY <1>1, PurgeMakesRoom DEF Get, Larger
  <2> QED
    BY <1>1, <2>1, <2>2, <2>3, PurgeMakesRoom DEF Get, BoundInv
<1>2. ASSUME NEW k \in Keys, Collect(k) PROVE IInv'
  <2>1. Cardinality(LiveEntries(map', live')) <= peak'
    BY <1>2, FewerLive DEF Collect, TypeOK, BoundInv
  <2> QED
    BY <1>2, <2>1 DEF Collect, TypeOK, BoundInv
<1>3. ASSUME NEW k \in Keys, NEW v \in Vals, Put(k, v) PROVE IInv'
  <2> DEFINE e == [key |-> k, hash |-> hashCode[k], value |-> v]
             kept == {f \in MapAfterPurge : ~Matches(f, k)}
  <2>1. e \in Entry /\ kept \in SUBSET MapAfterPurge /\ map' = kept \cup {e}
    BY <1>3 DEF Put, Entry, TypeOK
  <2>2. IsFiniteSet(kept) /\ Cardinality(kept) <= Cardinality(MapAfterPurge)
        /\ Cardinality(kept) \in Nat
    BY <2>1, PurgeMakesRoom, FS_Subset, FS_CardinalityType
  <2>3. IsFiniteSet(map') /\ Cardinality(map') <= Cardinality(kept) + 1
        /\ Cardinality(map') \in Nat
    <3>1. /\ IsFiniteSet(kept \cup {e})
          /\ \/ Cardinality(kept \cup {e}) = Cardinality(kept)
             \/ Cardinality(kept \cup {e}) = Cardinality(kept) + 1
      <4> HIDE DEF e, kept
      <4> QED
        BY <2>2, FS_AddElement
    <3> QED
      BY <2>1, <2>2, <3>1
  <2>4. Cardinality(map') <= Larger(purgeThreshold', 1)
    BY <1>3, <2>2, <2>3, PurgeMakesRoom DEF Put, Larger
  <2>5. Cardinality(LiveEntries(map', live)) \in Nat
    BY <2>3, FewerLive
  <2>6. /\ peak' \in Nat
        /\ peak' >= peak
        /\ Cardinality(LiveEntries(map', live)) <= peak'
    BY <1>3, <2>5 DEF Put, Larger, TypeOK
  <2>7. TypeOK'
    BY <1>3, <2>1, <2>6, PurgeMakesRoom DEF Put, TypeOK
  <2>8. purgeThreshold' <= 2 * peak'
    BY <1>3, <2>6, PurgeMakesRoom DEF Put, TypeOK
  <2> QED
    BY <1>3, <2>3, <2>4, <2>6, <2>7, <2>8 DEF Put, BoundInv
<1>4. CASE Purge
  <2>1. /\ Purged \in SUBSET map
        /\ IsFiniteSet(Purged)
        /\ Cardinality(Purged) \in Nat
    BY FS_Subset, FS_CardinalityType DEF Purged, LiveEntries, BoundInv
  <2>2. Cardinality(LiveEntries(map', live')) <= peak'
    BY <1>4, <2>1, FewerLive DEF Purge, TypeOK, BoundInv
  <2>3. Cardinality(Purged) <= peak
    BY DEF Purged, BoundInv
  <2> QED
    BY <1>4, <2>1, <2>2, <2>3 DEF Purge, TypeOK, BoundInv, Larger
<1>5. CASE Clear
  <2>1. LiveEntries(map', live') = {}
    BY <1>5 DEF Clear, LiveEntries
  <2>2. IsFiniteSet(map') /\ Cardinality(map') = 0
    BY <1>5, FS_EmptySet DEF Clear
  <2>3. Cardinality(LiveEntries(map', live')) = 0
    BY <2>1, FS_EmptySet
  <2>4. TypeOK'
    BY <1>5 DEF Clear, TypeOK
  <2>5. BoundInv'
    BY <1>5, <2>2, <2>3, <2>4 DEF Clear, TypeOK, BoundInv, Larger
  <2> QED
    BY <2>4, <2>5
<1>6. ASSUME NEW k \in Keys, NEW h \in Hashes, Mutate(k, h) PROVE IInv'
  BY <1>6 DEF Mutate, TypeOK, BoundInv
<1>7. CASE UNCHANGED vars
  BY <1>7 DEF vars, TypeOK, BoundInv
<1> QED
  BY <1>1, <1>2, <1>3, <1>4, <1>5, <1>6, <1>7 DEF Next

\* The map's state has its types, the map fits its threshold and the threshold
\* fits the peak of live entries, after any calls of get, put, purge and clear.
THEOREM BoundInductive == Spec => [](TypeOK /\ BoundInv)
<1>1. Spec => []IInv
  BY InitIInv, NextIInv, PTL DEF Spec
<1>2. IInv => TypeOK /\ BoundInv
  BY DEF IInv
<1> QED
  BY <1>1, <1>2, PTL

\* Type correctness: what purge and put leave in the HashMap is a set of entries of
\* the map's own keys and values, filed under a hash code.
THEOREM TypeCorrect == Spec => []TypeOK
  BY BoundInductive, PTL

\* Dead native mappings never outnumber what the peak of live ones allows.
THEOREM BoundedGarbage == Spec => []GarbageBounded
<1>1. TypeOK /\ BoundInv => GarbageBounded
  <2> SUFFICES ASSUME TypeOK, BoundInv PROVE GarbageBounded
    OBVIOUS
  <2>1. Cardinality(map) \in Nat
    BY FS_CardinalityType DEF BoundInv
  <2> QED
    BY <2>1 DEF BoundInv, GarbageBounded, Larger, TypeOK
<1> QED
  BY BoundInductive, <1>1, PTL

------------------------------------------------------------------------------
(* Lookups.  The entry a stable key was put under is still in the map while *)
(* the key lives, and no other entry matches the key.                       *)

EntryOf(k) == [key |-> k, hash |-> hashCode[k], value |-> last[k]]

Kept == \A k \in live \ Mutable : last[k] # None => EntryOf(k) \in map

FoundInv == OneEntryPerKeyAndHash /\ Kept

\* A purge, or none, leaves the live entries and adds nothing.
LEMMA PurgeKeepsLive ==
    /\ MapAfterPurge \subseteq map
    /\ LiveEntries(map, live) \subseteq MapAfterPurge
  BY DEF MapAfterPurge, Purged, LiveEntries

\* Every operation keeps the entries of live, stable keys and adds no second one.
LEMMA NextFoundInv ==
    ASSUME TypeOK, FoundInv, [Next]_vars PROVE FoundInv'
<1> USE DEF FoundInv
<1>1. ASSUME NEW k \in Keys, Get(k) PROVE FoundInv'
  <2>1. OneEntryPerKeyAndHash'
    BY <1>1, PurgeKeepsLive DEF Get, OneEntryPerKeyAndHash
  <2>2. Kept'
    BY <1>1, PurgeKeepsLive DEF Get, Kept, EntryOf, LiveEntries
  <2> QED
    BY <2>1, <2>2
<1>2. ASSUME NEW k \in Keys, Collect(k) PROVE FoundInv'
  BY <1>2 DEF Collect, OneEntryPerKeyAndHash, Kept, EntryOf
<1>3. ASSUME NEW k \in Keys, NEW v \in Vals, Put(k, v) PROVE FoundInv'
  <2> DEFINE e == [key |-> k, hash |-> hashCode[k], value |-> v]
             kept == {f \in MapAfterPurge : ~Matches(f, k)}
  <2>1. /\ map' = kept \cup {e}
        /\ kept \subseteq map
        /\ k \in live
        /\ UNCHANGED <<live, hashCode>>
        /\ last' = [last EXCEPT ![k] = v]
    BY <1>3, PurgeKeepsLive DEF Put
  <2>2. \A f \in kept : ~(f.key = e.key /\ f.hash = e.hash)
    BY <2>1 DEF Matches
  <2>3. OneEntryPerKeyAndHash'
    BY <2>1, <2>2 DEF OneEntryPerKeyAndHash
  <2>4. Kept'
    <3> SUFFICES ASSUME NEW j \in live \ Mutable, last'[j] # None
                 PROVE  EntryOf(j)' \in map'
      BY <2>1 DEF Kept
    <3>1. CASE j = k
      BY <2>1, <3>1 DEF EntryOf, TypeOK
    <3>2. CASE j # k
      <4>1. last'[j] = last[j] /\ EntryOf(j)' = EntryOf(j)
        BY <2>1, <3>2 DEF EntryOf, TypeOK
      <4>2. EntryOf(j) \in LiveEntries(map, live)
        BY <4>1 DEF Kept, LiveEntries, EntryOf
      <4>3. ~Matches(EntryOf(j), k)
        BY <3>2 DEF Matches, EntryOf
      <4> QED
        BY <2>1, <4>1, <4>2, <4>3, PurgeKeepsLive
    <3> QED
      BY <3>1, <3>2
  <2> QED
    BY <2>3, <2>4
<1>4. CASE Purge
  BY <1>4 DEF Purge, Purged, LiveEntries, OneEntryPerKeyAndHash, Kept, EntryOf
<1>5. CASE Clear
  BY <1>5 DEF Clear, OneEntryPerKeyAndHash, Kept, TypeOK
<1>6. ASSUME NEW k \in Keys, NEW h \in Hashes, Mutate(k, h) PROVE FoundInv'
  BY <1>6 DEF Mutate, OneEntryPerKeyAndHash, Kept, EntryOf, TypeOK
<1>7. CASE UNCHANGED vars
  BY <1>7 DEF vars, OneEntryPerKeyAndHash, Kept, EntryOf
<1> QED
  BY <1>1, <1>2, <1>3, <1>4, <1>5, <1>6, <1>7 DEF Next

\* A live key with a stable hash code is found under the value last put for it.
THEOREM StableKeysFound == Spec => []MappedStaysFound
<1>1. Init => FoundInv
  BY DEF Init, FoundInv, OneEntryPerKeyAndHash, Kept
<1>2. Spec => []FoundInv
  BY <1>1, NextFoundInv, BoundInductive, PTL DEF Spec
<1>3. FoundInv => MappedStaysFound
  <2> SUFFICES ASSUME FoundInv, NEW k \in Keys \ Mutable, k \in live, last[k] # None
               PROVE  Lookup(map, k) = last[k]
    BY DEF MappedStaysFound, Found
  <2>1. EntryOf(k) \in map /\ Matches(EntryOf(k), k)
    BY DEF FoundInv, Kept, Matches, EntryOf
  <2>2. \A e \in map : Matches(e, k) => e = EntryOf(k)
    BY <2>1 DEF FoundInv, OneEntryPerKeyAndHash, Matches, EntryOf
  <2>3. (CHOOSE e \in map : Matches(e, k)) = EntryOf(k)
    BY <2>1, <2>2
  <2>4. EntryOf(k).value = last[k]
    BY DEF EntryOf
  <2>5. Lookup(map, k) = (CHOOSE e \in map : Matches(e, k)).value
    BY <2>1, Zenon DEF Lookup
  <2> QED
    BY <2>3, <2>4, <2>5
<1> QED
  BY <1>2, <1>3, PTL
=============================================================================
