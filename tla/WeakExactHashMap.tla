-------------------------- MODULE WeakExactHashMap --------------------------
(***************************************************************************)
(* The map behind JSEngineContext.nativeMappings: weak keys compared by    *)
(* identity, purged of dead keys when it has grown past a threshold.       *)
(*                                                                         *)
(* An entry remembers the hashCode its key had when the entry was made.    *)
(* The keys of nativeMappings are DirectByteBuffers, whose hashCode        *)
(* depends on their position and contents, so a key's hash may change.     *)
(*                                                                         *)
(* setPurgeThreshold is called by purge() only.                            *)
(***************************************************************************)
EXTENDS Naturals, FiniteSets

CONSTANTS
    Keys,        \* key objects; a collected key does not come back
    Vals,        \* values
    Hashes,      \* results of hashCode
    Mutable,     \* keys whose hashCode may change (ByteBuffers)
    None

ASSUME MapAssumption ==
    /\ None \notin Vals
    /\ Mutable \subseteq Keys

VARIABLES
    map,             \* the HashMap, as a set of [key, hash, value]
    purgeThreshold,  \* purge when the map has this many entries
    live,            \* keys the JVM has not collected
    hashCode,        \* what key.hashCode() returns now
    last,            \* the value last put under a key, None if cleared since
    peak             \* the most entries with a live key there have ever been

vars == <<map, purgeThreshold, live, hashCode, last, peak>>

Entry == [key : Keys, hash : Hashes, value : Vals]

LiveEntries(m, l) == {e \in m : e.key \in l}

Larger(i, j) == IF i > j THEN i ELSE j

Init ==
    /\ map = {}
    /\ purgeThreshold = 0
    /\ live = Keys
    /\ hashCode \in [Keys -> Hashes]
    /\ last = [k \in Keys |-> None]
    /\ peak = 0

\* Mutants: purges one entry late; has the comparison the wrong way round.
NeedsPurgeLate == Cardinality(map) > purgeThreshold
NeedsPurgeWhenSmall == Cardinality(map) < purgeThreshold

\* maybePurge: what it leaves of the map, and of the threshold.
NeedsPurge == Cardinality(map) >= purgeThreshold
Purged == LiveEntries(map, live)
MapAfterPurge == IF NeedsPurge THEN Purged ELSE map
\* Mutant: one less than twice the size.
ThresholdOneLess == IF NeedsPurge THEN 2 * Cardinality(Purged) - 1 ELSE purgeThreshold
ThresholdAfterPurge == IF NeedsPurge THEN 2 * Cardinality(Purged) ELSE purgeThreshold

\* Mutants: equal hashes are equal keys; an entry equals only itself, never the
\* new one made for a lookup.
MatchesHash(e, k) == e.hash = hashCode[k] /\ e.key \in live /\ k \in live
MatchesNever(e, k) == FALSE

\* HashMap.get with a new Entry: same hash, and equals, which is identity of a
\* referent that is still there.
Matches(e, k) == e.hash = hashCode[k] /\ e.key = k /\ k \in live
Lookup(m, k) ==
    IF \E e \in m : Matches(e, k) THEN (CHOOSE e \in m : Matches(e, k)).value ELSE None

\* get(key): the result is Lookup(MapAfterPurge, key).
Get(k) ==
    /\ k \in live
    /\ map' = MapAfterPurge
    /\ purgeThreshold' = ThresholdAfterPurge
    /\ UNCHANGED <<live, hashCode, last, peak>>

\* put(key, value): replaces the value of an equal entry, else adds one.
Put(k, v) ==
    /\ k \in live
    /\ map' = {e \in MapAfterPurge : ~Matches(e, k)}
                 \cup {[key |-> k, hash |-> hashCode[k], value |-> v]}
    /\ purgeThreshold' = ThresholdAfterPurge
    /\ last' = [last EXCEPT ![k] = v]
    /\ peak' = Larger(peak, Cardinality(LiveEntries(map', live)))
    /\ UNCHANGED <<live, hashCode>>

\* purge(), also called by purgeNativeMappings.
Purge ==
    /\ map' = Purged
    /\ purgeThreshold' = 2 * Cardinality(Purged)
    /\ UNCHANGED <<live, hashCode, last, peak>>

\* clear() leaves the threshold alone.
Clear ==
    /\ map' = {}
    /\ last' = [k \in Keys |-> None]
    /\ UNCHANGED <<purgeThreshold, live, hashCode, peak>>

\* The JVM collects a key and clears the weak references to it.
Collect(k) ==
    /\ k \in live
    /\ live' = live \ {k}
    /\ UNCHANGED <<map, purgeThreshold, hashCode, last, peak>>

\* Java or script writes to the buffer, or Java moves its position or limit.
Mutate(k, h) ==
    /\ k \in live \cap Mutable
    /\ hashCode' = [hashCode EXCEPT ![k] = h]
    /\ UNCHANGED <<map, purgeThreshold, live, last, peak>>

Next ==
    \/ \E k \in Keys : Get(k) \/ Collect(k)
    \/ \E k \in Keys, v \in Vals : Put(k, v)
    \/ \E k \in Keys, h \in Hashes : Mutate(k, h)
    \/ Purge \/ Clear

Spec == Init /\ [][Next]_vars

------------------------------------------------------------------------------
(* Correctness.                                                            *)

\* Fields and entries keep their kinds; the purge threshold is never negative.
TypeOK ==
    /\ map \subseteq Entry
    /\ purgeThreshold \in Nat
    /\ live \subseteq Keys
    /\ hashCode \in [Keys -> Hashes]
    /\ last \in [Keys -> Vals \cup {None}]
    /\ peak \in Nat

\* Key k, if live, is found under the value last put for it.
Found(k) == k \in live /\ last[k] # None => Lookup(map, k) = last[k]

\* A live key whose hashCode does not change is found under the value last put
\* for it, whatever purges, collisions of hashes, puts of other keys and deaths of
\* other keys happened since get() and put() last saw it.
MappedStaysFound == \A k \in Keys \ Mutable : Found(k)

\* The same for every key.  JSEngineContext relies on it to give a DirectByteBuffer
\* back to JavaScript as the ArrayBuffer it came from: "a js ArrayBuffer or
\* Uint8Array value will be mapped from the java DirectByteBuffer key".
BufferStaysFound == \A k \in Keys : Found(k)

\* A key has at most one entry per hash it has had, so replacing is by identity.
OneEntryPerKeyAndHash ==
    \A e, f \in map : e.key = f.key /\ e.hash = f.hash => e = f

\* maybePurge keeps dead entries from piling up: the map is never larger than
\* twice the most entries that were ever live at once, or one entry.
GarbageBounded == Cardinality(map) <= Larger(2 * peak, 1)

\* The strengthening of GarbageBounded that maybePurge and purge preserve: the map fits the threshold, the threshold fits the peak.
BoundInv ==
    /\ IsFiniteSet(map)
    /\ Cardinality(map) <= Larger(purgeThreshold, 1)
    /\ purgeThreshold <= 2 * peak
    /\ Cardinality(LiveEntries(map, live)) <= peak
=============================================================================
