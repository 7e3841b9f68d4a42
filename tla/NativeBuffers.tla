---------------------------- MODULE NativeBuffers ----------------------------
(***************************************************************************)
(* ArrayBuffers of QuickJS shared with Java as DirectByteBuffers: who      *)
(* keeps whose memory alive.                                               *)
(*                                                                         *)
(* A buffer handed to Java views an ArrayBuffer's memory.  What keeps that *)
(* memory is a chain through both heaps: the entry of nativeMappings (see  *)
(* WeakExactHashMap), whose weak key is the buffer and whose value is a    *)
(* JavaScriptObject, the stash, and the twin there.  A buffer the map does *)
(* not find goes to script as a new ArrayBuffer over the same memory that  *)
(* pins the buffer with a global reference.                                *)
(*                                                                         *)
(* A JavaScriptObject made for a buffer is named by the buffer (Vals =     *)
(* Keys).  Calls are atomic: they run under the context's monitor.  The    *)
(* finalization of a JavaScriptObject (see QuickJSBridge) is one step.     *)
(***************************************************************************)
EXTENDS WeakExactHashMap

CONSTANTS
    Arrays,   \* ArrayBuffers; a freed one does not come back
    Own       \* memory a buffer has from Java

ASSUME BufferAssumption == Vals = Keys /\ None \notin Arrays \cup {Own} /\ Own \notin Arrays

VARIABLES
    open,     \* the context is not closed
    made,     \* ArrayBuffers made so far
    script,   \* ArrayBuffers script can reach
    freed,    \* ArrayBuffers whose memory is gone
    pins,     \* per ArrayBuffer over a Java buffer, that buffer
    of,       \* per DirectByteBuffer, the ArrayBuffer whose memory it views, or Own
    java,     \* DirectByteBuffers Java can reach
    stash     \* JavaScriptObjects whose twin is stashed

heapVars == <<open, made, script, freed, pins, of, java, stash>>
bufferVars == <<vars, heapVars>>

BufferInit ==
    /\ Init
    /\ open = TRUE
    /\ made = {} /\ script = {} /\ freed = {} /\ java = {} /\ stash = {}
    /\ pins = [a \in Arrays |-> None]
    /\ of = [k \in Keys |-> None]

\* Script makes an ArrayBuffer or a Uint8Array.
NewArrayBuffer(a) ==
    /\ open /\ a \notin made
    /\ made' = made \cup {a} /\ script' = script \cup {a}
    /\ UNCHANGED <<vars, open, freed, pins, of, java, stash>>

\* Java allocates a DirectByteBuffer (external).
AllocateDirect(k) ==
    /\ open /\ of[k] = None
    /\ of' = [of EXCEPT ![k] = Own] /\ java' = java \cup {k}
    /\ UNCHANGED <<vars, open, made, script, freed, pins, stash>>

\* toObject(JSValue): a new JavaScriptObject and a new DirectByteBuffer every time,
\* mapNative, and the twin into the stash.
PassToJava(a, k) ==
    /\ open /\ a \in script
    /\ of[k] = None
    /\ Put(k, k)
    /\ of' = [of EXCEPT ![k] = a]
    /\ java' = java \cup {k} /\ stash' = stash \cup {k}
    /\ UNCHANGED <<open, made, script, freed, pins>>

\* toObject(jobject) for a direct buffer: unmapNative, then the JavaScriptObject's
\* ArrayBuffer, or a new one over the buffer's memory.
PassToScript(k) ==
    /\ open /\ k \in java
    /\ Get(k)
    /\ LET found == Lookup(MapAfterPurge, k)
       IN IF found # None
          THEN script' = script \cup {of[found]} /\ UNCHANGED <<made, pins>>
          ELSE \E a \in Arrays \ made :
                 /\ made' = made \cup {a} /\ script' = script \cup {a}
                 /\ pins' = [pins EXCEPT ![a] = k]
    /\ UNCHANGED <<open, freed, of, java, stash>>

\* Java writes to a buffer, moves its position, or script writes to its memory.
WriteBuffer(k, h) == k \in java /\ Mutate(k, h) /\ UNCHANGED heapVars

\* A JavaScriptObject no entry holds is collected, finalized, and its twin leaves
\* the stash.
CollectObject(k) ==
    /\ k \in stash
    /\ \A e \in map : e.value # k
    /\ stash' = stash \ {k}
    /\ UNCHANGED <<vars, open, made, script, freed, pins, of, java>>

\* Mutant: ByteBufferOpaque keeps a local reference.
Unpinned(k) == {}

\* Alive arrays that hold a global reference to the buffer.
PinnedBy(k) == {a \in made \ freed : pins[a] = k}

\* A DirectByteBuffer neither Java nor a global reference holds is collected.
CollectBuffer(k) ==
    /\ of[k] # None /\ k \notin java /\ PinnedBy(k) = {}
    /\ Collect(k)
    /\ UNCHANGED heapVars

\* QuickJS frees an ArrayBuffer that neither script nor a stashed twin holds; for one
\* over a Java buffer ByteBufferFree deletes the global reference.
FreeArrayBuffer(a) ==
    /\ a \in made \ (script \cup freed)
    /\ \A k \in stash : of[k] # a
    /\ freed' = freed \cup {a}
    /\ UNCHANGED <<vars, open, made, script, pins, of, java, stash>>

ForgetInScript(a) ==
    /\ a \in script
    /\ script' = script \ {a}
    /\ UNCHANGED <<vars, open, made, freed, pins, of, java, stash>>

ForgetInJava(k) ==
    /\ k \in java
    /\ java' = java \ {k}
    /\ UNCHANGED <<vars, open, made, script, freed, pins, of, stash>>

PurgeNativeMappings == Purge /\ UNCHANGED heapVars

\* close(): the runtime goes with all its memory, then the map is cleared.
Close ==
    /\ open
    /\ open' = FALSE
    /\ freed' = made /\ script' = {} /\ stash' = {}
    /\ Clear
    /\ UNCHANGED <<made, pins, of, java>>

BufferNext ==
    \/ \E a \in Arrays : NewArrayBuffer(a) \/ FreeArrayBuffer(a) \/ ForgetInScript(a)
    \/ \E a \in Arrays, k \in Keys : PassToJava(a, k)
    \/ \E k \in Keys : AllocateDirect(k) \/ PassToScript(k) \/ CollectObject(k) \/ CollectBuffer(k)
                       \/ ForgetInJava(k)
    \/ \E k \in Keys, h \in Hashes : WriteBuffer(k, h)
    \/ PurgeNativeMappings \/ Close

BufferSpec == BufferInit /\ [][BufferNext]_bufferVars

------------------------------------------------------------------------------
(* Correctness.                                                            *)

\* nativeMappings, the stash and ByteBufferOpaque: until close(), memory that script
\* or Java can touch is there, whatever hashes collide or change and whichever ends
\* were dropped first.
MemoryLive ==
    open =>
        /\ \A k \in java : of[k] \notin freed
        /\ \A a \in script :
              /\ a \notin freed
              /\ pins[a] # None => pins[a] \in live /\ of[pins[a]] \notin freed

\* A buffer that came from script and was not written to goes back as the ArrayBuffer
\* it came from, never as a second one over the same memory
\* (testArrayBufferSameFromJava).
SameArrayBuffer ==
    \A a \in made : pins[a] # None => pins[a] \in Mutable \/ of[pins[a]] = Own
============================================================================
