----------------------------- MODULE JavaObject -----------------------------
(***************************************************************************)
(* How script reaches the members of Java objects: JavaObject.get, set and *)
(* construct, JavaMethodObject.callMethod, and the static Memoize caches   *)
(* they ask.                                                               *)
(*                                                                         *)
(* A cache is a HashMap from a hash of the question to its answer.  It is  *)
(* shared by all contexts and has no lock: two threads that are in         *)
(* different contexts interleave between containsKey, get and put, and     *)
(* race inside them.  The effect of a race is that a thread does not see   *)
(* an entry, or that an entry is lost.                                     *)
(*                                                                         *)
(* The hash of an array is modelled by the sequence of its elements'       *)
(* hashes and that of several arguments by their tuple: two of them agree  *)
(* here when all the elements' hashes do, and not by a coincidence of bits.*)
(* Method.hashCode and Field.hashCode are made of the names of the class   *)
(* and of the member only.                                                 *)
(***************************************************************************)
EXTENDS Integers, SequencesExt

CONSTANTS
    Threads,       \* threads, each in a context of its own
    Targets,       \* Java objects script has proxies of
    Requests,      \* what script may ask for, a set of Request
    ClassOf,       \* target -> getClass()
    Stands,        \* target -> the class it is, None if it is not a Class
    Maps,          \* targets that are java.util.Maps
    Arrays,        \* targets that are arrays
    Proxies,       \* targets whose class is a dynamic proxy class
    Fields,        \* class -> getDeclaredFields()
    Methods,       \* class -> getMethods()
    DeclaredMethods,   \* class -> getDeclaredMethods()
    Constructors,  \* class -> getConstructors()
    Interfaces,    \* class -> getInterfaces(); None for an interface
    Coercible,     \* interface methods Java registers coercions for
    Assignable,    \* pairs <<a, b>> with a.isAssignableFrom(b)
    Numbers,       \* classes of numbers
    Longs,         \* long and Long
    StringClass,   \* java.lang.String
    Void,          \* void and Void
    MaxRequests,   \* bound on the requests and registrations of a behaviour
    None           \* null

\* The names of the caches, as in JSEngineContext.
Caches == {"fields", "methods", "getter", "setter", "methodCandidates",
           "constructorCandidates", "interfaceMethods"}

Request == [op : {"get", "set", "call", "construct"}, target : Targets, key : STRING,
            args : Seq(UNION {Range(q.args) : q \in Requests})]

ASSUME WorldAssumption ==
    /\ MaxRequests \in Nat
    /\ Maps \subseteq Targets
    /\ Requests \subseteq Request
    /\ None \notin {"map", "length", "throws", "default"} /\ None \notin {TRUE, FALSE}

VARIABLES
    store,      \* cache -> function from the hashes it contains to answers
    frame,      \* thread -> the request it is working on, or None
    outcome,    \* thread -> how its last request ended, or None
    mapKeys,    \* target -> keys with a value, for Maps
    coercions,  \* thread -> methods with a coercion in its context
    alone,      \* thread -> nobody else was at work during its request
    count       \* requests and registrations so far

vars == <<store, frame, outcome, mapKeys, coercions, alone, count>>

Init ==
    /\ store = [c \in Caches |-> <<>>]
    /\ frame = [t \in Threads |-> None]
    /\ outcome = [t \in Threads |-> None]
    /\ mapKeys = [o \in Targets |-> {}]
    /\ coercions = [t \in Threads |-> {}]
    /\ alone = [t \in Threads |-> TRUE]
    /\ count = 0

------------------------------------------------------------------------------
(* What reflection answers: the functions that Memoize is given to process. *)

FirstOf(s, Test(_)) ==
    LET i == SelectInSeq(s, Test) IN IF i = 0 THEN None ELSE s[i]

findField(o, key) ==
    LET inst(f) == f.name = key /\ ~f.static /\ f.public
        stat(f) == f.name = key /\ f.static /\ f.public
        own == FirstOf(Fields[ClassOf[o]], inst)
    IN  IF own = None /\ Stands[o] # None THEN FirstOf(Fields[Stands[o]], stat) ELSE own

getGetterMethod(o, key) ==
    LET getter(m) == m.params = <<>> /\ m.ret \notin Void /\ m.property = key
    IN  FirstOf(Methods[ClassOf[o]], getter)

getSetterMethod(o, key) ==
    LET setter(m) == Len(m.params) = 1 /\ m.ret \in Void /\ m.property = key
    IN  FirstOf(Methods[ClassOf[o]], setter)

Named(m, key) == m.name = key \/ m.alias = key

hasMethod(class, key, requiresStatic) ==
    \E m \in Range(Methods[class]) : (requiresStatic => m.static) /\ Named(m, key)

HasMethodOf(o, key) ==
    \/ hasMethod(ClassOf[o], key, FALSE)
    \/ Stands[o] # None /\ hasMethod(Stands[o], key, TRUE)

\* JavaMethodObject.getMethods
getMethods(o) == Methods[ClassOf[o]] \o (IF Stands[o] = None THEN <<>> ELSE Methods[Stands[o]])

\* Those that callMethod does not pass over.
NamedMethods(o, key) == {m \in Range(getMethods(o)) : Named(m, key)}

\* Reflection answers with arrays of members, and so do getParameterTypes.
ASSUME ReflectionAssumption ==
    \A o \in Targets :
      \A s \in {getMethods(o)} \cup (IF Stands[o] = None THEN {} ELSE {Constructors[Stands[o]]}) :
        /\ s \in Seq(Range(s)) /\ None \notin Range(s)
        /\ \A m \in Range(s) : m.params \in Seq(Range(m.params))

\* Mutant: an identical class counts as assignable only.
GainAssignable(param, arg) ==
    IF param \in Numbers /\ arg \in Numbers THEN 3
    ELSE IF param \in Longs /\ arg = StringClass THEN 2
    ELSE IF arg = None \/ <<param, arg>> \in Assignable THEN 1 ELSE 0

\* What an argument of class arg earns a member for its parameter.
Gain(param, arg) ==
    (IF param = arg THEN 4 ELSE 0) +
    (IF param \in Numbers /\ arg \in Numbers THEN 3
     ELSE IF param \in Longs /\ arg = StringClass THEN 2
     ELSE IF arg = None \/ <<param, arg>> \in Assignable THEN 1 ELSE 0)

Distance(i, j) == IF i > j THEN i - j ELSE j - i

\* The points a member earns, counted as pairs of an argument's place and a number: an
\* argument earns at most 7.
Earned(m, args) ==
    {p \in (DOMAIN m.params \cap DOMAIN args) \X (1 .. 7) :
       p[2] <= Gain(m.params[p[1]], args[p[1]])}

Score(m, args) ==
    1000 * Distance(Len(args), Len(m.params)) - Cardinality(Earned(m, args))

\* The first of the members that is a candidate with the lowest score.
Best(members, candidates, args) ==
    FirstOf(members, LAMBDA m : /\ m \in candidates
                                /\ \A n \in candidates : Score(m, args) <= Score(n, args))

getInterfaceMethod(m) ==
    LET implements(i) == /\ Len(i.params) = Len(m.params) /\ i.name = m.name
                         /\ <<i.ret, m.ret>> \in Assignable
                         /\ \A k \in DOMAIN m.params : <<i.params[k], m.params[k]>> \in Assignable
    IN  IF Interfaces[m.class] = None THEN m
        ELSE FirstOf(FlattenSeq([k \in DOMAIN Interfaces[m.class] |->
                                   DeclaredMethods[Interfaces[m.class][k]]]), implements)

\* The answer that the cache c should give to frame f.
Process(c, f) ==
    CASE c = "fields"  -> findField(f.target, f.key)
      [] c = "methods" -> HasMethodOf(f.target, f.key)
      [] c = "getter"  -> getGetterMethod(f.target, f.key)
      [] c = "setter"  -> getSetterMethod(f.target, f.key)
      [] c = "methodCandidates" ->
            Best(getMethods(f.target), NamedMethods(f.target, f.key), f.args)
      [] c = "constructorCandidates" ->
            Best(Constructors[Stands[f.target]], Range(Constructors[Stands[f.target]]), f.args)
      [] c = "interfaceMethods" -> getInterfaceMethod(f.member)

------------------------------------------------------------------------------
(* Memoize.                                                                 *)

MemberHash(m) == <<m.class, m.name>>

\* Memoize.hashCode(Object...)
hashCode(members) == [i \in DOMAIN members |-> MemberHash(members[i])]

\* Mutant: the arguments' classes left out.
NoArguments(c, f) ==
    CASE c = "fields" -> <<f.key, hashCode(Fields[ClassOf[f.target]])>>
      [] c \in {"methods", "getter", "setter"} -> <<f.key, hashCode(Methods[ClassOf[f.target]])>>
      [] c = "methodCandidates" -> <<f.key, hashCode(getMethods(f.target))>>
      [] c = "constructorCandidates" -> <<f.target, hashCode(Constructors[Stands[f.target]])>>
      [] c = "interfaceMethods" -> MemberHash(f.member)

\* The hash under which cache c keeps the answer to f.
Hash(c, f) ==
    CASE c = "fields" -> <<f.key, hashCode(Fields[ClassOf[f.target]])>>
      [] c \in {"methods", "getter", "setter"} -> <<f.key, hashCode(Methods[ClassOf[f.target]])>>
      [] c = "methodCandidates" -> <<f.key, hashCode(getMethods(f.target)), f.args>>
      [] c = "constructorCandidates" ->
            <<f.target, hashCode(Constructors[Stands[f.target]]), f.args>>
      [] c = "interfaceMethods" -> MemberHash(f.member)

\* HashMap.put
put(map, hash, answer) ==
    [h \in DOMAIN map \cup {hash} |-> IF h = hash THEN answer ELSE map[h]]

Busy(t) == frame[t] # None

At(t, point) == Busy(t) /\ frame[t].point = point

\* Another thread is in HashMap.put of the cache that t is using.
Racing(t) == \E u \in Threads \ {t} : At(u, "fill") /\ frame[u].cache = frame[t].cache

------------------------------------------------------------------------------
(* Requests.                                                                *)

\* t asks cache c next.
Ask(t, f, c) ==
    /\ frame' = [frame EXCEPT ![t] = [f EXCEPT !.cache = c, !.point = "probe"]]
    /\ UNCHANGED <<outcome, mapKeys>>

\* How a request ended; entry tells whether the target was a Map with the key by then.
Outcome(q, kind, member, isAlone) ==
    [request |-> q, kind |-> kind, member |-> member, alone |-> isAlone,
     entry |-> q.key \in mapKeys[q.target]]

\* The request ends, with a member or a kind of result that has none.
Finish(t, f, kind, member) ==
    /\ frame' = [frame EXCEPT ![t] = None]
    /\ outcome' = [outcome EXCEPT ![t] = Outcome(f.request, kind, member, alone[t])]
    /\ UNCHANGED mapKeys

\* Mutant: any target takes a new key.
putMapAny(t, f) ==
    /\ mapKeys' = [mapKeys EXCEPT ![f.target] = @ \cup {f.key}]
    /\ frame' = [frame EXCEPT ![t] = None]
    /\ outcome' = [outcome EXCEPT ![t] = Outcome(f.request, "map", None, alone[t])]

\* putMap and noSet
putMap(t, f) ==
    \/ /\ f.target \in Maps
       /\ mapKeys' = [mapKeys EXCEPT ![f.target] = @ \cup {f.key}]
       /\ frame' = [frame EXCEPT ![t] = None]
       /\ outcome' = [outcome EXCEPT ![t] = Outcome(f.request, "map", None, alone[t])]
    \/ f.target \notin Maps /\ Finish(t, f, "throws", None)

\* Mutant: a get prefers members to the map's entries.
ImmediateMembersFirst(q) ==
    CASE q.op = "get" /\ q.target \in Arrays /\ q.key = "length" -> "length"
      [] q.op = "construct" /\ Stands[q.target] = None -> "throws"
      [] q.op = "construct" /\ Stands[q.target] # None /\ Constructors[Stands[q.target]] = <<>>
            -> "default"
      [] OTHER -> None

\* How a request ends that needs no cache, else None.
Immediate(q) ==
    CASE q.op = "get" /\ q.key \in mapKeys[q.target] -> "map"
      [] q.op = "get" /\ q.key \notin mapKeys[q.target] /\ q.target \in Arrays /\ q.key = "length"
            -> "length"
      [] q.op = "construct" /\ Stands[q.target] = None -> "throws"
      [] q.op = "construct" /\ Stands[q.target] # None /\ Constructors[Stands[q.target]] = <<>>
            -> "default"
      [] OTHER -> None

\* The cache a request asks first.
FirstCache(q) ==
    CASE q.op = "get" -> IF q.target \in Proxies THEN "getter" ELSE "fields"
      [] q.op = "set" -> "fields"
      [] q.op = "call" -> "methodCandidates"
      [] q.op = "construct" -> "constructorCandidates"

\* JavaObject.get, JavaObject.set, JavaMethodObject.callMethod or
\* JavaObject.construct is called, up to its first use of a cache.
Start(t, q) ==
    /\ ~Busy(t)
    /\ count < MaxRequests
    /\ count' = count + 1
    /\ alone' = [u \in Threads |-> IF u = t THEN \A w \in Threads : ~Busy(w)
                                   ELSE alone[u] /\ ~Busy(u)]
    /\ \/ /\ Immediate(q) # None
          /\ outcome' = [outcome EXCEPT ![t] = Outcome(q, Immediate(q), None, alone'[t])]
          /\ UNCHANGED <<frame, mapKeys>>
       \/ /\ Immediate(q) = None
          /\ Ask(t, [request |-> q, target |-> q.target, key |-> q.key, args |-> q.args,
                     member |-> None, cache |-> None, point |-> None], FirstCache(q))
    /\ UNCHANGED <<store, coercions>>

\* What is done with a cache's answer.  A null Boolean cannot be unboxed, and a
\* null constructor cannot be called.
Continue(t, f, answer) ==
    CASE f.cache \in {"fields", "getter", "setter"} /\ answer # None ->
            Finish(t, f, "member", answer)
      [] f.cache = "fields" /\ answer = None ->
            Ask(t, f, IF f.request.op = "get" THEN "getter" ELSE "setter")
      [] f.cache = "getter" /\ answer = None -> Ask(t, f, "methods")
      [] f.cache = "setter" /\ answer = None -> putMap(t, f)
      [] f.cache = "methods" ->
            Finish(t, f, IF answer = None THEN "throws"
                         ELSE IF answer THEN "method" ELSE "nothing", None)
      [] f.cache \in {"methodCandidates", "constructorCandidates"} /\ answer = None ->
            Finish(t, f, "throws", None)
      [] f.cache = "constructorCandidates" /\ answer # None -> Finish(t, f, "member", answer)
      [] f.cache = "methodCandidates" /\ answer # None ->
            Ask(t, [f EXCEPT !.member = answer], "interfaceMethods")
      [] f.cache = "interfaceMethods" ->
            Finish(t, f, IF answer \in coercions[t] THEN "coercion" ELSE "member", f.member)

\* memoize: store.containsKey(hash)
Probe(t) ==
    /\ At(t, "probe")
    /\ \/ /\ Hash(frame[t].cache, frame[t]) \in DOMAIN store[frame[t].cache]
          /\ frame' = [frame EXCEPT ![t].point = "fetch"]
       \/ /\ \/ Hash(frame[t].cache, frame[t]) \notin DOMAIN store[frame[t].cache]
             \/ Racing(t)
          /\ frame' = [frame EXCEPT ![t].point = "fill"]
    /\ UNCHANGED <<store, outcome, mapKeys, coercions, alone, count>>

\* memoize: return store.get(hash), null if the entry is gone or not seen.
Fetch(t) ==
    LET c == frame[t].cache
        h == Hash(c, frame[t])
    IN  /\ At(t, "fetch")
        /\ \/ h \in DOMAIN store[c] /\ Continue(t, frame[t], store[c][h])
           \/ (h \notin DOMAIN store[c] \/ Racing(t)) /\ Continue(t, frame[t], None)
        /\ UNCHANGED <<store, coercions, alone, count>>

\* memoize: func.process() and store.put(hash, ret)
Fill(t) ==
    LET c == frame[t].cache
        answer == Process(c, frame[t])
    IN  /\ At(t, "fill")
        /\ \/ store' = [store EXCEPT ![c] = put(@, Hash(c, frame[t]), answer)]
           \/ Racing(t) /\ UNCHANGED store
        /\ Continue(t, frame[t], answer)
        /\ UNCHANGED <<coercions, alone, count>>

\* putJavaScriptToJavaMethodCoercion, which also clears interfaceMethods.
PutMethodCoercion(t, m) ==
    /\ ~Busy(t)
    /\ count < MaxRequests
    /\ count' = count + 1
    /\ coercions' = [coercions EXCEPT ![t] = @ \cup {m}]
    /\ store' = [store EXCEPT !["interfaceMethods"] = <<>>]
    /\ alone' = [u \in Threads |-> alone[u] /\ ~(u # t /\ Busy(u))]
    /\ UNCHANGED <<frame, outcome, mapKeys>>

Next == \E t \in Threads :
    \/ \E q \in Requests : Start(t, q)
    \/ Probe(t) \/ Fetch(t) \/ Fill(t)
    \/ \E m \in Coercible : PutMethodCoercion(t, m)

Spec == Init /\ [][Next]_vars
------------------------------------------------------------------------------
(* Correctness.                                                            *)

\* The parts of the state keep their kinds; only Maps take new keys.
TypeOK ==
    /\ DOMAIN store = Caches
    /\ \A t \in Threads : Busy(t) =>
         frame[t].cache \in Caches /\ frame[t].point \in {"probe", "fetch", "fill"}
    /\ \A o \in Targets : mapKeys[o] # {} => o \in Maps
    /\ coercions \in [Threads -> SUBSET Coercible]
    /\ alone \in [Threads -> BOOLEAN]
    /\ count \in 0 .. MaxRequests

IsClass(q) == Stands[q.target] # None

Overloads(q) ==
    IF q.op = "call" THEN NamedMethods(q.target, q.key)
    ELSE Range(Constructors[Stands[q.target]])

\* The caches that a request may ask, apart from interfaceMethods.
CachesFor(q) ==
    CASE q.op = "get" -> {"fields", "getter", "methods"}
      [] q.op = "set" -> {"fields", "setter"}
      [] q.op = "call" -> {"methodCandidates"}
      [] q.op = "construct" -> IF IsClass(q) THEN {"constructorCandidates"} ELSE {}

\* What the hashes rely on: classes whose arrays of members hash alike have the same
\* members, and java.lang.Class hashes like no other class.  It fails for two classes
\* of one name, and where the bits of two hashes happen to agree.
HashesTellApart ==
    \A o, p \in Targets :
      /\ hashCode(Fields[ClassOf[o]]) = hashCode(Fields[ClassOf[p]]) =>
           Fields[ClassOf[o]] = Fields[ClassOf[p]] /\ (Stands[o] = None <=> Stands[p] = None)
      /\ hashCode(Methods[ClassOf[o]]) = hashCode(Methods[ClassOf[p]]) =>
           Methods[ClassOf[o]] = Methods[ClassOf[p]] /\ (Stands[o] = None <=> Stands[p] = None)
      /\ hashCode(getMethods(o)) = hashCode(getMethods(p)) => getMethods(o) = getMethods(p)

\* An answer that Memoize holds under the hash of a request is the one that
\* reflection gives to this request, whichever request, target, context and race
\* put it there.  Class objects are left out for fields and methods: see StaticsFound.
AnswerBelongs ==
    \A q \in Requests : \A c \in CachesFor(q) :
      ~(IsClass(q) /\ c \in {"fields", "methods"}) /\ Hash(c, q) \in DOMAIN store[c]
        => store[c][Hash(c, q)] = Process(c, q)

\* The field that a get or a set looks for; those of proxies are not read.
FieldFor(q) ==
    IF q.op = "get" /\ q.target \in Proxies THEN None ELSE findField(q.target, q.key)

\* The field, getter or setter that reflection selects for a get or a set.
Accessor(q) ==
    IF FieldFor(q) # None THEN FieldFor(q)
    ELSE IF q.op = "get" THEN getGetterMethod(q.target, q.key)
    ELSE getSetterMethod(q.target, q.key)

\* How a get or a set ends: a get looks at the map's entries first, a set at last.
AccessKind(q, entry) ==
    IF q.op = "get" /\ entry THEN "map"
    ELSE IF q.op = "get" /\ q.target \in Arrays /\ q.key = "length" THEN "length"
    ELSE IF Accessor(q) # None THEN "member"
    ELSE IF q.op = "set" THEN IF q.target \in Maps THEN "map" ELSE "throws"
    ELSE IF HasMethodOf(q.target, q.key) THEN "method" ELSE "nothing"

AccessRight(o) ==
    /\ o.kind = AccessKind(o.request, o.entry)
    /\ o.kind = "member" => o.member = Accessor(o.request)

Accesses(t) == outcome[t] # None /\ outcome[t].alone /\ outcome[t].request.op \in {"get", "set"}

\* JavaObject.get and set of an object, when no other thread was at work at the same
\* time, end as reflection and the map's entries tell, whatever was asked before, of
\* other objects and in other contexts.  A get looks for an entry of the map, the length
\* of an array, a field, a getter and a method, in this order; a set for a field, a
\* setter and a map to put the entry into.
MemberFound ==
    \A t \in Threads : Accesses(t) /\ ~IsClass(outcome[t].request) => AccessRight(outcome[t])

\* The same for Class objects, whose static members testFields reads and writes
\* (JSEngineTests.testFields: "testClass.staticFoo = 4", assertEquals(FieldTest.staticFoo, 4)).
StaticsFound ==
    \A t \in Threads : Accesses(t) /\ IsClass(outcome[t].request) => AccessRight(outcome[t])

HasExact(q) == \E m \in Overloads(q) : m.params = q.args

\* callMethod and construct: where there is an overload with exactly the classes of
\* the arguments, it is the one called, also in a race, which can at worst make
\* the call fail; a call that was alone does not fail.
ExactOverloadWins ==
    \A t \in Threads : LET o == outcome[t] IN
      \/ o = None
      \/ o.request.op \notin {"call", "construct"}
      \/ o.request.op = "construct" /\ ~IsClass(o.request)
      \/ ~HasExact(o.request)
      \/ o.kind \in {"member", "coercion"} /\ o.member.params = o.request.args
      \/ o.kind = "throws" /\ ~o.alone
=============================================================================
