-------------------------- MODULE JavaObjectProofs --------------------------
(***************************************************************************)
(* The Memoize caches, the members that get and set find and the overloads *)
(* that call and construct select, for any classes, targets, requests and  *)
(* threads, on the one condition that the hashes tell apart what they      *)
(* stand for.                                                              *)
(***************************************************************************)
EXTENDS JavaObject, FiniteSetTheorems, WellFoundedInduction, TLAPS

\* A frame works on one request.
FrameOf(f, q, m, c, p) ==
    f = [request |-> q, target |-> q.target, key |-> q.key, args |-> q.args,
         member |-> m, cache |-> c, point |-> p]

Working(f) ==
    /\ f.request \in Requests
    /\ FrameOf(f, f.request, f.member, f.cache, f.point)
    /\ \/ f.cache \in CachesFor(f.request)
       \/ f.cache = "interfaceMethods" /\ f.request.op = "call"
    /\ f.point \in {"probe", "fetch", "fill"}

\* Every thread works on a request of its own; one that is alone is alone.
WorkInv ==
    /\ frame = [t \in Threads |-> frame[t]]
    /\ outcome = [t \in Threads |-> outcome[t]]
    /\ mapKeys = [o \in Targets |-> mapKeys[o]]
    /\ \A t \in Threads : Busy(t) => Working(frame[t])
    /\ \A t \in Threads : Busy(t) /\ alone[t] => \A u \in Threads \ {t} : ~Busy(u)

\* Every entry is the answer to a request that asks its cache.
StoreInv ==
    /\ store = [c \in Caches |-> store[c]]
    /\ \A c \in Caches \ {"interfaceMethods"} : \A h \in DOMAIN store[c] :
         \E q \in Requests : /\ c \in CachesFor(q) /\ h = Hash(c, q)
                             /\ store[c][h] = Process(c, q)

\* A get or a set of an object, and not of a class.
Plain(q) == q.op \in {"get", "set"} /\ ~IsClass(q)

\* How far a lookup without disturbance has come.
Reached(f, s) ==
    /\ f.point = "fetch" => Hash(f.cache, f.request) \in DOMAIN s[f.cache]
    /\ f.cache = "fields" => ~(f.request.op = "get" /\ f.request.target \in Proxies)
    /\ f.cache \in {"getter", "setter", "methods"} => FieldFor(f.request) = None
    /\ f.cache = "methods" => getGetterMethod(f.request.target, f.request.key) = None

ProgressInv ==
    \A t \in Threads : Busy(t) /\ alone[t] /\ Plain(frame[t].request) => Reached(frame[t], store)

\* A get that is still looking has found no entry of a map and no length of an array.
Unanswered(q) ==
    q.op = "get" => q.key \notin mapKeys[q.target] /\ ~(q.target \in Arrays /\ q.key = "length")

EntryInv ==
    \A t \in Threads : Busy(t) /\ alone[t] /\ Plain(frame[t].request) => Unanswered(frame[t].request)

IInv ==
    TypeOK /\ WorkInv /\ StoreInv /\ ProgressInv /\ EntryInv /\ AnswerBelongs /\ MemberFound

------------------------------------------------------------------------------
(* Hashes and answers.                                                     *)

\* Targets with the same members get the same answers from reflection.
LEMMA SameMembers ==
    ASSUME NEW o, NEW p, NEW key
    PROVE  /\ Fields[ClassOf[o]] = Fields[ClassOf[p]] /\ Stands[o] = None /\ Stands[p] = None
                => findField(o, key) = findField(p, key)
           /\ Methods[ClassOf[o]] = Methods[ClassOf[p]]
                => /\ getGetterMethod(o, key) = getGetterMethod(p, key)
                   /\ getSetterMethod(o, key) = getSetterMethod(p, key)
                   /\ Stands[o] = None /\ Stands[p] = None
                        => HasMethodOf(o, key) = HasMethodOf(p, key)
<1> DEFINE inst(f) == f.name = key /\ ~f.static /\ f.public
           getter(m) == m.params = <<>> /\ m.ret \notin Void /\ m.property = key
           setter(m) == Len(m.params) = 1 /\ m.ret \in Void /\ m.property = key
           Field(s) == FirstOf(s, inst)
           Getter(s) == FirstOf(s, getter)
           Setter(s) == FirstOf(s, setter)
           Has(s) == \E m \in Range(s) : Named(m, key)
<1>1. ASSUME NEW x, Stands[x] = None PROVE findField(x, key) = Field(Fields[ClassOf[x]])
  BY <1>1 DEF findField
<1>2. ASSUME NEW x PROVE /\ getGetterMethod(x, key) = Getter(Methods[ClassOf[x]])
                         /\ getSetterMethod(x, key) = Setter(Methods[ClassOf[x]])
  BY DEF getGetterMethod, getSetterMethod
<1>3. ASSUME NEW x, Stands[x] = None PROVE HasMethodOf(x, key) = Has(Methods[ClassOf[x]])
  BY <1>3 DEF HasMethodOf, hasMethod
<1> HIDE DEF Field, Getter, Setter, Has
<1> QED
  BY <1>1, <1>2, <1>3

\* Requests with one hash in a cache have one answer.
LEMMA HashDetermines ==
    ASSUME HashesTellApart, NEW q \in Requests, NEW r \in Requests,
           NEW c \in CachesFor(q), c \in CachesFor(r),
           ~(IsClass(q) /\ c \in {"fields", "methods"}), Hash(c, q) = Hash(c, r)
    PROVE  Process(c, q) = Process(c, r)
<1>1. q.target \in Targets /\ r.target \in Targets
  BY WorldAssumption DEF Request
<1>2. CASE c = "fields"
  <2>1. q.key = r.key
        /\ hashCode(Fields[ClassOf[q.target]]) = hashCode(Fields[ClassOf[r.target]])
    BY <1>2 DEF Hash
  <2>2. /\ Fields[ClassOf[q.target]] = Fields[ClassOf[r.target]]
        /\ Stands[q.target] = None /\ Stands[r.target] = None
    BY <1>1, <1>2, <2>1 DEF HashesTellApart, IsClass
  <2> QED
    BY <1>2, <2>1, <2>2, SameMembers DEF Process
<1>3. CASE c \in {"methods", "getter", "setter"}
  <2>1. q.key = r.key
        /\ hashCode(Methods[ClassOf[q.target]]) = hashCode(Methods[ClassOf[r.target]])
    BY <1>3 DEF Hash
  <2>2. /\ Methods[ClassOf[q.target]] = Methods[ClassOf[r.target]]
        /\ c = "methods" => Stands[q.target] = None /\ Stands[r.target] = None
    BY <1>1, <1>3, <2>1 DEF HashesTellApart, IsClass
  <2> QED
    BY <1>3, <2>1, <2>2, SameMembers DEF Process
<1>4. CASE c = "methodCandidates"
  <2> DEFINE Candidates(s, k) == {m \in Range(s) : Named(m, k)}
  <2>1. /\ q.key = r.key /\ q.args = r.args
        /\ hashCode(getMethods(q.target)) = hashCode(getMethods(r.target))
    BY <1>4 DEF Hash
  <2>2. getMethods(q.target) = getMethods(r.target)
    BY <1>1, <2>1 DEF HashesTellApart
  <2>3. \A x \in {q, r} : Process(c, x) =
          Best(getMethods(x.target), Candidates(getMethods(x.target), x.key), x.args)
    BY <1>4 DEF Process, NamedMethods
  <2> HIDE DEF Candidates
  <2> QED
    BY <2>1, <2>2, <2>3
<1>5. CASE c = "constructorCandidates"
  <2>1. q.target = r.target /\ q.args = r.args
    BY <1>5 DEF Hash
  <2> QED
    BY <1>5, <2>1 DEF Process
<1>6. c \in {"fields", "getter", "methods", "setter", "methodCandidates", "constructorCandidates"}
  <2>1. q.op \in {"get", "set", "call", "construct"}
    BY WorldAssumption DEF Request
  <2> QED
    BY <2>1 DEF CachesFor
<1> QED
  BY <1>2, <1>3, <1>4, <1>5, <1>6

\* What is stored is what belongs there.
LEMMA StoredBelongs == ASSUME HashesTellApart, StoreInv PROVE AnswerBelongs
<1> SUFFICES ASSUME NEW q \in Requests, NEW c \in CachesFor(q),
                    ~(IsClass(q) /\ c \in {"fields", "methods"}),
                    Hash(c, q) \in DOMAIN store[c]
             PROVE  store[c][Hash(c, q)] = Process(c, q)
  BY DEF AnswerBelongs
<1>1. c \in Caches \ {"interfaceMethods"}
  <2>1. q.op \in {"get", "set", "call", "construct"}
    BY WorldAssumption DEF Request
  <2> QED
    BY <2>1 DEF CachesFor, Caches
<1>2. PICK r \in Requests : /\ c \in CachesFor(r) /\ Hash(c, q) = Hash(c, r)
                            /\ store[c][Hash(c, q)] = Process(c, r)
  BY <1>1 DEF StoreInv
<1>3. Process(c, q) = Process(c, r)
  BY <1>2, HashDetermines
<1> QED
  BY <1>2, <1>3

\* A frame asks what its request asks.
LEMMA FrameAsks ==
    ASSUME NEW f, Working(f), f.cache # "interfaceMethods"
    PROVE  /\ f.cache \in CachesFor(f.request) /\ f.cache \in Caches
           /\ Hash(f.cache, f) = Hash(f.cache, f.request)
           /\ Process(f.cache, f) = Process(f.cache, f.request)
<1>1. /\ f.target = f.request.target /\ f.key = f.request.key /\ f.args = f.request.args
      /\ f.cache \in CachesFor(f.request)
  BY DEF Working, FrameOf
<1>2. f.cache \in {"fields", "getter", "methods", "setter", "methodCandidates",
                   "constructorCandidates"}
  <2>1. f.request.op \in {"get", "set", "call", "construct"}
    BY WorldAssumption DEF Working, Request
  <2> QED
    BY <1>1, <2>1 DEF CachesFor
<1>3. Hash(f.cache, f) = Hash(f.cache, f.request)
  BY <1>1, <1>2 DEF Hash
<1>4. Process(f.cache, f) = Process(f.cache, f.request)
  BY <1>1, <1>2 DEF Process
<1> QED
  BY <1>1, <1>2, <1>3, <1>4 DEF Caches

------------------------------------------------------------------------------
(* How a request goes on.                                                  *)

\* What one step of t leaves of the other threads.
LEMMA OthersKeep ==
    ASSUME WorkInv, NEW t \in Threads, NEW x, frame' = [frame EXCEPT ![t] = x]
    PROVE  /\ frame' = [u \in Threads |-> frame'[u]] /\ frame'[t] = x
           /\ \A u \in Threads \ {t} : frame'[u] = frame[u]
<1>1. frame = [u \in Threads |-> frame[u]]
  BY DEF WorkInv
<1> QED
  BY <1>1

\* t asks its next cache, or takes the next step of Memoize.
LEMMA AskKeeps ==
    ASSUME HashesTellApart, IInv, NEW t \in Threads, NEW q \in Requests, NEW m,
           NEW c \in Caches, NEW p \in {"probe", "fetch", "fill"}, NEW g, FrameOf(g, q, m, c, p),
           c \in CachesFor(q) \/ (c = "interfaceMethods" /\ q.op = "call"),
           frame' = [frame EXCEPT ![t] = g],
           alone' \in [Threads -> BOOLEAN], count' \in 0 .. MaxRequests,
           \A u \in Threads \ {t} : Busy(u) => ~alone'[u] /\ ~alone'[t],
           alone'[t] /\ Plain(q) => Reached(g, store') /\ Unanswered(q),
           StoreInv', UNCHANGED <<outcome, mapKeys, coercions>>
    PROVE  IInv'
<1>1. /\ frame' = [u \in Threads |-> frame'[u]] /\ frame'[t] = g
      /\ \A u \in Threads \ {t} : frame'[u] = frame[u]
  BY OthersKeep DEF IInv
<1>2. /\ g.request = q /\ g.member = m /\ g.cache = c /\ g.point = p
      /\ Working(g)
  BY DEF FrameOf, Working
<1>3. \A u \in Threads : frame'[u] # None /\ alone'[u] =>
          \A w \in Threads \ {u} : frame'[w] = None
  <2> SUFFICES ASSUME NEW u \in Threads, frame'[u] # None, alone'[u],
                      NEW w \in Threads \ {u}, frame'[w] # None
               PROVE  FALSE
    OBVIOUS
  <2>1. CASE u = t
    BY <1>1, <2>1 DEF Busy
  <2>2. CASE u # t
    BY <1>1, <2>2 DEF Busy
  <2> QED
    BY <2>1, <2>2
<1>4. WorkInv'
  <2>1. \A u \in Threads : frame'[u] # None => Working(frame'[u])
    BY <1>1, <1>2 DEF IInv, WorkInv, Busy
  <2> QED
    BY <1>1, <1>3, <2>1 DEF IInv, WorkInv, Busy
<1>5. TypeOK'
  <2>1. \A u \in Threads : frame'[u] # None =>
          frame'[u].cache \in Caches /\ frame'[u].point \in {"probe", "fetch", "fill"}
    BY <1>1, <1>2 DEF IInv, TypeOK, Busy
  <2>2. DOMAIN store' = Caches
    BY DEF StoreInv
  <2> QED
    BY <2>1, <2>2 DEF IInv, TypeOK, Busy
<1>6. ProgressInv'
  <2> SUFFICES ASSUME NEW u \in Threads, frame'[u] # None, alone'[u], Plain(frame'[u].request)
               PROVE  Reached(frame'[u], store')
    BY DEF ProgressInv, Busy
  <2>1. u = t
    BY <1>1 DEF Busy
  <2> QED
    BY <1>1, <1>2, <2>1
<1>7. AnswerBelongs'
  BY StoredBelongs, PTL
<1>8. MemberFound'
  BY DEF IInv, MemberFound, Accesses
<1>9. EntryInv'
  <2> SUFFICES ASSUME NEW u \in Threads, frame'[u] # None, alone'[u], Plain(frame'[u].request)
               PROVE  Unanswered(frame[u].request)'
    BY DEF EntryInv, Busy
  <2>1. u = t
    BY <1>1 DEF Busy
  <2>2. frame'[u].request = q /\ Unanswered(q)
    BY <1>1, <1>2, <2>1
  <2> QED
    BY <2>2 DEF Unanswered
<1> QED
  BY <1>4, <1>5, <1>6, <1>7, <1>8, <1>9 DEF IInv

\* A request of t ends with outcome o.
LEMMA FinishKeeps ==
    ASSUME HashesTellApart, IInv, NEW t \in Threads, NEW o,
           frame' = frame \/ frame' = [frame EXCEPT ![t] = None],
           outcome' = [outcome EXCEPT ![t] = o],
           o.alone /\ Plain(o.request) => AccessRight(o),
           mapKeys' = [x \in Targets |-> mapKeys'[x]],
           \A x \in Targets : mapKeys'[x] # {} => x \in Maps,
           alone' \in [Threads -> BOOLEAN], count' \in 0 .. MaxRequests,
           \A u \in Threads \ {t} : Busy(u) => ~alone'[u],
           frame' = frame => frame[t] = None,
           StoreInv', UNCHANGED coercions
    PROVE  IInv'
<1>1. /\ frame' = [u \in Threads |-> frame'[u]] /\ frame'[t] = None
      /\ \A u \in Threads \ {t} : frame'[u] = frame[u]
  BY OthersKeep DEF IInv, WorkInv
<1>2. WorkInv'
  <2>1. outcome' = [u \in Threads |-> outcome'[u]]
    BY DEF IInv, WorkInv
  <2>2. \A u \in Threads : frame'[u] # None => Working(frame'[u]) /\ ~alone'[u]
    BY <1>1 DEF IInv, WorkInv, Busy
  <2> QED
    BY <1>1, <2>1, <2>2 DEF WorkInv, Busy
<1>3. TypeOK'
  <2>1. \A u \in Threads : frame'[u] # None =>
          frame'[u].cache \in Caches /\ frame'[u].point \in {"probe", "fetch", "fill"}
    BY <1>1 DEF IInv, TypeOK, Busy
  <2>2. DOMAIN store' = Caches
    BY DEF StoreInv
  <2> QED
    BY <2>1, <2>2 DEF IInv, TypeOK, Busy
<1>4. ProgressInv' /\ EntryInv'
  BY <1>1 DEF ProgressInv, EntryInv, Busy
<1>5. AnswerBelongs'
  BY StoredBelongs, PTL
<1>6. MemberFound'
  <2> SUFFICES ASSUME NEW u \in Threads, outcome'[u] # None, outcome'[u].alone,
                      Plain(outcome'[u].request)
               PROVE  AccessRight(outcome'[u])
    BY DEF MemberFound, Accesses, Plain
  <2>1. outcome = [w \in Threads |-> outcome[w]]
    BY DEF IInv, WorkInv
  <2>2. CASE u = t
    BY <2>1, <2>2
  <2>3. CASE u # t
    <3>1. outcome'[u] = outcome[u]
      BY <2>1, <2>3
    <3> QED
      BY <3>1 DEF IInv, MemberFound, Accesses, Plain
  <2> QED
    BY <2>2, <2>3
<1> QED
  BY <1>2, <1>3, <1>4, <1>5, <1>6 DEF IInv

\* The parts of a frame.
LEMMA FrameParts ==
    \A f, q, m, c, p : FrameOf(f, q, m, c, p) =>
        /\ f.request = q /\ f.target = q.target /\ f.key = q.key /\ f.args = q.args
        /\ f.member = m /\ f.cache = c /\ f.point = p
  BY DEF FrameOf

\* A frame on its way to the next cache, with a member or as it is, and to the next step
\* of Memoize.
LEMMA FrameMoves ==
    \A f, q, m, c, p, d : FrameOf(f, q, m, c, p) =>
        /\ \A n : FrameOf([f EXCEPT !.member = n, !.cache = d, !.point = "probe"],
                          q, n, d, "probe")
        /\ FrameOf([f EXCEPT !.cache = d, !.point = "probe"], q, m, d, "probe")
        /\ FrameOf([f EXCEPT !.point = d], q, m, c, d)
<1> TAKE f, q, m, c, p, d
<1> SUFFICES ASSUME FrameOf(f, q, m, c, p)
             PROVE  /\ \A n : FrameOf([f EXCEPT !.member = n, !.cache = d, !.point = "probe"],
                                      q, n, d, "probe")
                    /\ FrameOf([f EXCEPT !.cache = d, !.point = "probe"], q, m, d, "probe")
                    /\ FrameOf([f EXCEPT !.point = d], q, m, c, d)
  OBVIOUS
<1> DEFINE Shape(y, z, w) == [request : {q}, target : {q.target}, key : {q.key},
                              args : {q.args}, member : {y}, cache : {z}, point : {w}]
<1>4. f \in Shape(m, c, p)
  BY DEF FrameOf
<1>5. \A g, y, z, w : g \in Shape(y, z, w) => FrameOf(g, q, y, z, w)
  BY DEF FrameOf
<1>6. /\ \A n : [f EXCEPT !.member = n, !.cache = d, !.point = "probe"] \in Shape(n, d, "probe")
      /\ [f EXCEPT !.cache = d, !.point = "probe"] \in Shape(m, d, "probe")
  BY <1>4
<1> HIDE DEF Shape
<1>1. \A n : FrameOf([f EXCEPT !.member = n, !.cache = d, !.point = "probe"], q, n, d, "probe")
  BY <1>5, <1>6
<1>2. FrameOf([f EXCEPT !.cache = d, !.point = "probe"], q, m, d, "probe")
  BY <1>5, <1>6
<1>3. FrameOf([f EXCEPT !.point = d], q, m, c, d)
  BY DEF FrameOf
<1> QED
  BY <1>1, <1>2, <1>3

\* A step of a busy thread that is alone, or in company.
LEMMA Company ==
    ASSUME IInv, NEW t \in Threads, Busy(t)
    PROVE  /\ \A u \in Threads \ {t} : Busy(u) => ~alone[u] /\ ~alone[t]
           /\ Working(frame[t]) /\ alone[t] \in BOOLEAN
           /\ alone[t] => ~Racing(t)
           /\ frame[t].cache \in {"fields", "methods", "getter", "setter", "methodCandidates",
                                  "constructorCandidates", "interfaceMethods"}
  BY DEF IInv, WorkInv, TypeOK, Racing, At, Caches

\* Finish, where a lookup that was not disturbed has the right member.
LEMMA FinishesKeeps ==
    ASSUME HashesTellApart, IInv, NEW t \in Threads, Busy(t), NEW kind, NEW member,
           Finish(t, frame[t], kind, member), StoreInv', UNCHANGED <<coercions, alone, count>>,
           alone[t] /\ Plain(frame[t].request) =>
               AccessRight(Outcome(frame[t].request, kind, member, alone[t]))
    PROVE  IInv'
<1> DEFINE o == Outcome(frame[t].request, kind, member, alone[t])
<1>1. /\ frame' = [frame EXCEPT ![t] = None] /\ outcome' = [outcome EXCEPT ![t] = o]
      /\ mapKeys' = mapKeys
  BY DEF Finish
<1>2. o.request = frame[t].request /\ o.alone = alone[t]
  BY DEF Outcome
<1>3. alone[t] /\ Plain(frame[t].request) => AccessRight(o)
  OBVIOUS
<1> HIDE DEF o
<1>4. o.alone /\ Plain(o.request) => AccessRight(o)
  BY <1>2, <1>3
<1>5. \A u \in Threads \ {t} : Busy(u) => ~alone'[u]
  BY Company
<1>6. /\ mapKeys' = [x \in Targets |-> mapKeys'[x]]
      /\ \A x \in Targets : mapKeys'[x] # {} => x \in Maps
      /\ alone' \in [Threads -> BOOLEAN] /\ count' \in 0 .. MaxRequests
  BY <1>1 DEF IInv, WorkInv, TypeOK
<1>7. frame' = frame => frame[t] = None
  BY <1>1, OthersKeep DEF IInv
<1> QED
  BY <1>1, <1>4, <1>5, <1>6, <1>7, FinishKeeps

\* The next cache is asked, where a lookup that was not disturbed has come so far.
LEMMA AsksKeeps ==
    ASSUME HashesTellApart, IInv, NEW t \in Threads, Busy(t), NEW c \in Caches, NEW m,
           frame' = [frame EXCEPT ![t] = [frame[t] EXCEPT !.member = m, !.cache = c,
                                                          !.point = "probe"]],
           c \in CachesFor(frame[t].request)
             \/ (c = "interfaceMethods" /\ frame[t].request.op = "call"),
           UNCHANGED <<outcome, mapKeys, coercions, alone, count>>, StoreInv',
           alone[t] /\ Plain(frame[t].request) =>
             /\ c \in {"getter", "setter", "methods"} /\ FieldFor(frame[t].request) = None
             /\ c = "methods" =>
                  getGetterMethod(frame[t].request.target, frame[t].request.key) = None
    PROVE  IInv'
<1> DEFINE q == frame[t].request
           g == [frame[t] EXCEPT !.member = m, !.cache = c, !.point = "probe"]
<1>1. Working(frame[t]) /\ \A u \in Threads \ {t} : Busy(u) => ~alone'[u] /\ ~alone'[t]
  BY Company
<1>2. q \in Requests /\ FrameOf(frame[t], q, frame[t].member, frame[t].cache, frame[t].point)
  BY <1>1 DEF Working
<1>3. FrameOf(g, q, m, c, "probe")
  BY <1>2, FrameMoves
<1>4. g.request = q /\ g.cache = c /\ g.point = "probe"
  BY <1>3, FrameParts
<1>5. alone' \in [Threads -> BOOLEAN] /\ count' \in 0 .. MaxRequests
  BY DEF IInv, TypeOK
<1>6. frame' = [frame EXCEPT ![t] = g]
  OBVIOUS
<1> HIDE DEF g
<1>7. alone'[t] /\ Plain(q) => Reached(g, store') /\ Unanswered(q)
  <2>1. alone'[t] /\ Plain(q) => Reached(g, store')
    BY <1>4 DEF Reached
  <2> QED
    BY <2>1 DEF IInv, EntryInv
<1> QED
  BY <1>1, <1>2, <1>3, <1>5, <1>6, <1>7, AskKeeps

\* A cache's answer is used.
LEMMA ContinueKeeps ==
    ASSUME HashesTellApart, IInv, NEW t \in Threads, Busy(t), NEW answer,
           Continue(t, frame[t], answer), StoreInv', UNCHANGED <<coercions, alone, count>>,
           alone[t] /\ Plain(frame[t].request) =>
               answer = Process(frame[t].cache, frame[t].request)
    PROVE  IInv'
<1> DEFINE f == frame[t]
           q == frame[t].request
<1>1. /\ Working(f) /\ alone[t] \in BOOLEAN
      /\ f.cache \in {"fields", "methods", "getter", "setter", "methodCandidates",
                      "constructorCandidates", "interfaceMethods"}
  BY Company
<1>2. /\ q \in Requests /\ q.op \in {"get", "set", "call", "construct"} /\ q.target \in Targets
      /\ f.target = q.target /\ f.key = q.key
      /\ f.cache \in CachesFor(q) \/ (f.cache = "interfaceMethods" /\ q.op = "call")
      /\ FrameOf(f, q, f.member, f.cache, f.point)
  <2>1. /\ q \in Requests /\ FrameOf(f, q, f.member, f.cache, f.point)
        /\ f.cache \in CachesFor(q) \/ (f.cache = "interfaceMethods" /\ q.op = "call")
    BY <1>1 DEF Working
  <2>2. q.op \in {"get", "set", "call", "construct"} /\ q.target \in Targets
    BY <2>1, WorldAssumption DEF Request
  <2>3. f.target = q.target /\ f.key = q.key
    BY <2>1, FrameParts
  <2> QED
    BY <2>1, <2>2, <2>3
<1>3. alone[t] /\ Plain(q) => Reached(f, store) /\ Unanswered(q)
  BY DEF IInv, ProgressInv, EntryInv
<1>4. f.cache = "interfaceMethods" \/ f.cache \in CachesFor(q)
  BY <1>2
<1>5. /\ f.cache = "getter" \/ f.cache = "methods" => q.op = "get"
      /\ f.cache = "setter" => q.op = "set"
      /\ f.cache = "fields" => q.op \in {"get", "set"}
      /\ f.cache \in {"methodCandidates", "interfaceMethods"} => q.op = "call"
      /\ f.cache = "constructorCandidates" => q.op = "construct"
  BY <1>2 DEF CachesFor
<1>6. CASE f.cache \in {"fields", "getter", "setter"} /\ answer # None
  <2>1. Finish(t, f, "member", answer)
    BY <1>6 DEF Continue
  <2>2. ASSUME alone[t], Plain(q) PROVE answer = Accessor(q)
    BY <1>3, <1>5, <1>6, <2>2 DEF Process, Reached, Accessor, FieldFor
  <2>3. alone[t] /\ Plain(q) => AccessRight(Outcome(q, "member", answer, alone[t]))
    BY <1>3, <1>6, <2>2 DEF AccessRight, AccessKind, Unanswered, Outcome
  <2> QED
    BY <2>1, <2>3, FinishesKeeps
<1>7. CASE f.cache = "fields" /\ answer = None
  <2> DEFINE c == IF q.op = "get" THEN "getter" ELSE "setter"
  <2>1. Ask(t, f, c)
    BY <1>7 DEF Continue
  <2>2. /\ frame' = [frame EXCEPT ![t] = [f EXCEPT !.member = f.member, !.cache = c,
                                                   !.point = "probe"]]
        /\ UNCHANGED <<outcome, mapKeys>>
    BY <1>2, <2>1 DEF Ask, FrameOf
  <2>3. c \in Caches /\ c \in CachesFor(q) /\ c \in {"getter", "setter", "methods"} /\ c # "methods"
    BY <1>5, <1>7 DEF Caches, CachesFor
  <2>4. ASSUME alone[t], Plain(q) PROVE FieldFor(q) = None
    BY <1>7, <2>4 DEF Process, FieldFor
  <2> HIDE DEF c
  <2> QED
    BY <2>2, <2>3, <2>4, AsksKeeps
<1>8. CASE f.cache = "getter" /\ answer = None
  <2>1. Ask(t, f, "methods")
    BY <1>8 DEF Continue
  <2>2. /\ frame' = [frame EXCEPT ![t] = [f EXCEPT !.member = f.member, !.cache = "methods",
                                                   !.point = "probe"]]
        /\ UNCHANGED <<outcome, mapKeys>>
    BY <1>2, <2>1 DEF Ask, FrameOf
  <2>3. "methods" \in Caches /\ "methods" \in CachesFor(q)
    BY <1>5, <1>8 DEF Caches, CachesFor
  <2>4. ASSUME alone[t], Plain(q)
        PROVE  FieldFor(q) = None /\ getGetterMethod(q.target, q.key) = None
    BY <1>3, <1>8, <2>4 DEF Process, Reached
  <2> QED
    BY <2>2, <2>3, <2>4, AsksKeeps
<1>9. CASE f.cache = "setter" /\ answer = None
  <2>1. putMap(t, f)
    BY <1>9 DEF Continue
  <2>2. ASSUME alone[t], Plain(q) PROVE Accessor(q) = None
    BY <1>3, <1>5, <1>9, <2>2 DEF Process, Reached, Accessor
  <2>3. CASE f.target \notin Maps
    <3>1. Finish(t, f, "throws", None)
      BY <2>1, <2>3 DEF putMap
    <3>2. alone[t] /\ Plain(q) => AccessRight(Outcome(q, "throws", None, alone[t]))
      BY <1>2, <1>5, <1>9, <2>2, <2>3 DEF AccessRight, AccessKind, Outcome
    <3> QED
      BY <3>1, <3>2, FinishesKeeps
  <2>4. CASE f.target \in Maps
    <3> DEFINE o == Outcome(q, "map", None, alone[t])
    <3>1. /\ mapKeys' = [mapKeys EXCEPT ![f.target] = @ \cup {f.key}]
          /\ frame' = [frame EXCEPT ![t] = None] /\ outcome' = [outcome EXCEPT ![t] = o]
      BY <2>1, <2>4 DEF putMap
    <3>2. o.alone /\ Plain(o.request) => AccessRight(o)
      BY <1>2, <1>5, <1>9, <2>2, <2>4 DEF AccessRight, AccessKind, Outcome
    <3> HIDE DEF o
    <3>3. mapKeys = [x \in Targets |-> mapKeys[x]] /\ \A x \in Targets : mapKeys[x] # {} => x \in Maps
      BY DEF IInv, WorkInv, TypeOK
    <3>4. mapKeys' = [x \in Targets |-> mapKeys'[x]]
          /\ \A x \in Targets : mapKeys'[x] # {} => x \in Maps
      BY <2>4, <3>1, <3>3
    <3>5. /\ alone' \in [Threads -> BOOLEAN] /\ count' \in 0 .. MaxRequests
          /\ \A u \in Threads \ {t} : Busy(u) => ~alone'[u]
      BY Company DEF IInv, TypeOK
    <3>6. frame' = frame => frame[t] = None
      BY <3>1, OthersKeep DEF IInv
    <3> QED
      BY <3>1, <3>2, <3>4, <3>5, <3>6, FinishKeeps
  <2> QED
    BY <2>3, <2>4
<1>10. CASE f.cache = "methods"
  <2> DEFINE kind == IF answer = None THEN "throws" ELSE IF answer THEN "method" ELSE "nothing"
  <2>1. Finish(t, f, kind, None)
    BY <1>10 DEF Continue
  <2>2. ASSUME alone[t], Plain(q)
        PROVE  /\ Accessor(q) = None /\ kind \in {"method", "nothing"}
               /\ kind = "method" <=> HasMethodOf(q.target, q.key)
    <3>1. HasMethodOf(q.target, q.key) \in BOOLEAN
      BY DEF HasMethodOf, hasMethod
    <3>2. answer = HasMethodOf(q.target, q.key) /\ answer # None
      BY <1>10, <2>2, <3>1, WorldAssumption DEF Process
    <3>3. Accessor(q) = None
      BY <1>3, <1>5, <1>10, <2>2 DEF Reached, Accessor
    <3> QED
      BY <3>1, <3>2, <3>3
  <2> HIDE DEF kind
  <2>3. alone[t] /\ Plain(q) => AccessRight(Outcome(q, kind, None, alone[t]))
    BY <1>3, <1>5, <1>10, <2>2 DEF AccessRight, AccessKind, Unanswered, Outcome
  <2> QED
    BY <2>1, <2>3, FinishesKeeps
<1>11. CASE f.cache \in {"methodCandidates", "constructorCandidates", "interfaceMethods"}
  <2>1. ~Plain(q)
    BY <1>5, <1>11 DEF Plain
  <2>2. CASE answer = None /\ f.cache # "interfaceMethods"
    <3>1. Finish(t, f, "throws", None)
      BY <1>11, <2>2 DEF Continue
    <3> QED
      BY <2>1, <3>1, FinishesKeeps
  <2>3. CASE f.cache = "constructorCandidates" /\ answer # None
    <3>1. Finish(t, f, "member", answer)
      BY <2>3 DEF Continue
    <3> QED
      BY <2>1, <3>1, FinishesKeeps
  <2>4. CASE f.cache = "methodCandidates" /\ answer # None
    <3>1. Ask(t, [f EXCEPT !.member = answer], "interfaceMethods")
      BY <2>4 DEF Continue
    <3>2. /\ frame' = [frame EXCEPT ![t] = [f EXCEPT !.member = answer,
                                 !.cache = "interfaceMethods", !.point = "probe"]]
          /\ UNCHANGED <<outcome, mapKeys>>
      BY <1>2, <3>1 DEF Ask, FrameOf
    <3>3. "interfaceMethods" \in Caches
      BY DEF Caches
    <3> QED
      BY <1>5, <2>1, <2>4, <3>2, <3>3, AsksKeeps
  <2>5. CASE f.cache = "interfaceMethods"
    <3>1. \E kind : Finish(t, f, kind, f.member)
      BY <2>5 DEF Continue
    <3> QED
      BY <2>1, <3>1, FinishesKeeps
  <2> QED
    BY <1>11, <2>2, <2>3, <2>4, <2>5
<1> QED
  BY <1>1, <1>6, <1>7, <1>8, <1>9, <1>10, <1>11

------------------------------------------------------------------------------
(* Steps.                                                                  *)

\* Nothing has been asked.
LEMMA InitIInv == ASSUME HashesTellApart, Init PROVE IInv
<1>1. /\ store = [c \in Caches |-> <<>>] /\ frame = [t \in Threads |-> None]
      /\ outcome = [t \in Threads |-> None] /\ mapKeys = [o \in Targets |-> {}]
      /\ coercions = [t \in Threads |-> {}] /\ alone = [t \in Threads |-> TRUE] /\ count = 0
  BY DEF Init
<1>2. \A t \in Threads : ~Busy(t)
  BY <1>1 DEF Busy
<1>3. TypeOK
  BY <1>1, <1>2, WorldAssumption DEF TypeOK
<1>4. StoreInv
  BY <1>1 DEF StoreInv
<1>5. WorkInv /\ ProgressInv /\ EntryInv
  BY <1>1, <1>2 DEF WorkInv, ProgressInv, EntryInv
<1>6. MemberFound
  BY <1>1 DEF MemberFound, Accesses
<1> QED
  BY <1>3, <1>4, <1>5, <1>6, StoredBelongs DEF IInv

\* A request begins.
LEMMA StartKeeps ==
    ASSUME HashesTellApart, IInv, NEW t \in Threads, NEW q \in Requests, Start(t, q)
    PROVE  IInv'
<1>1. /\ ~Busy(t) /\ count < MaxRequests /\ count' = count + 1
      /\ alone' = [u \in Threads |-> IF u = t THEN \A w \in Threads : ~Busy(w)
                                     ELSE alone[u] /\ ~Busy(u)]
      /\ UNCHANGED <<store, coercions>>
  BY DEF Start
<1>2. /\ alone' \in [Threads -> BOOLEAN]
      /\ \A u \in Threads \ {t} : Busy(u) => ~alone'[u] /\ ~alone'[t]
  BY <1>1 DEF IInv, TypeOK, Busy
<1>3. count' \in 0 .. MaxRequests
  BY <1>1, WorldAssumption DEF IInv, TypeOK
<1>4. StoreInv'
  BY <1>1 DEF IInv, StoreInv
<1>5. q.op \in {"get", "set", "call", "construct"}
  BY WorldAssumption DEF Request
<1>6. CASE Immediate(q) # None
  <2> DEFINE o == Outcome(q, Immediate(q), None, alone'[t])
  <2>1. outcome' = [outcome EXCEPT ![t] = o] /\ UNCHANGED <<frame, mapKeys>>
    BY <1>6 DEF Start
  <2>2. o.alone /\ Plain(o.request) => AccessRight(o)
    <3>1. Plain(q) => Immediate(q) = AccessKind(q, q.key \in mapKeys[q.target])
                      /\ Immediate(q) \in {"map", "length"}
      BY <1>6 DEF Plain, Immediate, AccessKind
    <3>2. o.request = q /\ o.kind = Immediate(q) /\ o.entry = (q.key \in mapKeys[q.target])
      BY DEF Outcome
    <3> HIDE DEF o
    <3> QED
      BY <3>1, <3>2 DEF AccessRight
  <2> HIDE DEF o
  <2>3. /\ mapKeys' = [x \in Targets |-> mapKeys'[x]]
        /\ \A x \in Targets : mapKeys'[x] # {} => x \in Maps
        /\ frame' = frame /\ frame[t] = None
    BY <1>1, <2>1 DEF IInv, WorkInv, TypeOK, Busy
  <2> QED
    BY <1>1, <1>2, <1>3, <1>4, <2>1, <2>2, <2>3, FinishKeeps
<1>7. CASE Immediate(q) = None
  <2> DEFINE c == FirstCache(q)
             f == [request |-> q, target |-> q.target, key |-> q.key, args |-> q.args,
                   member |-> None, cache |-> None, point |-> None]
             g == [f EXCEPT !.cache = c, !.point = "probe"]
  <2>1. frame' = [frame EXCEPT ![t] = g] /\ UNCHANGED <<outcome, mapKeys>>
    BY <1>7, WorldAssumption DEF Start, Ask
  <2>2. FrameOf(f, q, None, None, None)
    BY DEF FrameOf
  <2>3. c \in CachesFor(q) /\ c \in Caches
    <3>1. q.op = "construct" => IsClass(q)
      BY <1>7, WorldAssumption DEF Immediate, IsClass
    <3> QED
      BY <1>5, <3>1 DEF FirstCache, CachesFor, Caches
  <2>4. Plain(q) => /\ c = "fields" => ~(q.op = "get" /\ q.target \in Proxies)
                    /\ c \in {"getter", "setter", "methods"} => FieldFor(q) = None /\ c = "getter"
    BY <1>5 DEF FirstCache, FieldFor, Plain
  <2> HIDE DEF c, f
  <2>5. FrameOf(g, q, None, c, "probe")
    BY <2>2, FrameMoves
  <2> HIDE DEF g
  <2>6. g.request = q /\ g.cache = c /\ g.point = "probe"
    BY <2>5, FrameParts
  <2>7. Plain(q) => Reached(g, store') /\ Unanswered(q)
    <3>1. Plain(q) => Reached(g, store')
      BY <2>4, <2>6 DEF Reached
    <3>2. Unanswered(q)
      BY <1>7, WorldAssumption DEF Immediate, Unanswered
    <3> QED
      BY <3>1, <3>2
  <2> QED
    BY <1>1, <1>2, <1>3, <1>4, <2>1, <2>3, <2>5, <2>7, AskKeeps
<1> QED
  BY <1>6, <1>7

\* Memoize looks whether the store has the hash.
LEMMA ProbeKeeps == ASSUME HashesTellApart, IInv, NEW t \in Threads, Probe(t) PROVE IInv'
<1> DEFINE f == frame[t]
           q == frame[t].request
<1>1. PICK p \in {"fetch", "fill"} :
         /\ frame' = [frame EXCEPT ![t].point = p]
         /\ p = "fetch" => Hash(f.cache, f) \in DOMAIN store[f.cache]
  BY DEF Probe
<1>2. Busy(t) /\ UNCHANGED <<store, outcome, mapKeys, coercions, alone, count>>
  BY DEF Probe, At
<1> DEFINE g == [f EXCEPT !.point = p]
<1>3. frame' = [frame EXCEPT ![t] = g]
  BY <1>1
<1>4. /\ Working(f) /\ f.cache \in Caches
      /\ \A u \in Threads \ {t} : Busy(u) => ~alone'[u] /\ ~alone'[t]
  BY <1>2, Company DEF Caches
<1>5. /\ q \in Requests /\ FrameOf(f, q, f.member, f.cache, f.point)
      /\ f.cache \in CachesFor(q) \/ (f.cache = "interfaceMethods" /\ q.op = "call")
  BY <1>4 DEF Working
<1>6. FrameOf(g, q, f.member, f.cache, p)
  BY <1>5, FrameMoves
<1>7. g.request = q /\ g.cache = f.cache /\ g.point = p
  BY <1>6, FrameParts
<1>8. alone' \in [Threads -> BOOLEAN] /\ count' \in 0 .. MaxRequests /\ StoreInv'
  BY <1>2 DEF IInv, TypeOK, StoreInv
<1> HIDE DEF g
<1>9. ASSUME alone'[t], Plain(q) PROVE Reached(g, store')
  <2>1. Reached(f, store)
    BY <1>2, <1>9 DEF IInv, ProgressInv
  <2>2. f.cache # "interfaceMethods"
    BY <1>5, <1>9 DEF Plain, CachesFor
  <2>3. Hash(f.cache, f) = Hash(f.cache, q)
    BY <1>4, <2>2, FrameAsks
  <2> QED
    BY <1>1, <1>2, <1>7, <2>1, <2>3 DEF Reached
<1>10. p \in {"probe", "fetch", "fill"} /\ UNCHANGED <<outcome, mapKeys, coercions>>
  BY <1>2
<1>11. alone'[t] /\ Plain(q) => Reached(g, store') /\ Unanswered(q)
  BY <1>2, <1>9 DEF IInv, EntryInv
<1>12. CASE p = "fetch"
  BY <1>3, <1>4, <1>5, <1>6, <1>8, <1>10, <1>11, <1>12, AskKeeps
<1>13. CASE p = "fill"
  BY <1>3, <1>4, <1>5, <1>6, <1>8, <1>10, <1>11, <1>13, AskKeeps
<1> QED
  BY <1>12, <1>13

\* Memoize returns what it has.
LEMMA FetchKeeps == ASSUME HashesTellApart, IInv, NEW t \in Threads, Fetch(t) PROVE IInv'
<1> DEFINE f == frame[t]
           q == frame[t].request
           h == Hash(f.cache, f)
<1>1. /\ Busy(t) /\ f.point = "fetch" /\ UNCHANGED <<store, coercions, alone, count>>
      /\ \/ h \in DOMAIN store[f.cache] /\ Continue(t, f, store[f.cache][h])
         \/ (h \notin DOMAIN store[f.cache] \/ Racing(t)) /\ Continue(t, f, None)
  BY DEF Fetch, At
<1>2. PICK answer : /\ Continue(t, f, answer)
                    /\ h \in DOMAIN store[f.cache] /\ ~Racing(t) => answer = store[f.cache][h]
  BY <1>1
<1>3. StoreInv'
  BY <1>1 DEF IInv, StoreInv
<1>4. ASSUME alone[t], Plain(q) PROVE answer = Process(f.cache, q)
  <2>1. Working(f) /\ ~Racing(t) /\ q \in Requests
    BY <1>1, <1>4, Company DEF Working
  <2>2. f.cache # "interfaceMethods"
    BY <1>4, <2>1 DEF Plain, Working, CachesFor
  <2>3. h = Hash(f.cache, q) /\ f.cache \in CachesFor(q)
    BY <2>1, <2>2, FrameAsks
  <2>4. Hash(f.cache, q) \in DOMAIN store[f.cache]
    BY <1>1, <1>4 DEF IInv, ProgressInv, Reached
  <2>5. store[f.cache][Hash(f.cache, q)] = Process(f.cache, q)
    BY <1>4, <2>1, <2>3, <2>4 DEF IInv, AnswerBelongs, Plain
  <2> QED
    BY <1>2, <2>1, <2>3, <2>4, <2>5
<1> QED
  BY <1>1, <1>2, <1>3, <1>4, ContinueKeeps

\* Memoize asks reflection and stores the answer.
LEMMA FillKeeps == ASSUME HashesTellApart, IInv, NEW t \in Threads, Fill(t) PROVE IInv'
<1> DEFINE f == frame[t]
           q == frame[t].request
           h == Hash(f.cache, f)
           answer == Process(f.cache, f)
<1>1. /\ Busy(t) /\ Continue(t, f, answer) /\ UNCHANGED <<coercions, alone, count>>
      /\ store' = [store EXCEPT ![f.cache] = put(@, h, answer)] \/ store' = store
  BY DEF Fill, At
<1>2. Working(f) /\ q \in Requests /\ f.cache \in Caches
  BY <1>1, Company DEF Working, Caches
<1>3. f.cache # "interfaceMethods" =>
        h = Hash(f.cache, q) /\ answer = Process(f.cache, q) /\ f.cache \in CachesFor(q)
  BY <1>2, FrameAsks
<1> HIDE DEF h, answer
<1>4. StoreInv'
  <2>1. CASE store' = store
    BY <2>1 DEF IInv, StoreInv
  <2>2. CASE store' = [store EXCEPT ![f.cache] = put(@, h, answer)]
    <3> DEFINE new == put(store[f.cache], h, answer)
    <3>1. /\ DOMAIN new = {h} \cup DOMAIN store[f.cache] /\ new[h] = answer
          /\ \A k \in DOMAIN store[f.cache] : k # h => new[k] = store[f.cache][k]
      BY DEF put
    <3>2. store = [d \in Caches |-> store[d]]
      BY DEF IInv, StoreInv
    <3>3. store' = [store EXCEPT ![f.cache] = new]
      BY <2>2
    <3> HIDE DEF new
    <3>4. /\ store' = [d \in Caches |-> store'[d]] /\ store'[f.cache] = new
          /\ \A d \in Caches \ {f.cache} : store'[d] = store[d]
      BY <1>2, <3>2, <3>3
    <3>5. ASSUME NEW d \in Caches \ {"interfaceMethods"}, NEW k \in DOMAIN store'[d]
          PROVE  \E r \in Requests : /\ d \in CachesFor(r) /\ k = Hash(d, r)
                                     /\ store'[d][k] = Process(d, r)
      <4>1. CASE d # f.cache \/ k # h
        <5>1. k \in DOMAIN store[d] /\ store'[d][k] = store[d][k]
          BY <3>1, <3>4, <4>1
        <5> QED
          BY <5>1 DEF IInv, StoreInv
      <4>2. CASE d = f.cache /\ k = h
        BY <1>2, <1>3, <3>1, <3>4, <4>2
      <4> QED
        BY <4>1, <4>2
    <3> QED
      BY <3>4, <3>5 DEF StoreInv
  <2> QED
    BY <1>1, <2>1, <2>2
<1>5. ASSUME alone[t], Plain(q) PROVE answer = Process(f.cache, q)
  <2>1. f.cache # "interfaceMethods"
    BY <1>2, <1>5 DEF Plain, Working, CachesFor
  <2> QED
    BY <1>3, <2>1
<1> QED
  BY <1>1, <1>4, <1>5, ContinueKeeps

\* A coercion is registered.
LEMMA PutKeeps ==
    ASSUME HashesTellApart, IInv, NEW t \in Threads, NEW m \in Coercible, PutMethodCoercion(t, m)
    PROVE  IInv'
<1>1. /\ ~Busy(t) /\ count < MaxRequests /\ count' = count + 1
      /\ coercions' = [coercions EXCEPT ![t] = @ \cup {m}]
      /\ store' = [store EXCEPT !["interfaceMethods"] = <<>>]
      /\ alone' = [u \in Threads |-> alone[u] /\ ~(u # t /\ Busy(u))]
      /\ UNCHANGED <<frame, outcome, mapKeys>>
  BY DEF PutMethodCoercion
<1>2. \A u \in Threads : Busy(u) => ~alone'[u]
  BY <1>1 DEF IInv, WorkInv
<1>3. StoreInv'
  BY <1>1 DEF IInv, StoreInv, Caches
<1>4. TypeOK'
  <2>1. count' \in 0 .. MaxRequests
    BY <1>1, WorldAssumption DEF IInv, TypeOK
  <2>2. alone' \in [Threads -> BOOLEAN]
    BY <1>1 DEF IInv, TypeOK, Busy
  <2>3. coercions' \in [Threads -> SUBSET Coercible]
    BY <1>1 DEF IInv, TypeOK
  <2>4. DOMAIN store' = Caches
    BY <1>3 DEF StoreInv
  <2> QED
    BY <1>1, <2>1, <2>2, <2>3, <2>4 DEF IInv, TypeOK, Busy
<1>5. WorkInv' /\ ProgressInv' /\ EntryInv'
  BY <1>1, <1>2 DEF IInv, WorkInv, ProgressInv, EntryInv, Busy
<1>6. AnswerBelongs'
  BY <1>3, StoredBelongs, PTL
<1>7. MemberFound'
  BY <1>1 DEF IInv, MemberFound, Accesses
<1> QED
  BY <1>3, <1>4, <1>5, <1>6, <1>7 DEF IInv

\* The inductive invariant of the caches and of the lookups.
THEOREM Inductive == ASSUME HashesTellApart PROVE Spec => []IInv
<1>1. Init => IInv
  BY InitIInv
<1>2. IInv /\ [Next]_vars => IInv'
  <2> SUFFICES ASSUME IInv, [Next]_vars PROVE IInv'
    OBVIOUS
  <2>1. CASE UNCHANGED vars
    BY <2>1 DEF vars, IInv, TypeOK, WorkInv, StoreInv, ProgressInv, EntryInv, Unanswered,
                AnswerBelongs, MemberFound, Busy, Accesses
  <2>2. CASE Next
    BY <2>2, StartKeeps, ProbeKeeps, FetchKeeps, FillKeeps, PutKeeps DEF Next
  <2> QED
    BY <2>1, <2>2
<1> QED
  BY <1>1, <1>2, PTL DEF Spec

\* The state of the caches and of the proxies keeps its kinds: only Maps take new keys.
THEOREM TypeCorrect == ASSUME HashesTellApart PROVE Spec => []TypeOK
<1>1. IInv => TypeOK
  BY DEF IInv
<1> QED
  BY <1>1, Inductive, PTL

\* Memoize: whatever is asked of any targets by any threads, and however they race, an
\* entry found under the hash of a request is the answer to this request.
THEOREM CacheSafety == ASSUME HashesTellApart PROVE Spec => []AnswerBelongs
<1>1. IInv => AnswerBelongs
  BY DEF IInv
<1> QED
  BY <1>1, Inductive, PTL

\* JavaObject.get and set of an object end as reflection and the map's entries tell, in
\* the order of the code, however the caches they ask were filled, unless another thread
\* is at work meanwhile.
THEOREM AccessSafety == ASSUME HashesTellApart PROVE Spec => []MemberFound
<1>1. IInv => MemberFound
  BY DEF IInv
<1> QED
  BY <1>1, Inductive, PTL

------------------------------------------------------------------------------
(* Overloads.                                                              *)

\* Natural numbers have a least one among them.
LEMMA LeastOf ==
    ASSUME NEW T, T \subseteq Nat, T # {}
    PROVE  Min(T) \in T /\ \A y \in T : Min(T) <= y
<1> DEFINE Less == {p \in Nat \X Nat : p[1] < p[2]}
<1>1. IsWellFoundedOn(Less, Nat)
  BY Zenon, NatLessThanWellFounded DEF OpToRel
<1> HIDE DEF Less
<1>2. PICK x \in T : \A y \in T : ~(<<y, x>> \in Less)
  BY <1>1, WFMin
<1>3. ASSUME NEW y \in T PROVE x <= y
  <2>1. ~(y < x)
    BY <1>2 DEF Less
  <2> QED
    BY <2>1
<1> QED
  BY <1>3 DEF Min

\* What an argument earns: less than 4 for a parameter of another class.
LEMMA GainBounds ==
    ASSUME NEW p, NEW a
    PROVE  Gain(p, a) \in 0 .. 7 /\ Gain(a, a) >= 4 /\ (p # a => Gain(p, a) <= 3)
  BY DEF Gain

\* The points are finitely many.
LEMMA PointsFinite ==
    ASSUME NEW m, NEW args, args \in Seq(Range(args))
    PROVE  IsFiniteSet(Earned(m, args)) /\ Cardinality(Earned(m, args)) \in Nat
<1>1. DOMAIN args = 1 .. Len(args) /\ Len(args) \in Nat
  OBVIOUS
<1>2. IsFiniteSet(1 .. Len(args)) /\ IsFiniteSet(1 .. 7)
  <2>1. \A i \in Nat : IsFiniteSet(1 .. i)
    BY FS_Interval
  <2> QED
    BY <1>1, <2>1
<1>3. IsFiniteSet((1 .. Len(args)) \X (1 .. 7))
  BY <1>2, FS_Product
<1>4. Earned(m, args) \in SUBSET ((1 .. Len(args)) \X (1 .. 7))
  BY <1>1 DEF Earned
<1> QED
  BY <1>3, <1>4, FS_Subset, FS_CardinalityType

\* An overload of exactly the arguments' classes has the lowest score, and only those of
\* these classes have it.
LEMMA ExactScoresLowest ==
    ASSUME NEW args, args \in Seq(Range(args)), NEW e, e.params = args,
           NEW n, n.params \in Seq(Range(n.params))
    PROVE  /\ Score(e, args) <= Score(n, args)
           /\ Score(n, args) <= Score(e, args) => n.params = args
<1> DEFINE ce == Cardinality(Earned(e, args))
           cn == Cardinality(Earned(n, args))
           d == Distance(Len(args), Len(n.params))
<1>1. /\ DOMAIN args = 1 .. Len(args) /\ Len(args) \in Nat
      /\ DOMAIN n.params = 1 .. Len(n.params) /\ Len(n.params) \in Nat
  OBVIOUS
<1>2. Earned(n, args) \subseteq Earned(e, args)
  <2> SUFFICES ASSUME NEW p \in Earned(n, args) PROVE p \in Earned(e, args)
    OBVIOUS
  <2>1. /\ p \in (DOMAIN n.params \cap DOMAIN args) \X (1 .. 7)
        /\ p[2] <= Gain(n.params[p[1]], args[p[1]])
    BY DEF Earned
  <2>2. p \in (DOMAIN args) \X (1 .. 7) /\ p[2] \in 1 .. 7
    BY <2>1
  <2>3. Gain(n.params[p[1]], args[p[1]]) <= Gain(args[p[1]], args[p[1]])
    <3>1. CASE n.params[p[1]] = args[p[1]]
      BY <3>1, GainBounds
    <3>2. CASE n.params[p[1]] # args[p[1]]
      BY <3>2, GainBounds
    <3> QED
      BY <3>1, <3>2
  <2>4. p[2] <= Gain(args[p[1]], args[p[1]])
    <3> DEFINE x == Gain(n.params[p[1]], args[p[1]])
               y == Gain(args[p[1]], args[p[1]])
               k == p[2]
    <3>1. x \in 0 .. 7 /\ y \in 0 .. 7 /\ k \in 1 .. 7 /\ k <= x /\ x <= y
      BY <2>1, <2>2, <2>3, GainBounds
    <3> HIDE DEF x, y, k
    <3>2. k <= y
      BY <3>1
    <3> QED
      BY <3>2 DEF k, y
  <2> QED
    BY <2>2, <2>4 DEF Earned
<1>3. ce \in Nat /\ cn \in Nat /\ cn <= ce /\ (cn = ce => Earned(n, args) = Earned(e, args))
  BY <1>2, PointsFinite, FS_Subset
<1>4. d \in Nat /\ (d = 0 => Len(n.params) = Len(args)) /\ Distance(Len(args), Len(args)) = 0
  BY <1>1 DEF Distance
<1>5. Score(e, args) = -ce /\ Score(n, args) = 1000 * d - cn
  BY <1>3, <1>4 DEF Score
<1>6. ASSUME d = 0, cn = ce PROVE n.params = args
  <2>1. DOMAIN n.params = DOMAIN args
    BY <1>1, <1>4, <1>6
  <2>2. ASSUME NEW i \in DOMAIN args PROVE n.params[i] = args[i]
    <3>1. <<i, 4>> \in Earned(e, args)
      BY GainBounds DEF Earned
    <3>2. <<i, 4>> \in Earned(n, args)
      BY <1>3, <1>6, <3>1
    <3>3. 4 <= Gain(n.params[i], args[i])
      BY <3>2 DEF Earned
    <3> QED
      BY <3>3, GainBounds
  <2> QED
    BY <2>1, <2>2
<1> HIDE DEF ce, cn, d
<1>7. Score(e, args) <= Score(n, args)
  BY <1>3, <1>4, <1>5
<1>8. Score(n, args) <= Score(e, args) => d = 0 /\ cn = ce
  BY <1>3, <1>4, <1>5
<1> QED
  BY <1>6, <1>7, <1>8

\* The loop over the members ends with an overload of the arguments' classes, if there
\* is one.
LEMMA BestIsExact ==
    ASSUME NEW args, args \in Seq(Range(args)), NEW members, members \in Seq(Range(members)),
           NEW candidates, candidates \subseteq Range(members),
           \A m \in Range(members) : m.params \in Seq(Range(m.params)),
           NEW e \in candidates, e.params = args
    PROVE  /\ Best(members, candidates, args) \in Range(members)
           /\ Best(members, candidates, args).params = args
<1> DEFINE Lowest(m) == m \in candidates /\ \A n \in candidates : Score(m, args) <= Score(n, args)
           I == {i \in 1 .. Len(members) : Lowest(members[i])}
           b == Best(members, candidates, args)
<1>1. DOMAIN members = 1 .. Len(members)
  OBVIOUS
<1>2. Lowest(e)
  BY ExactScoresLowest
<1>3. PICK j \in 1 .. Len(members) : members[j] = e
  BY <1>1 DEF Range
<1>4. j \in I
  BY <1>2, <1>3
<1>5. b = members[Min(I)]
  <2>1. b = IF SelectInSeq(members, Lowest) = 0 THEN None ELSE members[SelectInSeq(members, Lowest)]
    BY DEF Best, FirstOf
  <2>2. SelectInSeq(members, Lowest) = Min(I)
    BY <1>4 DEF SelectInSeq
  <2>3. Min(I) # 0
    <3>1. I \subseteq Nat /\ I # {}
      BY <1>4
    <3>2. Min(I) \in I
      BY <3>1, LeastOf
    <3> QED
      BY <3>2
  <2> QED
    BY <2>1, <2>2, <2>3
<1>6. Min(I) \in I
  <2>1. I \subseteq Nat /\ I # {}
    BY <1>4
  <2> QED
    BY <2>1, LeastOf
<1>7. Min(I) \in 1 .. Len(members) /\ Lowest(members[Min(I)])
  BY <1>6
<1> HIDE DEF I
<1>8. Lowest(b) /\ b \in Range(members)
  BY <1>1, <1>5, <1>7 DEF Range
<1>9. Score(b, args) <= Score(e, args) /\ b.params \in Seq(Range(b.params))
  BY <1>8
<1> QED
  BY <1>8, <1>9, ExactScoresLowest

\* A call or a construction that reflection has an exact overload for.
Exact(q) ==
    /\ q.op \in {"call", "construct"} /\ (q.op = "construct" => IsClass(q))
    /\ HasExact(q)

\* Reflection answers it with such an overload.
LEMMA ProcessIsExact ==
    ASSUME NEW q \in Requests, Exact(q), NEW c \in CachesFor(q)
    PROVE  Process(c, q) # None /\ Process(c, q).params = q.args
<1>1. q.target \in Targets /\ q.args \in Seq(Range(q.args))
  <2>1. q.target \in Targets /\ q.args \in Seq(UNION {Range(r.args) : r \in Requests})
    BY WorldAssumption DEF Request
  <2> QED
    BY <2>1 DEF Range
<1>2. PICK e \in Overloads(q) : e.params = q.args
  BY DEF Exact, HasExact
<1>3. CASE q.op = "call"
  <2> DEFINE s == getMethods(q.target)
             candidates == NamedMethods(q.target, q.key)
  <2>1. /\ s \in Seq(Range(s)) /\ None \notin Range(s)
        /\ \A m \in Range(s) : m.params \in Seq(Range(m.params))
    BY <1>1, ReflectionAssumption
  <2>2. candidates \subseteq Range(s) /\ e \in candidates
    BY <1>2, <1>3 DEF NamedMethods, Overloads
  <2>3. Process(c, q) = Best(s, candidates, q.args)
    BY <1>3 DEF CachesFor, Process
  <2> HIDE DEF s, candidates
  <2> QED
    BY <1>1, <1>2, <2>1, <2>2, <2>3, BestIsExact
<1>4. CASE q.op = "construct"
  <2> DEFINE s == Constructors[Stands[q.target]]
  <2>1. Stands[q.target] # None
    BY <1>4 DEF Exact, IsClass
  <2>2. /\ s \in Seq(Range(s)) /\ None \notin Range(s)
        /\ \A m \in Range(s) : m.params \in Seq(Range(m.params))
    BY <1>1, <2>1, ReflectionAssumption
  <2>3. e \in Range(s)
    BY <1>2, <1>4 DEF Overloads
  <2>4. Process(c, q) = Best(s, Range(s), q.args)
    BY <1>4, <2>1 DEF CachesFor, Process, IsClass
  <2> HIDE DEF s
  <2> QED
    BY <1>1, <1>2, <2>2, <2>3, <2>4, BestIsExact
<1> QED
  BY <1>3, <1>4 DEF Exact

\* A frame of such a request has the overload once it asks for the interface method, and
\* one that was not disturbed fetches an entry that is there.
Selects(f, isAlone, s) ==
    Exact(f.request) =>
      /\ f.cache = "interfaceMethods" => f.member.params = f.request.args
      /\ isAlone /\ f.point = "fetch" /\ f.cache # "interfaceMethods" =>
           Hash(f.cache, f.request) \in DOMAIN s[f.cache]

SelectInv == \A t \in Threads : Busy(t) => Selects(frame[t], alone[t], store)

\* What ExactOverloadWins says of an outcome.
Won(o) ==
    Exact(o.request) => \/ o.kind \in {"member", "coercion"} /\ o.member.params = o.request.args
                        \/ o.kind = "throws" /\ ~o.alone

OverloadInv == SelectInv /\ \A t \in Threads : outcome[t] # None => Won(outcome[t])

\* A frame of t takes its place.
LEMMA SelectAsk ==
    ASSUME IInv, OverloadInv, NEW t \in Threads, NEW g, frame' = [frame EXCEPT ![t] = g],
           Selects(g, alone'[t], store'), \A u \in Threads \ {t} : Busy(u) => ~alone'[u],
           UNCHANGED outcome
    PROVE  OverloadInv'
<1>1. frame'[t] = g /\ \A u \in Threads \ {t} : frame'[u] = frame[u]
  BY OthersKeep DEF IInv
<1>2. ASSUME NEW u \in Threads, frame'[u] # None PROVE Selects(frame'[u], alone'[u], store')
  <2>1. CASE u = t
    BY <1>1, <2>1
  <2>2. CASE u # t
    <3>1. frame'[u] = frame[u] /\ Busy(u) /\ ~alone'[u]
      BY <1>1, <1>2, <2>2 DEF Busy
    <3>2. Selects(frame[u], alone[u], store)
      BY <3>1 DEF OverloadInv, SelectInv
    <3> QED
      BY <3>1, <3>2 DEF Selects
  <2> QED
    BY <2>1, <2>2
<1> QED
  BY <1>2 DEF OverloadInv, SelectInv, Busy

\* A request of t ends.
LEMMA SelectFinish ==
    ASSUME IInv, OverloadInv, NEW t \in Threads, NEW o, outcome' = [outcome EXCEPT ![t] = o], Won(o),
           frame' = [frame EXCEPT ![t] = None],
           \A u \in Threads \ {t} : Busy(u) => ~alone'[u]
    PROVE  OverloadInv'
<1>1. frame'[t] = None /\ \A u \in Threads \ {t} : frame'[u] = frame[u]
  BY OthersKeep DEF IInv
<1>2. ASSUME NEW u \in Threads, frame'[u] # None PROVE Selects(frame'[u], alone'[u], store')
  <2>1. frame'[u] = frame[u] /\ Busy(u) /\ ~alone'[u]
    BY <1>1, <1>2 DEF Busy
  <2>2. Selects(frame[u], alone[u], store)
    BY <2>1 DEF OverloadInv, SelectInv
  <2> QED
    BY <2>1, <2>2 DEF Selects
<1>3. ASSUME NEW u \in Threads, outcome'[u] # None PROVE Won(outcome'[u])
  <2>1. outcome = [w \in Threads |-> outcome[w]]
    BY DEF IInv, WorkInv
  <2>2. CASE u = t
    BY <2>1, <2>2
  <2>3. CASE u # t
    <3>1. outcome'[u] = outcome[u]
      BY <2>1, <2>3
    <3> QED
      BY <1>3, <3>1 DEF OverloadInv
  <2> QED
    BY <2>2, <2>3
<1> QED
  BY <1>2, <1>3 DEF OverloadInv, SelectInv, Busy

\* How a request goes on or ends, whatever the answer.
LEMMA ContinueShape ==
    ASSUME IInv, NEW t \in Threads, Busy(t), NEW answer, Continue(t, frame[t], answer)
    PROVE  \/ \E kind, member :
                /\ frame' = [frame EXCEPT ![t] = None]
                /\ outcome' = [outcome EXCEPT
                                ![t] = Outcome(frame[t].request, kind, member, alone[t])]
           \/ \E g : /\ frame' = [frame EXCEPT ![t] = g] /\ outcome' = outcome
                     /\ g.request = frame[t].request
<1> DEFINE f == frame[t]
           q == frame[t].request
<1>1. /\ f.cache \in {"fields", "methods", "getter", "setter", "methodCandidates",
                      "constructorCandidates", "interfaceMethods"}
      /\ FrameOf(f, q, f.member, f.cache, f.point)
  BY Company DEF Working
<1>2. ASSUME NEW kind, NEW member, Finish(t, f, kind, member)
      PROVE  /\ frame' = [frame EXCEPT ![t] = None]
             /\ outcome' = [outcome EXCEPT ![t] = Outcome(q, kind, member, alone[t])]
  BY <1>2 DEF Finish
<1>3. ASSUME NEW c, Ask(t, f, c)
      PROVE  \E g : /\ frame' = [frame EXCEPT ![t] = g] /\ outcome' = outcome /\ g.request = q
  <2> DEFINE g == [f EXCEPT !.cache = c, !.point = "probe"]
  <2>1. FrameOf(g, q, f.member, c, "probe")
    BY <1>1, FrameMoves
  <2>2. g.request = q
    BY <2>1, FrameParts
  <2> QED
    BY <1>3, <2>2 DEF Ask
<1>4. ASSUME NEW m, NEW c, Ask(t, [f EXCEPT !.member = m], c)
      PROVE  \E g : /\ frame' = [frame EXCEPT ![t] = g] /\ outcome' = outcome /\ g.request = q
  <2> DEFINE g == [f EXCEPT !.member = m, !.cache = c, !.point = "probe"]
  <2>1. FrameOf(g, q, m, c, "probe")
    BY <1>1, FrameMoves
  <2>2. g.request = q
    BY <2>1, FrameParts
  <2>3. frame' = [frame EXCEPT ![t] = g] /\ outcome' = outcome
    BY <1>1, <1>4 DEF Ask, FrameOf
  <2> QED
    BY <2>2, <2>3
<1>5. ASSUME putMap(t, f)
      PROVE  \E kind : /\ frame' = [frame EXCEPT ![t] = None]
                       /\ outcome' = [outcome EXCEPT ![t] = Outcome(q, kind, None, alone[t])]
  <2>1. CASE f.target \in Maps
    BY <1>5, <2>1 DEF putMap
  <2>2. CASE f.target \notin Maps
    BY <1>2, <1>5, <2>2 DEF putMap
  <2> QED
    BY <2>1, <2>2
<1>6. \/ \E kind, member : Finish(t, f, kind, member)
      \/ \E c : Ask(t, f, c) \/ \E m : Ask(t, [f EXCEPT !.member = m], c)
      \/ putMap(t, f)
  BY <1>1 DEF Continue
<1> QED
  BY <1>2, <1>3, <1>4, <1>5, <1>6

\* A cache's answer to a request with an exact overload is such an overload, or there is
\* none and the thread was disturbed.
LEMMA SelectContinue ==
    ASSUME IInv, OverloadInv, NEW t \in Threads, Busy(t), NEW answer,
           Continue(t, frame[t], answer), UNCHANGED alone,
           Exact(frame[t].request) /\ frame[t].cache # "interfaceMethods" =>
             \/ answer # None /\ answer.params = frame[t].request.args
             \/ answer = None /\ ~alone[t]
    PROVE  OverloadInv'
<1> DEFINE f == frame[t]
           q == frame[t].request
<1>1. /\ Working(f) /\ \A u \in Threads \ {t} : Busy(u) => ~alone'[u]
      /\ FrameOf(f, q, f.member, f.cache, f.point)
      /\ f.cache \in {"fields", "methods", "getter", "setter", "methodCandidates",
                      "constructorCandidates", "interfaceMethods"}
  BY Company DEF Working
<1>2. \A kind, member : LET o == Outcome(q, kind, member, alone[t]) IN
         o.request = q /\ o.kind = kind /\ o.member = member /\ o.alone = alone[t]
  BY DEF Outcome
<1>3. ASSUME NEW kind, NEW member, Finish(t, f, kind, member),
             Exact(q) => \/ kind \in {"member", "coercion"} /\ member.params = q.args
                         \/ kind = "throws" /\ ~alone[t]
      PROVE  OverloadInv'
  <2> DEFINE o == Outcome(q, kind, member, alone[t])
  <2>1. Won(o)
    BY <1>2, <1>3 DEF Won
  <2>2. frame' = [frame EXCEPT ![t] = None] /\ outcome' = [outcome EXCEPT ![t] = o]
    BY <1>3 DEF Finish
  <2> HIDE DEF o
  <2> QED
    BY <1>1, <2>1, <2>2, SelectFinish
<1>4. CASE ~Exact(q)
  <2>1. CASE \E kind, member :
               /\ frame' = [frame EXCEPT ![t] = None]
               /\ outcome' = [outcome EXCEPT ![t] = Outcome(q, kind, member, alone[t])]
    <3>1. PICK kind, member :
               /\ frame' = [frame EXCEPT ![t] = None]
               /\ outcome' = [outcome EXCEPT ![t] = Outcome(q, kind, member, alone[t])]
      BY <2>1
    <3>2. Won(Outcome(q, kind, member, alone[t]))
      BY <1>2, <1>4 DEF Won
    <3> QED
      BY <1>1, <3>1, <3>2, SelectFinish
  <2>2. CASE \E g : frame' = [frame EXCEPT ![t] = g] /\ outcome' = outcome /\ g.request = q
    <3>1. PICK g : frame' = [frame EXCEPT ![t] = g] /\ outcome' = outcome /\ g.request = q
      BY <2>2
    <3>2. Selects(g, alone'[t], store')
      BY <1>4, <3>1 DEF Selects
    <3> QED
      BY <1>1, <3>1, <3>2, SelectAsk
  <2> QED
    BY <2>1, <2>2, ContinueShape
<1>5. CASE Exact(q)
  <2>1. f.cache \in {"methodCandidates", "constructorCandidates", "interfaceMethods"}
    BY <1>1, <1>5 DEF Exact, Working, CachesFor
  <2>2. CASE answer = None /\ f.cache # "interfaceMethods"
    <3>1. Finish(t, f, "throws", None)
      BY <2>1, <2>2 DEF Continue
    <3> QED
      BY <1>3, <1>5, <2>2, <3>1
  <2>3. CASE f.cache = "constructorCandidates" /\ answer # None
    <3>1. Finish(t, f, "member", answer)
      BY <2>3 DEF Continue
    <3> QED
      BY <1>3, <1>5, <2>3, <3>1
  <2>4. CASE f.cache = "methodCandidates" /\ answer # None
    <3> DEFINE g == [f EXCEPT !.member = answer, !.cache = "interfaceMethods", !.point = "probe"]
    <3>1. Ask(t, [f EXCEPT !.member = answer], "interfaceMethods")
      BY <2>4 DEF Continue
    <3>2. frame' = [frame EXCEPT ![t] = g] /\ outcome' = outcome
      BY <1>1, <3>1 DEF Ask, FrameOf
    <3>3. FrameOf(g, q, answer, "interfaceMethods", "probe")
      BY <1>1, FrameMoves
    <3> HIDE DEF g
    <3>4. g.request = q /\ g.member = answer /\ g.cache = "interfaceMethods"
      BY <3>3, FrameParts
    <3>5. Selects(g, alone'[t], store')
      BY <1>5, <2>4, <3>4 DEF Selects
    <3> QED
      BY <1>1, <3>2, <3>5, SelectAsk
  <2>5. CASE f.cache = "interfaceMethods"
    <3>1. \E kind \in {"coercion", "member"} : Finish(t, f, kind, f.member)
      BY <2>5 DEF Continue
    <3>2. f.member.params = q.args
      BY <1>5, <2>5 DEF OverloadInv, SelectInv, Selects
    <3> QED
      BY <1>3, <3>1, <3>2
  <2> QED
    BY <2>1, <2>2, <2>3, <2>4, <2>5
<1> QED
  BY <1>4, <1>5

\* A request begins.
LEMMA SelectStart ==
    ASSUME IInv, OverloadInv, NEW t \in Threads, NEW q \in Requests, Start(t, q)
    PROVE  OverloadInv'
<1>1. /\ ~Busy(t)
      /\ alone' = [u \in Threads |-> IF u = t THEN \A w \in Threads : ~Busy(w)
                                     ELSE alone[u] /\ ~Busy(u)]
  BY DEF Start
<1>2. \A u \in Threads \ {t} : Busy(u) => ~alone'[u]
  BY <1>1
<1>3. CASE Immediate(q) # None
  <2> DEFINE o == Outcome(q, Immediate(q), None, alone'[t])
  <2>1. outcome' = [outcome EXCEPT ![t] = o] /\ frame' = frame
    BY <1>3 DEF Start
  <2>2. ~Exact(q)
    <3>1. ASSUME q.op = "construct", IsClass(q) PROVE ~HasExact(q)
      <4>1. Constructors[Stands[q.target]] = <<>>
        BY <1>3, <3>1 DEF Immediate, IsClass
      <4> QED
        BY <3>1, <4>1 DEF HasExact, Overloads, Range
    <3>2. q.op # "call"
      BY <1>3 DEF Immediate
    <3> QED
      BY <3>1, <3>2 DEF Exact
  <2>3. Won(o)
    BY <2>2 DEF Won, Outcome
  <2>4. frame' = [frame EXCEPT ![t] = None]
    BY <1>1, <2>1 DEF IInv, WorkInv, Busy
  <2> HIDE DEF o
  <2> QED
    BY <1>2, <2>1, <2>3, <2>4, SelectFinish
<1>4. CASE Immediate(q) = None
  <2> DEFINE f == [request |-> q, target |-> q.target, key |-> q.key, args |-> q.args,
                   member |-> None, cache |-> None, point |-> None]
             g == [f EXCEPT !.cache = FirstCache(q), !.point = "probe"]
  <2>1. frame' = [frame EXCEPT ![t] = g] /\ outcome' = outcome
    BY <1>4, WorldAssumption DEF Start, Ask
  <2>2. FrameOf(f, q, None, None, None)
    BY DEF FrameOf
  <2> HIDE DEF f
  <2>3. FrameOf(g, q, None, FirstCache(q), "probe")
    BY <2>2, FrameMoves
  <2> HIDE DEF g
  <2>4. g.cache = FirstCache(q) /\ g.point = "probe"
    BY <2>3, FrameParts
  <2>5. FirstCache(q) # "interfaceMethods"
    <3>1. q.op \in {"get", "set", "call", "construct"}
      BY WorldAssumption DEF Request
    <3> QED
      BY <3>1 DEF FirstCache
  <2>6. Selects(g, alone'[t], store')
    BY <2>4, <2>5 DEF Selects
  <2> QED
    BY <1>2, <2>1, <2>6, SelectAsk
<1> QED
  BY <1>3, <1>4

\* Memoize has seen the entry that it goes on to fetch.
LEMMA SelectProbe == ASSUME IInv, OverloadInv, NEW t \in Threads, Probe(t) PROVE OverloadInv'
<1> DEFINE f == frame[t]
           q == frame[t].request
<1>1. PICK p \in {"fetch", "fill"} :
         /\ frame' = [frame EXCEPT ![t].point = p]
         /\ p = "fetch" => Hash(f.cache, f) \in DOMAIN store[f.cache]
  BY DEF Probe
<1>2. Busy(t) /\ UNCHANGED <<store, outcome, alone>>
  BY DEF Probe, At
<1> DEFINE g == [f EXCEPT !.point = p]
<1>3. frame' = [frame EXCEPT ![t] = g]
  BY <1>1
<1>4. Working(f) /\ \A u \in Threads \ {t} : Busy(u) => ~alone'[u]
  BY <1>2, Company
<1>5. FrameOf(g, q, f.member, f.cache, p)
  BY <1>4, FrameMoves DEF Working
<1> HIDE DEF g
<1>6. g.request = q /\ g.member = f.member /\ g.cache = f.cache /\ g.point = p
  BY <1>5, FrameParts
<1>7. f.cache # "interfaceMethods" => Hash(f.cache, f) = Hash(f.cache, q)
  BY <1>4, FrameAsks
<1>8. Selects(f, alone[t], store)
  BY <1>2 DEF OverloadInv, SelectInv
<1>9. Selects(g, alone'[t], store')
  BY <1>1, <1>2, <1>6, <1>7, <1>8 DEF Selects
<1> QED
  BY <1>2, <1>3, <1>4, <1>9, SelectAsk

\* What Memoize returns is what reflection answers; a race may hide it.
LEMMA SelectFetch == ASSUME IInv, OverloadInv, NEW t \in Threads, Fetch(t) PROVE OverloadInv'
<1> DEFINE f == frame[t]
           q == frame[t].request
           h == Hash(f.cache, f)
<1>1. /\ Busy(t) /\ f.point = "fetch" /\ UNCHANGED <<store, alone>>
      /\ \/ h \in DOMAIN store[f.cache] /\ Continue(t, f, store[f.cache][h])
         \/ (h \notin DOMAIN store[f.cache] \/ Racing(t)) /\ Continue(t, f, None)
  BY DEF Fetch, At
<1>2. PICK answer : /\ Continue(t, f, answer)
                    /\ \/ h \in DOMAIN store[f.cache] /\ answer = store[f.cache][h]
                       \/ (h \notin DOMAIN store[f.cache] \/ Racing(t)) /\ answer = None
  BY <1>1
<1>3. ASSUME Exact(q), f.cache # "interfaceMethods"
      PROVE  \/ answer # None /\ answer.params = q.args
             \/ answer = None /\ ~alone[t]
  <2>1. Working(f) /\ q \in Requests /\ (alone[t] => ~Racing(t))
    BY <1>1, Company DEF Working
  <2>2. f.cache \in CachesFor(q) /\ h = Hash(f.cache, q)
    BY <1>3, <2>1, FrameAsks
  <2>3. alone[t] => h \in DOMAIN store[f.cache]
    BY <1>1, <1>3, <2>2 DEF OverloadInv, SelectInv, Selects
  <2>4. h \in DOMAIN store[f.cache] => store[f.cache][h] = Process(f.cache, q)
    <3>1. f.cache \notin {"fields", "methods"}
      BY <1>3, <2>2 DEF Exact, CachesFor
    <3> QED
      BY <2>1, <2>2, <3>1 DEF IInv, AnswerBelongs
  <2>5. Process(f.cache, q) # None /\ Process(f.cache, q).params = q.args
    BY <1>3, <2>1, <2>2, ProcessIsExact
  <2> QED
    BY <1>2, <2>1, <2>3, <2>4, <2>5
<1> QED
  BY <1>1, <1>2, <1>3, SelectContinue

\* Memoize asks reflection.
LEMMA SelectFill == ASSUME IInv, OverloadInv, NEW t \in Threads, Fill(t) PROVE OverloadInv'
<1> DEFINE f == frame[t]
           q == frame[t].request
           answer == Process(f.cache, f)
<1>1. Busy(t) /\ Continue(t, f, answer) /\ UNCHANGED alone
  BY DEF Fill, At
<1>2. ASSUME Exact(q), f.cache # "interfaceMethods" PROVE answer # None /\ answer.params = q.args
  <2>1. Working(f) /\ q \in Requests
    BY <1>1, Company DEF Working
  <2>2. f.cache \in CachesFor(q) /\ answer = Process(f.cache, q)
    BY <1>2, <2>1, FrameAsks
  <2> QED
    BY <1>2, <2>1, <2>2, ProcessIsExact
<1> HIDE DEF answer
<1> QED
  BY <1>1, <1>2, SelectContinue

\* A coercion is registered.
LEMMA SelectPut ==
    ASSUME IInv, OverloadInv, NEW t \in Threads, NEW m \in Coercible, PutMethodCoercion(t, m)
    PROVE  OverloadInv'
<1>1. /\ ~Busy(t) /\ alone' = [u \in Threads |-> alone[u] /\ ~(u # t /\ Busy(u))]
      /\ UNCHANGED <<frame, outcome>>
  BY DEF PutMethodCoercion
<1>2. \A u \in Threads : Busy(u) => ~alone'[u]
  BY <1>1
<1> QED
  BY <1>1, <1>2 DEF OverloadInv, SelectInv, Selects, Busy

\* JavaMethodObject.callMethod and JavaObject.construct call an overload with exactly
\* the classes of the arguments where there is one, for any classes, overloads and
\* arguments, also from a cache that other threads fill at the same time: a race can make
\* the call fail and no more, and a call that was not disturbed does not fail.
THEOREM OverloadSafety == ASSUME HashesTellApart PROVE Spec => []ExactOverloadWins
<1>1. Init => OverloadInv
  BY DEF Init, OverloadInv, SelectInv, Busy
<1>2. IInv /\ OverloadInv /\ [Next]_vars => OverloadInv'
  <2> SUFFICES ASSUME IInv, OverloadInv, [Next]_vars PROVE OverloadInv'
    OBVIOUS
  <2>1. CASE UNCHANGED vars
    BY <2>1 DEF vars, OverloadInv, SelectInv, Busy
  <2>2. CASE Next
    BY <2>2, SelectStart, SelectProbe, SelectFetch, SelectFill, SelectPut DEF Next
  <2> QED
    BY <2>1, <2>2
<1>3. OverloadInv => ExactOverloadWins
  BY DEF OverloadInv, Won, Exact, ExactOverloadWins
<1> QED
  BY <1>1, <1>2, <1>3, Inductive, PTL DEF Spec
=============================================================================
