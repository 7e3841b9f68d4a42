--------------------------- MODULE CoercionsProofs ---------------------------
(***************************************************************************)
(* The searches of the coercion tables for any classes, any inheritance    *)
(* between them and any registrations; and what becomes of the numbers     *)
(* that go through them and through either engine, for any widths of the   *)
(* integers and any rounding that keeps what RoundingAssumption says.      *)
(***************************************************************************)
EXTENDS Coercions, TLAPS

\* The keys of the LinkedHashMaps.
Entries == Numeric \cup Classes \cup {"Enum"}

\* The tables, and the registration under way.
TablesInv ==
    /\ tables \in [Directions -> Seq(Entries)]
    /\ putting # None => putting \in Directions \X Classes

\* A conversion is searching, or has just ended; its loop has begun with the first
\* classes of the table as it is now, and only classes of the application follow.
SearchInv ==
    Searching =>
        /\ outcome = None
        /\ search = [dir |-> search.dir, class |-> search.class, value |-> search.value,
                     given |-> search.given, at |-> search.at, i |-> search.i,
                     size |-> search.size, raced |-> search.raced]
        /\ search.dir \in Directions /\ search.at \in {"get", "specific", "general"}
        /\ search.raced \in BOOLEAN
        /\ search.at # "get" =>
              /\ search.i \in Nat \ {0} /\ search.size \in 0 .. Len(tables[search.dir])
              /\ \A j \in search.size + 1 .. Len(tables[search.dir]) :
                    tables[search.dir][j] \in Classes

\* What an undisturbed search s of the table t has seen so far.
Seen(s, t) ==
    s.at # "get" =>
        /\ s.size = Len(t) /\ ~Contains(t, s.class)
        /\ s.at = "specific" =>
              /\ s.dir = "toJava"
              /\ \A j \in 1 .. Len(t) : j < s.i => ~Extends(s.class, t[j])
        /\ s.at = "general" =>
              /\ s.dir = "toJava" => \A j \in 1 .. Len(t) : ~Extends(s.class, t[j])
              /\ \A j \in 1 .. Len(t) : j < s.i => ~Extends(t[j], s.class)

SeenInv == Searching /\ ~search.raced => putting = None /\ Seen(search, tables[search.dir])

IInv == TablesInv /\ SearchInv /\ SeenInv

------------------------------------------------------------------------------
(* Sequences.                                                              *)

\* The first entry a test finds, as SelectInSeq gives it.
LEMMA FirstFound ==
    ASSUME NEW t \in Seq(Entries), NEW c, NEW k \in 1 .. Len(t), Extends(t[k], c),
           \A j \in 1 .. Len(t) : j < k => ~Extends(t[j], c)
    PROVE  SelectInSeq(t, LAMBDA e : Extends(e, c)) = k
<1> DEFINE I == {j \in 1 .. Len(t) : Extends(t[j], c)}
<1>1. k \in I /\ \A j \in I : k <= j
  OBVIOUS
<1>2. Min(I) = k
  <2>1. Min(I) \in I /\ \A j \in I : Min(I) <= j
    BY <1>1 DEF Min
  <2>2. Min(I) \in Nat /\ k \in Nat
    BY <2>1
  <2>3. k <= Min(I) /\ Min(I) <= k
    BY <1>1, <2>1
  <2> QED
    BY <2>2, <2>3
<1> QED
  BY <1>1, <1>2 DEF SelectInSeq

\* A table that is longer than n begins with its first n entries and the next.
LEMMA GrownPrefix ==
    ASSUME NEW t \in Seq(Entries), NEW n \in Nat, n < Len(t)
    PROVE  IsPrefix(Append(SubSeq(t, 1, n), t[n + 1]), t)
<1> DEFINE s == Append(SubSeq(t, 1, n), t[n + 1])
<1>1. SubSeq(t, 1, n) \in Seq(Entries) /\ Len(SubSeq(t, 1, n)) = n
      /\ \A j \in 1 .. n : SubSeq(t, 1, n)[j] = t[j]
  OBVIOUS
<1>2. t[n + 1] \in Entries
  OBVIOUS
<1>3. s \in Seq(Entries) /\ Len(s) = n + 1 /\ \A j \in 1 .. n + 1 : s[j] = t[j]
  BY <1>1, <1>2
<1> HIDE DEF s
<1>4. SubSeq(s, 1, n + 1) = SubSeq(t, 1, n + 1)
  BY <1>3
<1> QED
  BY <1>3, <1>4 DEF IsPrefix, s

------------------------------------------------------------------------------
(* How a search ends.                                                      *)

\* What Expected says, in terms of the entries of the table.
LEMMA ExpectedOf ==
    ASSUME TablesInv, NEW dir \in Directions, NEW c
    PROVE  LET t == tables[dir]
           IN /\ Contains(t, c) => Expected(dir, c) = c
              /\ ~Contains(t, c) /\ dir = "toJava" /\ (\E j \in 1 .. Len(t) : Extends(c, t[j]))
                   => Expected(dir, c) = "AssertionError"
              /\ ~Contains(t, c) /\ (dir = "toJava" => \A j \in 1 .. Len(t) : ~Extends(c, t[j])) =>
                   /\ \A k \in 1 .. Len(t) :
                        Extends(t[k], c) /\ (\A j \in 1 .. Len(t) : j < k => ~Extends(t[j], c))
                          => Expected(dir, c) = t[k]
                   /\ (\A j \in 1 .. Len(t) : ~Extends(t[j], c)) => Expected(dir, c) = None
<1> DEFINE t == tables[dir]
           i == SelectInSeq(t, LAMBDA e : Extends(e, c))
<1>1. t \in Seq(Entries)
  BY DEF TablesInv
<1>2. Expected(dir, c) =
        CASE Contains(t, c) -> c
          [] ~Contains(t, c) /\ dir = "toJava" /\ (\E e \in Range(t) : Extends(c, e)) ->
                "AssertionError"
          [] OTHER -> IF i = 0 THEN None ELSE t[i]
  BY DEF Expected
<1>3. (\E e \in Range(t) : Extends(c, e)) <=> \E j \in 1 .. Len(t) : Extends(c, t[j])
  BY <1>1 DEF Range
<1>4. \A k \in 1 .. Len(t) :
        Extends(t[k], c) /\ (\A j \in 1 .. Len(t) : j < k => ~Extends(t[j], c)) => i = k
  BY <1>1, FirstFound
<1>5. (\A j \in 1 .. Len(t) : ~Extends(t[j], c)) => i = 0
  <2> SUFFICES ASSUME \A j \in 1 .. Len(t) : ~Extends(t[j], c) PROVE i = 0
    OBVIOUS
  <2> QED
    BY <1>1 DEF SelectInSeq
<1> HIDE DEF t, i
<1>6. Contains(t, c) => Expected(dir, c) = c
  BY <1>2
<1>7. ~Contains(t, c) /\ dir = "toJava" /\ (\E j \in 1 .. Len(t) : Extends(c, t[j]))
        => Expected(dir, c) = "AssertionError"
  BY <1>2, <1>3
<1>8. ASSUME ~Contains(t, c), dir = "toJava" => \A j \in 1 .. Len(t) : ~Extends(c, t[j])
      PROVE  Expected(dir, c) = IF i = 0 THEN None ELSE t[i]
  BY <1>2, <1>3, <1>8
<1>9. Len(t) \in Nat
  BY <1>1
<1>10. ASSUME ~Contains(t, c), dir = "toJava" => \A j \in 1 .. Len(t) : ~Extends(c, t[j]),
              NEW k \in 1 .. Len(t), Extends(t[k], c),
              \A j \in 1 .. Len(t) : j < k => ~Extends(t[j], c)
       PROVE  Expected(dir, c) = t[k]
  <2>1. i = k /\ k # 0
    BY <1>4, <1>9, <1>10
  <2> QED
    BY <1>8, <1>10, <2>1
<1> QED
  BY <1>5, <1>6, <1>7, <1>8, <1>10 DEF t

------------------------------------------------------------------------------
(* Steps.                                                                  *)

\* A new context, with the tables its constructor fills.
LEMMA InitIInv == Init => IInv
<1> SUFFICES ASSUME Init PROVE IInv
  OBVIOUS
<1>1. ~Searching /\ putting = None
  BY DEF Init, Searching
<1>2. <<"Enum", "Byte", "Short", "Integer", "Long", "Float", "Double">> \in Seq(Entries)
  BY DEF Entries, Numeric, Integral, Floating
<1>3. <<"Byte", "Short">> \in Seq(Entries) /\ <<"Long">> \in Seq(Entries)
      /\ <<"Float", "Enum">> \in Seq(Entries) /\ <<>> \in Seq(Entries)
  BY DEF Entries, Numeric, Integral, Floating
<1> DEFINE long == IF engine = "duktape" THEN <<"Long">> ELSE <<>>
           toJava == <<"Enum", "Byte", "Short", "Integer", "Long", "Float", "Double">>
           toJS == <<"Byte", "Short">> \o long \o <<"Float", "Enum">>
<1>4. toJS \in Seq(Entries)
  <2>1. long \in Seq(Entries)
    BY <1>3
  <2> HIDE DEF long
  <2> QED
    BY <1>3, <2>1
<1>5. tables \in [Directions -> Seq(Entries)]
  <2>1. tables = [toJava |-> toJava, toJS |-> toJS]
    BY DEF Init
  <2> HIDE DEF toJava, toJS
  <2>2. tables = [d \in Directions |-> IF d = "toJava" THEN toJava ELSE toJS]
    BY <2>1 DEF Directions
  <2>3. toJava \in Seq(Entries)
    BY <1>2 DEF toJava
  <2> QED
    BY <1>4, <2>2, <2>3
<1> QED
  BY <1>1, <1>5 DEF IInv, TablesInv, SearchInv, SeenInv

\* A search that is over leaves nothing to keep.
LEMMA FinishKeeps ==
    ASSUME IInv, NEW s, NEW by, NEW value, Finish(s, by, value), UNCHANGED <<tables, putting>>
    PROVE  IInv'
<1>1. ~Searching'
  BY DEF Finish, Searching
<1> QED
  BY <1>1 DEF IInv, TablesInv, SearchInv, SeenInv

\* The early returns of coerceJavaScriptToJava, or a search from its start.
LEMMA BeginKeeps ==
    ASSUME IInv, NEW dir \in Directions, NEW c, NEW o, NEW given, Begin(dir, c, o, given),
           UNCHANGED <<tables, putting>>
    PROVE  IInv'
<1> DEFINE s == [dir |-> dir, class |-> c, value |-> o, given |-> given,
                 at |-> "get", i |-> 1, size |-> 0, raced |-> putting # None]
<1>1. (\E by, value : Finish(s, by, value)) \/ (search' = s /\ outcome' = None)
  BY DEF Begin
<1>2. CASE \E by, value : Finish(s, by, value)
  BY <1>2, FinishKeeps
<1>3. CASE search' = s /\ outcome' = None
  <2>1. TablesInv'
    BY DEF IInv, TablesInv
  <2>2. SearchInv'
    BY <1>3 DEF SearchInv, Searching
  <2>3. SeenInv'
    BY <1>3 DEF SeenInv, Seen, Searching
  <2> QED
    BY <2>1, <2>2, <2>3 DEF IInv
<1> QED
  BY <1>1, <1>2, <1>3

\* A registration begins: the search under way is disturbed from now on.
LEMMA PutBeginKeeps ==
    ASSUME IInv, NEW dir \in Directions, NEW c \in Classes, PutBegin(dir, c) PROVE IInv'
<1>1. TablesInv'
  BY DEF PutBegin, IInv, TablesInv
<1>2. CASE ~Searching
  BY <1>1, <1>2 DEF PutBegin, IInv, SearchInv, SeenInv, Searching
<1>3. CASE Searching
  <2>1. search' = [search EXCEPT !.raced = TRUE] /\ UNCHANGED <<tables, outcome>>
    BY <1>3 DEF PutBegin
  <2>2. search' = [dir |-> search.dir, class |-> search.class, value |-> search.value,
                   given |-> search.given, at |-> search.at, i |-> search.i,
                   size |-> search.size, raced |-> TRUE]
    BY <1>3, <2>1 DEF IInv, SearchInv
  <2>3. SearchInv'
    BY <1>3, <2>1, <2>2 DEF IInv, SearchInv, Searching
  <2>4. SeenInv'
    BY <2>2 DEF SeenInv
  <2> QED
    BY <1>1, <2>3, <2>4 DEF IInv
<1> QED
  BY <1>2, <1>3

\* A registration ends: a class new to the table follows what a loop began with.
LEMMA PutEndKeeps == ASSUME IInv, PutEnd PROVE IInv'
<1> DEFINE dir == putting[1]
           c == putting[2]
<1>1. dir \in Directions /\ c \in Classes
  BY DEF PutEnd, IInv, TablesInv
<1>2. tables[dir] \in Seq(Entries) /\ c \in Entries
  BY <1>1 DEF IInv, TablesInv, Entries
<1>3. tables' = tables \/ tables' = [tables EXCEPT ![dir] = Append(tables[dir], c)]
  BY DEF PutEnd
<1>4. putting # None /\ putting' = None /\ UNCHANGED <<search, outcome>>
  BY DEF PutEnd
<1>5. tables \in [Directions -> Seq(Entries)]
  BY DEF IInv, TablesInv
<1> HIDE DEF dir, c
<1>6. TablesInv'
  <2>1. Append(tables[dir], c) \in Seq(Entries)
    BY <1>2
  <2>2. tables' \in [Directions -> Seq(Entries)]
    BY <1>1, <1>3, <1>5, <2>1
  <2> QED
    BY <1>4, <2>2 DEF TablesInv
<1>7. SeenInv'
  BY <1>4 DEF IInv, SeenInv, Searching
<1>8. SearchInv'
  <2> SUFFICES ASSUME Searching PROVE SearchInv'
    BY <1>4 DEF SearchInv, Searching
  <2>1. search.dir \in Directions
    BY DEF IInv, SearchInv
  <2>2. \/ tables'[search.dir] = tables[search.dir]
        \/ search.dir = dir /\ tables'[dir] = Append(tables[dir], c)
    BY <1>1, <1>3, <1>5, <2>1
  <2>3. CASE tables'[search.dir] = tables[search.dir]
    BY <1>4, <2>3 DEF IInv, SearchInv, Searching
  <2>4. CASE search.dir = dir /\ tables'[dir] = Append(tables[dir], c)
    <3>1. Len(tables[dir]) \in Nat /\ Len(tables'[dir]) = Len(tables[dir]) + 1
          /\ \A j \in 1 .. Len(tables'[dir]) :
                tables'[dir][j] = IF j = Len(tables[dir]) + 1 THEN c ELSE tables[dir][j]
      BY <1>2, <2>4
    <3>2. ASSUME search.at # "get"
          PROVE  /\ search.size \in 0 .. Len(tables'[dir])
                 /\ \A j \in search.size + 1 .. Len(tables'[dir]) : tables'[dir][j] \in Classes
      <4>1. /\ search.size \in 0 .. Len(tables[dir])
            /\ \A j \in search.size + 1 .. Len(tables[dir]) : tables[dir][j] \in Classes
        BY <2>4, <3>2 DEF IInv, SearchInv
      <4> QED
        BY <1>1, <3>1, <4>1
    <3> QED
      BY <1>4, <2>4, <3>2 DEF IInv, SearchInv, Searching
  <2> QED
    BY <2>2, <2>3, <2>4
<1> QED
  BY <1>6, <1>7, <1>8 DEF IInv

\* coerce.get(clazz) finds the class, or a loop begins.
LEMMA LookupKeeps == ASSUME IInv, Lookup PROVE IInv'
<1> DEFINE t == tables[search.dir]
           at == IF search.dir = "toJava" THEN "specific" ELSE "general"
<1>1. search.at = "get" /\ Searching /\ UNCHANGED <<tables, putting>>
  BY DEF Lookup, Searching
<1>2. ASSUME NEW by, NEW value, Finish(search, by, value) PROVE IInv'
  BY <1>1, <1>2, FinishKeeps
<1>3. ASSUME ~Contains(t, search.class) \/ Racing(search.dir), search' = Loop(search, at),
             UNCHANGED outcome
      PROVE  IInv'
  <2>1. search' = [dir |-> search.dir, class |-> search.class, value |-> search.value,
                   given |-> search.given, at |-> at, i |-> 1, size |-> Len(t),
                   raced |-> search.raced]
    BY <1>1, <1>3 DEF Loop, IInv, SearchInv
  <2>2. Len(t) \in Nat
    BY <1>1 DEF IInv, SearchInv, TablesInv
  <2>3. TablesInv'
    BY <1>1 DEF IInv, TablesInv
  <2>4. SearchInv'
    BY <1>1, <1>3, <2>1, <2>2 DEF IInv, SearchInv, Searching
  <2>5. SeenInv'
    <3> SUFFICES ASSUME ~search.raced PROVE putting = None /\ Seen(search', t)
      BY <1>1, <2>1 DEF SeenInv, Searching
    <3>1. putting = None
      BY <1>1 DEF IInv, SeenInv
    <3>2. ~Contains(t, search.class)
      BY <1>3, <3>1 DEF Racing
    <3> QED
      BY <1>1, <2>1, <2>2, <3>1, <3>2 DEF Seen, IInv, SearchInv, Directions
  <2> QED
    BY <2>3, <2>4, <2>5 DEF IInv
<1> QED
  BY <1>2, <1>3 DEF Lookup, Apply

\* A loop goes on, gives way to the second, or ends.
LEMMA IterateKeeps == ASSUME IInv, Iterate PROVE IInv'
<1> DEFINE t == tables[search.dir]
<1>1. search.at \in {"specific", "general"} /\ Searching /\ UNCHANGED <<tables, putting>>
  BY DEF Iterate, Searching
<1>2. ASSUME NEW by, NEW value, Finish(search, by, value) PROVE IInv'
  BY <1>1, <1>2, FinishKeeps
<1>3. TablesInv'
  BY <1>1 DEF IInv, TablesInv
<1>4. t \in Seq(Entries) /\ Len(t) \in Nat
  BY <1>1 DEF IInv, SearchInv, TablesInv
<1>5. search.i \in Nat \ {0} /\ search.size \in 0 .. Len(t)
  BY <1>1 DEF IInv, SearchInv
<1>6. ASSUME search.i > search.size, search.at = "specific", search' = Loop(search, "general"),
             UNCHANGED outcome
      PROVE  IInv'
  <2>1. search' = [dir |-> search.dir, class |-> search.class, value |-> search.value,
                   given |-> search.given, at |-> "general", i |-> 1, size |-> Len(t),
                   raced |-> search.raced]
    BY <1>1, <1>6 DEF Loop, IInv, SearchInv
  <2>2. SearchInv'
    BY <1>1, <1>4, <1>6, <2>1 DEF IInv, SearchInv, Searching
  <2>3. SeenInv'
    <3> SUFFICES ASSUME ~search.raced PROVE putting = None /\ Seen(search', t)
      BY <1>1, <2>1 DEF SeenInv, Searching
    <3>1. putting = None /\ Seen(search, t)
      BY <1>1 DEF IInv, SeenInv
    <3>2. ~Contains(t, search.class) /\ \A j \in 1 .. Len(t) : ~Extends(search.class, t[j])
      BY <1>4, <1>5, <1>6, <3>1 DEF Seen
    <3> QED
      BY <1>4, <2>1, <3>1, <3>2 DEF Seen
  <2> QED
    BY <1>3, <2>2, <2>3 DEF IInv
<1>7. ASSUME search.i <= search.size, Len(t) = search.size,
             search' = [search EXCEPT !.i = @ + 1], UNCHANGED outcome,
             search.at = "specific" => ~Extends(search.class, t[search.i]),
             search.at = "general" => ~Extends(t[search.i], search.class)
      PROVE  IInv'
  <2>1. search' = [dir |-> search.dir, class |-> search.class, value |-> search.value,
                   given |-> search.given, at |-> search.at, i |-> search.i + 1,
                   size |-> search.size, raced |-> search.raced]
    BY <1>1, <1>7 DEF IInv, SearchInv
  <2>2. SearchInv'
    <3>1. /\ outcome = None /\ search.dir \in Directions /\ search.raced \in BOOLEAN
          /\ \A j \in search.size + 1 .. Len(t) : t[j] \in Classes
      BY <1>1 DEF IInv, SearchInv
    <3>2. search.i + 1 \in Nat \ {0}
      BY <1>5
    <3> QED
      BY <1>1, <1>5, <1>7, <2>1, <3>1, <3>2 DEF SearchInv
  <2>3. SeenInv'
    <3> SUFFICES ASSUME ~search.raced PROVE putting = None /\ Seen(search', t)
      BY <1>1, <2>1 DEF SeenInv, Searching
    <3>1. putting = None /\ Seen(search, t)
      BY <1>1 DEF IInv, SeenInv
    <3>2. \A j \in 1 .. Len(t) : j < search.i + 1 => j < search.i \/ j = search.i
      BY <1>4, <1>5
    <3>3. ASSUME search.at = "specific", NEW j \in 1 .. Len(t), j < search.i + 1
          PROVE  ~Extends(search.class, t[j])
      BY <1>7, <3>1, <3>2, <3>3 DEF Seen
    <3>4. ASSUME search.at = "general", NEW j \in 1 .. Len(t), j < search.i + 1
          PROVE  ~Extends(t[j], search.class)
      BY <1>7, <3>1, <3>2, <3>4 DEF Seen
    <3> QED
      BY <1>1, <2>1, <3>1, <3>3, <3>4 DEF Seen
  <2> QED
    BY <1>3, <2>2, <2>3 DEF IInv
<1>8. ASSUME Examine(search, t[search.i]), search.i <= search.size, Len(t) = search.size
      PROVE  IInv'
  BY <1>1, <1>2, <1>7, <1>8 DEF Examine, Apply
<1>9. search.i > search.size \/ search.i <= search.size
  BY <1>5
<1> QED
  BY <1>1, <1>2, <1>6, <1>8, <1>9 DEF Iterate

\* Every step of the conversion and of the registering thread keeps the invariant.
LEMMA NextIInv == IInv /\ [Next]_vars => IInv'
<1> SUFFICES ASSUME IInv, [Next]_vars PROVE IInv'
  OBVIOUS
<1>1. ASSUME NEW dir \in Directions, NEW c \in Classes, PutBegin(dir, c) PROVE IInv'
  BY <1>1, PutBeginKeeps
<1>2. ASSUME NEW o, Send(o) PROVE IInv'
  BY <1>2, BeginKeeps DEF Send, Directions
<1>3. ASSUME NEW v, NEW c, Receive(v, c) PROVE IInv'
  BY <1>3, BeginKeeps DEF Receive, Directions
<1>4. ASSUME TakeBack PROVE IInv'
  BY <1>4, BeginKeeps DEF TakeBack, Directions
<1>5. ASSUME Delivered PROVE IInv'
  BY <1>5 DEF Delivered, IInv, TablesInv, SearchInv, SeenInv, Searching
<1>6. ASSUME UNCHANGED vars PROVE IInv'
  BY <1>6 DEF vars, IInv, TablesInv, SearchInv, SeenInv, Searching
<1> QED
  BY <1>1, <1>2, <1>3, <1>4, <1>5, <1>6, PutEndKeeps, LookupKeeps, IterateKeeps DEF Next

\* The inductive invariant of the searches.
THEOREM Inductive == Spec => []IInv
  BY InitIInv, NextIInv, PTL DEF Spec

------------------------------------------------------------------------------
(* The searches end right.                                                 *)

\* The ways in which a search ends.
LEMMA Ends ==
    ASSUME IInv, [Next]_vars, Searching, ~Searching'
    PROVE  \/ search.at = "get" /\ Contains(tables[search.dir], search.class)
              /\ outcome'.by = search.class
           \/ /\ search.at \in {"specific", "general"}
              /\ \/ /\ search.i > search.size /\ search.at = "general"
                    /\ outcome'.by = None
                 \/ /\ Len(tables[search.dir]) # search.size
                    /\ outcome'.by = "ConcurrentModificationException"
                 \/ /\ search.i <= search.size /\ Len(tables[search.dir]) = search.size
                    /\ search.at = "specific"
                    /\ Extends(search.class, tables[search.dir][search.i])
                    /\ outcome'.by = "AssertionError"
                 \/ /\ search.i <= search.size /\ Len(tables[search.dir]) = search.size
                    /\ search.at = "general"
                    /\ Extends(tables[search.dir][search.i], search.class)
                    /\ outcome'.by = tables[search.dir][search.i]
<1>1. search.at \in {"get", "specific", "general"} /\ outcome = None
  BY DEF IInv, SearchInv
<1>2. \A s, by, value : Finish(s, by, value) => outcome'.by = by
  BY DEF Finish
<1>3. \A s, by : Apply(s, by) => outcome'.by = by
  BY <1>2 DEF Apply
<1>4. ASSUME NEW at \in {"specific", "general"}, search' = Loop(search, at) PROVE FALSE
  BY <1>1, <1>4 DEF Loop, IInv, SearchInv, Searching
<1>5. ASSUME search' = [search EXCEPT !.i = @ + 1] PROVE FALSE
  BY <1>1, <1>5 DEF IInv, SearchInv, Searching
<1>6. Lookup \/ Iterate
  <2>1. ASSUME NEW dir, NEW c, PutBegin(dir, c) PROVE FALSE
    BY <1>1, <2>1 DEF PutBegin, IInv, SearchInv, Searching
  <2>2. ~PutEnd /\ ~Idle /\ ~TakeBack /\ ~Delivered /\ ~UNCHANGED vars
    BY <1>1 DEF PutEnd, Idle, TakeBack, Delivered, vars, Searching
  <2> QED
    BY <2>1, <2>2 DEF Next
<1>7. CASE Lookup
  BY <1>3, <1>4, <1>7 DEF Lookup
<1>8. CASE Iterate
  <2>1. search.at \in {"specific", "general"}
    BY <1>8 DEF Iterate
  <2>2. search.i \in Nat /\ search.size \in Nat
    BY <1>1, <2>1 DEF IInv, SearchInv
  <2>3. CASE search.i > search.size
    BY <1>2, <1>4, <1>8, <2>1, <2>3 DEF Iterate
  <2>4. CASE ~(search.i > search.size) /\ Len(tables[search.dir]) # search.size
    BY <1>2, <1>8, <2>1, <2>4 DEF Iterate
  <2>5. CASE ~(search.i > search.size) /\ Len(tables[search.dir]) = search.size
    <3>1. Examine(search, tables[search.dir][search.i]) /\ search.i <= search.size
      BY <1>8, <2>2, <2>5 DEF Iterate
    <3> QED
      BY <1>2, <1>3, <1>5, <2>1, <2>5, <3>1 DEF Examine
  <2> QED
    BY <2>3, <2>4, <2>5
<1> QED
  BY <1>6, <1>7, <1>8

\* An undisturbed search ends with the coercion it should.
LEMMA UndisturbedEnds ==
    ASSUME IInv, [Next]_vars, Searching, ~Searching', ~search.raced
    PROVE  outcome'.by = Expected(search.dir, search.class)
<1> DEFINE t == tables[search.dir]
<1>1. search.dir \in Directions /\ Seen(search, t) /\ TablesInv
  BY DEF IInv, SearchInv, SeenInv
<1>2. t \in Seq(Entries) /\ Len(t) \in Nat
  BY <1>1 DEF TablesInv
<1>3. CASE search.at = "get"
  BY <1>1, <1>3, Ends, ExpectedOf
<1>4. CASE search.at # "get"
  <2>1. /\ search.size = Len(t) /\ ~Contains(t, search.class)
        /\ search.i \in Nat \ {0}
    BY <1>1, <1>4 DEF Seen, IInv, SearchInv
  <2>2. CASE search.at = "specific"
    <3>1. /\ search.i \in 1 .. Len(t) /\ Extends(search.class, t[search.i])
          /\ outcome'.by = "AssertionError" /\ search.dir = "toJava"
      BY <1>1, <1>2, <2>1, <2>2, Ends DEF Seen
    <3> QED
      BY <1>1, <2>1, <3>1, ExpectedOf
  <2>3. CASE search.at = "general"
    <3>1. search.dir = "toJava" => \A j \in 1 .. Len(t) : ~Extends(search.class, t[j])
      BY <1>1, <2>3 DEF Seen
    <3>2. \A j \in 1 .. Len(t) : j < search.i => ~Extends(t[j], search.class)
      BY <1>1, <2>3 DEF Seen
    <3>3. CASE search.i > search.size /\ outcome'.by = None
      <4>1. \A j \in 1 .. Len(t) : ~Extends(t[j], search.class)
        BY <1>2, <2>1, <3>2, <3>3
      <4> QED
        BY <1>1, <2>1, <3>1, <3>3, <4>1, ExpectedOf
    <3>4. CASE /\ search.i <= search.size /\ Extends(t[search.i], search.class)
               /\ outcome'.by = t[search.i]
      <4>1. search.i \in 1 .. Len(t)
        BY <1>2, <2>1, <3>4
      <4> QED
        BY <1>1, <2>1, <3>1, <3>2, <3>4, <4>1, ExpectedOf
    <3> QED
      BY <2>1, <2>3, <3>3, <3>4, Ends
  <2> QED
    BY <1>4, <2>2, <2>3, Ends
<1> QED
  BY <1>3, <1>4

\* An iterator fails only if a class of the application has joined the table.
LEMMA FailedIterator ==
    ASSUME IInv, [Next]_vars, Searching, ~Searching', search.class \in Classes,
           outcome'.by = "ConcurrentModificationException"
    PROVE  \E c \in Classes : IsPrefix(Append(SubSeq(tables[search.dir], 1, search.size), c),
                                       tables[search.dir])
<1> DEFINE t == tables[search.dir]
<1>1. search.dir \in Directions /\ t \in Seq(Entries)
  BY DEF IInv, SearchInv, TablesInv
<1>2. /\ "ConcurrentModificationException" \notin Entries
      /\ None # "ConcurrentModificationException"
  BY CoercionAssumption DEF Entries, Exceptions, Numeric, Integral, Floating
<1>3. search.class \in Entries
  BY DEF Entries
<1>4. search.at # "get" => search.i \in Nat \ {0} /\ search.size \in 0 .. Len(t)
  BY DEF IInv, SearchInv
<1>5. search.at # "get" /\ Len(t) # search.size
  <2>1. search.at # "get" /\ search.i <= search.size /\ search.size = Len(t) => t[search.i] \in Entries
    BY <1>1, <1>4
  <2> QED
    BY <1>2, <1>3, <2>1, Ends
<1>6. search.size \in Nat /\ search.size < Len(t) /\ Len(t) \in Nat
  BY <1>1, <1>4, <1>5
<1>7. t[search.size + 1] \in Classes
  <2>1. \A j \in search.size + 1 .. Len(t) : t[j] \in Classes
    BY <1>5 DEF IInv, SearchInv
  <2> QED
    BY <1>6, <2>1
<1> QED
  BY <1>1, <1>6, <1>7, GrownPrefix

\* coerceJavaToJavaScript and coerceJavaScriptToJava: for any classes, inheritance and
\* registrations, an undisturbed search ends with the coercion of the class, else of the
\* first registered superclass, and an iterator fails only if the table has grown.
THEOREM SearchSafety == Spec => SearchRight
<1> DEFINE Right ==
      Searching /\ ~Searching' /\ search.class \in Classes =>
         /\ ~search.raced => outcome'.by = Expected(search.dir, search.class)
         /\ outcome'.by = "ConcurrentModificationException" =>
              \E c \in Classes : IsPrefix(Append(SubSeq(tables[search.dir], 1, search.size), c),
                                          tables[search.dir])
<1>1. IInv /\ [Next]_vars => [Right]_vars
  BY UndisturbedEnds, FailedIterator
<1>2. Spec => [][Next]_vars
  BY PTL DEF Spec
<1>3. Spec => [][Right]_vars
  BY <1>1, <1>2, Inductive, PTL
<1> QED
  BY <1>3 DEF SearchRight

------------------------------------------------------------------------------
(* Numbers.                                                                *)

\* The limits are positive and grow with the width.
LEMMA Limits ==
    ASSUME NEW c \in Integral
    PROVE  /\ Limit[c] \in Nat \ {0} /\ Limit[c] <= Limit["Long"] /\ Limit["Long"] \in Nat \ {0}
           /\ c \in {"Byte", "Short"} => Limit[c] <= Limit["Integer"]
<1>1. "Byte" \in Integral /\ "Short" \in Integral /\ "Integer" \in Integral /\ "Long" \in Integral
  BY DEF Integral
<1>2. \A d \in Integral : Limit[d] \in Nat \ {0}
  BY CoercionAssumption
<1>3. /\ Limit["Byte"] <= Limit["Short"] /\ Limit["Short"] <= Limit["Integer"]
      /\ Limit["Integer"] <= Limit["Long"]
  BY CoercionAssumption
<1>4. c \in {"Byte", "Short", "Integer", "Long"}
  BY DEF Integral
<1> QED
  BY <1>1, <1>2, <1>3, <1>4

\* The casts end in the range of their class, and leave a number of that range alone.
LEMMA WrapIn ==
    ASSUME NEW L \in Nat \ {0}, NEW k \in Int
    PROVE  /\ ((k + L) % (2 * L)) - L \in -L .. L - 1
           /\ k \in -L .. L - 1 => ((k + L) % (2 * L)) - L = k
<1>1. 2 * L \in Nat \ {0} /\ k + L \in Int
  OBVIOUS
<1>2. (k + L) % (2 * L) \in 0 .. 2 * L - 1
  BY <1>1
<1>3. k \in -L .. L - 1 => (k + L) % (2 * L) = k + L
  <2> SUFFICES ASSUME k \in -L .. L - 1 PROVE (k + L) % (2 * L) = k + L
    OBVIOUS
  <2>1. k + L \in 0 .. 2 * L - 1
    OBVIOUS
  <2> QED
    BY <1>1, <2>1
<1> QED
  BY <1>2, <1>3

\* Java's casts end in the range of their class.
LEMMA CastsIn ==
    ASSUME NEW c \in Integral, NEW k \in Int
    PROVE  /\ Wrap(c, k) \in -Limit[c] .. Limit[c] - 1
           /\ Saturate(c, k) \in -Limit[c] .. Limit[c] - 1
           /\ k \in -Limit[c] .. Limit[c] - 1 => Wrap(c, k) = k /\ Saturate(c, k) = k
<1>1. Limit[c] \in Nat \ {0}
  BY Limits
<1>2. /\ Wrap(c, k) \in -Limit[c] .. Limit[c] - 1
      /\ k \in -Limit[c] .. Limit[c] - 1 => Wrap(c, k) = k
  BY <1>1, WrapIn DEF Wrap
<1>3. /\ Saturate(c, k) \in -Limit[c] .. Limit[c] - 1
      /\ k \in -Limit[c] .. Limit[c] - 1 => Saturate(c, k) = k
  BY <1>1 DEF Saturate
<1> QED
  BY <1>2, <1>3

\* What an integer is in halves.
LEMMA HalvesOf ==
    /\ \A n \in Int : n % 2 = 0 => n = 2 * (n \div 2) /\ Truncate(n) = n \div 2
    /\ \A n \in Int : n \div 2 \in Int /\ Truncate(n) \in Int
    /\ \A k \in Int : (2 * k) % 2 = 0 /\ (2 * k) \div 2 = k
<1>1. ASSUME NEW n \in Int PROVE n \div 2 \in Int /\ (-n) \div 2 \in Int /\ n % 2 \in {0, 1}
  OBVIOUS
<1>2. ASSUME NEW n \in Int, n % 2 = 0 PROVE n = 2 * (n \div 2) /\ Truncate(n) = n \div 2
  BY <1>2 DEF Truncate
<1>3. ASSUME NEW n \in Int PROVE Truncate(n) \in Int
  BY <1>1 DEF Truncate
<1>4. ASSUME NEW k \in Int PROVE (2 * k) % 2 = 0 /\ (2 * k) \div 2 = k
  OBVIOUS
<1> QED
  BY <1>1, <1>2, <1>3, <1>4

\* The numbers of an integer class.
LEMMA IntegralNumbers ==
    ASSUME NEW c \in Integral
    PROVE  /\ \A k \in -Limit[c] .. Limit[c] - 1 : 2 * k \in Halves /\ Represents(c, 2 * k)
           /\ \A n \in Halves : Represents(c, n) =>
                 /\ n \in Int /\ n = 2 * (n \div 2) /\ Truncate(n) = n \div 2
                 /\ n \div 2 \in -Limit[c] .. Limit[c] - 1
<1>1. Limit[c] \in Nat \ {0} /\ Limit["Long"] \in Nat \ {0} /\ Limit[c] <= Limit["Long"]
  BY Limits
<1>2. ASSUME NEW k \in -Limit[c] .. Limit[c] - 1 PROVE 2 * k \in Halves
  BY <1>1 DEF Halves
<1>3. ASSUME NEW k \in -Limit[c] .. Limit[c] - 1 PROVE Represents(c, 2 * k)
  <2>1. k \in Int
    BY <1>1
  <2>2. (2 * k) % 2 = 0 /\ (2 * k) \div 2 = k
    BY <2>1, HalvesOf
  <2> QED
    BY <2>2 DEF Represents
<1>4. Halves \subseteq Int
  BY <1>1 DEF Halves
<1>5. ASSUME NEW n \in Halves, Represents(c, n)
      PROVE  /\ n \in Int /\ n = 2 * (n \div 2) /\ Truncate(n) = n \div 2
             /\ n \div 2 \in -Limit[c] .. Limit[c] - 1
  <2>1. n % 2 = 0 /\ n \div 2 \in -Limit[c] .. Limit[c] - 1
    BY <1>5 DEF Represents
  <2> QED
    BY <1>4, <2>1, HalvesOf
<1> QED
  BY <1>2, <1>3, <1>5

\* A narrowed number is one of its class, and a number that the class has is kept.
LEMMA NarrowIn ==
    ASSUME NEW c \in Numeric, NEW n \in Halves
    PROVE  /\ Narrow(c, n) \in Halves /\ Represents(c, Narrow(c, n))
           /\ Represents(c, n) => Narrow(c, n) = n
<1>1. n \in Int
  <2>1. "Long" \in Integral
    BY DEF Integral
  <2> QED
    BY <2>1, Limits DEF Halves
<1>2. Truncate(n) \in Int
  BY <1>1, HalvesOf
<1>3. CASE c \in {"Byte", "Short"}
  <2> DEFINE s == Saturate("Integer", Truncate(n))
             k == Wrap(c, s)
  <2>1. c \in Integral /\ "Integer" \in Integral
    BY <1>3 DEF Integral
  <2>2. Narrow(c, n) = 2 * k
    BY <1>3 DEF Narrow, Floating
  <2>3. s \in -Limit["Integer"] .. Limit["Integer"] - 1 /\ Limit["Integer"] \in Nat
    BY <1>2, <2>1, CastsIn, Limits
  <2>4. s \in Int
    BY <2>3
  <2>5. k \in -Limit[c] .. Limit[c] - 1
    BY <2>1, <2>4, CastsIn
  <2>6. ASSUME Represents(c, n) PROVE k = n \div 2 /\ n = 2 * (n \div 2)
    <3>1. /\ n = 2 * (n \div 2) /\ Truncate(n) = n \div 2 /\ n \div 2 \in Int
          /\ n \div 2 \in -Limit[c] .. Limit[c] - 1
      BY <1>1, <2>1, <2>6, IntegralNumbers, HalvesOf
    <3>2. n \div 2 \in -Limit["Integer"] .. Limit["Integer"] - 1
      BY <1>3, <2>1, <2>3, <3>1, Limits
    <3>3. s = n \div 2
      BY <2>1, <3>1, <3>2, CastsIn
    <3> QED
      BY <2>1, <3>1, <3>3, CastsIn
  <2> HIDE DEF k, s
  <2> QED
    BY <2>1, <2>2, <2>5, <2>6, IntegralNumbers
<1>4. CASE c \in {"Integer", "Long"}
  <2> DEFINE k == Saturate(c, Truncate(n))
  <2>1. c \in Integral
    BY <1>4 DEF Integral
  <2>2. Narrow(c, n) = 2 * k
    BY <1>4 DEF Narrow, Floating
  <2>3. k \in -Limit[c] .. Limit[c] - 1
    BY <1>2, <2>1, CastsIn
  <2>4. ASSUME Represents(c, n) PROVE k = n \div 2 /\ n = 2 * (n \div 2)
    <3>1. /\ n = 2 * (n \div 2) /\ Truncate(n) = n \div 2 /\ n \div 2 \in Int
          /\ n \div 2 \in -Limit[c] .. Limit[c] - 1
      BY <1>1, <2>1, <2>4, IntegralNumbers, HalvesOf
    <3> QED
      BY <2>1, <3>1, CastsIn
  <2> HIDE DEF k
  <2> QED
    BY <2>1, <2>2, <2>3, <2>4, IntegralNumbers
<1>5. CASE c \in Floating
  <2>1. Narrow(c, n) = Rounded[c][n]
    BY <1>5 DEF Narrow, Floating
  <2>2. Rounded[c][n] \in Halves /\ Rounded[c][Rounded[c][n]] = Rounded[c][n]
    BY <1>5, RoundingAssumption
  <2>3. c \notin Integral
    BY <1>5 DEF Integral, Floating
  <2> QED
    BY <2>1, <2>2, <2>3 DEF Represents
<1> QED
  BY <1>3, <1>4, <1>5 DEF Numeric, Integral, Floating

------------------------------------------------------------------------------
(* Marshalling.                                                            *)

Engines == {"quickjs", "duktape"}

\* A Java value: a number is one of its class.
ValueOK(v) ==
    /\ v = Value(v.class, v.n) /\ v.n \in Halves /\ v.class \notin {"int", "float64"}
    /\ v.class \in Numeric => Represents(v.class, v.n)

\* What coerceJavaToJavaScript makes of a number.
Sent(e, g) ==
    CASE g.class \in {"Byte", "Short"} -> Value("Integer", g.n)
      [] g.class = "Float" -> Value("Double", g.n)
      [] g.class = "Long" -> IF e = "duktape" THEN Value("String", g.n) ELSE g
      [] g.class \in {"Integer", "Double"} -> g

\* The parts of a value.
LEMMA ValueParts == \A c, n : Value(c, n).class = c /\ Value(c, n).n = n
  BY DEF Value

\* A box of a number is a value, and the other way round.
LEMMA BoxOK ==
    /\ \A b \in Boxes : /\ ValueOK(b) /\ b.class \in Numeric /\ b.n \in Halves
                        /\ Represents(b.class, b.n) /\ b = Value(b.class, b.n)
    /\ \A c \in Numeric, n \in Halves : Represents(c, n) => Value(c, n) \in Boxes /\ ValueOK(Value(c, n))
    /\ \A v : ValueOK(v) /\ v.class \in Numeric => v \in Boxes
<1>1. ASSUME NEW b \in Boxes
      PROVE  /\ ValueOK(b) /\ b.class \in Numeric /\ b.n \in Halves
             /\ Represents(b.class, b.n) /\ b = Value(b.class, b.n)
  <2>1. b.class \in Numeric /\ b.n \in Halves /\ Represents(b.class, b.n) /\ b = Value(b.class, b.n)
    BY DEF Boxes, Value
  <2>2. b.class \notin {"int", "float64"}
    BY <2>1 DEF Numeric, Integral, Floating
  <2> QED
    BY <2>1, <2>2 DEF ValueOK
<1>2. ASSUME NEW c \in Numeric, NEW n \in Halves, Represents(c, n)
      PROVE  Value(c, n) \in Boxes /\ ValueOK(Value(c, n))
  <2>1. Value(c, n) \in Boxes
    BY <1>2 DEF Boxes, Value
  <2> QED
    BY <1>1, <2>1
<1>3. ASSUME NEW v, ValueOK(v), v.class \in Numeric PROVE v \in Boxes
  BY <1>2, <1>3 DEF ValueOK
<1> QED
  BY <1>1, <1>2, <1>3

\* A Double has every Byte, Short, Integer and Float, an Integer every Byte and Short.
LEMMA Wider ==
    ASSUME NEW n \in Halves
    PROVE  /\ \A c \in {"Byte", "Short", "Integer"} :
                 Represents(c, n) => Represents("Integer", n) /\ Rounded["Double"][n] = n
           /\ Represents("Float", n) => Rounded["Double"][n] = n
           /\ Represents("Double", n) <=> Rounded["Double"][n] = n
           /\ Rounded["Double"][n] \in Halves /\ Represents("Double", Rounded["Double"][n])
<1>1. "Float" \notin Integral /\ "Double" \notin Integral /\ "Double" \in Floating
  BY DEF Integral, Floating
<1>2. /\ Rounded["Double"][n] \in Halves
      /\ Rounded["Double"][Rounded["Double"][n]] = Rounded["Double"][n]
  BY <1>1, RoundingAssumption
<1>3. ASSUME NEW c \in {"Byte", "Short", "Integer"}, Represents(c, n)
      PROVE  Represents("Integer", n) /\ Rounded["Double"][n] = n
  <2>1. c \in Integral /\ "Integer" \in Integral
    BY DEF Integral
  <2>2. /\ n \in Int /\ n = 2 * (n \div 2) /\ n \div 2 \in -Limit[c] .. Limit[c] - 1
        /\ n \div 2 \in Int
    BY <1>3, <2>1, IntegralNumbers, HalvesOf
  <2>3. Limit[c] \in Nat /\ Limit["Integer"] \in Nat /\ Limit[c] <= Limit["Integer"]
    BY <2>1, Limits
  <2>4. n \div 2 \in -Limit["Integer"] .. Limit["Integer"] - 1
    BY <2>2, <2>3
  <2>5. Represents("Integer", 2 * (n \div 2))
    BY <2>1, <2>4, IntegralNumbers
  <2>6. Rounded["Double"][2 * (n \div 2)] = 2 * (n \div 2)
    BY <2>4, RoundingAssumption
  <2> QED
    BY <2>2, <2>5, <2>6
<1>4. Represents("Float", n) => Rounded["Double"][n] = n
  BY <1>1, RoundingAssumption DEF Represents
<1> QED
  BY <1>1, <1>2, <1>3, <1>4 DEF Represents

\* What is sent is a value with the number that was given.
LEMMA SentOn ==
    ASSUME NEW e, NEW g \in Boxes
    PROVE  /\ ValueOK(Sent(e, g)) /\ Sent(e, g).n = g.n
           /\ Sent(e, g).class \in {"Integer", "Double", "String", "Long"}
           /\ Sent(e, g).class = "String" => g.class = "Long"
           /\ Sent(e, g).class = "Long" => g.class = "Long" /\ e # "duktape"
           /\ Sent(e, g).class = "Integer" => g.class \in {"Byte", "Short", "Integer"}
           /\ Sent(e, g).class = "Double" => g.class \in {"Float", "Double"}
<1>1. /\ ValueOK(g) /\ g.class \in Numeric /\ g.n \in Halves
      /\ Represents(g.class, g.n) /\ g = Value(g.class, g.n)
  BY BoxOK
<1>2. "Integer" \in Numeric /\ "Double" \in Numeric
  BY DEF Numeric, Integral, Floating
<1>3. CASE g.class \in {"Byte", "Short"}
  <2>1. Sent(e, g) = Value("Integer", g.n) /\ Represents("Integer", g.n)
    BY <1>1, <1>3, Wider DEF Sent
  <2> QED
    BY <1>1, <1>2, <1>3, <2>1, BoxOK, ValueParts
<1>4. CASE g.class = "Float"
  <2>1. Sent(e, g) = Value("Double", g.n) /\ Represents("Double", g.n)
    BY <1>1, <1>4, Wider DEF Sent
  <2> QED
    BY <1>1, <1>2, <1>4, <2>1, BoxOK, ValueParts
<1>5. CASE g.class = "Long" /\ e = "duktape"
  <2>1. Sent(e, g) = Value("String", g.n)
    BY <1>5 DEF Sent
  <2>2. Sent(e, g).class = "String" /\ Sent(e, g).n = g.n
    BY <2>1, ValueParts
  <2>3. ValueOK(Sent(e, g))
    BY <1>1, <2>1, <2>2 DEF ValueOK, Numeric, Integral, Floating
  <2> QED
    BY <1>5, <2>2, <2>3
<1>6. CASE g.class \in {"Integer", "Double"} \/ (g.class = "Long" /\ e # "duktape")
  <2>1. Sent(e, g) = g
    BY <1>6 DEF Sent
  <2> QED
    BY <1>1, <1>6, <2>1
<1> QED
  BY <1>1, <1>3, <1>4, <1>5, <1>6 DEF Numeric, Integral, Floating

\* toObject of both kinds, pushObject and popObject: a number keeps its number, unless a
\* double has to stand for it.
LEMMA Marshalled ==
    ASSUME NEW v, ValueOK(v)
    PROVE  LET o == ToJava(ToScript(v))
           IN /\ ValueOK(o)
              /\ v.class \notin NumberClasses => o = v
              /\ v.class \in NumberClasses =>
                   /\ o.class \in {"Integer", "Double"}
                   /\ Rounded["Double"][v.n] = v.n => o.n = v.n
                   /\ engine = "quickjs" /\ Represents("Integer", v.n) => o.n = v.n
<1> DEFINE o == ToJava(ToScript(v))
           r == Rounded["Double"][v.n]
<1>1. v.n \in Halves /\ v.class \notin {"int", "float64"} /\ v = Value(v.class, v.n)
  BY DEF ValueOK
<1>2. "Integer" \in Numeric /\ "Double" \in Numeric
  BY DEF Numeric, Integral, Floating
<1>3. CASE v.class \notin NumberClasses
  <2>1. ToScript(v) = v
    BY <1>3 DEF ToScript
  <2>2. ToJava(v) = v
    BY <1>1 DEF ToJava
  <2> QED
    BY <1>3, <2>1, <2>2
<1>4. CASE v.class \in NumberClasses /\ engine = "quickjs" /\ Represents("Integer", v.n)
  <2>1. ToScript(v) = Value("int", v.n)
    BY <1>4 DEF ToScript
  <2>2. o = Value("Integer", v.n)
    BY <2>1, ValueParts DEF ToJava
  <2>3. ValueOK(o) /\ o.class = "Integer" /\ o.n = v.n
    BY <1>1, <1>2, <1>4, <2>2, BoxOK, ValueParts
  <2> QED
    BY <1>4, <2>3
<1>5. CASE v.class \in NumberClasses /\ ~(engine = "quickjs" /\ Represents("Integer", v.n))
  <2>1. ToScript(v) = Value("float64", r)
    BY <1>5 DEF ToScript
  <2>2. o = Value("Double", r)
    BY <2>1, ValueParts DEF ToJava
  <2>3. r \in Halves /\ Represents("Double", r)
    BY <1>1, Wider
  <2> HIDE DEF r
  <2>4. ValueOK(o) /\ o.class = "Double" /\ o.n = r
    BY <1>2, <2>2, <2>3, BoxOK, ValueParts
  <2> HIDE DEF o
  <2>5. r = Rounded["Double"][v.n]
    BY DEF r
  <2> QED
    BY <1>5, <2>4, <2>5 DEF o
<1> QED
  BY <1>3, <1>4, <1>5

\* A number that was sent comes back as the same number, in one of three classes.
LEMMA RoundTrip ==
    ASSUME NEW g \in Boxes, engine \in Engines
    PROVE  LET o == ToJava(ToScript(Sent(engine, g)))
           IN /\ ValueOK(o) /\ o.class \in {"Integer", "Double", "String"}
              /\ o.class = "String" => g.class = "Long"
              /\ \/ o.n = g.n
                 \/ engine = "quickjs" /\ g.class = "Long" /\ ~Represents("Double", g.n)
<1> DEFINE v == Sent(engine, g)
           o == ToJava(ToScript(v))
<1>1. /\ ValueOK(v) /\ v.n = g.n
      /\ v.class \in {"Integer", "Double", "String", "Long"}
      /\ v.class = "String" => g.class = "Long"
      /\ v.class = "Long" => g.class = "Long" /\ engine # "duktape"
      /\ v.class = "Integer" => g.class \in {"Byte", "Short", "Integer"}
      /\ v.class = "Double" => g.class \in {"Float", "Double"}
  BY SentOn
<1>2. g.n \in Halves /\ Represents(g.class, g.n)
  BY BoxOK
<1> HIDE DEF v
<1>3. CASE v.class = "String"
  <2>1. v.class \notin NumberClasses
    BY <1>3 DEF NumberClasses
  <2> QED
    BY <1>1, <1>3, <2>1, Marshalled DEF v
<1>4. CASE v.class \in {"Integer", "Double"}
  <2>1. v.class \in NumberClasses
    BY <1>4 DEF NumberClasses
  <2>2. Rounded["Double"][g.n] = g.n
    BY <1>1, <1>2, <1>4, Wider
  <2> QED
    BY <1>1, <2>1, <2>2, Marshalled DEF v
<1>5. CASE v.class = "Long"
  <2>1. v.class \in NumberClasses /\ engine = "quickjs" /\ g.class = "Long"
    BY <1>1, <1>5 DEF NumberClasses, Engines
  <2>2. Represents("Double", g.n) <=> Rounded["Double"][g.n] = g.n
    BY <1>2, Wider
  <2> QED
    BY <1>1, <2>1, <2>2, Marshalled DEF v
<1> QED
  BY <1>1, <1>3, <1>4, <1>5

\* What script sends arrives as a value with its number.
LEMMA ScriptOK ==
    ASSUME NEW v \in ScriptValues
    PROVE  /\ ValueOK(ToJava(v)) /\ ToJava(v).n = v.n /\ v.n \in Halves
           /\ v.class \in {"int", "float64", "String"}
           /\ ToJava(v).class \in {"Integer", "Double", "String"}
           /\ ToJava(v).class = "String" => v.class = "String"
<1>1. PICK b \in Boxes : \/ v = Value("float64", b.n) /\ b.class = "Double"
                         \/ v = Value("int", b.n) /\ b.class = "Integer"
                         \/ v = Value("String", b.n) /\ b.class = "Long"
  BY DEF ScriptValues
<1>2. b.n \in Halves /\ b.class \in Numeric /\ Represents(b.class, b.n)
  BY BoxOK
<1>3. CASE v = Value("float64", b.n) /\ b.class = "Double"
  <2>1. v.class = "float64" /\ v.n = b.n
    BY <1>3, ValueParts
  <2>2. ToJava(v) = Value("Double", v.n)
    BY <2>1 DEF ToJava
  <2> QED
    BY <1>2, <1>3, <2>1, <2>2, BoxOK, ValueParts
<1>4. CASE v = Value("int", b.n) /\ b.class = "Integer"
  <2>1. v.class = "int" /\ v.n = b.n
    BY <1>4, ValueParts
  <2>2. ToJava(v) = Value("Integer", v.n)
    BY <2>1 DEF ToJava
  <2> QED
    BY <1>2, <1>4, <2>1, <2>2, BoxOK, ValueParts
<1>5. CASE v = Value("String", b.n) /\ b.class = "Long"
  <2>1. v.class = "String" /\ v.n = b.n
    BY <1>5, ValueParts
  <2>2. ToJava(v) = v
    BY <2>1 DEF ToJava
  <2>3. ValueOK(v)
    BY <1>2, <1>5, <2>1 DEF ValueOK, Numeric, Integral, Floating
  <2> QED
    BY <1>2, <2>1, <2>2, <2>3
<1> QED
  BY <1>1, <1>3, <1>4, <1>5

------------------------------------------------------------------------------
(* A conversion from its beginning to its end, on engine e.                *)

\* The classes of the tables that the constructor fills.
BuiltIn(e, dir) ==
    IF dir = "toJava" THEN Numeric \cup {"Enum"}
    ELSE {"Byte", "Short", "Float", "Enum"} \cup (IF e = "duktape" THEN {"Long"} ELSE {})

Objects == Boxes \cup {Plain(k) : k \in Classes}

\* What the marshalling may have made of a number g that was sent.
Back(e, g, o) ==
    /\ o.class \in {"Integer", "Double", "String"} /\ (o.class = "String" => g.class = "Long")
    /\ o.n = g.n \/ (e = "quickjs" /\ g.class = "Long" /\ ~Represents("Double", g.n))

\* What it may have made of a number or numeral of script.
FromScript(given, o) ==
    /\ given.class \in {"int", "float64", "String"} /\ given.n \in Halves /\ o.n = given.n
    /\ o.class \in {"Integer", "Double", "String"} /\ (o.class = "String" => given.class = "String")

\* What a conversion begins with.
Asked(e, dir, c, given, value) ==
    /\ ValueOK(value)
    /\ dir = "toJS" => value = given /\ c = given.class /\ given \in Objects
    /\ dir = "toJava" =>
         \/ c \in Classes /\ given.class \notin Numeric
         \/ c \in Numeric /\ given \in Boxes /\ c = given.class /\ Back(e, given, value)
         \/ c \in Numeric /\ FromScript(given, value)

\* What it ends with: the properties, for one conversion.
ComesBack(e, c, given, value) ==
    given.class \in Numeric =>
        \/ value = given
        \/ e = "quickjs" /\ c = "Long" /\ ~Represents("Double", given.n)

Fits(c, given, value) ==
    c \in Numeric /\ given.class \notin Numeric =>
        \/ value.class = c /\ (Represents(c, given.n) => value.n = given.n)
        \/ /\ given.class = "String" /\ ~Represents(c, given.n)
           /\ value = Plain("NumberFormatException")

Answered(e, dir, c, given, raced, by, value) ==
    /\ by \in Numeric \cup Classes \cup Exceptions \cup {"Enum", None}
    /\ value = None \/ ValueOK(value)
    /\ dir = "toJS" => /\ c = given.class /\ given \in Objects
                       /\ given \in Boxes /\ value # None => value = Sent(e, given)
    /\ dir = "toJava" /\ ~raced => ComesBack(e, c, given, value) /\ Fits(c, given, value)

\* Names that are no classes of the application.
LEMMA ClassNames ==
    /\ \A c \in Classes : /\ c \notin Numeric /\ c \notin Exceptions
                          /\ c \notin {"String", "Enum", "int", "float64"}
    /\ \A a, b : <<a, b>> \in Assignable => a \in Classes /\ b \in Classes
  BY CoercionAssumption

\* Objects without a number are values.
LEMMA PlainOK ==
    ASSUME NEW c, c \notin Numeric, c \notin {"int", "float64"}
    PROVE  ValueOK(Plain(c)) /\ Plain(c).class = c /\ Plain(c).n = 0
<1>1. 0 \in Halves
  <2>1. "Long" \in Integral
    BY DEF Integral
  <2> QED
    BY <2>1, Limits DEF Halves
<1> QED
  BY <1>1 DEF ValueOK, Plain, Value

\* Null is no value.
LEMMA ValueNotNull ==
    ASSUME NEW c \in Numeric \cup {"String", "NumberFormatException"}, NEW n \in Halves
    PROVE  Value(c, n) # None
<1>1. n \in Int
  <2>1. "Long" \in Integral
    BY DEF Integral
  <2> QED
    BY <2>1, Limits DEF Halves
<1>2. Value(c, n) \in [class : Numeric \cup {"String", "NumberFormatException"}, n : Int]
  BY <1>1 DEF Value
<1> QED
  BY <1>2, CoercionAssumption

\* A conversion to a numeric class, of a number that has one or of script, that ends with
\* the narrowed number.
LEMMA NarrowAnswers ==
    ASSUME NEW e, NEW c \in Numeric, NEW given, NEW o, NEW raced, NEW by \in Numeric \cup {None},
           Asked(e, "toJava", c, given, o)
    PROVE  Answered(e, "toJava", c, given, raced, by, Value(c, Narrow(c, o.n)))
<1> DEFINE v == Value(c, Narrow(c, o.n))
<1>1. o.n \in Halves /\ c \notin Classes
  BY ClassNames DEF Asked, ValueOK
<1>2. /\ Narrow(c, o.n) \in Halves /\ Represents(c, Narrow(c, o.n))
      /\ Represents(c, o.n) => Narrow(c, o.n) = o.n
  BY <1>1, NarrowIn
<1>3. ValueOK(v) /\ v.class = c /\ v.n = Narrow(c, o.n)
  BY <1>2, BoxOK, ValueParts
<1>4. CASE given \in Boxes /\ c = given.class /\ Back(e, given, o)
  <2>1. given = Value(c, given.n) /\ Represents(c, given.n)
    BY <1>4, BoxOK
  <2>2. ComesBack(e, c, given, v)
    BY <1>2, <1>4, <2>1 DEF ComesBack, Back
  <2>3. Fits(c, given, v)
    BY <1>4 DEF Fits
  <2> QED
    BY <1>3, <2>2, <2>3 DEF Answered
<1>5. CASE FromScript(given, o)
  <2>1. given.class \notin Numeric /\ o.n = given.n
    BY <1>5 DEF FromScript, Numeric, Integral, Floating
  <2>2. Fits(c, given, v)
    BY <1>2, <1>3, <2>1 DEF Fits
  <2>3. ComesBack(e, c, given, v)
    BY <2>1 DEF ComesBack
  <2> QED
    BY <1>3, <2>2, <2>3 DEF Answered
<1> QED
  BY <1>1, <1>4, <1>5 DEF Asked

\* The early return of coerceJavaScriptToJava: the value has the class already.
LEMMA EarlyAnswers ==
    ASSUME NEW e, NEW c, NEW given, NEW o, NEW raced, Asked(e, "toJava", c, given, o),
           c = o.class \/ <<c, o.class>> \in Assignable
    PROVE  Answered(e, "toJava", c, given, raced, None, o)
<1>1. ValueOK(o)
  BY DEF Asked
<1>2. CASE c \in Classes
  <2>1. c \notin Numeric /\ given.class \notin Numeric
    BY <1>2, ClassNames DEF Asked
  <2> QED
    BY <1>1, <2>1 DEF Answered, ComesBack, Fits
<1>3. CASE c \notin Classes
  <2>1. c = o.class /\ o = Value(c, o.n) /\ c \in Numeric
    BY <1>1, <1>3, ClassNames DEF ValueOK, Asked
  <2>2. CASE given \in Boxes /\ c = given.class /\ Back(e, given, o)
    <3>1. given = Value(c, given.n)
      BY <2>2, BoxOK
    <3> QED
      BY <1>1, <2>1, <2>2, <3>1 DEF Answered, ComesBack, Fits, Back
  <2>3. CASE FromScript(given, o)
    <3>1. given.class \notin Numeric /\ o.n = given.n
      BY <2>3 DEF FromScript, Numeric, Integral, Floating
    <3> QED
      BY <1>1, <2>1, <3>1 DEF Answered, ComesBack, Fits
  <2> QED
    BY <1>3, <2>2, <2>3 DEF Asked
<1> QED
  BY <1>2, <1>3

\* A coercion is applied, of the class or of one it extends.
LEMMA CoercionAnswers ==
    ASSUME NEW e, NEW dir \in Directions, NEW c, NEW given, NEW o, NEW raced,
           Asked(e, dir, c, given, o), NEW by \in BuiltIn(e, dir) \cup Classes, Extends(by, c),
           NEW v \in Coerced(dir, by, c, o)
    PROVE  Answered(e, dir, c, given, raced, by, IF v = None THEN o ELSE v)
<1> DEFINE w == IF v = None THEN o ELSE v
<1>1. ValueOK(o) /\ o.n \in Halves
  BY DEF Asked, ValueOK
<1>2. c \in Numeric \cup Classes
  <2>1. \A b \in Boxes : b.class \in Numeric
    BY BoxOK
  <2>2. \A k \in Classes : Plain(k).class = k
    BY ClassNames, PlainOK
  <2> QED
    BY <2>1, <2>2 DEF Asked, Objects, Directions
<1>3. CASE c \in Classes
  <2>1. by \in Classes /\ c \notin Numeric
    BY <1>3, ClassNames DEF Extends
  <2>2. v \in {Plain(IF dir = "toJava" THEN c ELSE "String"), None}
    BY <2>1, ClassNames DEF Coerced
  <2>3. ValueOK(Plain(c)) /\ ValueOK(Plain("String"))
    BY <1>3, ClassNames, PlainOK DEF Numeric, Integral, Floating
  <2>4. ValueOK(w)
    BY <1>1, <2>2, <2>3
  <2>5. given.class \notin Numeric /\ given \notin Boxes
    <3>1. dir = "toJS" => given.class = c
      BY DEF Asked
    <3>2. dir = "toJava" => given.class \notin Numeric
      BY <2>1 DEF Asked
    <3>3. given.class \notin Numeric
      BY <2>1, <3>1, <3>2 DEF Directions
    <3> QED
      BY <3>3, BoxOK
  <2> QED
    BY <2>1, <2>4, <2>5 DEF Answered, ComesBack, Fits, Asked
<1>4. CASE c \in Numeric /\ dir = "toJS"
  <2>1. by = c /\ by \notin Classes
    BY <1>4, ClassNames DEF Extends
  <2>2. given \in Boxes /\ o = given /\ c = given.class
    <3>1. \A k \in Classes : Plain(k).class = k
      BY ClassNames, PlainOK
    <3> QED
      BY <1>4, <3>1, ClassNames DEF Asked, Objects
  <2>3. by \in {"Byte", "Short", "Float", "Long"} /\ (by = "Long" => e = "duktape")
    BY <1>4, <2>1 DEF BuiltIn, Numeric, Integral, Floating
  <2>4. v = Value(CASE by \in {"Byte", "Short"} -> "Integer"
                    [] by = "Float" -> "Double"
                    [] by = "Long" -> "String", o.n)
    BY <1>4, <2>1, <2>3 DEF Coerced
  <2>5. v = Sent(e, given) /\ v # None
    <3>1. "Integer" \in Numeric /\ "Double" \in Numeric
      BY DEF Numeric, Integral, Floating
    <3>3. \E name \in {"Integer", "Double", "String"} : v = Value(name, o.n)
      BY <2>3, <2>4
    <3>4. v # None
      BY <1>1, <3>1, <3>3, ValueNotNull
    <3>5. v = Sent(e, given)
      BY <2>1, <2>2, <2>3, <2>4 DEF Sent
    <3> QED
      BY <3>4, <3>5
  <2>6. ValueOK(Sent(e, given))
    BY <2>2, SentOn
  <2> QED
    BY <1>4, <2>1, <2>2, <2>5, <2>6 DEF Answered, Objects
<1>5. CASE c \in Numeric /\ dir = "toJava"
  <2>1. by = c /\ by \notin Classes /\ by # "Enum"
    BY <1>5, ClassNames DEF Extends, Numeric, Integral, Floating
  <2>2. v = IF o.class = "String" /\ c \in Integral /\ ~Represents(c, o.n)
            THEN Plain("NumberFormatException")
            ELSE Value(c, Narrow(c, o.n))
    BY <1>5, <2>1 DEF Coerced
  <2>3. CASE o.class = "String" /\ c \in Integral /\ ~Represents(c, o.n)
    <3>1. v = Plain("NumberFormatException")
      BY <2>2, <2>3
    <3>2. ValueOK(v) /\ v.n = 0
      BY <3>1, PlainOK DEF Numeric, Integral, Floating
    <3>3. v # None
      BY <3>1, <3>2, ValueNotNull DEF Plain, ValueOK
    <3>4. CASE given \in Boxes /\ c = given.class /\ Back(e, given, o)
      <4>1. given.n \in Halves /\ Represents(c, given.n) /\ c = "Long"
        BY <2>3, <3>4, BoxOK DEF Back
      <4>2. ComesBack(e, c, given, v)
        BY <2>3, <3>4, <4>1 DEF ComesBack, Back
      <4> QED
        BY <1>5, <2>1, <3>2, <3>3, <3>4, <4>2 DEF Answered, Fits
    <3>5. CASE FromScript(given, o)
      <4>1. given.class = "String" /\ given.class \notin Numeric /\ o.n = given.n
        BY <2>3, <3>5 DEF FromScript, Numeric, Integral, Floating
      <4>2. Fits(c, given, v) /\ ComesBack(e, c, given, v)
        BY <2>3, <3>1, <4>1 DEF Fits, ComesBack
      <4> QED
        BY <1>5, <2>1, <3>2, <3>3, <4>2 DEF Answered
    <3> QED
      BY <1>5, <3>4, <3>5, ClassNames DEF Asked
  <2>4. CASE ~(o.class = "String" /\ c \in Integral /\ ~Represents(c, o.n))
    <3>1. v = Value(c, Narrow(c, o.n))
      BY <2>2, <2>4
    <3>2. Narrow(c, o.n) \in Halves
      BY <1>1, <1>5, NarrowIn
    <3>3. v # None
      BY <1>5, <3>1, <3>2, ValueNotNull
    <3> QED
      BY <1>5, <2>1, <3>1, <3>3, NarrowAnswers
  <2> QED
    BY <2>3, <2>4
<1> QED
  BY <1>2, <1>3, <1>4, <1>5 DEF Directions

------------------------------------------------------------------------------
(* The invariant of the conversions.                                       *)

\* The tables hold what the constructor put there, once, and classes of the application.
KeysInv ==
    \A dir \in Directions :
        /\ IsInjective(tables[dir])
        /\ BuiltIn(engine, dir) \subseteq Range(tables[dir])
        /\ Range(tables[dir]) \subseteq BuiltIn(engine, dir) \cup Classes

\* A loop has passed only entries that the class does not extend, also in a race.
ExaminedInv ==
    Searching /\ search.at = "general" =>
        \A j \in 1 .. search.size : j < search.i => ~Extends(tables[search.dir][j], search.class)

AskedInv ==
    Searching => Asked(engine, search.dir, search.class, search.given, search.value)

AnsweredInv ==
    outcome # None =>
        Answered(engine, outcome.dir, outcome.class, outcome.given, outcome.raced,
                 outcome.by, outcome.value)

ConversionInv ==
    /\ engine \in Engines /\ puts \in 0 .. MaxPuts
    /\ KeysInv /\ ExaminedInv /\ AskedInv /\ AnsweredInv

\* Two sequences in a row.
LEMMA Joined ==
    ASSUME NEW S, NEW s \in Seq(S), NEW t \in Seq(S), NEW r \in Seq(S), Len(r) = Len(s) + Len(t),
           \A i \in 1 .. Len(s) : r[i] = s[i], \A i \in 1 .. Len(t) : r[Len(s) + i] = t[i]
    PROVE  s \o t = r
<1>1. Len(s \o t) = Len(r) /\ s \o t \in Seq(S)
  OBVIOUS
<1>2. ASSUME NEW i \in 1 .. Len(r) PROVE (s \o t)[i] = r[i]
  <2>1. CASE i <= Len(s)
    BY <2>1
  <2>2. CASE i > Len(s)
    <3>1. i - Len(s) \in 1 .. Len(t) /\ i = Len(s) + (i - Len(s))
      BY <2>2
    <3> QED
      BY <2>2, <3>1
  <2> QED
    BY <2>1, <2>2
<1> QED
  BY <1>1, <1>2

\* The tables of the constructor.
LEMMA InitKeys == Init => KeysInv
<1> SUFFICES ASSUME Init PROVE KeysInv
  OBVIOUS
<1> DEFINE java == <<"Enum", "Byte", "Short", "Integer", "Long", "Float", "Double">>
           quick == <<"Byte", "Short", "Float", "Enum">>
           duk == <<"Byte", "Short", "Long", "Float", "Enum">>
<1>1. tables["toJava"] = java
  BY DEF Init
<1>2. ASSUME engine = "duktape" PROVE tables["toJS"] = duk
  <2> DEFINE S == {"Byte", "Short", "Long", "Float", "Enum"}
             x == <<"Byte", "Short">>
             y == <<"Long">>
             z == <<"Float", "Enum">>
             xy == <<"Byte", "Short", "Long">>
  <2>1. x \in Seq(S) /\ y \in Seq(S) /\ z \in Seq(S) /\ xy \in Seq(S) /\ duk \in Seq(S)
    OBVIOUS
  <2>2. /\ Len(x) = 2 /\ Len(y) = 1 /\ Len(z) = 2 /\ Len(xy) = 3 /\ Len(duk) = 5
        /\ \A i \in 1 .. 2 : xy[i] = x[i] /\ duk[3 + i] = z[i]
        /\ \A i \in 1 .. 3 : duk[i] = xy[i] /\ (i <= 1 => xy[2 + i] = y[i])
    <3>1. \A i \in 1 .. 2 : i \in {1, 2}
      OBVIOUS
    <3>2. \A i \in 1 .. 3 : i \in {1, 2, 3}
      OBVIOUS
    <3> QED
      BY <3>1, <3>2
  <2>3. tables["toJS"] = x \o y \o z
    BY <1>2 DEF Init
  <2> HIDE DEF x, y, z, xy, duk, S
  <2>4. x \o y = xy
    <3>1. /\ Len(xy) = Len(x) + Len(y) /\ \A i \in 1 .. Len(x) : xy[i] = x[i]
          /\ \A i \in 1 .. Len(y) : xy[Len(x) + i] = y[i]
      BY <2>2
    <3> QED
      BY <2>1, <3>1, Joined
  <2>5. xy \o z = duk
    <3>1. /\ Len(duk) = Len(xy) + Len(z) /\ \A i \in 1 .. Len(xy) : duk[i] = xy[i]
          /\ \A i \in 1 .. Len(z) : duk[Len(xy) + i] = z[i]
      BY <2>2
    <3> QED
      BY <2>1, <3>1, Joined
  <2> QED
    BY <2>3, <2>4, <2>5
<1>3. ASSUME engine = "quickjs" PROVE tables["toJS"] = quick
  <2> DEFINE S == {"Byte", "Short", "Long", "Float", "Enum"}
             x == <<"Byte", "Short">>
             y == <<>>
             z == <<"Float", "Enum">>
             xy == <<"Byte", "Short">>
  <2>1. x \in Seq(S) /\ y \in Seq(S) /\ z \in Seq(S) /\ xy \in Seq(S) /\ quick \in Seq(S)
    OBVIOUS
  <2>2. /\ Len(x) = 2 /\ Len(y) = 0 /\ Len(z) = 2 /\ Len(xy) = 2 /\ Len(quick) = 4
        /\ \A i \in 1 .. 2 : xy[i] = x[i] /\ quick[2 + i] = z[i]
        /\ \A i \in 1 .. 2 : quick[i] = xy[i] /\ (i <= 0 => xy[2 + i] = y[i])
    <3>1. \A i \in 1 .. 2 : i \in {1, 2}
      OBVIOUS
    <3>2. \A i \in 1 .. 2 : i \in {1, 2}
      OBVIOUS
    <3> QED
      BY <3>1, <3>2
  <2>3. tables["toJS"] = x \o y \o z
    BY <1>3 DEF Init
  <2> HIDE DEF x, y, z, xy, quick, S
  <2>4. x \o y = xy
    <3>1. /\ Len(xy) = Len(x) + Len(y) /\ \A i \in 1 .. Len(x) : xy[i] = x[i]
          /\ \A i \in 1 .. Len(y) : xy[Len(x) + i] = y[i]
      BY <2>2
    <3> QED
      BY <2>1, <3>1, Joined
  <2>5. xy \o z = quick
    <3>1. /\ Len(quick) = Len(xy) + Len(z) /\ \A i \in 1 .. Len(xy) : quick[i] = xy[i]
          /\ \A i \in 1 .. Len(z) : quick[Len(xy) + i] = z[i]
      BY <2>2
    <3> QED
      BY <2>1, <3>1, Joined
  <2> QED
    BY <2>3, <2>4, <2>5
<1>4. IsInjective(java) /\ Range(java) = Numeric \cup {"Enum"}
  <2>1. DOMAIN java = 1 .. 7
    OBVIOUS
  <2>2. \A i \in 1 .. 7 : i \in {1, 2, 3, 4, 5, 6, 7}
    OBVIOUS
  <2>3. IsInjective(java)
    BY <2>1, <2>2 DEF IsInjective
  <2>4. Range(java) = Numeric \cup {"Enum"}
    BY <2>1, <2>2 DEF Range, Numeric, Integral, Floating
  <2> QED
    BY <2>3, <2>4
<1>5. IsInjective(duk) /\ Range(duk) = {"Byte", "Short", "Float", "Enum", "Long"}
  <2>1. DOMAIN duk = 1 .. 5
    OBVIOUS
  <2>2. \A i \in 1 .. 5 : i \in {1, 2, 3, 4, 5}
    OBVIOUS
  <2> QED
    BY <2>1, <2>2 DEF IsInjective, Range
<1>6. IsInjective(quick) /\ Range(quick) = {"Byte", "Short", "Float", "Enum"}
  <2>1. DOMAIN quick = 1 .. 4
    OBVIOUS
  <2>2. \A i \in 1 .. 4 : i \in {1, 2, 3, 4}
    OBVIOUS
  <2> QED
    BY <2>1, <2>2 DEF IsInjective, Range
<1>7. engine \in Engines
  BY DEF Init, Engines
<1> HIDE DEF java, quick, duk
<1> QED
  BY <1>1, <1>2, <1>3, <1>4, <1>5, <1>6, <1>7 DEF KeysInv, BuiltIn, Directions, Engines

\* The constructor registers the coercions that values of its engine need.
LEMMA InitConversion == Init => ConversionInv
<1> SUFFICES ASSUME Init PROVE ConversionInv
  OBVIOUS
<1>1. ~Searching /\ outcome = None /\ puts = 0 /\ engine \in Engines
  BY DEF Init, Searching, Engines
<1> QED
  BY <1>1, InitKeys, CoercionAssumption DEF ConversionInv, ExaminedInv, AskedInv, AnsweredInv

\* A conversion ends with a right answer.
LEMMA FinishConverts ==
    ASSUME ConversionInv, NEW s, NEW by, NEW value, Finish(s, by, value),
           UNCHANGED <<engine, tables, puts>>,
           Answered(engine, s.dir, s.class, s.given, s.raced, by, value)
    PROVE  ConversionInv'
<1>1. ~Searching'
  BY DEF Finish, Searching
<1>2. /\ outcome'.dir = s.dir /\ outcome'.class = s.class /\ outcome'.given = s.given
      /\ outcome'.raced = s.raced /\ outcome'.by = by /\ outcome'.value = value
  BY DEF Finish
<1>3. AnsweredInv'
  BY <1>2 DEF AnsweredInv
<1>4. KeysInv'
  BY DEF ConversionInv, KeysInv
<1> QED
  BY <1>1, <1>3, <1>4 DEF ConversionInv, ExaminedInv, AskedInv

\* A conversion begins, and may have ended.
LEMMA BeginConverts ==
    ASSUME ConversionInv, NEW dir \in Directions, NEW c, NEW o, NEW given, Begin(dir, c, o, given),
           UNCHANGED <<engine, tables, puts>>, Asked(engine, dir, c, given, o)
    PROVE  ConversionInv'
<1> DEFINE s == [dir |-> dir, class |-> c, value |-> o, given |-> given,
                 at |-> "get", i |-> 1, size |-> 0, raced |-> putting # None]
<1>1. s.dir = dir /\ s.class = c /\ s.given = given /\ s.value = o /\ s.at = "get"
  OBVIOUS
<1>2. CASE dir = "toJava" /\ (c = o.class \/ <<c, o.class>> \in Assignable)
  <2>1. Finish(s, None, o)
    BY <1>2 DEF Begin
  <2>2. Answered(engine, s.dir, s.class, s.given, s.raced, None, o)
    BY <1>1, <1>2, EarlyAnswers
  <2> HIDE DEF s
  <2> QED
    BY <2>1, <2>2, FinishConverts
<1>3. CASE ~(dir = "toJava" /\ (c = o.class \/ <<c, o.class>> \in Assignable))
           /\ dir = "toJava" /\ c \in Numeric /\ o.class = "Double"
  <2>1. Finish(s, None, Value(c, Narrow(c, o.n)))
    BY <1>3 DEF Begin
  <2>2. Answered(engine, s.dir, s.class, s.given, s.raced, None, Value(c, Narrow(c, o.n)))
    BY <1>1, <1>3, NarrowAnswers
  <2> HIDE DEF s
  <2> QED
    BY <2>1, <2>2, FinishConverts
<1>4. CASE ~(dir = "toJava" /\ (c = o.class \/ <<c, o.class>> \in Assignable))
           /\ ~(dir = "toJava" /\ c \in Numeric /\ o.class = "Double")
  <2>1. search' = s /\ outcome' = None
    BY <1>4 DEF Begin
  <2> HIDE DEF s
  <2>2. AskedInv' /\ ExaminedInv' /\ AnsweredInv'
    BY <1>1, <2>1 DEF AskedInv, ExaminedInv, AnsweredInv
  <2>3. KeysInv'
    BY DEF ConversionInv, KeysInv
  <2> QED
    BY <2>2, <2>3 DEF ConversionInv
<1> QED
  BY <1>2, <1>3, <1>4

\* An object that Java sends.
LEMMA SendConverts == ASSUME ConversionInv, NEW o \in Objects, Send(o) PROVE ConversionInv'
<1>1. ValueOK(o)
  BY BoxOK, PlainOK, ClassNames DEF Objects
<1>2. Asked(engine, "toJS", o.class, o, o)
  BY <1>1 DEF Asked
<1>3. Begin("toJS", o.class, o, o) /\ UNCHANGED <<engine, tables, puts>> /\ "toJS" \in Directions
  BY DEF Send, Directions
<1> QED
  BY <1>2, <1>3, BeginConverts

\* A value of script that arrives.
LEMMA ReceiveConverts ==
    ASSUME ConversionInv, NEW v, NEW c, Receive(v, c),
           (v \in ScriptValues /\ c \in Numeric) \/ (v = Plain("String") /\ c \in Classes)
    PROVE  ConversionInv'
<1>1. CASE v \in ScriptValues /\ c \in Numeric
  <2>1. FromScript(v, ToJava(v)) /\ ValueOK(ToJava(v))
    BY <1>1, ScriptOK DEF FromScript
  <2>2. Asked(engine, "toJava", c, v, ToJava(v))
    BY <1>1, <2>1 DEF Asked
  <2>3. Begin("toJava", c, ToJava(v), v) /\ UNCHANGED <<engine, tables, puts>> /\ "toJava" \in Directions
    BY DEF Receive, Directions
  <2> QED
    BY <2>2, <2>3, BeginConverts
<1>2. CASE v = Plain("String") /\ c \in Classes
  <2>1. v.class = "String" /\ ValueOK(v) /\ v.class \notin Numeric
    BY <1>2, PlainOK DEF Numeric, Integral, Floating
  <2>2. ToJava(v) = v
    BY <2>1 DEF ToJava
  <2>3. Asked(engine, "toJava", c, v, ToJava(v))
    BY <1>2, <2>1, <2>2 DEF Asked
  <2>4. Begin("toJava", c, ToJava(v), v) /\ UNCHANGED <<engine, tables, puts>> /\ "toJava" \in Directions
    BY DEF Receive, Directions
  <2> QED
    BY <2>3, <2>4, BeginConverts
<1> QED
  BY <1>1, <1>2

\* What was sent comes back.
LEMMA TakeBackConverts == ASSUME ConversionInv, TakeBack PROVE ConversionInv'
<1> DEFINE g == outcome.given
           v == outcome.value
           o == ToJava(ToScript(v))
<1>1. /\ outcome # None /\ outcome.dir = "toJS" /\ v # None
      /\ Begin("toJava", outcome.class, o, g) /\ UNCHANGED <<engine, tables, puts>>
      /\ "toJava" \in Directions
  BY DEF TakeBack, Directions
<1>2. Answered(engine, "toJS", outcome.class, g, outcome.raced, outcome.by, v)
  BY <1>1 DEF ConversionInv, AnsweredInv
<1>3. ValueOK(v) /\ outcome.class = g.class /\ g \in Objects /\ (g \in Boxes => v = Sent(engine, g))
  BY <1>1, <1>2 DEF Answered
<1>4. ValueOK(o)
  BY <1>3, Marshalled
<1>5. Asked(engine, "toJava", outcome.class, g, o)
  <2>1. CASE g \in Boxes
    <3>1. o = ToJava(ToScript(Sent(engine, g))) /\ g.class \in Numeric
      BY <1>3, <2>1, BoxOK
    <3>2. Back(engine, g, o)
      BY <2>1, <3>1, RoundTrip DEF Back, ConversionInv
    <3> HIDE DEF o
    <3> QED
      BY <1>3, <1>4, <2>1, <3>1, <3>2 DEF Asked
  <2>2. CASE g \notin Boxes
    <3>1. g.class \in Classes /\ g.class \notin Numeric
      BY <1>3, <2>2, PlainOK, ClassNames DEF Objects
    <3> HIDE DEF o
    <3> QED
      BY <1>3, <1>4, <3>1 DEF Asked
  <2> QED
    BY <2>1, <2>2
<1> QED
  BY <1>1, <1>5, BeginConverts

\* A registration begins and ends.
LEMMA PutBeginConverts ==
    ASSUME IInv, ConversionInv, NEW dir, NEW c, PutBegin(dir, c) PROVE ConversionInv'
<1>1. puts' \in 0 .. MaxPuts
  BY CoercionAssumption DEF PutBegin, ConversionInv
<1>2. KeysInv' /\ AnsweredInv' /\ engine' \in Engines
  BY DEF PutBegin, ConversionInv, KeysInv, AnsweredInv
<1>3. CASE ~Searching
  BY <1>1, <1>2, <1>3 DEF PutBegin, ConversionInv, ExaminedInv, AskedInv, Searching
<1>4. CASE Searching
  <2>1. search' = [search EXCEPT !.raced = TRUE] /\ UNCHANGED <<tables, engine>>
    BY <1>4 DEF PutBegin
  <2>2. search' = [dir |-> search.dir, class |-> search.class, value |-> search.value,
                   given |-> search.given, at |-> search.at, i |-> search.i,
                   size |-> search.size, raced |-> TRUE]
    BY <1>4, <2>1 DEF IInv, SearchInv
  <2>3. /\ search'.dir = search.dir /\ search'.class = search.class /\ search'.value = search.value
        /\ search'.given = search.given /\ search'.at = search.at /\ search'.i = search.i
        /\ search'.size = search.size
    BY <2>2
  <2>4. AskedInv' /\ ExaminedInv'
    BY <1>4, <2>1, <2>3 DEF ConversionInv, AskedInv, ExaminedInv, Searching
  <2> QED
    BY <1>1, <1>2, <2>4 DEF ConversionInv
<1> QED
  BY <1>3, <1>4

\* A registration adds a class of the application and leaves what a search may find.
LEMMA PutEndConverts == ASSUME IInv, ConversionInv, PutEnd PROVE ConversionInv'
<1> DEFINE dir == putting[1]
           c == putting[2]
           t == tables[dir]
<1>1. dir \in Directions /\ c \in Classes
  BY DEF PutEnd, IInv, TablesInv
<1>2. t \in Seq(Entries) /\ c \in Entries /\ tables \in [Directions -> Seq(Entries)]
  BY <1>1 DEF IInv, TablesInv, Entries
<1>3. tables' = tables \/ (~Contains(t, c) /\ tables' = [tables EXCEPT ![dir] = Append(t, c)])
  BY DEF PutEnd
<1>4. UNCHANGED <<engine, puts, search, outcome>>
  BY DEF PutEnd
<1>5. AnsweredInv' /\ AskedInv' /\ engine' \in Engines /\ puts' \in 0 .. MaxPuts
  BY <1>4 DEF ConversionInv, AnsweredInv, AskedInv, Searching
<1>6. CASE tables' = tables
  BY <1>4, <1>5, <1>6 DEF ConversionInv, KeysInv, ExaminedInv, Searching
<1>7. CASE ~Contains(t, c) /\ tables' = [tables EXCEPT ![dir] = Append(t, c)]
  <2> DEFINE u == Append(t, c)
  <2>1. /\ Len(t) \in Nat /\ u \in Seq(Entries) /\ Len(u) = Len(t) + 1 /\ u[Len(t) + 1] = c
        /\ DOMAIN t = 1 .. Len(t) /\ DOMAIN u = 1 .. Len(t) + 1
        /\ \A j \in 1 .. Len(t) : u[j] = t[j]
    BY <1>2
  <2>2. tables'[dir] = u /\ \A d \in Directions : d # dir => tables'[d] = tables[d]
    BY <1>1, <1>2, <1>7
  <2>3. \A j \in 1 .. Len(t) : t[j] # c
    BY <1>2, <1>7 DEF Contains
  <2> HIDE DEF u
  <2>4. IsInjective(t) => IsInjective(u)
    <3> SUFFICES ASSUME IsInjective(t), NEW a \in 1 .. Len(t) + 1, NEW b \in 1 .. Len(t) + 1, u[a] = u[b]
                 PROVE  a = b
      BY <2>1 DEF IsInjective
    <3>1. CASE a \in 1 .. Len(t) /\ b \in 1 .. Len(t)
      BY <2>1, <3>1 DEF IsInjective
    <3>2. CASE a = Len(t) + 1 \/ b = Len(t) + 1
      BY <2>1, <2>3, <3>2
    <3> QED
      BY <2>1, <3>1, <3>2
  <2>5. Range(u) = Range(t) \cup {c}
    <3>1. ASSUME NEW x \in Range(u) PROVE x \in Range(t) \cup {c}
      <4>1. PICK j \in 1 .. Len(t) + 1 : x = u[j]
        BY <2>1 DEF Range
      <4>2. j \in 1 .. Len(t) \/ j = Len(t) + 1
        BY <2>1
      <4> QED
        BY <2>1, <4>1, <4>2 DEF Range
    <3>2. ASSUME NEW x \in Range(t) PROVE x \in Range(u)
      <4>1. PICK j \in 1 .. Len(t) : x = t[j]
        BY <2>1 DEF Range
      <4>2. j \in 1 .. Len(t) + 1 /\ x = u[j]
        BY <2>1, <4>1
      <4> QED
        BY <2>1, <4>2 DEF Range
    <3>3. c \in Range(u)
      <4>1. Len(t) + 1 \in 1 .. Len(t) + 1
        BY <2>1
      <4> QED
        BY <2>1, <4>1 DEF Range
    <3> QED
      BY <3>1, <3>2, <3>3
  <2>6. KeysInv'
    <3> SUFFICES ASSUME NEW d \in Directions
                 PROVE  /\ IsInjective(tables'[d])
                        /\ BuiltIn(engine, d) \subseteq Range(tables'[d])
                        /\ Range(tables'[d]) \subseteq BuiltIn(engine, d) \cup Classes
      BY <1>4 DEF KeysInv
    <3>1. /\ IsInjective(tables[d]) /\ BuiltIn(engine, d) \subseteq Range(tables[d])
          /\ Range(tables[d]) \subseteq BuiltIn(engine, d) \cup Classes
      BY DEF ConversionInv, KeysInv
    <3>2. CASE d = dir
      BY <1>1, <2>2, <2>4, <2>5, <3>1, <3>2
    <3>3. CASE d # dir
      BY <2>2, <3>1, <3>3
    <3> QED
      BY <3>2, <3>3
  <2>7. ExaminedInv'
    <3> SUFFICES ASSUME Searching, search.at = "general", NEW j \in 1 .. search.size, j < search.i
                 PROVE  ~Extends(tables'[search.dir][j], search.class)
      BY <1>4 DEF ExaminedInv, Searching
    <3>1. /\ search.dir \in Directions /\ search.size \in 0 .. Len(tables[search.dir])
          /\ tables[search.dir] \in Seq(Entries)
      BY <1>2 DEF IInv, SearchInv
    <3>2. j \in 1 .. Len(tables[search.dir])
      BY <3>1
    <3>3. tables'[search.dir][j] = tables[search.dir][j]
      BY <2>1, <2>2, <3>1, <3>2
    <3> QED
      BY <3>3 DEF ConversionInv, ExaminedInv
  <2> QED
    BY <1>5, <2>6, <2>7 DEF ConversionInv
<1> QED
  BY <1>3, <1>6, <1>7

\* The table and the conversion that searches it.
LEMMA SearchFacts ==
    ASSUME IInv, ConversionInv, Searching
    PROVE  LET t == tables[search.dir]
           IN /\ search.dir \in Directions /\ t \in Seq(Entries)
              /\ Asked(engine, search.dir, search.class, search.given, search.value)
              /\ BuiltIn(engine, search.dir) \subseteq Range(t)
              /\ Range(t) \subseteq BuiltIn(engine, search.dir) \cup Classes
              /\ \A x : x \in Range(t) <=> \E j \in 1 .. Len(t) : t[j] = x
              /\ \A x : Contains(t, x) <=> x \in Range(t)
<1> DEFINE t == tables[search.dir]
<1>1. search.dir \in Directions /\ t \in Seq(Entries)
  BY DEF IInv, SearchInv, TablesInv
<1>2. \A x : x \in Range(t) <=> \E j \in 1 .. Len(t) : t[j] = x
  BY <1>1 DEF Range
<1>3. \A x : Contains(t, x) <=> \E j \in 1 .. Len(t) : t[j] = x
  BY <1>1 DEF Contains
<1> HIDE DEF t
<1>4. \A x : Contains(t, x) <=> x \in Range(t)
  BY <1>2, <1>3
<1> QED
  BY <1>1, <1>2, <1>4 DEF ConversionInv, AskedInv, KeysInv, t

\* Every numeric class has a coercion to Java: an undisturbed conversion to it has no
\* need of a loop.
LEMMA NumbersFound ==
    ASSUME IInv, ConversionInv, Searching, ~search.raced, search.at # "get", search.dir = "toJava"
    PROVE  search.class \in Classes /\ search.given.class \notin Numeric
<1>1. ~Contains(tables[search.dir], search.class)
  BY DEF IInv, SeenInv, Seen
<1>2. search.class \notin Numeric
  BY <1>1, SearchFacts DEF BuiltIn
<1> QED
  BY <1>2, SearchFacts DEF Asked

\* A search that ends with an exception.
LEMMA ExceptionAnswers ==
    ASSUME IInv, ConversionInv, Searching, search.at # "get", NEW by \in Exceptions
    PROVE  Answered(engine, search.dir, search.class, search.given, search.raced, by, None)
<1>1. search.dir = "toJS" => search.class = search.given.class /\ search.given \in Objects
  BY SearchFacts DEF Asked
<1>2. ASSUME search.dir = "toJava", ~search.raced
      PROVE  /\ ComesBack(engine, search.class, search.given, None)
             /\ Fits(search.class, search.given, None)
  BY <1>2, NumbersFound, ClassNames DEF ComesBack, Fits
<1> QED
  BY <1>1, <1>2 DEF Answered

\* A search that finds nothing leaves the object as it is.
LEMMA NothingAnswers ==
    ASSUME IInv, ConversionInv, Searching, search.at = "general", search.i > search.size
    PROVE  Answered(engine, search.dir, search.class, search.given, search.raced, None, search.value)
<1> DEFINE t == tables[search.dir]
<1>1. Asked(engine, search.dir, search.class, search.given, search.value)
  BY SearchFacts
<1>2. ASSUME search.dir = "toJS", search.given \in Boxes
      PROVE  search.value = Sent(engine, search.given)
  <2>1. search.value = search.given /\ search.class = search.given.class /\ search.class \in Numeric
    BY <1>1, <1>2, BoxOK DEF Asked
  <2>2. search.class \notin BuiltIn(engine, "toJS")
    <3> SUFFICES ASSUME search.class \in BuiltIn(engine, "toJS") PROVE FALSE
      OBVIOUS
    <3>1. PICK j \in 1 .. Len(t) : t[j] = search.class
      BY <1>2, SearchFacts
    <3>2. /\ search.i \in Nat /\ search.size \in 0 .. Len(t) /\ Len(t) \in Nat
          /\ \A k \in search.size + 1 .. Len(t) : t[k] \in Classes
      BY SearchFacts DEF IInv, SearchInv
    <3>3. j \in 1 .. search.size
      <4>1. search.class \notin Classes
        BY <2>1, ClassNames
      <4>2. j \notin search.size + 1 .. Len(t)
        BY <3>1, <3>2, <4>1
      <4> QED
        BY <3>2, <4>2
    <3>4. j < search.i
      BY <3>2, <3>3
    <3>5. ~Extends(t[j], search.class)
      BY <3>3, <3>4 DEF ConversionInv, ExaminedInv
    <3> QED
      BY <3>1, <3>5 DEF Extends
  <2>3. search.class \in {"Integer", "Double"} \/ (search.class = "Long" /\ engine # "duktape")
    BY <2>1, <2>2 DEF BuiltIn, Numeric, Integral, Floating
  <2> QED
    BY <2>1, <2>3 DEF Sent
<1>3. ASSUME search.dir = "toJava", ~search.raced
      PROVE  /\ ComesBack(engine, search.class, search.given, search.value)
             /\ Fits(search.class, search.given, search.value)
  BY <1>3, NumbersFound, ClassNames DEF ComesBack, Fits
<1> QED
  BY <1>1, <1>2, <1>3 DEF Answered, Asked

\* A coercion of the table is applied.
LEMMA ApplyConverts ==
    ASSUME IInv, ConversionInv, Searching, NEW by, Contains(tables[search.dir], by),
           Extends(by, search.class), Apply(search, by), UNCHANGED <<engine, tables, puts>>
    PROVE  ConversionInv'
<1>1. PICK v \in Coerced(search.dir, by, search.class, search.value) :
         Finish(search, by, IF v = None THEN search.value ELSE v)
  BY DEF Apply
<1>2. /\ search.dir \in Directions
      /\ Asked(engine, search.dir, search.class, search.given, search.value)
      /\ by \in BuiltIn(engine, search.dir) \cup Classes
  BY SearchFacts
<1>3. Answered(engine, search.dir, search.class, search.given, search.raced, by,
               IF v = None THEN search.value ELSE v)
  BY <1>2, CoercionAnswers
<1> QED
  BY <1>1, <1>3, FinishConverts

\* A loop begins, or goes on past an entry that the class does not extend.
LEMMA LoopConverts ==
    ASSUME IInv, ConversionInv, Searching, UNCHANGED <<engine, tables, puts, outcome>>,
           NEW at \in {"specific", "general"}, NEW k, NEW size,
           search' = [dir |-> search.dir, class |-> search.class, value |-> search.value,
                      given |-> search.given, at |-> at, i |-> k, size |-> size,
                      raced |-> search.raced],
           at = "general" => \A j \in 1 .. size :
                                j < k => ~Extends(tables[search.dir][j], search.class)
    PROVE  ConversionInv'
<1>1. /\ search'.dir = search.dir /\ search'.class = search.class /\ search'.value = search.value
      /\ search'.given = search.given /\ search'.at = at /\ search'.i = k /\ search'.size = size
  OBVIOUS
<1>2. AskedInv'
  BY <1>1 DEF ConversionInv, AskedInv, Searching
<1>3. ExaminedInv'
  BY <1>1 DEF ExaminedInv
<1>4. KeysInv' /\ AnsweredInv'
  BY DEF ConversionInv, KeysInv, AnsweredInv
<1> QED
  BY <1>2, <1>3, <1>4 DEF ConversionInv

\* coerce.get answers with the coercion of the class, or the loops begin.
LEMMA LookupConverts == ASSUME IInv, ConversionInv, Lookup PROVE ConversionInv'
<1> DEFINE at == IF search.dir = "toJava" THEN "specific" ELSE "general"
<1>1. search.at = "get" /\ Searching /\ UNCHANGED <<engine, tables, puts>>
  BY DEF Lookup, Searching
<1>2. CASE Contains(tables[search.dir], search.class) /\ Apply(search, search.class)
  BY <1>1, <1>2, ApplyConverts DEF Extends
<1>3. CASE search' = Loop(search, at) /\ UNCHANGED outcome
  <2>1. search' = [dir |-> search.dir, class |-> search.class, value |-> search.value,
                   given |-> search.given, at |-> at, i |-> 1, size |-> Len(tables[search.dir]),
                   raced |-> search.raced]
    BY <1>1, <1>3 DEF Loop, IInv, SearchInv
  <2>2. \A j \in 1 .. Len(tables[search.dir]) : ~(j < 1)
    BY <1>1, SearchFacts
  <2>3. at \in {"specific", "general"}
    OBVIOUS
  <2> HIDE DEF at
  <2> QED
    BY <1>1, <1>3, <2>1, <2>2, <2>3, LoopConverts
<1> QED
  BY <1>2, <1>3 DEF Lookup

\* An entry of the loops is applied or passed, or the iterator fails.
LEMMA IterateConverts == ASSUME IInv, ConversionInv, Iterate PROVE ConversionInv'
<1> DEFINE t == tables[search.dir]
<1>1. search.at \in {"specific", "general"} /\ Searching /\ UNCHANGED <<engine, tables, puts>>
  BY DEF Iterate, Searching
<1>2. search.i \in Nat \ {0} /\ search.size \in 0 .. Len(t) /\ Len(t) \in Nat /\ t \in Seq(Entries)
  BY <1>1, SearchFacts DEF IInv, SearchInv
<1>3. CASE search.i > search.size /\ search.at = "specific"
  <2>1. search' = Loop(search, "general") /\ UNCHANGED outcome
    BY <1>3 DEF Iterate
  <2>2. search' = [dir |-> search.dir, class |-> search.class, value |-> search.value,
                   given |-> search.given, at |-> "general", i |-> 1, size |-> Len(t),
                   raced |-> search.raced]
    BY <1>1, <2>1 DEF Loop, IInv, SearchInv
  <2>3. \A j \in 1 .. Len(t) : ~(j < 1)
    BY <1>2
  <2> QED
    BY <1>1, <2>1, <2>2, <2>3, LoopConverts
<1>4. CASE search.i > search.size /\ search.at = "general"
  <2>1. Finish(search, None, search.value)
    BY <1>4 DEF Iterate
  <2> QED
    BY <1>1, <1>4, <2>1, NothingAnswers, FinishConverts
<1>5. CASE ~(search.i > search.size) /\ Len(t) # search.size
  <2>1. Finish(search, "ConcurrentModificationException", None)
    BY <1>5 DEF Iterate
  <2>2. "ConcurrentModificationException" \in Exceptions
    BY DEF Exceptions
  <2> QED
    BY <1>1, <2>1, <2>2, ExceptionAnswers, FinishConverts
<1>6. CASE ~(search.i > search.size) /\ Len(t) = search.size
  <2>1. Examine(search, t[search.i]) /\ search.i \in 1 .. Len(t)
    BY <1>2, <1>6 DEF Iterate
  <2>2. CASE search.at = "specific" /\ Extends(search.class, t[search.i])
    <3>1. Finish(search, "AssertionError", None)
      BY <2>1, <2>2 DEF Examine
    <3>2. "AssertionError" \in Exceptions
      BY DEF Exceptions
    <3> QED
      BY <1>1, <3>1, <3>2, ExceptionAnswers, FinishConverts
  <2>3. CASE search.at = "general" /\ Extends(t[search.i], search.class)
    <3>1. Apply(search, t[search.i])
      BY <2>1, <2>3 DEF Examine
    <3>2. Contains(t, t[search.i])
      BY <1>2, <2>1 DEF Contains
    <3> QED
      BY <1>1, <2>3, <3>1, <3>2, ApplyConverts
  <2>4. CASE /\ ~(search.at = "specific" /\ Extends(search.class, t[search.i]))
             /\ ~(search.at = "general" /\ Extends(t[search.i], search.class))
    <3>1. search' = [search EXCEPT !.i = @ + 1] /\ UNCHANGED outcome
      BY <2>1, <2>4 DEF Examine
    <3>2. search' = [dir |-> search.dir, class |-> search.class, value |-> search.value,
                     given |-> search.given, at |-> search.at, i |-> search.i + 1,
                     size |-> search.size, raced |-> search.raced]
      BY <1>1, <3>1 DEF IInv, SearchInv
    <3>3. ASSUME search.at = "general", NEW j \in 1 .. search.size, j < search.i + 1
          PROVE  ~Extends(t[j], search.class)
      <4>1. j < search.i \/ j = search.i
        BY <1>2, <3>3
      <4> QED
        BY <1>1, <2>4, <3>3, <4>1 DEF ConversionInv, ExaminedInv
    <3> QED
      BY <1>1, <3>1, <3>2, <3>3, LoopConverts
  <2> QED
    BY <2>2, <2>3, <2>4
<1> QED
  BY <1>1, <1>3, <1>4, <1>5, <1>6

\* The invariant of the conversions is inductive on top of that of the searches.
THEOREM ConversionsInductive == Spec => []ConversionInv
<1>1. Init => ConversionInv
  BY InitConversion
<1>2. IInv /\ ConversionInv /\ [Next]_vars => ConversionInv'
  <2> SUFFICES ASSUME IInv, ConversionInv, [Next]_vars PROVE ConversionInv'
    OBVIOUS
  <2>1. ASSUME Delivered PROVE ConversionInv'
    BY <2>1 DEF Delivered, ConversionInv, KeysInv, ExaminedInv, AskedInv, AnsweredInv, Searching
  <2>2. CASE UNCHANGED vars
    BY <2>2 DEF vars, ConversionInv, KeysInv, ExaminedInv, AskedInv, AnsweredInv, Searching
  <2>3. CASE Next
    BY <2>1, <2>3, PutBeginConverts, PutEndConverts, SendConverts, ReceiveConverts,
       TakeBackConverts, LookupConverts, IterateConverts DEF Next, Objects
  <2> QED
    BY <2>2, <2>3
<1> QED
  BY <1>1, <1>2, Inductive, PTL DEF Spec

\* The coercion tables hold a class once, whatever is registered when, and what a
\* conversion ends with is a number of its class, if it is one.
THEOREM TypeCorrect == Spec => []TypeOK
<1>1. ConversionInv => TypeOK
  <2> SUFFICES ASSUME ConversionInv PROVE TypeOK
    OBVIOUS
  <2>1. ASSUME outcome # None
        PROVE  /\ outcome.by \in Numeric \cup Classes \cup Exceptions \cup {"Enum", None}
               /\ outcome.value = None \/ outcome.value.class \notin Numeric
                  \/ outcome.value \in Boxes
    BY <2>1, BoxOK DEF ConversionInv, AnsweredInv, Answered
  <2> QED
    BY <2>1 DEF ConversionInv, KeysInv, Engines, TypeOK
<1> QED
  BY <1>1, ConversionsInductive, PTL

\* A number that Java passes to script and takes back as the class it had is the same
\* number, for all limits of the integer classes, all roundings that keep what they have
\* rounded, and all registrations that are not under way at the same time; a long that a
\* double cannot hold is exempt in QuickJS.
THEOREM NumbersSurvive == Spec => []NumbersComeBack
<1>1. ConversionInv => NumbersComeBack
  BY DEF ConversionInv, AnsweredInv, Answered, ComesBack, NumbersComeBack, Undisturbed
<1> QED
  BY <1>1, ConversionsInductive, PTL

\* A number or numeral of script arrives as an instance of the numeric class of the
\* parameter, and as itself if the class has it; only a numeral may be refused.
THEOREM ParametersFit == Spec => []ParameterFits
<1>1. ConversionInv => ParameterFits
  BY DEF ConversionInv, AnsweredInv, Answered, Fits, ParameterFits, Undisturbed
<1> QED
  BY <1>1, ConversionsInductive, PTL
=============================================================================
