------------------------------ MODULE Coercions ------------------------------
(***************************************************************************)
(* How a value changes on its way between Java and JavaScript: the         *)
(* coercion tables of JSEngineContext, its conversions of numbers, and the *)
(* marshalling of scalars in both engines.                                 *)
(*                                                                         *)
(* A search of a table is a lookup and one or two loops over a             *)
(* LinkedHashMap.  It holds no lock, while another thread may be in a put: *)
(* then a lookup may miss an entry, and an iterator fails once the map has *)
(* grown.                                                                  *)
(*                                                                         *)
(* Integers wrap and saturate at their limits, which instances scale down. *)
(* Numbers are counted in halves, so that there are fractions.  Primitive  *)
(* classes are taken for their boxes.  Left out: arrays, ByteBuffers,      *)
(* interfaces (lambdas and proxies), nested JSEngineJavaObjects, infinite  *)
(* numbers, NaN and -0.                                                    *)
(***************************************************************************)
EXTENDS Integers, SequencesExt

CONSTANTS
    Limit,       \* MAX_VALUE + 1 of Byte, Short, Integer and Long
    Rounded,     \* the nearest Float or Double of a number, as IEEE 754 says
    Classes,     \* classes of the application
    Assignable,  \* pairs <<a, b>> of them with a.isAssignableFrom(b)
    MaxPuts,     \* bound: coercions the application registers
    None         \* null

Integral == {"Byte", "Short", "Integer", "Long"}
Floating == {"Float", "Double"}
Numeric == Integral \cup Floating
Directions == {"toJS", "toJava"}
Exceptions == {"AssertionError", "ConcurrentModificationException"}

\* Numbers are counted in halves, up to twice the range of a Long.
Halves == -4 * Limit["Long"] .. 4 * Limit["Long"]

ASSUME CoercionAssumption ==
    /\ Limit \in [Integral -> Nat \ {0}]
    /\ Limit["Byte"] <= Limit["Short"] /\ Limit["Short"] <= Limit["Integer"]
    /\ Limit["Integer"] <= Limit["Long"]
    /\ Classes \cap (Numeric \cup Exceptions \cup {"String", "Enum", "int", "float64"}) = {}
    /\ "NumberFormatException" \notin Classes
    /\ Assignable \subseteq Classes \X Classes
    /\ MaxPuts \in Nat /\ None \notin Exceptions
    /\ None \notin [class : Numeric \cup {"String", "NumberFormatException"}, n : Int]

\* A rounded number stays as it is; a Double has every Integer and every Float.
ASSUME RoundingAssumption ==
    /\ Rounded \in [Floating -> [Halves -> Halves]]
    /\ \A c \in Floating, n \in Halves : Rounded[c][Rounded[c][n]] = Rounded[c][n]
    /\ \A k \in -Limit["Integer"] .. Limit["Integer"] - 1 : Rounded["Double"][2 * k] = 2 * k
    /\ \A n \in Halves : Rounded["Float"][n] = n => Rounded["Double"][n] = n

VARIABLES
    engine,   \* "quickjs" or "duktape"
    tables,   \* per direction, the classes of the LinkedHashMap in its order
    putting,  \* the <<direction, class>> another thread is registering, or None
    puts,     \* registrations so far
    search,   \* the conversion under way; idle if there is none
    outcome   \* how a conversion has just ended, or None

vars == <<engine, tables, putting, puts, search, outcome>>

Searching == search.at # "idle"

Init ==
    /\ engine \in {"quickjs", "duktape"}
    /\ tables = [toJava |-> <<"Enum", "Byte", "Short", "Integer", "Long", "Float", "Double">>,
                 toJS |-> <<"Byte", "Short">>
                          \o (IF engine = "duktape" THEN <<"Long">> ELSE <<>>)
                          \o <<"Float", "Enum">>]
    /\ putting = None /\ puts = 0 /\ search = [at |-> "idle"] /\ outcome = None

------------------------------------------------------------------------------
(* Numbers, in halves.                                                     *)

Wrap(c, k) == ((k + Limit[c]) % (2 * Limit[c])) - Limit[c]
Saturate(c, k) == IF k < -Limit[c] THEN -Limit[c] ELSE IF k >= Limit[c] THEN Limit[c] - 1 ELSE k
Truncate(n) == IF n < 0 THEN -((-n) \div 2) ELSE n \div 2

Represents(c, n) ==
    IF c \in Integral THEN n % 2 = 0 /\ n \div 2 \in -Limit[c] .. Limit[c] - 1
    ELSE Rounded[c][n] = n

\* Mutant: every integer goes through int.
NarrowThroughInt(c, n) ==
    IF c \in Integral THEN 2 * Wrap(c, Saturate("Integer", Truncate(n)))
    ELSE Rounded[c][n]

\* Mutant: a byte or a short is cut to an int only.
NarrowToInt(c, n) ==
    IF c \in Integral THEN 2 * Saturate(IF c = "Long" THEN c ELSE "Integer", Truncate(n))
    ELSE Rounded[c][n]

\* byteValue, shortValue, ... of an Integer or a Double.
Narrow(c, n) ==
    CASE c \in {"Byte", "Short"} -> 2 * Wrap(c, Saturate("Integer", Truncate(n)))
      [] c \in {"Integer", "Long"} -> 2 * Saturate(c, Truncate(n))
      [] c \in Floating -> Rounded[c][n]

------------------------------------------------------------------------------
(* Marshalling of scalars.  A value is its class or JavaScript type and its *)
(* number; anything that is not a number or a String has none.              *)

Value(class, n) == [class |-> class, n |-> n]
Plain(class) == Value(class, 0)

Boxes == {b \in [class : Numeric, n : Halves] : Represents(b.class, b.n)}

\* The classes a native context takes for numbers.
NumberClasses == {"Integer", "Double"} \cup (IF engine = "quickjs" THEN {"Long"} ELSE {})

\* Mutant: JS_NewFloat64 keeps the cast to int32.
ToScriptCast(o) ==
    IF o.class \notin NumberClasses THEN o
    ELSE IF engine = "quickjs" /\ Represents("Integer", 2 * Truncate(o.n))
    THEN Value("int", 2 * Truncate(o.n))
    ELSE Value("float64", Rounded["Double"][o.n])

\* toObject(jobject) with JS_NewInt64 and JS_NewFloat64; pushObject.  Other classes
\* than String become proxies.
ToScript(o) ==
    IF o.class \notin NumberClasses THEN o
    ELSE IF engine = "quickjs" /\ Represents("Integer", o.n)
    THEN Value("int", o.n)
    ELSE Value("float64", Rounded["Double"][o.n])

\* toObject(JSValue); popObject.
ToJava(v) ==
    CASE v.class = "int" -> Value("Integer", v.n)
      [] v.class = "float64" -> Value("Double", v.n)
      [] OTHER -> v

\* What script may make of itself: numbers (in QuickJS an integer may have either
\* tag) and numerals.
ScriptValues ==
    {Value("float64", b.n) : b \in {b \in Boxes : b.class = "Double"}}
    \cup {Value("int", b.n) : b \in {b \in Boxes : b.class = "Integer" /\ engine = "quickjs"}}
    \cup {Value("String", b.n) : b \in {b \in Boxes : b.class = "Long"}}

------------------------------------------------------------------------------
(* Registration.                                                           *)

\* put* is synchronized on the context: one registration at a time.  The searches do not
\* take that lock, so that they can meet one under way.
PutBegin(dir, c) ==
    /\ putting = None /\ puts < MaxPuts
    /\ putting' = <<dir, c>>
    /\ puts' = puts + 1
    /\ search' = IF Searching THEN [search EXCEPT !.raced = TRUE] ELSE search
    /\ UNCHANGED <<engine, tables, outcome>>

\* A class that is registered again keeps its place.
PutEnd ==
    /\ putting # None
    /\ putting' = None
    /\ LET dir == putting[1]
           c == putting[2]
       IN tables' = IF Contains(tables[dir], c) THEN tables
                    ELSE [tables EXCEPT ![dir] = Append(@, c)]
    /\ UNCHANGED <<engine, puts, search, outcome>>

Racing(dir) == putting # None /\ putting[1] = dir

------------------------------------------------------------------------------
(* A conversion.                                                           *)

\* by: the class whose coercion was applied, None if none was, or the exception.
Finish(s, by, value) ==
    /\ outcome' = [dir |-> s.dir, class |-> s.class, given |-> s.given,
                   raced |-> s.raced, by |-> by, value |-> value]
    /\ search' = [at |-> "idle"]

Begin(dir, c, o, given) ==
    LET s == [dir |-> dir, class |-> c, value |-> o, given |-> given,
              at |-> "get", i |-> 1, size |-> 0, raced |-> putting # None]
    IN IF dir = "toJava" /\ (c = o.class \/ <<c, o.class>> \in Assignable)
       THEN Finish(s, None, o)
       ELSE IF dir = "toJava" /\ c \in Numeric /\ o.class = "Double"
       THEN Finish(s, None, Value(c, Narrow(c, o.n)))
       ELSE search' = s /\ outcome' = None

\* Java passes an object to a function of script (coerceJavaArgsToJavaScript).
Send(o) ==
    /\ Begin("toJS", o.class, o, o)
    /\ UNCHANGED <<engine, tables, putting, puts>>

\* Script passes a value to a parameter of class c.
Receive(v, c) ==
    /\ Begin("toJava", c, ToJava(v), v)
    /\ UNCHANGED <<engine, tables, putting, puts>>

\* What Java sent comes back to a parameter of its own class.
TakeBack ==
    /\ outcome # None /\ outcome.dir = "toJS" /\ outcome.value # None
    /\ Begin("toJava", outcome.class, ToJava(ToScript(outcome.value)), outcome.given)
    /\ UNCHANGED <<engine, tables, putting, puts>>

\* The value is where it was to go, or the exception with the caller.
Delivered ==
    /\ outcome # None
    /\ outcome' = None
    /\ UNCHANGED <<engine, tables, putting, puts, search>>

\* What the coercion registered for class by may make of o for class c: the
\* constructor's coercions, or the application's, which may decline with null.
Coerced(dir, by, c, o) ==
    CASE by \in Classes -> {Plain(IF dir = "toJava" THEN c ELSE "String"), None}
      [] by = "Enum" -> {Plain(IF dir = "toJava" THEN c ELSE "String")}
      [] by \in Numeric /\ dir = "toJS" ->
            {Value(CASE by \in {"Byte", "Short"} -> "Integer"
                     [] by = "Float" -> "Double"
                     [] by = "Long" -> "String", o.n)}
      [] by \in Numeric /\ dir = "toJava" ->
            {IF o.class = "String" /\ c \in Integral /\ ~Represents(c, o.n)
             THEN Plain("NumberFormatException")
             ELSE Value(c, Narrow(c, o.n))}

\* A coercion that answers null leaves the object as it is.
Apply(s, by) ==
    \E v \in Coerced(s.dir, by, s.class, s.value) : Finish(s, by, IF v = None THEN s.value ELSE v)

\* A loop begins: its iterator remembers the size (modCount) of the map.
Loop(s, at) == [s EXCEPT !.at = at, !.i = 1, !.size = Len(tables[s.dir])]

\* coerce.get(clazz)
Lookup ==
    /\ search.at = "get"
    /\ \/ Contains(tables[search.dir], search.class) /\ Apply(search, search.class)
       \/ /\ ~Contains(tables[search.dir], search.class) \/ Racing(search.dir)
          /\ search' = Loop(search, IF search.dir = "toJava" THEN "specific" ELSE "general")
          /\ UNCHANGED outcome
    /\ UNCHANGED <<engine, tables, putting, puts>>

Extends(a, b) == a = b \/ <<a, b>> \in Assignable

\* Mutant: isAssignableFrom the wrong way round.
ExamineSwapped(s, entry) ==
    IF s.at = "specific" /\ Extends(s.class, entry) THEN Finish(s, "AssertionError", None)
    ELSE IF s.at = "general" /\ Extends(s.class, entry) THEN Apply(s, entry)
    ELSE search' = [s EXCEPT !.i = @ + 1] /\ UNCHANGED outcome

\* The body of a loop, for its next entry.
Examine(s, entry) ==
    IF s.at = "specific" /\ Extends(s.class, entry) THEN Finish(s, "AssertionError", None)
    ELSE IF s.at = "general" /\ Extends(entry, s.class) THEN Apply(s, entry)
    ELSE search' = [s EXCEPT !.i = @ + 1] /\ UNCHANGED outcome

\* One round of a loop.  The iterator fails if the map has grown since it was made.
Iterate ==
    /\ search.at \in {"specific", "general"}
    /\ IF search.i > search.size
       THEN IF search.at = "specific"
            THEN search' = Loop(search, "general") /\ UNCHANGED outcome
            ELSE Finish(search, None, search.value)
       ELSE IF Len(tables[search.dir]) # search.size
       THEN Finish(search, "ConcurrentModificationException", None)
       ELSE Examine(search, tables[search.dir][search.i])
    /\ UNCHANGED <<engine, tables, putting, puts>>

Idle == ~Searching /\ outcome = None

Next ==
    \/ \E dir \in Directions, c \in Classes : PutBegin(dir, c)
    \/ PutEnd
    \/ Idle /\ \E o \in Boxes \cup {Plain(c) : c \in Classes} : Send(o)
    \/ Idle /\ \E v \in ScriptValues, c \in Numeric : Receive(v, c)
    \/ Idle /\ \E c \in Classes : Receive(Plain("String"), c)
    \/ TakeBack \/ Delivered \/ Lookup \/ Iterate

Spec == Init /\ [][Next]_vars

------------------------------------------------------------------------------
(* Correctness.                                                            *)

\* The LinkedHashMaps hold each class once, and a box holds a number of its class.
TypeOK ==
    /\ engine \in {"quickjs", "duktape"} /\ puts \in 0 .. MaxPuts
    /\ \A dir \in Directions : IsInjective(tables[dir])
    /\ outcome # None =>
         /\ outcome.by \in Numeric \cup Classes \cup Exceptions \cup {"Enum", None}
         /\ outcome.value = None \/ outcome.value.class \notin Numeric \/ outcome.value \in Boxes

Undisturbed == outcome # None /\ ~outcome.raced

\* coerceJavaToJavaScript, the marshalling of both engines and
\* coerceJavaScriptToJava together: a number that Java passes to script and takes
\* back as the class it had is the same number, whichever tags, classes and strings
\* it went through.  A long that a double cannot hold is exempt in QuickJS.
NumbersComeBack ==
    Undisturbed /\ outcome.dir = "toJava" /\ outcome.given.class \in Numeric =>
        \/ outcome.value = outcome.given
        \/ engine = "quickjs" /\ outcome.class = "Long"
           /\ ~Represents("Double", outcome.given.n)

\* coerceJavaScriptToJava: a number or numeral of script arrives as an instance of
\* the numeric parameter's class, which Method.invoke insists on, and as itself if
\* the class has it; only a numeral may be refused.
ParameterFits ==
    Undisturbed /\ outcome.dir = "toJava" /\ outcome.class \in Numeric
      /\ outcome.given.class \notin Numeric =>
        \/ /\ outcome.value.class = outcome.class
           /\ Represents(outcome.class, outcome.given.n) => outcome.value.n = outcome.given.n
        \/ /\ outcome.given.class = "String"
           /\ ~Represents(outcome.class, outcome.given.n)
           /\ outcome.value = Plain("NumberFormatException")

\* The coercion that a search for class c should end with.
Expected(dir, c) ==
    LET t == tables[dir]
        general(e) == Extends(e, c)
        i == SelectInSeq(t, general)
    IN CASE Contains(t, c) -> c
         [] ~Contains(t, c) /\ dir = "toJava" /\ (\E e \in Range(t) : Extends(c, e)) ->
               "AssertionError"
         [] OTHER -> IF i = 0 THEN None ELSE t[i]

\* The searches of JSEngineContext: undisturbed, they end with the coercion of the
\* class, else of the first registered superclass; a ConcurrentModificationException
\* means that a class was added meanwhile, not that one was registered again.
SearchRight ==
    [][Searching /\ ~Searching' /\ search.class \in Classes =>
         /\ ~search.raced => outcome'.by = Expected(search.dir, search.class)
         /\ outcome'.by = "ConcurrentModificationException" =>
              \E c \in Classes : IsPrefix(Append(SubSeq(tables[search.dir], 1, search.size), c),
                                          tables[search.dir])]_vars
=============================================================================
