---------------------------- MODULE MCJavaObject ----------------------------
(* A small Java program for JavaObject.                                    *)
EXTENDS JavaObject

CONSTANTS a, b, classA, classB, map, array, proxy

JavaObjects == {a, b, classA, classB, map, array, proxy}

MCClassOf == (a :> "A") @@ (b :> "B") @@ (map :> "HashMap") @@ (array :> "int[]") @@
    (proxy :> "$Proxy") @@ [o \in {classA, classB} |-> "Class"]

MCStands == [o \in JavaObjects |-> CASE o = classA -> "A" [] o = classB -> "B" [] OTHER -> None]

Field(class, name, static, public) ==
    [class |-> class, name |-> name, static |-> static, public |-> public]

Method(class, name, params, ret, static, property) ==
    [class |-> class, name |-> name, params |-> params, ret |-> ret, static |-> static,
     property |-> property, alias |-> IF name = "f" THEN "call" ELSE "none"]

Empty == [c \in {"A", "B", "HashMap", "int[]", "$Proxy", "Class", "I"} |-> <<>>]

\* A and B both have a static s; x is a field of A and a property of B.
MCFields == [Empty EXCEPT
    !["A"] = <<Field("A", "x", FALSE, TRUE), Field("A", "s", TRUE, TRUE)>>,
    !["B"] = <<Field("B", "x", FALSE, FALSE), Field("B", "s", TRUE, TRUE)>>,
    !["$Proxy"] = <<Field("$Proxy", "m0", TRUE, FALSE)>>,
    !["Class"] = <<Field("Class", "name", FALSE, FALSE)>>]

\* f is overloaded in A; B inherits nothing from A; the Map has a getter of x, to which an
\* entry x is preferred, and a setter of y, which is preferred to an entry.
MCMethods == [Empty EXCEPT
    !["A"] = <<Method("A", "f", <<"Object">>, "void", FALSE, "none"),
               Method("A", "f", <<"long">>, "void", FALSE, "none"),
               Method("A", "f", <<"String">>, "void", FALSE, "none"),
               Method("A", "getX", <<>>, "String", FALSE, "x")>>,
    !["B"] = <<Method("B", "x", <<"String">>, "void", FALSE, "x"),
               Method("B", "x", <<>>, "String", FALSE, "x")>>,
    !["$Proxy"] = <<Method("$Proxy", "x", <<>>, "String", FALSE, "x")>>,
    !["HashMap"] = <<Method("HashMap", "getX", <<>>, "String", FALSE, "x"),
                     Method("HashMap", "y", <<"String">>, "void", FALSE, "y")>>,
    !["Class"] = <<Method("Class", "getName", <<>>, "String", FALSE, "none")>>]

MCDeclaredMethods == [Empty EXCEPT
    !["I"] = <<Method("I", "f", <<"Object">>, "void", FALSE, "none")>>]

MCConstructors == [Empty EXCEPT
    !["A"] = <<Method("A", "A", <<"double">>, "A", FALSE, "none"),
               Method("A", "A", <<"Double">>, "A", FALSE, "none")>>]

MCInterfaces == [[c \in DOMAIN Empty |-> <<>>] EXCEPT !["A"] = <<"I">>, !["I"] = None]

ParamClasses == {"Object", "long", "String", "double", "Double", "void"}
MCAssignable == {<<p, p>> : p \in ParamClasses} \cup
    {<<"Object", p>> : p \in {"String", "Double"}}

NoArgs == <<>>
Req(op, target, key, args) == [op |-> op, target |-> target, key |-> key, args |-> args]

\* Gets and sets of x on different kinds of target, overloads of f, a constructor.
AllRequests ==
    {Req("get", o, "x", NoArgs) : o \in {a, b, map}} \cup
    {Req("set", o, "x", NoArgs) : o \in {b, map, proxy}} \cup
    {Req("set", map, "y", NoArgs), Req("get", array, "length", NoArgs), Req("get", classA, "s", NoArgs),
     Req("get", a, "f", NoArgs)} \cup
    {Req("construct", o, "new", <<"Double">>) : o \in {a, classA, classB}} \cup
    {Req("call", a, "f", <<c>>) : c \in {"String", "Double"}}

\* The static s of two classes.
StaticRequests == {Req(op, o, "s", NoArgs) : op \in {"get", "set"}, o \in {classA, classB}}

MCCoercible == {MCDeclaredMethods["I"][1]}

ASSUME MembersAssumption == HashesTellApart

Symmetry == Permutations(Threads)
=============================================================================
