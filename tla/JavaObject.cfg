\* Two threads in different contexts, three requests between them.
CONSTANTS
    a = a
    b = b
    classA = classA
    classB = classB
    map = map
    array = array
    proxy = proxy
    None = None
    Threads = {t1, t2}
    Targets <- JavaObjects
    Requests <- AllRequests
    ClassOf <- MCClassOf
    Stands <- MCStands
    Maps = {map}
    Arrays = {array}
    Proxies = {proxy}
    Fields <- MCFields
    Methods <- MCMethods
    DeclaredMethods <- MCDeclaredMethods
    Constructors <- MCConstructors
    Interfaces <- MCInterfaces
    Coercible <- MCCoercible
    Assignable <- MCAssignable
    Numbers = {"long", "double", "Double"}
    Longs = {"long"}
    StringClass = "String"
    Void = {"void"}
    MaxRequests = 3
SYMMETRY Symmetry
SPECIFICATION Spec
INVARIANTS
    TypeOK
    AnswerBelongs
    MemberFound
    ExactOverloadWins
CHECK_DEADLOCK FALSE
