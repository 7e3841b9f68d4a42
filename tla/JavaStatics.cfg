\* Static fields of the same name in two classes, one thread.
CONSTANTS
    a = a
    b = b
    classA = classA
    classB = classB
    map = map
    array = array
    proxy = proxy
    None = None
    Threads = {t1}
    Targets <- JavaObjects
    Requests <- StaticRequests
    ClassOf <- MCClassOf
    Stands <- MCStands
    Maps = {map}
    Arrays = {array}
    Proxies = {proxy}
    Fields <- MCFields
    Methods <- MCMethods
    DeclaredMethods <- MCDeclaredMethods
    Constructors <- MCConstructors
    Interfaces <- MCInterfaces
    Coercible <- MCCoercible
    Assignable <- MCAssignable
    Numbers = {"long", "double", "Double"}
    Longs = {"long"}
    StringClass = "String"
    Void = {"void"}
    MaxRequests = 3
SPECIFICATION Spec
INVARIANTS
    StaticsFound
CHECK_DEADLOCK FALSE
