\* Every number of the scaled classes both ways, on both engines; three classes of
\* the application in a row.
CONSTANTS
    Limit <- Limits
    Rounded <- Nearest
    Classes = {"Shape", "Round", "Circle"}
    Assignable <- Inherits
    MaxPuts = 2
    None = None
SPECIFICATION Spec
INVARIANTS
    TypeOK
    NumbersComeBack
    ParameterFits
PROPERTY
    SearchRight
CHECK_DEADLOCK FALSE
