\* One loaded function of two lines, breakpoints in two files, every request, two
\* sessions; a client may have sent breakpoints and continue before it is accepted.
CONSTANTS
    Lines <- OneFile
    Paths = {"f", "g"}
    LineSets = {{}, {1, 2}}
    Openings <- Configured
    Kinds = {"continue", "next", "stepIn", "stepOut", "bareContinue", "pause",
             "inspect", "breakpoints", "stopOnException"}
    PeekEvery = 1
    MaxDepth = 2
    MaxSends = 2
    MaxSessions = 2
SPECIFICATION FairSpec
INVARIANTS
    TypeOK
    ClientViewRight
    StopsWhereAsked
    FaultsExplained
PROPERTY
    BreakpointsObeyed
    PausedIsReleased
    RunningClientHeard
CHECK_DEADLOCK FALSE
