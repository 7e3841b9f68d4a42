\* Every kind of method, from threads and from callbacks, close included; the
\* executor comes and goes and has one worker, which also calls methods.
CONSTANTS
    Threads = {t1, t2}
    Workers = {t2}
    Ops = {"invoke", "access", "unchecked", "debug", "gc", "close"}
    CallbackOps = {"invoke", "close"}
    MaxDepth = 3
    MaxJobs = 1
    MaxQueue = 1
    MaxTasks = 2
    None = None
SPECIFICATION FairSpec
INVARIANTS
    TypeOK
    OneThreadRunsScript
    CloseHurtsOnlyItself
    QueueLockBrief
PROPERTY
    NoStrandedJobs
    FinalizationsApplied
    FinalizerNeverBlocks
