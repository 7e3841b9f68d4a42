\* One thread closes the context while another is in a debugger method.
CONSTANTS
    Threads = {t1, t2}
    Workers = {}
    Ops = {"debug", "close"}
    CallbackOps = {}
    MaxDepth = 1
    MaxJobs = 1
    MaxQueue = 1
    MaxTasks = 3
    None = None
SPECIFICATION Spec
INVARIANT
    DebuggerContextLive
