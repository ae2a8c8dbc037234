CONSTANTS
    Execs = {e1}
    Jobs = {j1}
    Calls = {c1, c2}
    Clients = {p1}
    Outcomes = {"completed", "preflight_failed"}
    Preemption = FALSE
    NoExec = NoExec
    NoJob = NoJob
    NoCall = NoCall
    MaxCommands = 1
    MaxLost = 1
    MaxCrashes = 0
SPECIFICATION BackendSpec
SYMMETRY Symmetry
CHECK_DEADLOCK FALSE
PROPERTY KnownJobIsKept
