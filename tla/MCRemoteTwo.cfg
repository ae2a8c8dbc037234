CONSTANTS
    Execs = {e1}
    Jobs = {j1, j2}
    Calls = {c1, c2}
    Clients = {p1, p2}
    Outcomes = {"completed", "preflight_failed"}
    Preemption = TRUE
    NoExec = NoExec
    NoJob = NoJob
    NoCall = NoCall
    MaxCommands = 3
    MaxLost = 0
    MaxCrashes = 0
SPECIFICATION BackendSpec
SYMMETRY Symmetry
CHECK_DEADLOCK FALSE
INVARIANTS BackendInv
PROPERTY ImplementsContract
