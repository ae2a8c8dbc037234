CONSTANTS
    Execs = {e1, e2}
    Jobs = {j1, j2}
    Calls = {c1, c2}
    Clients = {p1}
    Outcomes = {"completed"}
    Preemption = FALSE
    NoExec = NoExec
    NoJob = NoJob
    NoCall = NoCall
    MaxCommands = 3
    MaxLost = 2
    MaxCrashes = 0
SPECIFICATION BackendSpec
SYMMETRY Symmetry
CHECK_DEADLOCK FALSE
INVARIANTS FailedMeansNothingRuns CollectionFailedIsFinal
PROPERTY NewExecutionIsAccounted
