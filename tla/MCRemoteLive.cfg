CONSTANTS
    Execs = {1}
    Jobs = {1, 2}
    Calls = {1, 2}
    Clients = {p1}
    Outcomes = {"completed"}
    Preemption = FALSE
    NoExec = NoExec
    NoJob = NoJob
    NoCall = NoCall
    MaxCommands = 3
    MaxLost = 1
    MaxCrashes = 1
SPECIFICATION LiveSpec
CHECK_DEADLOCK FALSE
PROPERTIES WaitDelivers ImplementsContract
