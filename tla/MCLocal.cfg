CONSTANTS
    Families = {"lsf", "slurm"}
    Execs = {1, 2}
    Jobs = {1, 2}
    Clients = {1, 2}
    Commands = {"execute", "status", "collect", "wait", "cancel"}
    Outcomes = {"completed"}
    Preemption = FALSE
    NoExec = NoExec
    NoJob = NoJob
    MaxCommands = 3
    MaxCrashes = 1
SPECIFICATION MCSpec
CHECK_DEADLOCK FALSE
INVARIANTS LocalInv LSFCollectionFailedIsFinal UnaccountedJobBlocksPlan
PROPERTIES ImplementsContract WaitEnds
