CONSTANTS
    Execs = {e1}
    Jobs = {j1, j2}
    Calls = {c1, c2, c3}
    Outcomes = {"completed", "invalid"}
    Preemption = TRUE
    NoExec = NoExec
    NoJob = NoJob
SPECIFICATION Spec
SYMMETRY Symmetry
INVARIANTS
    TypeOK
    AtMostOneJob
    FailedMeansNoJob
    EndedWithoutResultIsFinal
    KnownJobIsOwn
