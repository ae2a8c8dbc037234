CONSTANTS
    Procs = {p1, p2}
    Statements <- StatementCounts
    Crashes = TRUE
SPECIFICATION Spec
CHECK_DEADLOCK FALSE
INVARIANT MigrationIsAtomic
