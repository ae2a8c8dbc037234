CONSTANTS
    Procs = {p1, p2, p3}
    Statements <- StatementCounts
    Crashes = TRUE
SPECIFICATION FairSpec
CHECK_DEADLOCK FALSE
INVARIANTS MigrationIsWhole CurrentSchemaIsWide
PROPERTIES VersionNeverFalls MigrationCompletes
