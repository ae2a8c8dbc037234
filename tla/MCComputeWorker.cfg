CONSTANTS
    Root = root
    Descendants = {child}
    Streams = {out}
    Limit = 1
    PipeCapacity = 2
    MaxWritten = 2
    MaxInterrupts = 2
    WorkingDirectories = {"canonical", "symlinked"}
    NodeCounts = {1, 2}
    CpuCounts = {1, 2, 4}
    RankCounts = {1, 2, 4}
    GpuCounts = {0, 2}
    MaxEdits = 2
    MaxIncarnations = 2
SPECIFICATION FairSpec
CHECK_DEADLOCK FALSE
INVARIANTS
    CaptureIsFaithful InterruptStopsGroup NoFalseShortfall VerificationIsJustified VerdictIsTrue
PROPERTIES PublishedIsAccepted CommandEnds
