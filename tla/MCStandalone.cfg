SPECIFICATION StandaloneSpec
CONSTANTS
    Interval = 9
    SessionLifetime = 19
    GapMax = 3
    ProbePeriod = 6
    ProbeTimeout = 2
    RenewTimeout = 5
    Retry = 1
    Sleeps = {2, 20}
    Steps <- ClockSteps
    MaxDisturb = 3
    Chunk = 2
    MaxDatagram = 5
    MaxFragments = 3
    MaxAssemblies = 2
    AssemblyLifetime = 2
    Garbage <- MCGarbage
    Sizes = {0, 3}
    MaxRepeats = 1
    MaxWrites = 3
    MaxTime = 2
    MaxPort = 3
    MaxEntries = 2
    MaxLines = 3
INVARIANTS RenewalInv FrameHolds ArgumentsHold
CHECK_DEADLOCK FALSE
