SPECIFICATION Spec
CONSTANTS
    s1 = s1  alice = alice
    Source = {s1}
    Peer = {alice}
    Owner <- OneOwner
    Second = 2
    Window = 1
    Skew = 1
    Retention = 3
    PendingTTL = 3
    Budget = 2
    SourceRate = 2  PeerRate = 2  GlobalRate = 1
    MaxBuckets = 1
    MaxReplay = 2
    MaxPending = 2
    MaxOwned = 2
    MaxTime = 3
    MaxAttempts = 2
    MaxRestarts = 1
INVARIANTS Inv EncapsulatedOnce FinishNotExpired OneOutstanding ReplayHasRoom
PROPERTY NoRollback
CHECK_DEADLOCK FALSE
