SPECIFICATION TSpec
CONSTANTS
    s1 = s1  alice = alice
    Source = {s1}
    Peer = {alice}
    Owner <- OneOwner
    Disco = {d1}
    Second = 1
    Window = 1
    Skew = 0
    Retention = 3
    PendingTTL = 2
    Budget = 1
    SourceRate = 1  PeerRate = 1  GlobalRate = 1
    MaxBuckets = 1
    MaxReplay = 3
    MaxPending = 2
    MaxOwned = 2
    MaxTime = 3
    MaxAttempts = 2
    MaxRestarts = 1
    Hook = TRUE
    Lifetime = 3
    MaxSessions = 1
    MaxPeers = 1
    MaxAdmissions = 1
INVARIANT InstallationsSound
PROPERTIES HandshakeHolds AgreementHolds
CHECK_DEADLOCK FALSE
