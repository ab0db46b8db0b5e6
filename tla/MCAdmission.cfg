SPECIFICATION FairSpec
CONSTANTS
    Source = {n1, n2, n3}
    Peer = {alice, bob}
    Disco = {d1}
    Hook = TRUE
    Lifetime = 1
    MaxSessions = 2
    MaxPeers = 2
    MaxAdmissions = 1
    MaxTime = 1
    MaxJobs = 3
INVARIANT AdmissionInv
PROPERTIES NoTakeover InvalidRemoved ShutdownAnswers
CHECK_DEADLOCK FALSE
