SPECIFICATION Spec
CONSTANTS
    alice = alice  bob = bob
    NoFile = NoFile  Partial = Partial  NoJob = NoJob
    Identity = {alice, bob}
    Name = {1, 2}
    Period = 2
    MaxFailures = 2
    MaxAge = 7
INVARIANTS Inv RevokedInTime Converges
SYMMETRY Identities
