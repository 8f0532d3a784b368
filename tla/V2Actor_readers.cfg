CONSTANTS
    Readers = {r1, r2}
    MaxEpoch = 2
    MaxCount = 3
    MaxCommands = 2
    MaxFrames = 3
    None = None
SPECIFICATION FairSpec
INVARIANTS TypeOK CertifiedPrefix NoSilentLoss GapSharedByAll
PROPERTIES OwedIsServed
