CONSTANTS
    MaxSeq = 3
    None = None
    Restarts = "offline"
SPECIFICATION FairSpec
INVARIANTS TypeOK NoSilentGap HandedOnce CursorCovered
PROPERTIES ChangesArrive
