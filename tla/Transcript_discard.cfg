CONSTANTS
    Ids = {1}
    MaxLength = 1
    MaxVersion = 3
    MaxFrames = 2
    None = None
SPECIFICATION TranscriptSpec
INVARIANTS DiscardedGone
