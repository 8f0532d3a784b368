CONSTANTS
    Ids = {1, 2}
    MaxLength = 2
    MaxVersion = 3
    MaxFrames = 3
    None = None
SPECIFICATION TranscriptSpec
INVARIANTS TranscriptTypes CommittedShown
PROPERTIES TextStays
