CONSTANTS
    Views = {v1, v2}
    Flaky = {v1}
    MaxScope = 2
    MaxRevision = 2
    MaxFrames = 1
    None = None
    Undefined = Undefined
    Unread = Unread
SPECIFICATION Spec
INVARIANTS TypeOK ViewLaw
PROPERTIES NeverBack GapEndsWithProof
