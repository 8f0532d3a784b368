CONSTANTS
    Panes = {v1, v2}
    MaxAttempt = 3
    None = None
SPECIFICATION FairSpec
INVARIANTS TypeOK AuthorizedOnly Served ChannelSound
PROPERTIES TerminalDelivered
CHECK_DEADLOCK FALSE
