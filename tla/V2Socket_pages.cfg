CONSTANTS
    agentA = agentA
    messageA = messageA
    Sessions <- MCSessions
    AgentSessions <- MCAgents
    Feed = feed
    NoSocket = NoSocket
    BackoffCap = 1
    Subscribers = {p1, p2}
    Sockets = {s1, s2}
    SendMayFail = TRUE
    ClosingVisible = TRUE
SPECIFICATION WindowFairSpec
INVARIANTS TypeOK ConnectionLaw WireMatchesRegistry GapAnnouncedElse
PROPERTIES AnnouncedOnlyAfterLoss LiveLinkElse SubscribersServed
