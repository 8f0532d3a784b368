CONSTANTS
    agentA = agentA
    messageA = messageA
    Sessions <- MCSessions
    AgentSessions <- MCAgents
    Feed = feed
    NoSocket = NoSocket
    BackoffCap = 2
    Subscribers = {p1}
    Sockets = {s1, s2}
    SendMayFail = FALSE
    ClosingVisible = TRUE
SPECIFICATION WindowSpec
INVARIANT GapAnnounced
