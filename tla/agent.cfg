\* Connections that close and reopen, an operator who stops and connects at any moment,
\* two actions whose processes may hang, requested any number of times.
SPECIFICATION FairSpec
CONSTANTS
    g1 = g1
    g2 = g2
    a1 = a1
    a2 = a2
    Generations = {g1, g2}
    Actions = {a1, a2}
    Steps <- StatusAndRestart
    Limit = 2
    KillGrace = 1
    MaxLeft = 2
    Modulus = 3
    None = None
INVARIANTS
    AgentInv
PROPERTIES
    Conversation
    Recovers
