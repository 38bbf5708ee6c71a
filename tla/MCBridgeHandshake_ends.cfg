SPECIFICATION FairSpec
CONSTANTS
    Modes = {"Fail", "UseDefaultScope", "AwaitWorker"}
    Stream = {"g1", "g2"}
    Roots = {"A"}
    MaxRounds = 2
    None = None
INVARIANTS ActiveScopeIsCommitted InitializedFirst
PROPERTIES HandshakeEnds
CHECK_DEADLOCK FALSE
