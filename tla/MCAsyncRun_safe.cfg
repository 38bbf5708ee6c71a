SPECIFICATION Spec
CONSTANTS
    Op = {"a", "m"}
    Proc = {"s1", "sub"}
    Home <- MCHome
    Parent <- MCParent
    Pty = {"m"}
    Unqueued = {}
    SoftHold = {"a"}
    NoLease = {}
    Gated = {"a"}
    NoLockDir = {"s1"}
    Leaves = {"a"}
    ShutsDown = {"s1", "sub"}
    None = None
INVARIANTS  LeaderUnderLease  ShutdownReachesTasks
CHECK_DEADLOCK FALSE
