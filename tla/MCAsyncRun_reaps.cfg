SPECIFICATION FairSpec
CONSTANTS
    Op = {"a"}
    Proc = {"s1"}
    Home <- MCHome
    Parent <- MCParent
    Pty = {}
    Unqueued = {}
    SoftHold = {}
    NoLease = {}
    Gated = {}
    NoLockDir = {}
    Leaves = {"a"}
    ShutsDown = {}
    None = None
PROPERTIES CancelReapsTree
CHECK_DEADLOCK FALSE
