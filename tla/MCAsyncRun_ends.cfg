SPECIFICATION FairSpec
CONSTANTS
    Op = {"a", "b", "n"}
    Proc = {"s1", "sub"}
    Home <- MCHome
    Parent <- MCParent
    Pty = {}
    Unqueued = {"b"}
    SoftHold = {}
    NoLease = {}
    Gated = {"a", "b", "n"}
    NoLockDir = {}
    Leaves = {}
    ShutsDown = {}
    None = None
INVARIANTS GateIsExclusive
PROPERTIES EveryTaskEnds CancelReapsTree
CHECK_DEADLOCK FALSE
