SPECIFICATION Spec
CONSTANTS
    Op = {"a", "b", "c", "n"}
    Prober = {"g"}
    Proc = {"s1", "s2", "sub", "hook"}
    Home <- MCHome
    Parent <- MCParent
    Below <- MCBelow
    SoftHold = {"a"}
    Leaves = {"a"}
    Dropped = {"a"}
    Mortal = {"s1"}
    Unopenable = {"hook"}
    Confined = {"s2"}
    None = None
INVARIANTS MutualExclusion NoLostWakeup NoStaleLock InheritedUnlessHandedOn
PROPERTIES FreeProbeIsRight ImplementsLease
