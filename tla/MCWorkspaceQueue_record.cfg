SPECIFICATION FairSpec
CONSTANTS
    Op = {"a", "b", "c"}
    Prober = {}
    Proc = {"s1", "s2"}
    Home <- MCHome
    Parent <- MCParent
    Below <- MCBelow
    SoftHold = {"a"}
    Leaves = {"a"}
    Dropped = {}
    Mortal = {"s1"}
    Unopenable = {"s2"}
    Confined = {}
    None = None
INVARIANTS RecordNamesHolder LiveRecordHolds
PROPERTIES EveryTicketServed
