SPECIFICATION DeliverySpec
CONSTANTS
    Op = {o1, o2}
    Waiter = {}
    Queued = {}
    Alerted = {}
    Watchdog = FALSE
    CancelsAll = FALSE
    Suspends = FALSE
    MaxHistory = 2
    None = None
    Call = {c1}
INVARIANTS DeliveryTypeOK PrependedOnce OwedIsDelivered
PROPERTIES LedgerKeepsRunning
SYMMETRY OpCallSymmetry
