SPECIFICATION FairSpec
CONSTANTS
    Op = {o1, o2}
    Waiter = {w1}
    Queued = {o1}
    Alerted = {}
    Watchdog = FALSE
    CancelsAll = FALSE
    Suspends = FALSE
    MaxHistory = 1
    None = None
PROPERTIES MissedInTransitOnly EveryOperationSettles EveryWaitAnswered
