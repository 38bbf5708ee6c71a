SPECIFICATION Spec
CONSTANTS
    Op = {o1, o2}
    Waiter = {}
    Queued = {o1}
    Alerted = {o2}
    Watchdog = TRUE
    CancelsAll = TRUE
    Suspends = TRUE
    MaxHistory = 1
    None = None
INVARIANTS TerminalOrder HistoryInOrder
PROPERTIES ImplementsOutcome SleepIsNotSilence
