\* One command, two operators closing, two failed writes.
CONSTANTS
    Closers = {"ann", "bob"}
    StaleAfter = 0
    MaxEvents = 2
    MaxClock = 1
    MaxFaults = 2
SPECIFICATION Spec
INVARIANTS
    TypeOK
    LogInv
    OwnEventsInOrder
    LossIsBounded
    ResultBeforeFinished
PROPERTIES
    HistoryKept
    DeadRunsSettle
