\* What the documentation says of `nctl ops close`: CloseSettles.
CONSTANTS
    Closers = {"ann", "bob"}
    StaleAfter = 0
    MaxEvents = 2
    MaxClock = 1
    MaxFaults = 2
SPECIFICATION Spec
PROPERTY
    CloseSettles
