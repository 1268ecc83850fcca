\* Sequential flows in bursts of two, rate limited; the driver is not stopped.
SPECIFICATION FairSpec
CONSTANTS
    NFLOWS = 2  FLOWSIZE = 3  FLOWBURST = 2  MAXBATCH = 2  WORD = 4  PORTS = 2
    RateLimited = TRUE  Sequential = TRUE  Stop = FALSE
    Limits <- SomeLimits
INVARIANTS
    FlowsTakeTurns FlowSizeKept
PROPERTIES
    ResetRestarts
