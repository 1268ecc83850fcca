\* RATE 0: what a reset does once the limit was reached.
SPECIFICATION FairSpec
CONSTANTS
    NFLOWS = 1  FLOWSIZE = 1  FLOWBURST = 1  MAXBATCH = 2  WORD = 4  PORTS = 2
    RateLimited = FALSE  Sequential = TRUE  Stop = FALSE
    Limits <- SomeLimits
PROPERTIES
    ResetRestarts
