\* Three packets in bursts of two: the counters wrap, a ring's entries are used
\* again, and q can overflow.  The flow may fall silent.
SPECIFICATION FairSpec
CONSTANTS
    BURST = 2
    QSIZE = 2
    ENTRIES = 2
    WORD = 2
    MaxPkts = 3
INVARIANTS
    TypeOK   OneStatePerFlow StateExact

    
CHECK_DEADLOCK FALSE
