\* Every memory of 7 bytes that holds a NUL.
SPECIFICATION FairSpec
CONSTANTS
    N = 6
    Byte <- SomeBytes
INVARIANTS
    NoReadPastNul ResultCorrect
PROPERTIES
    Terminates
CHECK_DEADLOCK FALSE
