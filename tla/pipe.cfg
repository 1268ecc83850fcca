\* Two requests, one process killed at any point, pipes of two parts.
\* The processes may end up waiting for each other: no deadlock check.
SPECIFICATION FairSpec
CONSTANTS
    MaxReq = 2
    MaxCrash = 1
    PIPE = 2
INVARIANTS
    AnswerIsMine
    EofNeedsThrow
PROPERTIES
    ImplementsCall
CHECK_DEADLOCK FALSE
