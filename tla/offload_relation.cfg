\* Two offloading cores exchange their cores, and exchange them back.
SPECIFICATION Spec
CONSTANTS
    W = 2
    E = 2
    BURST = 1
    RING = 1
    WORD = 2
    MaxEpoch = 2
    RatioCores = {}
    ShardCores = {}
CONSTRAINT Defined
INVARIANTS
    QueuePolled
    NobodyElsePolls
