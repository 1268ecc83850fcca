\* One core and its offloading core, two epochs of ratio and shard changes.
SPECIFICATION FairSpec
CONSTANTS
    W = 1
    E = 1
    BURST = 1
    RING = 2
    WORD = 2
    MaxEpoch = 2
    RatioCores = {0}
    ShardCores = {0}
INVARIANTS
    NobodyElsePolls
    RingOnce
PROPERTIES
    RingServed
