\* E = 1, as the experiments configure it.
SPECIFICATION Spec
CONSTANTS
    W = 1
    E = 1
    BURST = 1
    RING = 1
    WORD = 2
    MaxEpoch = 1
    RatioCores = {0}
    ShardCores = {0}
INVARIANTS
    SingleConsumer
