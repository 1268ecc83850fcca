\* Two flows; one request near what one flow can give, one near the whole
\* shard.  Three epochs: packets are counted in the first, become shares in
\* the second, and the ratio of the third is made from them.
SPECIFICATION Spec
CONSTANTS
    Flows = {f1, f2}
    NoFlow = NoFlow
    ONE = 120
    Requests = {50, 100}
    MaxBytes = 2
    MaxEpoch = 3
SYMMETRY FlowSymmetry
INVARIANTS
    LargestOffloaded RatioMet SharesOfOneEpoch VolumeNotStale 
