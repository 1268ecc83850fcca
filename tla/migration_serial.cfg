\* Epochs 100 ms apart: each begins when the cores are done with the last one.
\* Fair scheduling of the controller and of every working core.
SPECIFICATION FairSpec
CONSTANTS
    W = 2  NS = 3  BURST = 1  QSIZE = 2  NDESC = 2  RING = 3  WORD = 8
    MaxEpoch = 2  Budget <- FirstTwo  Overlap = FALSE
INVARIANTS
    TypeOK ReleasedShardHasOneCore OwnerFollowsAssignment
PROPERTIES
    RetaAfterPause PauseReleased PacketsProcessed
