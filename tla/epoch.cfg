\* Two cores on one shard (a migration in progress); packets may keep coming
\* for ever and the controller must still finish.
SPECIFICATION FairSpec
CONSTANTS
    Workers = {w1, w2}
    Flows = {f1}
    NoFlow = NoFlow
    Cap = 1
INVARIANTS
    RefCountExact GracePeriod OneLateRecord RecordsOrdered NoDoubleCount
PROPERTIES
    WaitsEnd
