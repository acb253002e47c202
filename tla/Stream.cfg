\* Both threading modes, endpoint (stream.v2.go) and session (stream.v1.go);
\* ids do not wrap.
CONSTANTS
    ThreadingModes = {"endpoint", "session"}
    IdBits = 3
    PayloadLength = 1
    MaxSeq = 5
    WaitingListMaxSize = 2
    WaitingListMaxTTL = 2
    MaxTime = 3
    MaxLosses = 1
    MaxDuplicates = 1
    ReorderWindow = 5
SPECIFICATION Spec
INVARIANTS
    TypeOK
    WaitingListWellFormed
    
    SessionStreamGapFree
    DiscardOnlyStale
PROPERTIES
    EveryPacketDeliveredOrSkipped
    ImplementsInOrderDelivery
