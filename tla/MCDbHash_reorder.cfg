CONSTANTS
    Keys <- MCKeys
    Deltas <- MCDeltas
    ValueBits = 2
    InitSize = 2
    BucketFactor = 1
    MaxSize = 8
    StoreOrderPreserved = FALSE

SPECIFICATION Spec

INVARIANT ReaderSeesPublishedNodes
