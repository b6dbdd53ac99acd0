CONSTANTS
    Keys <- MCKeys
    Deltas <- MCDeltas
    ValueBits = 2
    InitSize = 2
    BucketFactor = 1
    MaxSize = 8
    StoreOrderPreserved = TRUE

SPECIFICATION Spec

INVARIANT TypeOK
INVARIANT ChainsWellFormed
INVARIANT TravelAgreesWithLookup
INVARIANT ReaderSeesPublishedNodes
PROPERTY AbsSpec
