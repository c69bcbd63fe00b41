CONSTANTS
    Warehouses = 4
    InstanceCount = 3
    HdrTill = 4
    MaxValue = 13
    SubBucketsPerOctave = 3
    Uint64Max = 1000
    ThreadCount = 2
    Samples <- MCSamples
    MaxSamples = 3
CHECK_DEADLOCK FALSE
SPECIFICATION Spec
INVARIANTS TypeOK Partitioned Balanced HonestResultsAccepted PublishedFiguresTrue
