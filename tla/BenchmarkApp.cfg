SPECIFICATION Spec
CONSTANTS
    Processors <- MCProcessors
    Kind <- MCKind
    MaxBuffers = 1
    MaxRois = 3
INVARIANTS
    StatisticsTimed
    RoiMeansTracking
    StaleResultsBounded
