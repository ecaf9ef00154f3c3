\* Without compaction, the log a restart would replay only grows by appends.
CONSTANTS
    SegmentSize = 1
    MaxWrites = 4
    MaxCrashes = 2
    MaxFaults = 2
    MaxCompactions = 0
    Tears = {}
SPECIFICATION Spec
PROPERTY Refinement
CHECK_DEADLOCK FALSE
