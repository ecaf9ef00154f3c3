\* A crash or a failed flush leaves a frame cut short.
CONSTANTS
    SegmentSize = 1
    MaxWrites = 3
    MaxCrashes = 1
    MaxFaults = 1
    MaxCompactions = 0
    Tears = {"short"}
SPECIFICATION Spec
INVARIANT StartupSucceeds
CHECK_DEADLOCK FALSE
