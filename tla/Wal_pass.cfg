\* Write with rotation, process crashes (no torn frames), one failed
\* flush or fsync, one compaction.  The WAL stops once its writes are
\* spent, or after a replay fails.
CONSTANTS
    SegmentSize = 1
    MaxWrites = 4
    MaxCrashes = 2
    MaxFaults = 1
    MaxCompactions = 2
    Tears = {}
SPECIFICATION Spec
INVARIANTS TypeOK AckedDurable
CHECK_DEADLOCK FALSE
