\* Puts and gets, both processes shared with other transfers, faults.
CONSTANTS
    a = a
    b = b
    Hole = Hole
    Missing = Missing
    MaxBlocks = 2
    Block <- HoleAndData
    Shared <- Processes
SPECIFICATION FairSpec
INVARIANTS Consistent CheckIsTrue
PROPERTIES CopyIsKept TransferEnds
\* Both sides have ended or are stuck for good.
CHECK_DEADLOCK FALSE
