SPECIFICATION Spec
CONSTANTS
    Kibi = 4
    IntLimit = 8192
    MinimumBlockSize = 16
    MaximumBlockSize = 512
    DefaultBlockSize = 16
    MaxSizePerBlockByte = 1
    MinimumVolumeSize = 3
    DefaultVolumeSize = 5
    Calls <- TriedCalls
CHECK_DEADLOCK FALSE
INVARIANTS BlockSizeExact SizeWithinRange SmallOnlyWithBothBounds
