SPECIFICATION Spec
CONSTANTS
    ReadOffset = 2
    MaxSleeps = 1
    Frequency = 4
    Word = 8
    PointBeats = 2
    LengthRange = 12
    Skid = 1
    Samples = {1, 3, 7}
    MicIdx = {7, 8}
    MaxTransfers = 3
    MaxFailed = 1
INVARIANTS
    TypeOK
    RowsOfTransfer
    CounterInStep
    DmaInv
PROPERTY
    CommandReturns
