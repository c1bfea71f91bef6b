SPECIFICATION Spec
CONSTANTS
    U16Values = 16
    U32Values = 64
    MaxShortWrites = 0
    ShortSizes = {}
    MaxRefusals = 0
    Script <- MCScript
    Dropped <- MCDropped
    Config <- MCConfig
    MaxMemoryCells = 6
    MaxConnections = 2
    MaxBreaks = 1
INVARIANTS
    NothingLost
