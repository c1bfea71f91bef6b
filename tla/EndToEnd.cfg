SPECIFICATION FairSpec
CONSTANTS
    U16Values = 16
    U32Values = 64
    MaxShortWrites = 1
    ShortSizes = {2}
    MaxRefusals = 1
    Script <- MCScript
    Dropped <- MCDropped
    Config <- MCConfig
    MaxMemoryCells = 6
    MaxConnections = 2
    MaxBreaks = 1
INVARIANTS
    TypeOK
    QueueIsTheRest
    RecordedAsWritten
    LossOnlyAtDrops
    DamageIsLocal
PROPERTIES
    EverythingArrives
