SPECIFICATION Spec
CONSTANTS
    HeaderSize = 1
    PayloadSizes = {1, 2}
    PublishEvery = 2
    PlainCallbacks = TRUE
    MaxMessages = 2
    MaxDiskFaults = 1
INVARIANTS
    TypeOK
    IndexMatchesVideo
    PluginsIsolated
    MetaIsFinal
    NothingWholeWaits
PROPERTIES
    SessionEnds
