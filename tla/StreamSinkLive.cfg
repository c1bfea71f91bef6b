SPECIFICATION FairSpec
CONSTANTS
    Kinds = {"video_chunk", "imu_batch"}
    Sizes = {1}
    MaxMemoryBytes = 1
    SpoolOpenOutcomes = {"both"}
    PeerStalls = FALSE
    MaxMessages = 2
    MaxConfigs = 1
    MaxFaults = 2
INVARIANTS
    OverflowIffSpooled
PROPERTIES
    GivesUpOnlyForCause
    EventuallyDrained
    SettlesConfigured
    CloseReturns
