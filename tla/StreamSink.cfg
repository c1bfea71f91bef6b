SPECIFICATION Spec
CONSTANTS
    Kinds = {"video_chunk", "imu_batch"}
    Sizes = {1, 2}
    MaxMemoryBytes = 3
    SpoolOpenOutcomes = {"both", "write_only", "neither"}
    PeerStalls = TRUE
    MaxMessages = 2
    MaxConfigs = 1
    MaxFaults = 2
INVARIANTS
    TypeOK
    MemoryBounded
    WireAscending
    ConfigFirstIfCached
PROPERTIES
    LostOnlyWithoutSpool
    FifoSpec
CHECK_DEADLOCK FALSE
