SPECIFICATION Spec
CONSTANTS
    Kinds = {"video_chunk", "imu_batch"}
    Sizes = {1}
    MaxMemoryBytes = 2
    SpoolOpenOutcomes = {"both"}
    PeerStalls = FALSE
    MaxMessages = 1
    MaxConfigs = 1
    MaxFaults = 1
INVARIANTS
    ConfigBeforeChunks
