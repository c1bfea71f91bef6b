SPECIFICATION Spec
CONSTANTS
    SensorOrientation = 90
    Overrides = {"auto", "camera2", "arcore"}
    Availabilities = {"SUPPORTED_INSTALLED", "other"}
    Failing = {"encoder", "sink", "arcore", "camera", "sampler"}
INVARIANTS
    TypeOK
    AllOrNothing
    CallsFindAnOpenSink
    FramesHaveTheirConfig
    PreviewSurvivesCaptures
