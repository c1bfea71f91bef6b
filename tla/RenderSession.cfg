SPECIFICATION FairSpec
CONSTANT
    Failing = {"session", "gl", "window", "resume", "fbo", "switch", "camera2"}
INVARIANTS
    TypeOK
    OneProducer
    LoopKeepsItsSession
    OneFailureLosesNoFrame
    EverythingReleased
PROPERTIES
    CallsReturn
