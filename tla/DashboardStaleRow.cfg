SPECIFICATION Spec
CONSTANTS
    Sessions = {s1}
    Tabs = {t1}
    QueueSize = 2
    PublishEvery = 1
    SocketSize = 1
    MaxFrames = 1
    MaxConnects = 1
INVARIANTS
    LiveTableIsRight
CHECK_DEADLOCK FALSE
