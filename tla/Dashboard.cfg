SPECIFICATION Spec
CONSTANTS
    Sessions = {s1, s2}
    Tabs = {t1}
    QueueSize = 2
    PublishEvery = 2
    SocketSize = 1
    MaxFrames = 2
    MaxConnects = 2
INVARIANTS
    TypeOK
PROPERTIES
    ViewsNeverGoBack
    FreshestIsShown
    DeadSubscriptionsGo
CHECK_DEADLOCK FALSE
