SPECIFICATION Spec
CONSTANTS
    ConnectTime = 6
    SendTime = 0
    MinBackoff = 1
    MaxBackoff = 16
    WaitTime = 1
    DrainTime = 10
    MaxQueued = 2
INVARIANTS
    CloseIsCapped
