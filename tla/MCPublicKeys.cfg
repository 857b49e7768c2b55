SPECIFICATION RestartSpec
CONSTANTS
    n1 = n1
    n2 = n2
    n3 = n3
    None = None
    Node = {n1, n2, n3}
    Peers <- Line
    Asks <- MiddleAsks
    MaxSent = 7
    MaxLife <- LastRestarts
INVARIANTS
    TypeOK
    OwnKey
    KeyGenuine
    SafeFromOwner
PROPERTIES
    SafeFixed
\* A peer may have crashed.
CHECK_DEADLOCK FALSE
