\* TLC messages for three steps reach one node in any order and number.
SPECIFICATION CatchUpSpec
CONSTANTS
    n1 = n1
    n2 = n2
    n3 = n3
    c1 = c1
    a = a
    b = b
    c = c
    None = None
    Node = {n1, n2, n3}
    PaxosID <- Ids
    PaxosThreshold = 2
    Call = {c1}
    CallNode <- OnNode
    CallKind <- File
    CallName <- Asks
    Name = {a, b, c}
    MaxAttempt = 3
    MaxStep = 3
INVARIANTS
    
    
    NamingReplays
\* The messages run out.
CHECK_DEADLOCK FALSE
