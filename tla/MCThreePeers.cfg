\* Three peers, a majority of two, one call.
SPECIFICATION Spec
CONSTANTS
    n1 = n1
    n2 = n2
    n3 = n3
    c1 = c1
    c2 = c2
    a = a
    b = b
    None = None
    Node <- ThreeNodes
    PaxosID <- IdsOfThree
    PaxosThreshold = 2
    Call = {c1}
    CallNode <- OneCallNode
    CallKind <- OneUser
    CallName <- OneName
    Name = {a}
    MaxAttempt = 1
    MaxStep = 1
INVARIANTS
    DecisionBacked
    
\* Calls end, and clients and the bounds may allow no more.
CHECK_DEADLOCK FALSE
