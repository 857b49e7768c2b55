\* Three peers: a proposer whose node advances between its two phases.
SPECIFICATION Spec
CONSTANTS
    n1 = n1
    n2 = n2
    n3 = n3
    c1 = c1
    c2 = c2
    a = a
    b = b
    None = None
    Node <- ThreeNodes
    PaxosID <- IdsOfThree
    PaxosThreshold = 2
    Call = {c1, c2}
    CallNode <- RivalNodes
    CallKind <- BothUser
    CallName <- SameName
    Name = {a}
    MaxAttempt = 1
    MaxStep = 1
CONSTRAINT LateRival
INVARIANTS
    Agreement
\* Calls end, and clients and the bounds may allow no more.
CHECK_DEADLOCK FALSE
