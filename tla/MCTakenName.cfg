\* Two peers ask for one name, in successive steps.
SPECIFICATION Spec
CONSTANTS
    n1 = n1
    n2 = n2
    n3 = n3
    c1 = c1
    c2 = c2
    a = a
    b = b
    None = None
    Node <- TwoNodes
    PaxosID <- IdsOfTwo
    PaxosThreshold = 2
    Call = {c1, c2}
    CallNode <- RivalNodes
    CallKind <- BothUser
    CallName <- SameName
    Name = {a}
    MaxAttempt = 1
    MaxStep = 2
INVARIANTS
    UsernameOwned
\* Calls end, and clients and the bounds may allow no more.
CHECK_DEADLOCK FALSE
