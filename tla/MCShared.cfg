\* Two calls on one of two peers, for two names, with one retry each.
SPECIFICATION Spec
CONSTANTS
    n1 = n1
    n2 = n2
    n3 = n3
    c1 = c1
    c2 = c2
    a = a
    b = b
    None = None
    Node <- TwoNodes
    PaxosID <- IdsOfTwo
    PaxosThreshold = 2
    Call = {c1, c2}
    CallNode <- SharedNode
    CallKind <- BothUser
    CallName <- TwoNames
    Name = {a, b}
    MaxAttempt = 2
    MaxStep = 2
INVARIANTS
    TypeOK
    PromiseFaithful
    Agreement
    CommittedOnce
    DoneCommitted
    NoLostWakeup
PROPERTIES
    ImplementsLedger
\* Calls end, and clients and the bounds may allow no more.
CHECK_DEADLOCK FALSE
