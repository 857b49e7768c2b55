\* Two rumors of one of two peers, two packets in flight, fairness.
SPECIFICATION FairSpec
CONSTANTS
    n1 = n1
    n2 = n2
    None = None
    Node <- TwoNodes
    Peers <- Pair
    Quota <- PairEnd
    MaxFlight = 2
INVARIANTS
    TypeOK
    LogPrefix
PROPERTIES
    ImplementsBroadcast
    Delivered
