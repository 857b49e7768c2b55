\* Three peers, two elections by clients, one crash.
SPECIFICATION FairSpec
CONSTANTS
    Node <- Three
    TotalPeers = 1
    Electors <- Three
    MaxElect = 2
    MaxCrash = 1
INVARIANTS
    TypeOK
PROPERTIES
    
    LargestLeads
\* Elections end.
CHECK_DEADLOCK FALSE
