\* A search and a download of one peer, over a network that loses and repeats.
SPECIFICATION Spec
CONSTANTS
    n1 = n1
    n2 = n2
    n3 = n3
    x = x
    mx = mx
    k1 = k1
    k2 = k2
    c1 = c1
    d1 = d1
    None = None
    Node = {n1, n2, n3}
    Name = {x}
    Key = {mx, k1, k2}
    Neighbours <- Triangle
    Route <- ByRelay
    Parts <- File
    InitNames <- Named
    InitBlobs <- Stored
    Replaced = {x}
    Tagging = TRUE
    Search = {c1}
    SearchBy <- ByOne
    Pattern <- AnyFile
    Retry = 2
    Budget <- Ring
    Download = {d1}
    DownloadBy <- GetByOne
    DownloadOf <- GetFile
    Backoff = 1
    MaxFlight = 2
INVARIANTS
    TypeOK
    BudgetKept
    FirstFound
    
    PartsInOrder
    
\* Calls end, packets are lost.
CHECK_DEADLOCK FALSE
