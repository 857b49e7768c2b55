\* Pages of few sections, one or two clicks, two packets, a channel with room for one.
SPECIFICATION FairSpec
CONSTANTS
    v1 = v1
    v2 = v2
    p1 = p1
    p2 = p2
    Value = {v1, v2}
    Blank = Blank
    None = None
    Searching = Searching
    Pages <- MCPages
    MaxRoutes = 1
    Packet = {p1, p2}
    Kind <- MCKind
    From <- MCFrom
    Me = v1
    Capacity = 1
    MaxStreams = 2
INVARIANTS
    TypeOK
    Accepted
    
    FeedInOrder
    Told
PROPERTIES
    Fed
\* Pages that nobody clicks on any more come to rest.
CHECK_DEADLOCK FALSE
