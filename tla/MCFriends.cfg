SPECIFICATION AcquaintedSpec
CONSTANTS
    n1 = n1
    n2 = n2
    t1 = t1
    t2 = t2
    None = None
    Node = {n1, n2}
    Peers <- EachAdds
    Asks <- BothAsk
    MaxSent = 6
    MaxMail = 4
    MaxLife <- SecondRestarts
    Thread = {t1, t2}
    ThreadOf <- Users
INVARIANTS
    FriendsTypeOK
    
    SealedForFriend
\* A peer may have crashed.
CHECK_DEADLOCK FALSE
