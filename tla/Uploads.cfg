SPECIFICATION FairSpec
CONSTANTS
    Ids = {u1, u2}
    PartIds = {p1, p2}
    Declared = 1
    MaxPending = 1
    Clients = {c1, c2}
    Sweepers = {s1}
    Nobody = Nobody

    
PROPERTIES
    EndedIsFinal
    LapsedUploadsEnd
