SPECIFICATION Spec
CONSTANTS
    Shas = {c1}
    Files = {f1, f2}
    Content <- OneContent
    Legacy <- OneLegacy
    Uploaders = {u1}
    Sweepers = {s1}
    Movers = {w1, w2}
    Readers = {r1}
    Nobody = Nobody
    Backends = {"db", "s3"}
    Faults = {}
    MaxMoves = 1
    MaxAttempts = 1
    NoMove = NoMove
    MoverFaults = {"crash", "request", "busy", "stray"}
SYMMETRY Symmetry
INVARIANTS
    ReadersAreServed
PROPERTIES
    ImplementsStore
    
CHECK_DEADLOCK FALSE
