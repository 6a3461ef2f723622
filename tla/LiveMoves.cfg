SPECIFICATION FairMoveSpec
CONSTANTS
    Shas = {c1}
    Files = {f1}
    Content <- OneContent
    Legacy <- OneLegacy
    Uploaders = {u1}
    Sweepers = {s1}
    Movers = {w1}
    Readers = {}
    Nobody = Nobody
    Backends = {"db"}
    Faults = {"delete"}
    MaxMoves = 1
    MaxAttempts = 2
    NoMove = NoMove
    MoverFaults = {"crash", "corrupt", "stray"}
INVARIANTS
    MoveIsComplete
PROPERTIES
    MovesEnd
    LeftoversGo
CHECK_DEADLOCK FALSE
