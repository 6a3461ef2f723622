SPECIFICATION Spec
CONSTANTS
    Bulks = {b1}
    Stores = {1, 2}
    Clients = {c1}
    Loops = {l1, l2}
    Histories = {h1}
    MaxRetries = 1
    NoBulk = NoBulk
    Nobody = Nobody
INVARIANTS
    FinishedBulkIsDone
    CancelledBulkIsOver
    OnlySweepsDeadlock
PROPERTIES
    LastChildEndsParent
CHECK_DEADLOCK FALSE
