SPECIFICATION FairSpec
CONSTANTS
    Events = {e1, e2}
    e1 = e1
    e2 = e2
    Kinds <- MCKinds
    Sinks = {s1}
    Admins = {a1}
    BatchSize = 2
    MaxAttempts = 2
    MaxFaults = 1
    Ingest = Ingest
    NoEvent = NoEvent
INVARIANTS AckedIsStored DeliveredWasSent HealthyIsSpared
 
CHECK_DEADLOCK FALSE
