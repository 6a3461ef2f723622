SPECIFICATION FairSpec
CONSTANTS
    Files = {f1}
    Batches = {b1}
    Workers = {w1, w2}
    Models = {m1}
    Settings = {s1}
    MaxRetries = 2
    MaxStale = 1
    MaxMemory = 1
    MaxBusy = 0
    MaxAdmitted = 1
    MaxJobs = 0
    Model0 = m1
    Setting0 = s1
    NoBatch = NoBatch
    NoRecipe = NoRecipe
    NoFile = NoFile
INVARIANTS
    TypeOK
    
    ChunksBelongToCompleted
PROPERTIES
    CompletedIsFinal
    CancelledIsFinal
    FileSettles
    BatchSettles
