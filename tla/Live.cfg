SPECIFICATION FairSpec
CONSTANTS
    Files = {f1, f2}
    Batches = {}
    Workers = {w1}
    Models = {m1}
    Settings = {s1}
    MaxRetries = 1
    MaxStale = 1
    MaxMemory = 1
    MaxBusy = 1
    MaxAdmitted = 0
    MaxJobs = 1
    Model0 = m1
    Setting0 = s1
    NoBatch = NoBatch
    NoRecipe = NoRecipe
    NoFile = NoFile
PROPERTIES
    JobEnds
    OrphansGo
