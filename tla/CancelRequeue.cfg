SPECIFICATION Spec
CONSTANTS
    Files = {f1}
    Batches = {b1}
    Workers = {w1}
    Models = {m1, m2}
    Settings = {s1}
    MaxRetries = 1
    MaxStale = 1
    MaxMemory = 0
    MaxBusy = 0
    MaxAdmitted = 0
    MaxJobs = 1
    Model0 = m1
    Setting0 = s1
    NoBatch = NoBatch
    NoRecipe = NoRecipe
    NoFile = NoFile
PROPERTIES
    CancelKeepsFailed
