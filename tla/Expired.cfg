SPECIFICATION Spec
CONSTANTS
    Files = {f1, f2}
    Batches = {}
    Workers = {w1, w2}
    Models = {m1}
    Settings = {s1}
    MaxRetries = 1
    MaxStale = 1
    MaxMemory = 0
    MaxBusy = 0
    MaxAdmitted = 1
    MaxJobs = 0
    Model0 = m1
    Setting0 = s1
    NoBatch = NoBatch
    NoRecipe = NoRecipe
    NoFile = NoFile
SYMMETRY Symmetry
INVARIANTS
    ExpiredHoldsNothing
