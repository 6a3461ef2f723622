SPECIFICATION Spec
CONSTANTS
    Files = {f1, f2}
    Batches = {}
    Workers = {w1}
    Models = {m1, m2}
    Settings = {s1}
    MaxRetries = 1
    MaxStale = 2
    MaxMemory = 0
    MaxBusy = 0
    MaxAdmitted = 0
    MaxJobs = 2
    Model0 = m1
    Setting0 = s1
    NoBatch = NoBatch
    NoRecipe = NoRecipe
    NoFile = NoFile
SYMMETRY Symmetry
INVARIANTS
    
    EndedJobHasNoOpenItem
    
    
PROPERTIES
    
    ActiveChunksStay
