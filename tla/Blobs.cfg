SPECIFICATION BlobSpec
CONSTANTS
    Shas = {c1}
    Files = {f1, f2, f3}
    Content <- OneContent
    Legacy <- OneLegacy
    Uploaders = {u1, u2}
    Sweepers = {s1, s2}
    Movers = {}
    Readers = {}
    Nobody = Nobody
    Backends = {"db", "s3"}
    Faults = {"put", "insert", "crash", "reply", "delete"}
INVARIANTS
    FilesKeepTheirBytes

    
    
CHECK_DEADLOCK FALSE
