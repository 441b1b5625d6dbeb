SPECIFICATION FairSpec

CONSTANTS
    p1 = p1
    t1 = t1
    t2 = t2
    t3 = t3
    Whole = whole
    Threads = {t1, t2, t3}
    Parts = {p1}
    Containers = {}
    Hinted = {whole}
    MaxRetries = 1
    MayRelease = FALSE
    Serialised = FALSE

VIEW View

INVARIANTS
    MountExclusive

PROPERTIES
    ImplementsTable
    WaitersServed
