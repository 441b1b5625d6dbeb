SPECIFICATION Spec

CONSTANTS
    p1 = p1
    p2 = p2
    p3 = p3
    t1 = t1
    t2 = t2
    Whole = whole
    Threads = {t1, t2}
    Parts = {p1, p2, p3}
    Containers = {p3}
    Hinted = {p1, p2, whole}
    MaxRetries = 2
    MayRelease = TRUE
    Serialised = TRUE

SYMMETRY Symmetry

VIEW View

INVARIANTS
    TableTrue
    Prepared

PROPERTIES
    EnterAnswers
    CloseUnmounts
