SPECIFICATION Spec

CONSTANTS
    p1 = p1
    t1 = t1
    Whole = whole
    Threads = {t1}
    Parts = {p1}
    Containers = {}
    Hinted = {whole}
    MaxRetries = 1
    MayRelease = TRUE
    Serialised = TRUE

PROPERTIES
    BlockedIsRetryable
