SPECIFICATION FairSpec
CONSTANTS
    Threads = {t1, t2}
    Ptrs = {p1, p2}
    Handles = {h1, h2}
    Bufs = {b1}
    Files = {f1}
    Tags = {weights}
    HostKinds = {"CUDA_PINNED"}
    Values = {}
    Junk = Junk
    Margins = {}
    BackupModes = {"cpu"}
    Null = Null
PROPERTIES LockReleased QuietWhenCallsStop
