SPECIFICATION Spec
CONSTANTS
    Threads = {t1, t2}
    Ptrs = {p1, p2}
    Handles = {h1, h2}
    Bufs = {b1}
    Files = {f1, f2}
    Tags = {weights}
    HostKinds = {"CUDA_PINNED"}
    Values = {v1}
    Junk = Junk
    Margins = {}
    BackupModes = {"none", "cpu", "disk"}
    Null = Null
SYMMETRY MCSymmetry
INVARIANTS IInv FilesAccounted
PROPERTIES ImplementsMemory
