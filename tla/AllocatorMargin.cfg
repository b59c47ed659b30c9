SPECIFICATION Spec
CONSTANTS
    Threads = {t1}
    Ptrs = {p1, p2, p3}
    Handles = {h1, h2, h3}
    Bufs = {b1}
    Files = {f1}
    Tags = {weights}
    HostKinds = {"CUDA_PINNED"}
    Values = {v1}
    Junk = Junk
    Margins = {0, 1, 2}
    BackupModes = {"none", "cpu", "both"}
    Null = Null
SYMMETRY MCSymmetry
PROPERTIES MarginKept
