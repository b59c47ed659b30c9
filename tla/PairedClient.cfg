SPECIFICATION PairedSpec
CONSTANTS
    Threads = {t1, t2, t3}
    Ptrs = {p1, p2}
    Handles = {h1, h2}
    Bufs = {b1}
    Files = {f1}
    Tags = {weights, kv}
    HostKinds = {"CUDA_PINNED"}
    Values = {v1}
    Junk = Junk
    Margins = {}
    BackupModes = {"none"}
    Null = Null
SYMMETRY MCSymmetry
INVARIANTS NeverMisused PhaseTold PairedInv
