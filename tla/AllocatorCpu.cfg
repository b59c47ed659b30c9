SPECIFICATION Spec
CONSTANTS
    Threads = {t1, t2}
    Ptrs = {p1, p2}
    Handles = {h1, h2}
    Bufs = {b1, b2}
    Files = {}
    Tags = {weights, cache}
    HostKinds = {"CUDA_PINNED", "PAGEABLE"}
    Values = {v1}
    Junk = Junk
    Margins = {}
    BackupModes = {"none", "cpu"}
    Null = Null
SYMMETRY MCSymmetry
INVARIANTS StateMatchesDevice DeviceAccounted HostAccounted ContentKept BackupViewFaithful
