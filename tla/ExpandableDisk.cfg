SPECIFICATION Spec
CONSTANTS
    Threads = {t1}
    NumPages = 3
    Logical = {l1, l2, l3}
    Units = {u1, u2, u3}
    Bufs = {b1, b2}
    Files = {f1}
    Tags = {A}
    Values = {v1}
    Devices = {d0}
    Own = d0
    Junk = junk
    BackupModes = {"cpu", "disk", "both"}
    Null = null
SYMMETRY Symmetric
INVARIANTS ContentKept BackupFilesAccounted TensorInOneBuffer ViewFaithful
