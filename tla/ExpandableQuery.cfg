SPECIFICATION Spec
CONSTANTS
    Threads = {t1}
    NumPages = 2
    Logical = {l1, l2}
    Units = {u1, u2}
    Bufs = {}
    Files = {f1, f2}
    Tags = {A}
    Values = {v1}
    Devices = {d0}
    Own = d0
    Junk = junk
    BackupModes = {"disk"}
    Null = null
SYMMETRY Symmetric
INVARIANTS QueryAnswered
