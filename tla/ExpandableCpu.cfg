SPECIFICATION Spec
CONSTANTS
    Threads = {t1, t2}
    NumPages = 2
    Logical = {l1, l2}
    Units = {u1, u2}
    Bufs = {b1, b2}
    Files = {}
    Tags = {A, B}
    Values = {v1, v2}
    Devices = {d0, d1}
    Own = d0
    Junk = junk
    BackupModes = {"cpu", "none"}
    Null = null
SYMMETRY Symmetric
INVARIANTS HandlesMatchDevice UnitsAccounted HostMemoryAccounted ContentKept AccessRestored IInv
PROPERTIES PauseReleases ResumeRestores OtherTagsUntouched
