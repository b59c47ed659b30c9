SPECIFICATION Spec
CONSTANTS
    Threads = {t1, t2}
    Ptrs = {p1, p2}
    Handles = {h1, h2}
    Bufs = {b1}
    Tags = {weights}
    Limit = 32
    Granularities = {1, 2}
    Chunk = 4
    Requests = {4, 5}
    Values = {v1}
    Junk = Junk
    Null = Null
    ClientMay = {"untracked"}
SYMMETRY MCSymmetry
INVARIANTS IInv ChunksAccounted BuffersAccounted
PROPERTIES ImplementsMemory
