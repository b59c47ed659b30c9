SPECIFICATION FairSpec
CONSTANTS
    big = big
    small = small
    Slots = {big, small}
    SizeOf <- MCSizeOf
    ChunkSize = 2
    Files = {f1, f2}
    Dirs = {d1, d2}
    Values = {v1, v2}
    Junk = Junk
    Null = Null
    Faults = {"short", "lost"}
INVARIANTS ContentKept FilesAccounted IInv
PROPERTIES CallEnds
