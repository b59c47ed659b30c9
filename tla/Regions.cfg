SPECIFICATION Spec
CONSTANTS
    Threads = {t1, t2}
    Blocks = {b1}
    Tags = {weights}
    GraphPools = {g1}
    Backups = {"none", "cpu"}
    Environments <- MCEnvironments
    MaxDepth = 2
    Default = Default
    Null = Null
SYMMETRY MCSymmetry
INVARIANTS IInv ConfigFollowsFrames TrackedAsAsked DisabledUntracked SettingRestored
