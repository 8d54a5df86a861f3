CONSTANTS
    File = {A, B}
    BatchName = {G}
    Content = {c1, c2}
    ByteOrder = {le, be}
    Setting = {"own", "cluster"}
    Writer = {bin}
    ReuseNames = FALSE
    MaxSnapshots = 3
SPECIFICATION Spec
SYMMETRY Symmetry
CONSTRAINT LongOrWide
INVARIANTS TypeOK IdsArePositions EveryVersionRestorable PointersResolve CleanMeansRestored
PROPERTIES HistoryIsAppendOnly CommitLeavesClean RestoreLeavesClean RestoreStaysInTable RestoreUndoesDelete  ImplementsLog
