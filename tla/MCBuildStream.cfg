CONSTANTS
    Order <- MCOrder
    Jobs = {1, 2}
    Folder <- MCFolder
    Inner <- MCInner
    Batch <- MCBatch
    Content = {c1, c2}
    Faults = {"stage", "disk"}
SPECIFICATION StreamFairSpec
INVARIANTS ReportedIsCurrent FailuresAreOwn SavedIsTrue StreamTellsAll
PROPERTIES StreamEnds EveryTableReported
