CONSTANTS
    Order <- MCOrder
    Jobs = {2}
    Folder <- MCFolder
    Inner <- MCInner
    Batch = {}
    Content = {c1, c2}
    Faults = {}
SPECIFICATION Spec
INVARIANT ReportedIsCurrent
