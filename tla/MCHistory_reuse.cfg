CONSTANTS
    File = {A, B}
    BatchName = {}
    Content = {c1}
    ByteOrder = {le}
    Setting = {}
    Writer = {bin}
    ReuseNames = TRUE
    MaxSnapshots = 1
SPECIFICATION Spec
SYMMETRY Symmetry
PROPERTIES RenameKeepsHistory
