CONSTANTS
    a = a
    b = b
    c1 = c1
    c2 = c2
    Client = {p, q}
    TableOrder <- MCTables
    Built = {a}
    Content = {c1, c2}
    Absent = Absent
    Torn = Torn
    Past <- MCPast
    PastMarks <- MCMarks
    Requests = 2
    Deaths = 1
    Budget <- MCBudget
SPECIFICATION Spec
SYMMETRY Symmetry
CHECK_DEADLOCK FALSE
INVARIANTS RecordedVersionsReadBack ReportedCommitsStay CurrentIsAsReported GoldenIsAsReported RestoreBringsBack
