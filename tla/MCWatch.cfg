CONSTANTS
    File <- MCFile
    TableOf <- MCTableOf
    Gone = Gone
    Faults <- MCStageFaults
    MaxChanges = 3
SPECIFICATION FairSpec
INVARIANTS QuietIsCurrent
PROPERTY EverySaveIsSeen
CHECK_DEADLOCK FALSE
