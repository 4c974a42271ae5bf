SPECIFICATION FairSpec
CONSTANTS
    FstabOrder <- MCFstab
    Label = Label
    ByLabel = {"esp"}
    NoFail = {"swap"}
    MaxLosses = 2
    MaxFailures = 2
    MaxRestarts = 1
INVARIANTS
    StuckExplained
    FilesystemsFound
PROPERTIES
    FirstbootEnds
CHECK_DEADLOCK FALSE
