SPECIFICATION FairSpec
CONSTANTS
    Job = {j1}
    DocSpace <- MCDocSpace
    Dir <- MCDir
    Above <- MCAbove
    ChrootDirs <- MCChrootDirs
    MaxFaults = 2
INVARIANTS
    PackedImageIsClosed
    FailureLeavesNothing
    RefusalsExplained
    LeakIsInterruptedStack
    UnpackReachesVolumes
PROPERTIES
    Termination
