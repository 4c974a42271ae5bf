SPECIFICATION Spec
CONSTANTS
    Job = {j1, j2}
    DocSpace <- PairDocSpace
    Dir <- MCDir
    Above <- MCAbove
    ChrootDirs <- PairChrootDirs
    MaxFaults = 1
INVARIANTS
    MountRootExclusive
