SPECIFICATION FairSpec
CONSTANTS
    a = a
    b = b
    c = c
    Name = {a, b, c}
    MetaSpace <- MCMetaSpace
    WantedSpace <- MCWantedSpace
INVARIANTS
    OutRespectsNeeds
    OutIsSelection
    FailsOnlyOnCycle
    ValidRequestKept
PROPERTIES
    ImplementsTopoOrder
    Termination
