SPECIFICATION Spec
CONSTANTS
    Iface = {"eth0", "eth1"}
    Before <- MCBefore
    Address = {"a", "b"}
    NoValue = NoValue
    Missing = Missing
    Inputs <- MCInputs
    Edits <- MCEdits
    Taken <- MCTaken
    MaxCrashes = 2
    MaxEdits = 2
INVARIANT CurrentMeansApplied
