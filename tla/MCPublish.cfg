SPECIFICATION Spec
CONSTANTS
    Slot = {s1, s2}
    Persistent = {s1}
    CrossDevice = {s1}
    Image = {tar, zst}
    NoImage = NoImage
    Guarded = {zst}
    MaxRuns = 3
    MaxTime = 2
INVARIANTS
    LinkLeadsToImage
    CompletedRunsKeepTheirImages
    StagedImagesExplained
    MissingLinkExplained
    NewestLinkUnlessOverlap
CHECK_DEADLOCK FALSE
