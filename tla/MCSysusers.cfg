SPECIFICATION Spec
CONSTANTS
    Name <- MCName
    PartOf <- MCPartOf
    LineSpace <- MCLineSpace
    EtcSpace <- MCEtcSpace
    IdMin <- MCIdMin
    IdMax <- MCIdMax
    PackageIds = {6, 30}
    MaxInstalls = 2
INVARIANTS
    TypeOK
    DuplicatesAreMoved
    PrimaryGroupsExist
    ExhaustedMeansFull
    LateRunIdle
    ShadowEntriesSet
PROPERTY
    MembersLostOnlyByMove
