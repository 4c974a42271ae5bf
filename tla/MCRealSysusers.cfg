SPECIFICATION Spec
CONSTANTS
    Name <- RealName
    PartOf <- RealPartOf
    LineSpace <- RealLineSpace
    EtcSpace <- RealEtcSpace
    IdMin <- RealIdMin
    IdMax <- RealIdMax
    PackageIds = {100, 998}
    MaxInstalls = 1
INVARIANTS
    RequestsSucceed
    UsersAsRequested
    MembershipsGranted
