SPECIFICATION BuildSpec
CONSTANTS
    Name <- RealNames
    MetaSpace <- RealMetaSpace
    WantedSpace <- RealWantedSpace
    Variable <- RealVariable
    Word <- RealWord
    Alias <- RealAlias
    MergeVars = {"OCONF_NFTABLES_ALLOW_INPUT_TCP"}
    Off <- RealOff
    Config <- RealConfig
    Profiles <- RealProfiles
    Hooks <- RealHooks
    Overlays <- RealOverlays
    ShellFunction <- RealShellFunction
    RootFile <- RealRootFile
    InitramfsFile <- RealInitramfsFile
    PublishFile <- RealPublishFile
    LeftSpace <- RealLeftSpace
    Kernel = "OFEAT_KERNEL_IMAGE"
    Tar = "DBUILD_TARGET_IMAGE_FORMAT"
INVARIANTS
    FailuresExplained
    NothingStale
    RequestsReachImage
