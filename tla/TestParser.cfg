SPECIFICATION Spec
CHECK_DEADLOCK FALSE
CONSTANTS
    None = None
    TestNames <- MCTestNames
    EndsWith <- MCEndsWith
    MaxAliasDepth = 5
    Lower <- MCLower
    Library <- MCLibrary
    TestPrefixed <- MCTestPrefixed
    FormsExtras = {"hr"}
    HintedKeys = {"api.url"}
    Content <- MCContent
    Unread = {}
    Links = {}
    Root <- MCRoot
    IsDir = TRUE
    Subdirs <- MCSubdirs
    HasMarker = FALSE
    ExcludedDirs = {"out"}
    WalkerExcluded = {"out"}
    Configs <- MCConfigs
    Orders <- MCOrders
INVARIANTS
    TypeOK
    NothingDangles
    CallsFollowImports
    OrderDoesNotMatter
    CoverageIsFaithful
