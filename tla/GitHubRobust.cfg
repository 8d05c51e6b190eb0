CONSTANTS
    r1 = r1
    r2 = r2
    NoRepo = NoRepo
    Main = main
    AnyBranch = any
    Repos = {r1}
    Paths = {r1}
    ClonePath <- OwnPath
    Branches = {main}
    Tracks = {any}
    Seeds = {r1}
    MaxCommit = 3
    ForcePush = TRUE
    TornFiles = TRUE
SPECIFICATION FairSpec
INVARIANTS
    TypeOK
    CrashMidExtractRetries
    StatusAgreesWithShas
PROPERTIES
    SkipOnlyWhatIsIngested
    EventuallyIngested
