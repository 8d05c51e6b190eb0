CONSTANTS
    r1 = r1
    r2 = r2
    NoRepo = NoRepo
    Main = main
    AnyBranch = any
    Repos = {r1, r2}
    Paths = {r1, r2}
    ClonePath <- OwnPath
    Branches = {main}
    Tracks = {any}
    Seeds = {}
    MaxCommit = 1
    ForcePush = FALSE
    TornFiles = FALSE
SPECIFICATION Spec
INVARIANTS
    DroppedRecordsAreRetried
