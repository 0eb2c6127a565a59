SPECIFICATION FairSpec
CONSTANTS
    Primary = "main"
    Remotes <- TwoRemotes
    NoSource = NoSource
    NoReport = NoReport
    LastCommit <- ThreeCommits
    RemotesIn <- Named
    MaxFaults = 1
    MaxFailures = 2
    MaxRequests = 1
INVARIANTS RollbackUndoes SyncIsCurrent RemotesLoaded
PROPERTY CatchesUp
