SPECIFICATION FairSpec
CONSTANTS
    Paths <- PlainPaths
    KindOf <- PlainKinds
    Within <- PlainWithin
    Manifest <- ManifestPath
    ServicesIn <- NoServices
    Comps <- Two
    AssignedIn <- ChangeAssigned
    FilesIn <- PairFiles
    LastRevision = 3
    Runs = {u, v}
    NoRun = none
    BadUnits <- NoneBad
    CleanupComponents = FALSE
    Rollback = FALSE
    Doctor = FALSE
    UserDropins <- Nobody
    MaxFaults = 0
    MaxCrashes = 0
PROPERTIES FilesConverge
