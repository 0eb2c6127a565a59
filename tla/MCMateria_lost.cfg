SPECIFICATION FairSpec
CONSTANTS
    Paths <- WebPaths
    KindOf <- WebKinds
    Within <- WebWithin
    Manifest <- ManifestPath
    ServicesIn <- WebServices
    Comps <- One
    AssignedIn <- AlwaysOne
    FilesIn <- UnitFiles
    LastRevision = 2
    Runs = {u}
    NoRun = none
    BadUnits <- NoneBad
    CleanupComponents = FALSE
    Rollback = FALSE
    Doctor = FALSE
    UserDropins <- Nobody
    MaxFaults = 1
    MaxCrashes = 0
PROPERTIES Converges
