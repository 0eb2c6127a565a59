SPECIFICATION FairSpec
CONSTANTS
    Paths <- WebPaths
    KindOf <- WebKinds
    Within <- WebWithin
    Manifest <- ManifestPath
    ServicesIn <- WebServices
    Comps <- Two
    AssignedIn <- ChangeAssigned
    FilesIn <- ChangeFiles
    LastRevision = 3
    Runs = {u}
    NoRun = none
    BadUnits <- NoneBad
    CleanupComponents = TRUE
    Rollback = FALSE
    Doctor = TRUE
    UserDropins <- Nobody
    MaxFaults = 1
    MaxCrashes = 1
PROPERTIES ManifestSeals  FilesConverge
