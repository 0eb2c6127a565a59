SPECIFICATION FairSpec
CONSTANTS
    Paths <- WebPaths
    KindOf <- WebKinds
    Within <- WebWithin
    Manifest <- ManifestPath
    ServicesIn <- WebServices
    Comps <- Two
    AssignedIn <- UpdateAssigned
    FilesIn <- UpdateFiles
    LastRevision = 4
    Runs = {u}
    NoRun = none
    BadUnits <- BadThree
    CleanupComponents = FALSE
    Rollback = TRUE
    Doctor = FALSE
    UserDropins <- OnlyTwo
    MaxFaults = 0
    MaxCrashes = 0
INVARIANTS PlannedStepsApply StartsWhatIsInstalled RollbackRestores
PROPERTIES DropinsKept Converges
