SPECIFICATION FairSpec
CONSTANTS
    Units <- ThreeUnits
    Assigned <- WebAndJob
    Containers <- WebAndOld
    Oneshots <- Job
    Server = FALSE
    MaxTroubles = 1
    MaxChanges = 2
PROPERTIES OkMeansRunning ExecutionReturns ServicesRun ContainersStop
