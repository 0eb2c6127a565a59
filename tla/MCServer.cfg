SPECIFICATION FairSpec
CONSTANTS
    Comps = {1, 2}
    LastRevision = 2
    AssignedIn <- TwoAssigned
    ContentIn <- TwoContents
    Configurations <- Beside
    Triggers = {"default"}
    NoProcess = NoProcess
    MaxFaults = 1
    MaxRequests = 1
    MaxStarts = 1
INVARIANT TimerExcludesCommand
PROPERTIES  Ends CommandGetsIn
CHECK_DEADLOCK FALSE
