SPECIFICATION FairSpec
CONSTANTS
    Threads <- MixedThreads
    Processes <- MixedProcesses
    ProcessOf <- MixedProcess
    NoProcess = NoProcess
    MaxSections = 2
INVARIANT WaitersQueued
PROPERTIES MutexSpec EntersIfInTime
CHECK_DEADLOCK FALSE
