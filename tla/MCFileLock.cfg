SPECIFICATION FairSpec
CONSTANTS
    Threads <- MixedThreads
    Processes <- MixedProcesses
    ProcessOf <- MixedProcess
    NoProcess = NoProcess
    Cancellable <- ServerThreads
    MaxSections = 2
PROPERTIES MutexSpec CommandEnters
CHECK_DEADLOCK FALSE
