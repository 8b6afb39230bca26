CONSTANTS
    Instances = {i1}
    Services = {i1}
    ServiceOf <- OwnService
    Timeout = 1
    MonitorEvery = 1
    PublishFails = TRUE
    DegradedChecks = {FALSE, TRUE}
    MaxRegisters = 1
    MaxHeartbeats = 1
    MaxCrashes = 1
SPECIFICATION FairSpec
PROPERTIES RunningIsRegistered DeadIsNotLive
CHECK_DEADLOCK FALSE
