CONSTANTS
    Instances = {i1}
    Services = {i1}
    ServiceOf <- OwnService
    Timeout = 1
    MonitorEvery = 1
    PublishFails = FALSE
    DegradedChecks = {FALSE, TRUE}
    MaxRegisters = 2
    MaxHeartbeats = 2
    MaxCrashes = 1
SPECIFICATION Spec
INVARIANTS MembershipIsAnnounced LiveStatusIsAnnounced
CHECK_DEADLOCK FALSE
