CONSTANTS
    MaxCalls = 6
    IdSpace = 4
    MaxRequests = 1
    RequestSpace = 2
    Programs <- PumpPrograms
SPECIFICATION FairSpec
PROPERTY PumpEnds
\* Clients stop after their last call, and the runtime stops for good once it is released.
CHECK_DEADLOCK FALSE
