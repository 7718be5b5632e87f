CONSTANTS
    MaxCalls = 6
    IdSpace = 3
    Programs <- Clients
SPECIFICATION FairSpec
INVARIANT TypeOK
INVARIANT NoLostCall
INVARIANT OneOwner
INVARIANT RetiredIsGone
INVARIANT EveryHandleGranted
INVARIANT WaitCanEnd
PROPERTY ImplementsService
PROPERTY CallsReturn
\* Clients stop after their last call, and the runtime stops for good once it is released.
CHECK_DEADLOCK FALSE
