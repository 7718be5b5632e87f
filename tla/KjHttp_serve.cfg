CONSTANTS
    MaxCalls = 6
    IdSpace = 4
    MaxRequests = 3
    RequestSpace = 2
    Programs <- HttpPrograms
SPECIFICATION FairSpec
INVARIANT TypeOK
INVARIANT BodiesBacked
INVARIANT AskedCanBeAnswered
INVARIANT ExchangeCanEnd
INVARIANT ServerOwnsListen
PROPERTY ImplementsService
PROPERTY CallsReturn
\* Clients stop after their last call, and the runtime stops for good once it is released.
CHECK_DEADLOCK FALSE
