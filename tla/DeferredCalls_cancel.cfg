CONSTANTS
    Calls = {c1, c2}
    MaxStages = 2
SPECIFICATION FairSpec
INVARIANT TypeOK
INVARIANT StillTracked
PROPERTY NoCancelAfterAnswer
PROPERTY ReleasedIsCancelled
\* A finite set of calls comes to an end.
CHECK_DEADLOCK FALSE
