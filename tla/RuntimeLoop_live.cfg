\* "trace" is "plain" as long as the loop does not throw.
CONSTANTS
    Calls = {c1, c2}
    Releases = {r1}
    None = None
    Asked = {"plain", "aware", "async", "handler", "blocking"}
    HandlersQueue = FALSE
    LoopMayThrow = FALSE
SPECIFICATION FairSpec
PROPERTY CallsReturn
PROPERTY ReleasesReturn
\* The runtime stops for good once it is released, and so do its callers.
CHECK_DEADLOCK FALSE
