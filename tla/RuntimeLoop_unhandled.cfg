CONSTANTS
    Calls = {c1, c2}
    Releases = {r1}
    None = None
    Asked = {"plain", "async", "trace"}
    HandlersQueue = FALSE
    LoopMayThrow = TRUE
SPECIFICATION Spec
PROPERTY FailsWhatIsQueued
\* The runtime stops for good once it is released, and so do its callers.
CHECK_DEADLOCK FALSE
