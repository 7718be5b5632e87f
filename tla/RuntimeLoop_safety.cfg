\* "plain" is "aware" on a thread and "trace" on the worker.
CONSTANTS
    Calls = {c1, c2, c3}
    Releases = {r1, r2}
    None = None
    Asked = {"aware", "async", "handler", "blocking", "trace"}
    HandlersQueue = TRUE
    LoopMayThrow = TRUE
SPECIFICATION Spec
SYMMETRY Interchangeable
INVARIANT TypeOK
INVARIANT OwnedOnce
INVARIANT NoLostCall
INVARIANT NobodyLeftWaiting
PROPERTY AnsweredOnce
PROPERTY ImplementsService
\* The runtime stops for good once it is released, and so do its callers.
CHECK_DEADLOCK FALSE
