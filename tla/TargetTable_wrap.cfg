CONSTANTS
    IdSpace = 3
    MaxAdds = 5
    MaxPeers = 2
    MaxBatch = 2
    Tables = {"network"}
    NoId = NoId
SPECIFICATION Spec
INVARIANT ForwarderKeepsPeer
