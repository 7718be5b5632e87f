CONSTANTS
    IdSpace = 6
    MaxAdds = 4
    MaxPeers = 2
    MaxBatch = 2
    Tables = {"loopback", "network"}
    NoId = NoId
SPECIFICATION Spec
INVARIANT TypeOK
INVARIANT RefCountExact
INVARIANT OwnedPeerAlive
INVARIANT NoOrphanPeer
PROPERTY ImplementsPeerSharing
