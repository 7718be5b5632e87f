CONSTANTS
    MaxIds = 4
    MaxPromises = 3
SPECIFICATION Spec
INVARIANT TypeOK
INVARIANT HeldConsistent
INVARIANT NotAbandoned
PROPERTY HeldIsApplied
PROPERTY HeldInOrder
