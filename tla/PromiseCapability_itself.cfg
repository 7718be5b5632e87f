CONSTANTS
    MaxIds = 2
    MaxPromises = 1
SPECIFICATION Spec
INVARIANT NeverItself
