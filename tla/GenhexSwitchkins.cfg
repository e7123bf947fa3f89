CONSTANTS
    Requests <- MCRequests
    NVals <- MCNVals
SPECIFICATION Spec
INVARIANT TypeOK
INVARIANT NoSilentMisroute
PROPERTY WarmStartSeed
