CONSTANTS
    Requests <- MCRequests
    NVals <- MCNVals
SPECIFICATION Spec
INVARIANT NoOutOfBounds
