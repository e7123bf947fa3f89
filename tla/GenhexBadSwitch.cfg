CONSTANTS
    Requests <- MCRequests
    NVals <- MCNVals
SPECIFICATION Spec
PROPERTY BadSwitchLeavesState
