CONSTANTS
    Variants <- MCTrt
    Requests <- MCRequests
SPECIFICATION Spec
INVARIANT NoSilentMisroute
CHECK_DEADLOCK FALSE
