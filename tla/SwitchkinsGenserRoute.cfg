CONSTANTS
    Variants <- MCGenser
    Requests <- MCRequests
SPECIFICATION Spec
INVARIANT NoSilentMisroute
CHECK_DEADLOCK FALSE
