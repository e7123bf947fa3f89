CONSTANTS
    Variants <- MCTrt
    Requests <- MCRequests
SPECIFICATION Spec
INVARIANT StartupSound
CHECK_DEADLOCK FALSE
