CONSTANTS
    Variants <- MCAll
    Requests <- MCRequests
SPECIFICATION Spec
INVARIANT TypeOK
INVARIANT PinsSettled
CHECK_DEADLOCK FALSE
