CONSTANTS
    EMCMOT_MAX_JOINTS <- MCMaxJoints
    MaxJointsArg <- MCMaxJoints
    AllowDuplicates = 0
    AxisSet <- MCAxisSet
    Vals <- MCVals
SPECIFICATION Spec
INVARIANT TypeOK
PROPERTY ForwardCopies
PROPERTY InverseCovers
CHECK_DEADLOCK FALSE
