CONSTANTS
    EMCMOT_MAX_JOINTS <- MCMaxJoints
    MaxJointsArg <- MCMaxJoints
    AllowDuplicates = 1
    AxisSet <- MCAxisSet
    Vals <- MCVals
SPECIFICATION Spec
PROPERTY InverseCovers
CHECK_DEADLOCK FALSE
