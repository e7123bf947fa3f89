CONSTANTS
    EMCMOT_MAX_JOINTS <- MCMaxJoints
    Inputs <- MCInputs
    MaxJointsArgs <- MCMaxJointsArgs
SPECIFICATION Spec
INVARIANT MapComplete
CHECK_DEADLOCK FALSE
