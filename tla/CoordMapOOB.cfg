CONSTANTS
    EMCMOT_MAX_JOINTS <- MCMaxJoints
    Inputs <- MCInputs
    MaxJointsArgs <- MCMaxJointsArgs
SPECIFICATION Spec
INVARIANT NoOutOfBoundsWrite
CHECK_DEADLOCK FALSE
