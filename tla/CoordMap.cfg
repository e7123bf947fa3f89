CONSTANTS
    EMCMOT_MAX_JOINTS <- MCMaxJoints
    Inputs <- MCInputs
    MaxJointsArgs <- MCMaxJointsArgs
SPECIFICATION Spec
INVARIANT TypeOK
INVARIANT MapCorrect
PROPERTY Termination
CHECK_DEADLOCK FALSE
