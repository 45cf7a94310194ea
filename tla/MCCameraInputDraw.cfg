\* Draw mode and polygon mode.
SPECIFICATION Spec
CONSTANTS
    KindOf <- MCKindOf
    Cameras <- MCCameras
    MoveKeys = {}
    MaxDown = 3
    Places = 1
CHECK_DEADLOCK FALSE
INVARIANTS
    EnvironmentIsPrepared
