\* The two cameras that move, and the keys that toggle, draw and move.
SPECIFICATION FairSpec
CONSTANTS
    KindOf <- MCMovingKindOf
    Cameras <- MCMovingCameras
    MoveKeys = {"W"}
    MaxDown = 2
    Places = 2
CHECK_DEADLOCK FALSE
INVARIANTS
    TypeOK
PROPERTIES
    ActsOncePerPress
    ViewFollowsInput
    PressActs
