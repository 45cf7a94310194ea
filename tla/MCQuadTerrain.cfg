\* Splits and merges for a camera that may be anywhere in each frame.
SPECIFICATION Spec
CONSTANTS
    Size = 16
    Sizes <- MCSizes
    MinSize = 2
    Positions <- MCPositions
INVARIANTS
    TypeOK
    LeavesTile
    NoNodeLeaks
    FollowsCamera
    FinestAtCamera
    LevelsMeet
