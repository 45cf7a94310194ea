\* Every choice of objects and of a terrain, up to three terrains one after the other.
SPECIFICATION Spec
CONSTANTS
    None = None
    SpacingX = 1
    SpacingZ = 2
    Points = {2, 3}
    Fields <- MCFields
    MaxTerrains = 3
INVARIANTS
    TypeOK
    DrawnAsMeant
    TexturesInPlace
    MaterialsKept
    MeshIsCurrent
    MeshIsSurface
    NormalsPointUp
