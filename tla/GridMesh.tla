------------------------------ MODULE GridMesh ------------------------------
(***************************************************************************)
(* The mesh of FlatTerrain, RandomTerrain, WaterTerrain and                *)
(* SimplexTerrainChunk, which compute it from pointsPerSectorLine, here n, *)
(* by the same loops.  A vertex is a grid point <<i, j>>; Index gives its  *)
(* place in vertexData and normalsData.  The list indicesData is a set of  *)
(* triangles.  Coordinates are integers: the floats of the program are     *)
(* multiples of the spacings, up to rounding and a common offset.          *)
(***************************************************************************)
EXTENDS Integers, FiniteSets

CONSTANTS SpacingX, SpacingZ    \* sectorSizeX / n and sectorSizeY / n

ASSUME SpacingAssumption == SpacingX \in Nat \ {0} /\ SpacingZ \in Nat \ {0}

Line(n) == 0..(n - 1)
Grid(n) == Line(n) \X Line(n)
Cells(n) == (0..(n - 2)) \X (0..(n - 2))

Index(n, i, j) == j + i * n

\* The two triangles of the cell whose first corner is <<i, j>>.
Upper(c) == <<c, <<c[1] + 1, c[2]>>, <<c[1], c[2] + 1>>>>

\* Mutant: the corners in the order of the first triangle's.
LowerTurned(c) == <<<<c[1], c[2] + 1>>, <<c[1] + 1, c[2] + 1>>, <<c[1] + 1, c[2]>>>>

Lower(c) == <<<<c[1], c[2] + 1>>, <<c[1] + 1, c[2]>>, <<c[1] + 1, c[2] + 1>>>>

Triangles(n) == UNION {{Upper(c), Lower(c)} : c \in Cells(n)}

-----------------------------------------------------------------------------
(* Normals *)

Vertex(h, i, j) == <<i * SpacingX, h[<<i, j>>], j * SpacingZ>>

Zero == <<0, 0, 0>>
Add(a, b) == <<a[1] + b[1], a[2] + b[2], a[3] + b[3]>>
Sub(a, b) == <<a[1] - b[1], a[2] - b[2], a[3] - b[3]>>

\* glm::cross
Cross(a, b) == <<a[2] * b[3] - a[3] * b[2], a[3] * b[1] - a[1] * b[3], a[1] * b[2] - a[2] * b[1]>>

\* The normals of the three upper triangles a grid point belongs to.
Behind(n, h, i, j) ==
    IF i > 0 /\ j < n - 1
    THEN Cross(Sub(Vertex(h, i - 1, j + 1), Vertex(h, i, j)), Sub(Vertex(h, i, j), Vertex(h, i - 1, j)))
    ELSE Zero

\* Mutant: the factors are swapped.
BesideSwapped(n, h, i, j) ==
    IF j > 0 /\ i < n - 1
    THEN Cross(Sub(Vertex(h, i + 1, j - 1), Vertex(h, i, j)), Sub(Vertex(h, i, j), Vertex(h, i, j - 1)))
    ELSE Zero

Beside(n, h, i, j) ==
    IF j > 0 /\ i < n - 1
    THEN Cross(Sub(Vertex(h, i, j), Vertex(h, i, j - 1)), Sub(Vertex(h, i + 1, j - 1), Vertex(h, i, j)))
    ELSE Zero

Ahead(n, h, i, j) ==
    IF i < n - 1 /\ j < n - 1
    THEN Cross(Sub(Vertex(h, i, j), Vertex(h, i + 1, j)), Sub(Vertex(h, i, j + 1), Vertex(h, i, j)))
    ELSE Zero

\* The vector that is normalized into normalsData.
Normal(n, h, i, j) ==
    LET sum == Add(Add(Behind(n, h, i, j), Beside(n, h, i, j)), Ahead(n, h, i, j))
    IN  IF sum = Zero THEN <<0, 1, 0>> ELSE sum

Normals(n, h) == [p \in Grid(n) |-> Normal(n, h, p[1], p[2])]

-----------------------------------------------------------------------------
(* What a mesh should be *)

\* Seen from above, and twice the area of the triangle's shadow on the ground.
Clockwise(t) ==
    (t[2][1] - t[1][1]) * (t[3][2] - t[1][2]) - (t[2][2] - t[1][2]) * (t[3][1] - t[1][1])

Edges(t) == {<<t[1], t[2]>>, <<t[2], t[3]>>, <<t[3], t[1]>>}

\* A border runs along one side of the grid.
OnBorder(n, e) == \E k \in {1, 2} : e[1][k] = e[2][k] /\ e[1][k] \in {0, n - 1}
=============================================================================
