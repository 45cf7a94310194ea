----------------------------- MODULE QuadTerrain -----------------------------
(***************************************************************************)
(* QuadTerrainNode: the quad tree of SingleMeshLodTerrain.  In every frame *)
(* process() updates it for the camera's position: nodes near it split,    *)
(* nodes that are not near any more merge.                                 *)
(*                                                                         *)
(* A node is the square <<x, z, size>> it covers.  The program's squares   *)
(* are exact in float, since 5000 is halved nine times at most, and become *)
(* integers here by a choice of the unit, which may be as fine as wanted.  *)
(***************************************************************************)
EXTENDS Integers, FiniteSets

CONSTANTS
    Size,       \* of the terrain
    Sizes,      \* those of the nodes: Size and its halves
    MinSize,    \* minLodPatchSize
    Positions   \* bound: where the camera may be, <<x, z>>

ASSUME TerrainAssumption ==
    /\ Size \in Nat \ {0}
    /\ MinSize \in 1..Size
    /\ Sizes \subseteq MinSize..Size
    /\ Size \in Sizes
    /\ \A s \in Sizes \ {Size} : 2 * s \in Sizes
    /\ \A s \in Sizes : s >= 2 * MinSize => \E half \in Sizes : s = 2 * half
    /\ Positions \subseteq Int \X Int

VARIABLES
    referencePoint, \* the camera's position at the last update, if any
    leaf,           \* the nodes reachable from the root, and whether they are leaves
    heap            \* the nodes allocated and not deleted

vars == <<referencePoint, leaf, heap>>

Root == <<-(Size \div 2), -(Size \div 2), Size>>
Steps(s) == {i \in 0..(Size - 1) : (i + 1) * s <= Size}
Nodes ==
    UNION {{<<Root[1] + i * s, Root[2] + j * s, s>> : i, j \in Steps(s)} : s \in Sizes}

\* Mutant: the lower children start where the upper ones do.
ChildrenTwice(n) ==
    LET half == n[3] \div 2
    IN  [tl |-> <<n[1], n[2], half>>, tr |-> <<n[1] + half, n[2], half>>,
         bl |-> <<n[1], n[2], half>>, br |-> <<n[1] + half, n[2], half>>]

Children(n) ==
    LET half == n[3] \div 2
    IN  [tl |-> <<n[1], n[2], half>>, tr |-> <<n[1] + half, n[2], half>>,
         bl |-> <<n[1], n[2] + half, half>>, br |-> <<n[1] + half, n[2] + half, half>>]
ChildSet(n) == {Children(n)[c] : c \in {"tl", "tr", "bl", "br"}}

\* Mutant: without the factor of five.
IntersectsClose(p, n) ==
    LET dx == 2 * p[1] - (2 * n[1] + n[3])
        dz == 2 * p[2] - (2 * n[2] + n[3])
    IN  dx * dx + dz * dz < 2 * n[3] * n[3]

\* intersects(): the distance of p to the middle is less than five times half
\* the diagonal; twice the distance, squared, is less than 50 squares.
Intersects(p, n) ==
    LET dx == 2 * p[1] - (2 * n[1] + n[3])
        dz == 2 * p[2] - (2 * n[2] + n[3])
    IN  dx * dx + dz * dz < 50 * n[3] * n[3]

\* Mutant: off by one level.
MaySplitLess(n) == n[3] > 4 * MinSize

MaySplit(n) == n[3] >= 2 * MinSize

-----------------------------------------------------------------------------

\* A tree of one node, and the tree made of those in F.
Single(n, flag) == [m \in {n} |-> flag]
Joined(F) == [m \in UNION {DOMAIN f : f \in F} |-> (CHOOSE f \in F : m \in DOMAIN f)[m]]

Init ==
    /\ referencePoint = <<>>
    /\ leaf = Single(Root, TRUE)
    /\ heap = {Root}

\* A node that is being split off is a leaf.
IsLeaf(tree, n) == n \notin DOMAIN tree \/ tree[n]

\* Mutant: the destructor deletes the node only.
DeletedShallow(tree, n) == {n}

\* delete n: the destructor deletes the children of a node that is no leaf.
Deleted(tree, n) ==
    LET deleted[m \in Nodes] ==
            {m} \cup (IF IsLeaf(tree, m) THEN {} ELSE UNION {deleted[c] : c \in ChildSet(m)})
    IN  deleted[n]

\* Mutant: the children are left where they are.
MergedKeeps(tree, n) == [m \in Deleted(tree, n) |-> m = n \/ IsLeaf(tree, m)]

Merged(tree, n) == Single(n, TRUE)

\* Mutant: only a node that is split now has its children updated.
UpdatesOnSplit(tree, n) == MaySplit(n) /\ IsLeaf(tree, n)

UpdatesChildren(tree, n) == MaySplit(n)

\* update(), from the root: the flags of the nodes that are reachable after it.
\* A node that intersects is split if it was a leaf, and its children updated;
\* one that does not becomes or stays a leaf.
Update(tree, p) ==
    LET update[n \in Nodes] ==
            IF ~ Intersects(p, n) THEN Merged(tree, n)
            ELSE IF UpdatesChildren(tree, n)
                 THEN Joined({Single(n, FALSE)} \cup {update[c] : c \in ChildSet(n)})
                 ELSE [m \in Deleted(tree, n) |-> IsLeaf(tree, m)]
    IN  update[Root]

\* SingleMeshLodTerrain::process(): a split allocates four nodes, a merge
\* deletes the four children.
Process ==
    \E p \in Positions :
        LET after == Update(leaf, p)
            split == {n \in DOMAIN after : IsLeaf(leaf, n) /\ ~ after[n]}
            merged == {n \in DOMAIN after : ~ IsLeaf(leaf, n) /\ after[n]}
        IN  /\ referencePoint' = p
            /\ leaf' = after
            /\ heap' = (heap \ UNION {Deleted(leaf, c) : c \in UNION {ChildSet(n) : n \in merged}})
                            \cup UNION {ChildSet(n) : n \in split}

Next == Process

Spec == Init /\ [][Next]_vars

-----------------------------------------------------------------------------
(* Properties *)

Leaves == {n \in DOMAIN leaf : leaf[n]}
Area(n) == (n[1]..(n[1] + n[3] - 1)) \X (n[2]..(n[2] + n[3] - 1))

\* The type of the state: children are there exactly below nodes that are no leaves.
TypeOK ==
    /\ referencePoint \in Positions \cup {<<>>}
    /\ leaf \in [DOMAIN leaf -> BOOLEAN]
    /\ DOMAIN leaf = {Root} \cup UNION {ChildSet(n) : n \in DOMAIN leaf \ Leaves}

\* The leaves cover the terrain, without gaps or overlaps: of them render() draws
\* those in the field of view.
LeavesTile ==
    \A x, z \in Root[1]..(Root[1] + Size - 1) :
        Cardinality({n \in Leaves : <<x, z>> \in Area(n)}) = 1

\* However often nodes split and merge, every node that is allocated is in the
\* tree, and every node of the tree is allocated.
NoNodeLeaks == heap = DOMAIN leaf

\* The tree does not depend on where the camera was before: it is that of a
\* root that was never updated.
FollowsCamera == referencePoint # <<>> => leaf = Update(Single(Root, TRUE), referencePoint)

\* The terrain is finest at the camera.
FinestAtCamera ==
    referencePoint # <<>> =>
        \A n \in Leaves : referencePoint \in Area(n) => n[3] < 2 * MinSize

\* Two leaves that touch differ by one level at most, which the factor of the range
\* in intersects() decides.
Touch(m, n) ==
    /\ m[1] <= n[1] + n[3] /\ n[1] <= m[1] + m[3]
    /\ m[2] <= n[2] + n[3] /\ n[2] <= m[2] + m[3]
LevelsMeet == \A m, n \in Leaves : Touch(m, n) => m[3] <= 2 * n[3]
=============================================================================
