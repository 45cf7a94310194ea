-------------------------- MODULE QuadTerrainProofs --------------------------
(***************************************************************************)
(* What the quad tree of SingleMeshLodTerrain keeps to, for every size of  *)
(* the terrain, every smallest patch and every path of the camera.         *)
(*                                                                         *)
(* update() and the destructor recurse over the tree.  What they compute   *)
(* is proved here by the least counterexample: sizes are natural numbers,  *)
(* and every child is smaller than its parent.                             *)
(***************************************************************************)
EXTENDS QuadTerrain, FiniteSetTheorems, WellFoundedInduction, TLAPS

-----------------------------------------------------------------------------
(* Sizes *)

\* Every set of naturals that is not empty has a least element.
LEMMA LeastNatural ==
    ASSUME NEW T \in SUBSET Nat, T # {}
    PROVE  \E m \in T : \A k \in T : m <= k
  <1>1. PICK m \in T : \A k \in T : <<k, m>> \notin OpToRel(<, Nat)
    BY WFMin, NatLessThanWellFounded, Zenon
  <1>2. \A k \in T : ~ (k < m)
    BY <1>1, Zenon DEF OpToRel
  <1> QED
    BY <1>2

\* The sizes are natural numbers, none smaller than the smallest patch.
LEMMA SizesAreNatural ==
    /\ Size \in Nat /\ Size > 0 /\ Size \in Sizes
    /\ MinSize \in Nat /\ MinSize > 0
    /\ \A s \in Sizes : s \in Nat /\ s > 0 /\ MinSize <= s /\ s <= Size
  BY TerrainAssumption

\* Of two different sizes the larger is a multiple of twice the smaller one.
LEMMA SizesDouble ==
    ASSUME NEW s \in Sizes, NEW t \in Sizes, s < t
    PROVE  \E d \in Nat : d > 0 /\ t = 2 * s * d
  <1> DEFINE Divides(a, b) == \E d \in Nat : d > 0 /\ b = 2 * a * d
             Bad == {a \in Sizes : \E b \in Sizes : a < b /\ ~ Divides(a, b)}
             Left == {Size - a : a \in Bad}
  <1>1. SUFFICES Bad = {}
    OBVIOUS
  <1>2. SUFFICES ASSUME Bad # {} PROVE FALSE
    OBVIOUS
  <1>a. Bad \subseteq Sizes
    OBVIOUS
  <1>b. \A c \in Sizes : c \notin Bad => \A b \in Sizes : c < b => Divides(c, b)
    OBVIOUS
  <1>3. Left \in SUBSET Nat /\ Left # {}
    <2> HIDE DEF Bad
    <2>1. \A c \in Bad : Size - c \in Nat
      BY <1>a, SizesAreNatural
    <2> QED
      BY <1>2, <2>1
  <1>4. PICK l \in Left : \A k \in Left : l <= k
    BY <1>3, LeastNatural
  <1>5. PICK a \in Bad : l = Size - a
    BY <1>4
  <1>6. \A c \in Sizes : c > a => c \notin Bad
    <2> HIDE DEF Bad
    <2>1. \A c \in Bad : c \in Nat /\ a \in Nat /\ Size \in Nat /\ Size - a <= Size - c
      BY <1>4, <1>5, <1>a, SizesAreNatural
    <2> QED
      BY <2>1
  <1>7. PICK b \in Sizes : a < b /\ ~ Divides(a, b)
    BY <1>5
  <1>8. a \in Nat /\ b \in Nat /\ a > 0 /\ b <= Size /\ a # Size
    BY <1>5, <1>7, SizesAreNatural
  <1>9. 2 * a \in Sizes /\ 2 * a > a
    BY <1>5, <1>8, TerrainAssumption
  <1>10. CASE b = 2 * a
    <2>1. 1 \in Nat /\ 1 > 0 /\ b = 2 * a * 1
      BY <1>8, <1>10
    <2> QED
      BY <2>1, <1>7
  <1>11. CASE b > 2 * a
    <2>1. PICK d \in Nat : d > 0 /\ b = 2 * (2 * a) * d
      BY <1>6, <1>9, <1>11
    <2>2. 2 * d \in Nat /\ 2 * d > 0 /\ b = 2 * a * (2 * d)
      BY <2>1, <1>8
    <2> QED
      BY <2>2, <1>7
  <1>12. CASE b < 2 * a
    <2>1. b # Size /\ 2 * b \in Sizes
      BY <1>9, <1>12, SizesAreNatural, TerrainAssumption
    <2>2. PICK d \in Nat : d > 0 /\ 2 * b = 2 * (2 * a) * d
      BY <1>6, <1>7, <1>8, <1>9, <2>1
    <2>3. d \in Nat /\ d > 0 /\ b = 2 * a * d
      BY <2>2, <1>8
    <2> QED
      BY <2>3, <1>7
  <1> QED
    BY <1>8, <1>10, <1>11, <1>12

-----------------------------------------------------------------------------
(* Nodes *)

\* A node is a square of the grid of its size.
LEMMA NodeParts ==
    ASSUME NEW n \in Nodes
    PROVE  /\ n = <<n[1], n[2], n[3]>>
           /\ n[1] \in Int /\ n[2] \in Int /\ n[3] \in Sizes
           /\ n[3] \in Nat /\ n[3] > 0
           /\ \E i, j \in Steps(n[3]) :
                /\ n[1] = Root[1] + i * n[3]
                /\ n[2] = Root[2] + j * n[3]
  <1>0. PICK s \in Sizes : \E i, j \in Steps(s) :
            n = <<Root[1] + i * s, Root[2] + j * s, s>>
    BY DEF Nodes
  <1>1. PICK i \in Steps(s), j \in Steps(s) :
            n = <<Root[1] + i * s, Root[2] + j * s, s>>
    BY <1>0
  <1>2. s \in Nat /\ s > 0 /\ i \in Int /\ j \in Int /\ Size \in Nat
    BY SizesAreNatural DEF Steps
  <1>3. Root[1] \in Int /\ Root[2] \in Int
    BY <1>2 DEF Root
  <1>4. n[1] = Root[1] + i * s /\ n[2] = Root[2] + j * s /\ n[3] = s
    BY <1>1
  <1>5. Root[1] + i * s \in Int /\ Root[2] + j * s \in Int
    BY <1>2, <1>3
  <1> QED
    BY <1>1, <1>2, <1>4, <1>5

\* A square of the grid of a size is a node.
LEMMA IsNode ==
    ASSUME NEW s \in Sizes, NEW i \in Nat, NEW j \in Nat,
           (i + 1) * s <= Size, (j + 1) * s <= Size
    PROVE  <<Root[1] + i * s, Root[2] + j * s, s>> \in Nodes
  <1>1. s \in Nat /\ s > 0 /\ Size \in Nat
    BY SizesAreNatural
  <1>2. i \in 0..(Size - 1) /\ j \in 0..(Size - 1)
    <2>1. (i + 1) <= (i + 1) * s /\ (j + 1) <= (j + 1) * s
      BY <1>1
    <2> QED
      BY <1>1, <2>1
  <1>3. i \in Steps(s) /\ j \in Steps(s)
    BY <1>2 DEF Steps
  <1> QED
    BY <1>3 DEF Nodes

\* The root is a node.
LEMMA RootIsNode == Root \in Nodes /\ Root[3] = Size /\ Root[1] \in Int /\ Root[2] \in Int
  <1>1. Size \in Nat /\ Size \in Sizes
    BY SizesAreNatural
  <1>2. Root[1] \in Int /\ Root[2] \in Int /\ Root = <<Root[1], Root[2], Size>>
    BY <1>1 DEF Root
  <1>3. <<Root[1] + 0 * Size, Root[2] + 0 * Size, Size>> \in Nodes
    BY <1>1, IsNode
  <1> QED
    BY <1>1, <1>2, <1>3

-----------------------------------------------------------------------------
(* Squares *)

\* m lies in n.
Below(m, n) ==
    /\ n[1] <= m[1] /\ m[1] + m[3] <= n[1] + n[3]
    /\ n[2] <= m[2] /\ m[2] + m[3] <= n[2] + n[3]

\* The point <<x, z>> lies in n.
Covers(n, x, z) ==
    /\ n[1] <= x /\ x < n[1] + n[3]
    /\ n[2] <= z /\ z < n[2] + n[3]

\* Multiplying by a positive number keeps the order.
LEMMA TimesKeepsOrder ==
    ASSUME NEW a \in Int, NEW b \in Int, NEW s \in Nat, s > 0
    PROVE  /\ a <= b => a * s <= b * s
           /\ a * s < b * s => a + 1 <= b
  <1>1. ASSUME NEW u \in Int, NEW v \in Int, u <= v PROVE u * s <= v * s
    <2>1. PICK e \in Nat : v = u + e
      <3>1. v - u \in Nat /\ v = u + (v - u)
        BY <1>1
      <3> QED
        BY <3>1
    <2>2. v * s = u * s + e * s /\ e * s >= 0 /\ u * s \in Int
      BY <2>1
    <2> QED
      BY <2>2
  <1>2. ~ (a + 1 <= b) => b * s <= a * s
    BY <1>1
  <1> QED
    BY <1>1, <1>2

\* Of two intervals of a grid with a common point, whose lengths divide one
\* another, the shorter one lies in the longer one.
LEMMA IntervalsNest ==
    ASSUME NEW s \in Nat, s > 0, NEW d \in Nat, d > 0,
           NEW i \in Int, NEW j \in Int, NEW x \in Int,
           i * s <= x, x < i * s + s,
           j * (s * d) <= x, x < j * (s * d) + s * d
    PROVE  j * (s * d) <= i * s /\ i * s + s <= j * (s * d) + s * d
  <1>1. PICK k \in Int : k = j * d
    OBVIOUS
  <1>2. j * (s * d) = k * s /\ j * (s * d) + s * d = (k + d) * s
    BY <1>1
  <1>3. i * s + s = (i + 1) * s
    OBVIOUS
  <1>4. k * s < (i + 1) * s /\ i * s < (k + d) * s
    <2>1. i * s \in Int /\ k * s \in Int /\ (k + d) * s \in Int /\ (i + 1) * s \in Int
      OBVIOUS
    <2> QED
      BY <1>2, <1>3, <2>1
  <1>5. k + 1 <= i + 1 /\ i + 1 <= k + d
    BY <1>4, TimesKeepsOrder
  <1>6. k * s <= i * s /\ (i + 1) * s <= (k + d) * s
    BY <1>5, TimesKeepsOrder
  <1> QED
    BY <1>2, <1>3, <1>6

\* Of two nodes with a common point, the smaller one lies in the larger one.
LEMMA NodesNest ==
    ASSUME NEW m \in Nodes, NEW n \in Nodes, m[3] <= n[3],
           NEW x \in Int, NEW z \in Int, Covers(m, x, z), Covers(n, x, z)
    PROVE  Below(m, n)
  <1>1. PICK s \in Nat, t \in Nat : s = m[3] /\ t = n[3] /\ s > 0 /\ t > 0 /\ s \in Sizes /\ t \in Sizes
    BY NodeParts
  <1>2. PICK d \in Nat : d > 0 /\ t = s * d
    <2>1. CASE s = t
      <3>1. 1 \in Nat /\ 1 > 0 /\ t = s * 1
        BY <2>1
      <3> QED
        BY <3>1
    <2>2. CASE s < t
      <3>1. PICK e \in Nat : e > 0 /\ t = 2 * s * e
        BY <1>1, <2>2, SizesDouble
      <3>2. 2 * e \in Nat /\ 2 * e > 0 /\ t = s * (2 * e)
        BY <3>1
      <3> QED
        BY <3>2
    <2> QED
      BY <1>1, <2>1, <2>2
  <1>3. PICK r \in Int, q \in Int : r = Root[1] /\ q = Root[2]
    BY RootIsNode
  <1>4. PICK i \in Int, j \in Int : m[1] = r + i * s /\ m[2] = q + j * s
    BY <1>1, <1>3, NodeParts DEF Steps
  <1>5. PICK k \in Int, l \in Int : n[1] = r + k * t /\ n[2] = q + l * t
    BY <1>1, <1>3, NodeParts DEF Steps
  <1>6. /\ i * s <= x - r /\ x - r < i * s + s
        /\ j * s <= z - q /\ z - q < j * s + s
    <2>1. i * s \in Int /\ j * s \in Int
      OBVIOUS
    <2> QED
      BY <1>1, <1>4, <2>1 DEF Covers
  <1>7. /\ k * (s * d) <= x - r /\ x - r < k * (s * d) + s * d
        /\ l * (s * d) <= z - q /\ z - q < l * (s * d) + s * d
    <2>1. k * t \in Int /\ l * t \in Int
      OBVIOUS
    <2>2. /\ k * t <= x - r /\ x - r < k * t + t
          /\ l * t <= z - q /\ z - q < l * t + t
      BY <1>1, <1>5, <2>1 DEF Covers
    <2> QED
      BY <2>2, <1>2
  <1>8. k * (s * d) <= i * s /\ i * s + s <= k * (s * d) + s * d
    <2>1. x - r \in Int
      OBVIOUS
    <2> QED
      BY <1>1, <1>2, <1>6, <1>7, <2>1, IntervalsNest
  <1>9. l * (s * d) <= j * s /\ j * s + s <= l * (s * d) + s * d
    <2>1. z - q \in Int
      OBVIOUS
    <2> QED
      BY <1>1, <1>2, <1>6, <1>7, <2>1, IntervalsNest
  <1>10. k * t <= i * s /\ i * s + s <= k * t + t /\ l * t <= j * s /\ j * s + s <= l * t + t
    BY <1>2, <1>8, <1>9
  <1>11. k * t \in Int /\ l * t \in Int /\ i * s \in Int /\ j * s \in Int
    OBVIOUS
  <1> QED
    BY <1>1, <1>4, <1>5, <1>10, <1>11 DEF Below

\* Below is reflexive and transitive; a node in another that is no larger is it.
LEMMA BelowOrders ==
    /\ \A n \in Nodes : Below(n, n)
    /\ \A k, m, n \in Nodes : Below(k, m) /\ Below(m, n) => Below(k, n)
    /\ \A m, n \in Nodes : Below(m, n) => m[3] <= n[3]
    /\ \A m, n \in Nodes : Below(m, n) /\ n[3] <= m[3] => m = n
  <1>1. \A n \in Nodes : n = <<n[1], n[2], n[3]>> /\ n[1] \in Int /\ n[2] \in Int /\ n[3] \in Nat
    BY NodeParts
  <1>2. \A m, n \in Nodes : Below(m, n) /\ n[3] <= m[3] => m[1] = n[1] /\ m[2] = n[2] /\ m[3] = n[3]
    BY <1>1 DEF Below
  <1>3. \A m, n \in Nodes : Below(m, n) /\ n[3] <= m[3] => m = n
    BY <1>1, <1>2
  <1> QED
    BY <1>1, <1>3 DEF Below

\* Every node lies in the root.
LEMMA BelowRoot == ASSUME NEW n \in Nodes PROVE Below(n, Root)
  <1>1. PICK s \in Nat, r \in Int, q \in Int : s = n[3] /\ r = Root[1] /\ q = Root[2] /\ s > 0
    BY NodeParts, RootIsNode
  <1>2. Root[3] = Size /\ Size \in Nat
    BY RootIsNode, SizesAreNatural
  <1>3. PICK i, j \in Steps(s) : n[1] = r + i * s /\ n[2] = q + j * s
    BY <1>1, NodeParts
  <1>4. /\ i \in Nat /\ j \in Nat /\ (i + 1) * s <= Size /\ (j + 1) * s <= Size
    BY <1>2 DEF Steps
  <1>5. i * s >= 0 /\ (i + 1) * s = i * s + s /\ i * s \in Int
    BY <1>4
  <1>6. j * s >= 0 /\ (j + 1) * s = j * s + s /\ j * s \in Int
    BY <1>4
  <1> QED
    BY <1>1, <1>2, <1>3, <1>4, <1>5, <1>6 DEF Below

\* The children of a node that may split: four nodes of half its size that
\* cover it.
LEMMA ChildrenOf ==
    ASSUME NEW n \in Nodes, MaySplit(n)
    PROVE  /\ ChildSet(n) \subseteq Nodes
           /\ \A c \in ChildSet(n) : n[3] = 2 * c[3] /\ Below(c, n)
           /\ \A x, z \in Int : Covers(n, x, z) => \E c \in ChildSet(n) : Covers(c, x, z)
  <1>1. PICK s \in Nat, r \in Int, q \in Int, h \in Sizes :
            /\ r = Root[1] /\ q = Root[2]
            /\ s = n[3] /\ s = 2 * h /\ h \in Nat /\ h > 0 /\ s \div 2 = h
    <2>1. n[3] \in Sizes /\ n[3] \in Nat /\ Root[1] \in Int /\ Root[2] \in Int
      BY NodeParts, RootIsNode
    <2>2. PICK h \in Sizes : n[3] = 2 * h
      BY <2>1, TerrainAssumption DEF MaySplit
    <2>3. h \in Nat /\ h > 0
      BY SizesAreNatural
    <2>4. n[3] \div 2 = h
      BY <2>2, <2>3
    <2> QED
      BY <2>1, <2>2, <2>3, <2>4
  <1>2. PICK i, j \in Nat : /\ n[1] = r + i * s /\ n[2] = q + j * s
                            /\ (i + 1) * s <= Size /\ (j + 1) * s <= Size
    <2>0. \E i, j \in Steps(n[3]) : n[1] = Root[1] + i * n[3] /\ n[2] = Root[2] + j * n[3]
      BY NodeParts
    <2>1. PICK i, j \in Steps(s) : n[1] = r + i * s /\ n[2] = q + j * s
      BY <1>1, <2>0, Zenon
    <2>2. i \in Nat /\ j \in Nat /\ (i + 1) * s <= Size /\ (j + 1) * s <= Size
      BY SizesAreNatural DEF Steps
    <2> QED
      BY <2>1, <2>2
  <1>3. PICK a \in Int, b \in Int : a = n[1] /\ b = n[2]
    BY NodeParts
  <1>4. ChildSet(n) = {<<a, b, h>>, <<a + h, b, h>>, <<a, b + h, h>>, <<a + h, b + h, h>>}
    BY <1>1, <1>3 DEF ChildSet, Children
  <1>5. a = r + (2 * i) * h /\ a + h = r + (2 * i + 1) * h
    <2>1. PICK e \in Int : e = i * s
      BY <1>1
    <2>2. (2 * i) * h = e /\ (2 * i + 1) * h = e + h
      BY <1>1, <2>1
    <2>3. a = r + e
      BY <1>2, <1>3, <2>1
    <2>4. a + h = r + (e + h)
      BY <1>1, <2>3
    <2> QED
      BY <2>2, <2>3, <2>4
  <1>6. b = q + (2 * j) * h /\ b + h = q + (2 * j + 1) * h
    <2>1. PICK e \in Int : e = j * s
      BY <1>1
    <2>2. (2 * j) * h = e /\ (2 * j + 1) * h = e + h
      BY <1>1, <2>1
    <2>3. b = q + e
      BY <1>2, <1>3, <2>1
    <2>4. b + h = q + (e + h)
      BY <1>1, <2>3
    <2> QED
      BY <2>2, <2>3, <2>4
  <1>7. /\ (2 * i + 1) * h <= Size /\ (2 * i + 1 + 1) * h <= Size
        /\ (2 * j + 1) * h <= Size /\ (2 * j + 1 + 1) * h <= Size
    <2>1. /\ (i + 1) * s = (2 * i + 1 + 1) * h
          /\ (2 * i + 1 + 1) * h = (2 * i + 1) * h + h /\ (2 * i + 1) * h \in Int
      BY <1>1
    <2>2. /\ (j + 1) * s = (2 * j + 1 + 1) * h
          /\ (2 * j + 1 + 1) * h = (2 * j + 1) * h + h /\ (2 * j + 1) * h \in Int
      BY <1>1
    <2> QED
      BY <1>1, <1>2, <2>1, <2>2, SizesAreNatural
  <1>8. 2 * i \in Nat /\ 2 * i + 1 \in Nat /\ 2 * j \in Nat /\ 2 * j + 1 \in Nat
    OBVIOUS
  <1>9. ASSUME NEW u \in {2 * i, 2 * i + 1}, NEW v \in {2 * j, 2 * j + 1}
        PROVE  <<r + u * h, q + v * h, h>> \in Nodes
    BY <1>1, <1>7, <1>8, IsNode
  <1>10. ChildSet(n) \subseteq Nodes
    BY <1>4, <1>5, <1>6, <1>9
  <1>11. \A c \in ChildSet(n) : n[3] = 2 * c[3] /\ Below(c, n)
    BY <1>1, <1>3, <1>4 DEF Below
  <1>12. ASSUME NEW x \in Int, NEW z \in Int, Covers(n, x, z)
         PROVE  \E c \in ChildSet(n) : Covers(c, x, z)
    <2>1. /\ a <= x /\ x < a + 2 * h /\ b <= z /\ z < b + 2 * h
      BY <1>1, <1>3, <1>12 DEF Covers
    <2>2. PICK u \in {a, a + h}, v \in {b, b + h} :
                u <= x /\ x < u + h /\ v <= z /\ z < v + h
      BY <1>1, <2>1
    <2>3. <<u, v, h>> \in ChildSet(n)
      BY <1>4
    <2>4. Covers(<<u, v, h>>, x, z)
      BY <2>2 DEF Covers
    <2> QED
      BY <2>3, <2>4
  <1> QED
    BY <1>10, <1>11, <1>12

\* A node holds its own corner.
LEMMA CoversCorner == ASSUME NEW n \in Nodes PROVE n[1] \in Int /\ n[2] \in Int /\ Covers(n, n[1], n[2])
  BY NodeParts DEF Covers

\* What lies in a node covers only points that the node covers.
LEMMA BelowCovers ==
    ASSUME NEW m \in Nodes, NEW n \in Nodes, Below(m, n), NEW x \in Int, NEW z \in Int, Covers(m, x, z)
    PROVE  Covers(n, x, z)
  BY NodeParts DEF Below, Covers

\* A node that holds a smaller one, a child of another, holds its parent too.
LEMMA HoldsParent ==
    ASSUME NEW q \in Nodes, MaySplit(q), NEW m \in ChildSet(q), NEW n \in Nodes,
           Below(m, n), m[3] < n[3]
    PROVE  Below(q, n)
  <1>1. m \in Nodes /\ q[3] = 2 * m[3] /\ Below(m, q)
    BY ChildrenOf
  <1>2. m[3] \in Sizes /\ n[3] \in Sizes /\ m[3] \in Nat /\ n[3] \in Nat
    BY <1>1, NodeParts
  <1>3. PICK d \in Nat : d > 0 /\ n[3] = 2 * m[3] * d
    BY <1>2, SizesDouble
  <1>4. q[3] <= n[3]
    <2>1. 1 * (2 * m[3]) <= d * (2 * m[3])
      <3>1. 2 * m[3] \in Nat /\ 2 * m[3] > 0
        BY <1>1, <1>2, NodeParts
      <3> QED
        BY <1>3, <3>1, TimesKeepsOrder
    <2> QED
      BY <1>1, <1>2, <1>3, <2>1
  <1>5. Covers(q, m[1], m[2]) /\ Covers(n, m[1], m[2]) /\ m[1] \in Int /\ m[2] \in Int
    BY <1>1, CoversCorner, BelowCovers
  <1> QED
    BY <1>4, <1>5, NodesNest

\* Every set of nodes that is not empty has a node that no other is smaller than ...
LEMMA LeastNode ==
    ASSUME NEW T \in SUBSET Nodes, T # {}
    PROVE  \E n \in T : \A m \in T : n[3] <= m[3]
  <1> DEFINE L == {n[3] : n \in T}
  <1>1. \A n \in T : n[3] \in Nat
    BY NodeParts
  <1>2. L \in SUBSET Nat /\ L # {}
    BY <1>1
  <1>3. PICK l \in L : \A k \in L : l <= k
    BY <1>2, LeastNatural
  <1> QED
    BY <1>3

\* ... and one that no other is larger than.
LEMMA GreatestNode ==
    ASSUME NEW T \in SUBSET Nodes, T # {}
    PROVE  \E n \in T : \A m \in T : m[3] <= n[3]
  <1> DEFINE L == {Size - n[3] : n \in T}
  <1>1. \A n \in T : n[3] \in Nat /\ Size - n[3] \in Nat
    BY NodeParts, SizesAreNatural
  <1>2. L \in SUBSET Nat /\ L # {}
    BY <1>1
  <1>3. PICK l \in L : \A k \in L : l <= k
    BY <1>2, LeastNatural
  <1>4. PICK n \in T : l = Size - n[3]
    BY <1>3
  <1>5. \A m \in T : Size - n[3] <= Size - m[3]
    BY <1>3, <1>4
  <1> QED
    BY <1>1, <1>5, SizesAreNatural

-----------------------------------------------------------------------------
(* Trees *)

\* Only nodes that may split are inner ones.
Splits(I) ==
    /\ I \in [Nodes -> BOOLEAN]
    /\ \A n \in Nodes : I[n] => MaySplit(n)

\* The nodes of the tree below each node, when I says which nodes are inner.
Reached(I, g) ==
    [n \in Nodes |-> {n} \cup (IF I[n] THEN UNION {g[c] : c \in ChildSet(n)} ELSE {})]
Reach(I) == CHOOSE g : g = Reached(I, g)

\* The children of an inner node are smaller nodes in it.
LEMMA InnerChildren ==
    ASSUME NEW I, Splits(I), NEW n \in Nodes, I[n], NEW c \in ChildSet(n)
    PROVE  /\ c \in Nodes /\ Below(c, n) /\ n[3] = 2 * c[3]
           /\ c[3] \in Nat /\ n[3] \in Nat /\ c[3] > 0 /\ c[3] < n[3]
  <1>1. c \in Nodes /\ Below(c, n) /\ n[3] = 2 * c[3]
    BY ChildrenOf DEF Splits
  <1>2. c[3] \in Nat /\ n[3] \in Nat /\ c[3] > 0
    BY <1>1, NodeParts
  <1> QED
    BY <1>1, <1>2

\* What is reached below one node depends on what is reached below smaller ones only.
LEMMA ReachedAgain ==
    ASSUME NEW I, Splits(I), NEW g, NEW k \in Nat,
           \A n \in Nodes : n[3] < k => g[n] = Reached(I, g)[n]
    PROVE  \A n \in Nodes : n[3] <= k => Reached(I, g)[n] = Reached(I, Reached(I, g))[n]
  <1> DEFINE h == Reached(I, g)
  <1> SUFFICES ASSUME NEW n \in Nodes, n[3] <= k
               PROVE  h[n] = Reached(I, h)[n]
    OBVIOUS
  <1>1. CASE I[n]
    <2>1. \A c \in ChildSet(n) : h[c] = g[c]
      <3>1. \A c \in ChildSet(n) : c \in Nodes /\ c[3] < k
        BY <1>1, InnerChildren
      <3> QED
        BY <3>1
    <2>2. h[n] = {n} \cup UNION {g[c] : c \in ChildSet(n)}
      BY <1>1 DEF Reached
    <2>3. Reached(I, h)[n] = {n} \cup UNION {h[c] : c \in ChildSet(n)}
      <3> HIDE DEF h
      <3> QED
        BY <1>1 DEF Reached
    <2>4. {g[c] : c \in ChildSet(n)} = {h[c] : c \in ChildSet(n)}
      <3> HIDE DEF h
      <3> QED
        BY <2>1
    <2> QED
      <3> HIDE DEF h
      <3> QED
        BY <2>2, <2>3, <2>4
  <1>2. CASE ~ I[n]
    <2>1. h[n] = {n}
      BY <1>2 DEF Reached
    <2>2. Reached(I, h)[n] = {n}
      <3> HIDE DEF h
      <3> QED
        BY <1>2 DEF Reached
    <2> QED
      BY <2>1, <2>2
  <1> QED
    BY <1>1, <1>2

\* Reach(I) is a function that satisfies its recursive definition: one that
\* does so below a size gives one that does so one size further.
LEMMA ReachDefined ==
    ASSUME NEW I, Splits(I)
    PROVE  Reach(I) = Reached(I, Reach(I))
  <1> DEFINE Good(k, g) == \A n \in Nodes : n[3] < k => g[n] = Reached(I, g)[n]
             Bad == {k \in Nat : ~ \E g : Good(k, g)}
  <1>1. Bad = {}
    <2>1. SUFFICES ASSUME Bad # {} PROVE FALSE
      OBVIOUS
    <2>2. PICK k \in Bad : \A l \in Bad : k <= l
      <3>1. Bad \in SUBSET Nat
        OBVIOUS
      <3> HIDE DEF Bad
      <3> QED
        BY <2>1, <3>1, LeastNatural
    <2>3. k \in Nat /\ ~ \E g : Good(k, g)
      BY <2>2
    <2>4. k # 0
      <3>1. Good(0, [n \in Nodes |-> {}])
        BY NodeParts
      <3> QED
        BY <2>3, <3>1
    <2>5. k - 1 \in Nat /\ k - 1 \notin Bad
      BY <2>2, <2>3, <2>4
    <2>6. PICK g : Good(k - 1, g)
      BY <2>5
    <2>7. \A n \in Nodes : n[3] <= k - 1 => Reached(I, g)[n] = Reached(I, Reached(I, g))[n]
      BY <2>5, <2>6, ReachedAgain
    <2>8. Good(k, Reached(I, g))
      <3>1. \A n \in Nodes : n[3] < k => n[3] <= k - 1
        BY <2>3, NodeParts
      <3> QED
        BY <2>7, <3>1
    <2> QED
      BY <2>3, <2>8
  <1>2. PICK g : Good(Size + 1, g)
    <2>1. Size + 1 \in Nat
      BY SizesAreNatural
    <2> QED
      BY <1>1, <2>1
  <1>3. \A n \in Nodes : n[3] <= Size + 1
    BY NodeParts, SizesAreNatural
  <1>4. \A n \in Nodes : Reached(I, g)[n] = Reached(I, Reached(I, g))[n]
    BY <1>2, <1>3, ReachedAgain, SizesAreNatural
  <1>5. Reached(I, g) = Reached(I, Reached(I, g))
    <2> DEFINE h == Reached(I, g)
    <2>1. h = [n \in Nodes |-> h[n]]
      BY DEF Reached
    <2>2. Reached(I, h) = [n \in Nodes |-> Reached(I, h)[n]]
      <3> HIDE DEF h
      <3> QED
        BY DEF Reached
    <2> HIDE DEF h
    <2>3. h = Reached(I, h)
      BY <1>4, <2>1, <2>2 DEF h
    <2> QED
      BY <2>3 DEF h
  <1> QED
    BY <1>5, Zenon DEF Reach

\* The recursive definition as an equation.
LEMMA ReachEquation ==
    ASSUME NEW I, Splits(I), NEW n \in Nodes
    PROVE  Reach(I)[n] = {n} \cup (IF I[n] THEN UNION {Reach(I)[c] : c \in ChildSet(n)} ELSE {})
  <1> DEFINE R == Reach(I)
  <1>1. R = Reached(I, R)
    BY ReachDefined
  <1> HIDE DEF R
  <1>2. R[n] = {n} \cup (IF I[n] THEN UNION {R[c] : c \in ChildSet(n)} ELSE {})
    BY <1>1 DEF Reached
  <1> QED
    BY <1>2 DEF R

\* ... and its three consequences.
LEMMA ReachCases ==
    ASSUME NEW I, Splits(I), NEW n \in Nodes
    PROVE  /\ n \in Reach(I)[n]
           /\ I[n] => \A c \in ChildSet(n) : Reach(I)[c] \subseteq Reach(I)[n]
           /\ \A m \in Reach(I)[n] : m = n \/ (I[n] /\ \E c \in ChildSet(n) : m \in Reach(I)[c])
  <1> DEFINE R == Reach(I)
  <1>1. R[n] = {n} \cup (IF I[n] THEN UNION {R[c] : c \in ChildSet(n)} ELSE {})
    BY ReachEquation
  <1> HIDE DEF R
  <1>2. /\ n \in R[n]
        /\ I[n] => \A c \in ChildSet(n) : R[c] \subseteq R[n]
        /\ \A m \in R[n] : m = n \/ (I[n] /\ \E c \in ChildSet(n) : m \in R[c])
    BY <1>1
  <1> QED
    BY <1>2 DEF R

\* What is reached below n are nodes in n; with an inner node its children are
\* reached; and every node but n is reached as the child of an inner one.
LEMMA ReachBelow ==
    ASSUME NEW I, Splits(I), NEW n \in Nodes, NEW m \in Reach(I)[n]
    PROVE  /\ m \in Nodes /\ Below(m, n)
           /\ I[m] => ChildSet(m) \subseteq Reach(I)[n]
           /\ m # n => \E q \in Reach(I)[n] : I[q] /\ m \in ChildSet(q)
  <1> DEFINE R == Reach(I)
             Good(u, v) == /\ u \in Nodes /\ Below(u, v)
                           /\ I[u] => ChildSet(u) \subseteq R[v]
                           /\ u # v => \E q \in R[v] : I[q] /\ u \in ChildSet(q)
             Bad == {v \in Nodes : \E u \in R[v] : ~ Good(u, v)}
  <1> SUFFICES Bad = {}
    BY Zenon
  <1> SUFFICES ASSUME Bad # {} PROVE FALSE
    OBVIOUS
  <1>1. PICK v \in Bad : \A w \in Bad : v[3] <= w[3]
    <2>1. Bad \in SUBSET Nodes
      OBVIOUS
    <2> HIDE DEF Bad
    <2> QED
      BY <2>1, LeastNode
  <1>2. v \in Nodes
    OBVIOUS
  <1>3. PICK u \in R[v] : ~ Good(u, v)
    OBVIOUS
  <1>4. ASSUME I[v], NEW c \in ChildSet(v), u \in R[c] PROVE FALSE
    <2>1. c \in Nodes /\ Below(c, v) /\ c[3] < v[3] /\ c[3] \in Nat /\ v[3] \in Nat
      BY <1>2, <1>4, InnerChildren
    <2>2. Good(u, c)
      <3>1. c \notin Bad
        BY <1>1, <2>1
      <3> QED
        BY <1>4, <2>1, <3>1
    <2>3. R[c] \subseteq R[v]
      BY <1>2, <1>4, ReachCases
    <2>4. Below(u, v)
      BY <1>2, <2>1, <2>2, BelowOrders
    <2>5. I[u] => ChildSet(u) \subseteq R[v]
      BY <2>2, <2>3
    <2>6. \E q \in R[v] : I[q] /\ u \in ChildSet(q)
      <3>1. CASE u = c
        BY <1>2, <1>4, <3>1, ReachCases
      <3>2. CASE u # c
        BY <2>2, <2>3, <3>2
      <3> QED
        BY <3>1, <3>2
    <2> QED
      BY <1>3, <2>2, <2>4, <2>5, <2>6
  <1>5. CASE u = v
    <2>1. Below(v, v)
      BY <1>2, BelowOrders
    <2>2. I[v] => ChildSet(v) \subseteq R[v]
      <3> SUFFICES ASSUME I[v], NEW c \in ChildSet(v) PROVE c \in R[v]
        OBVIOUS
      <3>1. c \in Nodes
        BY <1>2, InnerChildren
      <3>2. c \in R[c] /\ R[c] \subseteq R[v]
        BY <1>2, <3>1, ReachCases
      <3> QED
        BY <3>2
    <2> QED
      BY <1>2, <1>3, <1>5, <2>1, <2>2
  <1>6. u = v \/ (I[v] /\ \E c \in ChildSet(v) : u \in R[c])
    BY <1>2, ReachCases
  <1> QED
    BY <1>4, <1>5, <1>6

\* With a node, all the nodes that it lies in are reached and inner ones.
LEMMA ReachAbove ==
    ASSUME NEW I, Splits(I), NEW n \in Nodes, NEW m \in Reach(I)[n],
           NEW k \in Nodes, Below(m, k), m[3] < k[3], Below(k, n)
    PROVE  k \in Reach(I)[n] /\ I[k]
  <1> DEFINE R == Reach(I)[n]
             Bad == {u \in R : Below(u, k) /\ u[3] < k[3]}
  <1>1. SUFFICES ASSUME ~ (k \in R /\ I[k]) PROVE FALSE
    OBVIOUS
  <1>2. Bad \in SUBSET Nodes /\ Bad # {}
    BY ReachBelow
  <1>3. PICK u \in Bad : \A w \in Bad : w[3] <= u[3]
    <2> HIDE DEF Bad
    <2> QED
      BY <1>2, GreatestNode
  <1>4. u \in Nodes /\ u \in R /\ Below(u, k) /\ u[3] < k[3] /\ u[3] \in Nat /\ k[3] \in Nat
    BY <1>2, NodeParts
  <1>5. u # n
    <2>1. k[3] <= n[3] /\ n[3] \in Nat
      BY BelowOrders, NodeParts
    <2> QED
      BY <1>4, <2>1
  <1>6. PICK q \in R : I[q] /\ u \in ChildSet(q)
    BY <1>4, <1>5, ReachBelow
  <1>7. q \in Nodes /\ MaySplit(q)
    BY <1>6, ReachBelow DEF Splits
  <1>8. u[3] < q[3] /\ q[3] \in Nat
    BY <1>6, <1>7, InnerChildren
  <1>9. Below(q, k)
    BY <1>4, <1>6, <1>7, HoldsParent
  <1>10. CASE q = k
    BY <1>1, <1>6, <1>10
  <1>11. CASE q # k
    <2>1. q[3] < k[3]
      BY <1>4, <1>7, <1>8, <1>9, <1>11, BelowOrders
    <2>2. q \in Bad
      BY <1>6, <1>9, <2>1
    <2> QED
      BY <1>3, <1>4, <1>8, <2>2
  <1> QED
    BY <1>10, <1>11

\* Every point of n lies in one node reached below n that is no inner one.
LEMMA ReachCovers ==
    ASSUME NEW I, Splits(I), NEW n \in Nodes, NEW x \in Int, NEW z \in Int, Covers(n, x, z)
    PROVE  \E m \in Reach(I)[n] : /\ ~ I[m] /\ Covers(m, x, z)
                                  /\ \A k \in Reach(I)[n] : ~ I[k] /\ Covers(k, x, z) => k = m
  <1> DEFINE R == Reach(I)[n]
             T == {m \in R : Covers(m, x, z)}
  <1>1. T \in SUBSET Nodes /\ T # {}
    BY ReachBelow, ReachCases
  <1>2. PICK m \in T : \A k \in T : m[3] <= k[3]
    <2> HIDE DEF T
    <2> QED
      BY <1>1, LeastNode
  <1>3. m \in R /\ m \in Nodes /\ Covers(m, x, z)
    BY <1>1
  <1>4. ASSUME I[m] PROVE FALSE
    <2>1. PICK c \in ChildSet(m) : Covers(c, x, z)
      BY <1>3, <1>4, ChildrenOf DEF Splits
    <2>2. c \in R /\ c[3] < m[3] /\ c[3] \in Nat /\ m[3] \in Nat
      BY <1>3, <1>4, ReachBelow, InnerChildren
    <2> QED
      BY <1>2, <2>1, <2>2
  <1>5. ASSUME NEW k \in R, ~ I[k], Covers(k, x, z) PROVE k = m
    <2>1. k \in Nodes /\ Below(k, n) /\ k[3] \in Nat /\ m[3] \in Nat
      BY <1>3, <1>5, ReachBelow, NodeParts
    <2>2. m[3] <= k[3]
      BY <1>2, <1>5
    <2>3. Below(m, k)
      BY <1>3, <1>5, <2>1, <2>2, NodesNest
    <2>4. ~ (m[3] < k[3])
      BY <1>3, <1>5, <2>1, <2>3, ReachAbove
    <2> QED
      BY <1>3, <2>1, <2>3, <2>4, BelowOrders
  <1> QED
    BY <1>3, <1>4, <1>5

-----------------------------------------------------------------------------
(* update() and the destructor *)

\* The inner nodes of a tree, those of an updated tree, and the tree of given
\* inner nodes below n.
InnerOf(tree) == [m \in Nodes |-> ~ IsLeaf(tree, m)]
Near(p) == [m \in Nodes |-> Intersects(p, m) /\ MaySplit(m)]
Flags(I, n) == [m \in Reach(I)[n] |-> ~ I[m]]

\* In an updated tree only nodes that may split are inner ones.
LEMMA NearSplits == ASSUME NEW p PROVE Splits(Near(p))
  <1>1. ASSUME NEW n \in Nodes
        PROVE  Near(p)[n] \in BOOLEAN /\ (Near(p)[n] => MaySplit(n))
    BY DEF Near
  <1>2. Near(p) \in [Nodes -> BOOLEAN]
    BY Zenon DEF Near, Intersects
  <1> QED
    BY <1>1, <1>2 DEF Splits

\* The destructor deletes the nodes that are reached from the one deleted.
LEMMA DeletedIsReach ==
    ASSUME NEW tree, NEW n \in Nodes
    PROVE  Deleted(tree, n) = Reach(InnerOf(tree))[n]
  <1> DEFINE I == InnerOf(tree)
             D(g) == [m \in Nodes |->
                        {m} \cup (IF IsLeaf(tree, m) THEN {} ELSE UNION {g[c] : c \in ChildSet(m)})]
  <1>1. Deleted(tree, n) = (CHOOSE g : g = D(g))[n]
    BY DEF Deleted
  <1>2. ASSUME NEW g PROVE D(g) = Reached(I, g)
    <2>1. \A m \in Nodes : I[m] <=> ~ IsLeaf(tree, m)
      BY DEF InnerOf
    <2> HIDE DEF I
    <2>2. ASSUME NEW m \in Nodes
          PROVE  (IF IsLeaf(tree, m) THEN {} ELSE UNION {g[c] : c \in ChildSet(m)})
                    = (IF I[m] THEN UNION {g[c] : c \in ChildSet(m)} ELSE {})
      BY <2>1
    <2> QED
      BY <2>2, Zenon DEF Reached
  <1> HIDE DEF D
  <1>3. (CHOOSE g : g = D(g)) = (CHOOSE g : g = Reached(I, g))
    BY <1>2, Zenon
  <1> QED
    BY <1>1, <1>3, Zenon DEF Reach

\* Functions that agree with one on its whole domain join to it.
LEMMA JoinedFlags ==
    ASSUME NEW F, NEW D, NEW L, L = [m \in D |-> L[m]],
           UNION {DOMAIN f : f \in F} = D,
           \A f \in F : \A m \in DOMAIN f : f[m] = L[m]
    PROVE  Joined(F) = L
  <1>1. ASSUME NEW m \in D
        PROVE  (CHOOSE f \in F : m \in DOMAIN f)[m] = L[m]
    <2> DEFINE e == CHOOSE f \in F : m \in DOMAIN f
    <2>1. \E f \in F : m \in DOMAIN f
      OBVIOUS
    <2>2. e \in F /\ m \in DOMAIN e
      BY <2>1, Zenon
    <2> HIDE DEF e
    <2>3. e[m] = L[m]
      BY <2>2
    <2> QED
      BY <2>3 DEF e
  <1>2. Joined(F) = [m \in D |-> L[m]]
    BY <1>1, Zenon DEF Joined
  <1> QED
    BY <1>2

\* One level of update().
Updated(tree, p, g) ==
    [n \in Nodes |->
        IF ~ Intersects(p, n) THEN Merged(tree, n)
        ELSE IF UpdatesChildren(tree, n)
             THEN Joined({Single(n, FALSE)} \cup {g[c] : c \in ChildSet(n)})
             ELSE [m \in Deleted(tree, n) |-> IsLeaf(tree, m)]]

\* When the children of a node are updated to the tree of the camera's position,
\* so is the node, whatever the tree was before.
LEMMA UpdatedIsFlags ==
    ASSUME NEW tree, Splits(InnerOf(tree)), NEW p, NEW g, NEW n \in Nodes,
           Near(p)[n] => \A c \in ChildSet(n) : g[c] = Flags(Near(p), c)
    PROVE  Updated(tree, p, g)[n] = Flags(Near(p), n)
  <1>1. PICK I : I = Near(p)
    OBVIOUS
  <1>2. Splits(I)
    BY <1>1, NearSplits
  <1>3. I[n] <=> Intersects(p, n) /\ MaySplit(n)
    BY <1>1 DEF Near
  <1>4. \A m \in Nodes : I[m] \in BOOLEAN
    BY <1>2 DEF Splits
  <1>5. ASSUME ~ I[n] PROVE Flags(I, n) = Single(n, TRUE)
    <2>1. Reach(I)[n] = {n}
      BY <1>2, <1>5, ReachEquation
    <2>2. (~ I[n]) = TRUE
      BY <1>5
    <2> QED
      BY <2>1, <2>2 DEF Flags, Single
  <1>6. CASE ~ Intersects(p, n)
    <2>1. Updated(tree, p, g)[n] = Single(n, TRUE)
      BY <1>6 DEF Updated, Merged
    <2> QED
      BY <1>1, <1>3, <1>5, <1>6, <2>1
  <1>7. CASE Intersects(p, n) /\ ~ MaySplit(n)
    <2>1. Updated(tree, p, g)[n] = [m \in Deleted(tree, n) |-> IsLeaf(tree, m)]
      BY <1>7, Zenon DEF Updated, UpdatesChildren
    <2>2. ~ InnerOf(tree)[n]
      BY <1>7 DEF Splits
    <2>3. Reach(InnerOf(tree))[n] = {n}
      BY <2>2, ReachEquation
    <2>4. Deleted(tree, n) = {n}
      BY <2>3, DeletedIsReach
    <2>5. IsLeaf(tree, n)
      BY <2>2 DEF InnerOf
    <2>6. IsLeaf(tree, n) = TRUE
      BY <2>5 DEF IsLeaf
    <2>7. [m \in Deleted(tree, n) |-> IsLeaf(tree, m)] = Single(n, TRUE)
      BY <2>4, <2>6 DEF Single
    <2> QED
      BY <1>1, <1>3, <1>5, <1>7, <2>1, <2>7
  <1>8. CASE Intersects(p, n) /\ MaySplit(n)
    <2> DEFINE F == {Single(n, FALSE)} \cup {g[c] : c \in ChildSet(n)}
    <2>1. Updated(tree, p, g)[n] = Joined(F)
      BY <1>8, Zenon DEF Updated, UpdatesChildren
    <2>2. I[n]
      BY <1>3, <1>8
    <2>3. \A c \in ChildSet(n) : g[c] = Flags(I, c) /\ c \in Nodes
      BY <1>1, <1>2, <2>2, InnerChildren
    <2>4. \A f \in F : f = Single(n, FALSE) \/ \E c \in ChildSet(n) : f = Flags(I, c)
      BY <2>3
    <2>5. \A c \in ChildSet(n) : Flags(I, c) \in F
      BY <2>3
    <2>6. Single(n, FALSE) \in F
      OBVIOUS
    <2> HIDE DEF F
    <2>7. ASSUME NEW f \in F PROVE \A m \in DOMAIN f : f[m] = ~ I[m]
      <3>1. \A m \in DOMAIN Single(n, FALSE) : Single(n, FALSE)[m] = ~ I[m]
        BY <2>2 DEF Single
      <3>2. \A c \in ChildSet(n) : \A m \in DOMAIN Flags(I, c) : Flags(I, c)[m] = ~ I[m]
        BY DEF Flags
      <3> QED
        <4>1. CASE f = Single(n, FALSE)
          BY <3>1, <4>1
        <4>2. ASSUME NEW c \in ChildSet(n), f = Flags(I, c)
              PROVE  \A m \in DOMAIN f : f[m] = ~ I[m]
          BY <3>2, <4>2
        <4> QED
          BY <2>4, <4>1, <4>2, Zenon
    <2>8. UNION {DOMAIN f : f \in F} = Reach(I)[n]
      <3>1. DOMAIN Single(n, FALSE) = {n}
        BY DEF Single
      <3>2. \A c : DOMAIN Flags(I, c) = Reach(I)[c]
        BY DEF Flags
      <3>3. Reach(I)[n] = {n} \cup UNION {Reach(I)[c] : c \in ChildSet(n)}
        BY <1>2, <2>2, ReachEquation
      <3>4. ASSUME NEW f \in F PROVE DOMAIN f \subseteq Reach(I)[n]
        <4>1. CASE f = Single(n, FALSE)
          BY <3>1, <3>3, <4>1
        <4>2. ASSUME NEW c \in ChildSet(n), f = Flags(I, c) PROVE DOMAIN f \subseteq Reach(I)[n]
          <5>1. DOMAIN f = Reach(I)[c]
            BY <3>2, <4>2
          <5> QED
            BY <3>3, <5>1
        <4> QED
          BY <2>4, <4>1, <4>2, Zenon
      <3>5. ASSUME NEW m \in Reach(I)[n] PROVE \E f \in F : m \in DOMAIN f
        <4>1. CASE m = n
          BY <2>6, <3>1, <4>1, Zenon
        <4>2. ASSUME NEW c \in ChildSet(n), m \in Reach(I)[c] PROVE \E f \in F : m \in DOMAIN f
          <5>1. m \in DOMAIN Flags(I, c)
            BY <3>2, <4>2, Zenon
          <5> QED
            BY <2>5, <5>1, Zenon
        <4>3. m = n \/ \E c \in ChildSet(n) : m \in Reach(I)[c]
          BY <3>3
        <4> QED
          BY <4>1, <4>2, <4>3, Zenon
      <3> QED
        BY <3>4, <3>5
    <2>9. Joined(F) = Flags(I, n)
      <3>1. DOMAIN Flags(I, n) = Reach(I)[n] /\ \A m \in Reach(I)[n] : Flags(I, n)[m] = ~ I[m]
        BY DEF Flags
      <3>2. \A f \in F : \A m \in DOMAIN f : f[m] = Flags(I, n)[m]
        BY <2>7, <2>8, <3>1
      <3>3. Flags(I, n) = [m \in Reach(I)[n] |-> Flags(I, n)[m]]
        BY DEF Flags
      <3> QED
        BY <2>8, <3>2, <3>3, JoinedFlags
    <2> QED
      BY <1>1, <2>1, <2>9
  <1> QED
    BY <1>6, <1>7, <1>8

\* update() computes the tree of the camera's position, whatever the tree was.
LEMMA UpdateIsFlags ==
    ASSUME NEW tree, Splits(InnerOf(tree)), NEW p
    PROVE  Update(tree, p) = Flags(Near(p), Root)
  <1> DEFINE U == [n \in Nodes |-> Flags(Near(p), n)]
  <1>1. Update(tree, p) = (CHOOSE g : g = Updated(tree, p, g))[Root]
    BY DEF Update, Updated
  <1>2. U = Updated(tree, p, U)
    <2>1. ASSUME NEW n \in Nodes PROVE Updated(tree, p, U)[n] = U[n]
      <3>1. Near(p)[n] => \A c \in ChildSet(n) : c \in Nodes
        BY NearSplits, InnerChildren
      <3>2. Near(p)[n] => \A c \in ChildSet(n) : U[c] = Flags(Near(p), c)
        BY <3>1
      <3>3. U[n] = Flags(Near(p), n)
        OBVIOUS
      <3> HIDE DEF U
      <3> QED
        BY <3>2, <3>3, UpdatedIsFlags
    <2>2. U = [n \in Nodes |-> U[n]]
      OBVIOUS
    <2> HIDE DEF U
    <2>3. Updated(tree, p, U) = [n \in Nodes |-> Updated(tree, p, U)[n]]
      BY DEF Updated
    <2> QED
      BY <2>1, <2>2, <2>3
  <1> HIDE DEF U
  <1>3. PICK g : g = (CHOOSE f : f = Updated(tree, p, f)) /\ g = Updated(tree, p, g)
    BY <1>2, Zenon
  <1>4. \A n \in Nodes : g[n] = Flags(Near(p), n)
    <2> DEFINE Bad == {n \in Nodes : g[n] # Flags(Near(p), n)}
    <2>1. SUFFICES ASSUME Bad # {} PROVE FALSE
      OBVIOUS
    <2>2. Bad \in SUBSET Nodes
      OBVIOUS
    <2>3. PICK n \in Bad : \A m \in Bad : n[3] <= m[3]
      <3> HIDE DEF Bad
      <3> QED
        BY <2>1, <2>2, LeastNode
    <2>4. n \in Nodes /\ g[n] # Flags(Near(p), n)
      OBVIOUS
    <2>5. ASSUME Near(p)[n], NEW c \in ChildSet(n) PROVE g[c] = Flags(Near(p), c)
      <3>1. c \in Nodes /\ c[3] < n[3] /\ c[3] \in Nat /\ n[3] \in Nat
        BY <2>4, <2>5, NearSplits, InnerChildren
      <3> QED
        BY <2>3, <3>1
    <2>6. Updated(tree, p, g)[n] = Flags(Near(p), n)
      BY <2>4, <2>5, UpdatedIsFlags
    <2> QED
      BY <1>3, <2>4, <2>6
  <1> QED
    BY <1>1, <1>3, <1>4, RootIsNode

-----------------------------------------------------------------------------
(* The state *)

\* The tree of given inner nodes: its leaves and inner nodes, and its children.
LEMMA FlagsFacts ==
    ASSUME NEW I, Splits(I), NEW f, f = Flags(I, Root)
    PROVE  /\ DOMAIN f = Reach(I)[Root] /\ DOMAIN f \subseteq Nodes /\ Root \in DOMAIN f
           /\ \A n \in DOMAIN f : f[n] = ~ I[n]
           /\ f \in [DOMAIN f -> BOOLEAN]
           /\ DOMAIN f = {Root} \cup UNION {ChildSet(n) : n \in {m \in DOMAIN f : ~ f[m]}}
           /\ \A n \in Nodes : InnerOf(f)[n] <=> n \in DOMAIN f /\ I[n]
           /\ Splits(InnerOf(f))
  <1>1. DOMAIN f = Reach(I)[Root] /\ \A n \in DOMAIN f : f[n] = ~ I[n]
    BY DEF Flags
  <1>2. DOMAIN f \subseteq Nodes /\ Root \in DOMAIN f
    BY <1>1, RootIsNode, ReachBelow, ReachCases
  <1>3. f \in [DOMAIN f -> BOOLEAN]
    <2>1. f = [n \in Reach(I)[Root] |-> ~ I[n]]
      BY DEF Flags
    <2>2. \A n \in Reach(I)[Root] : (~ I[n]) \in BOOLEAN
      OBVIOUS
    <2> QED
      BY <1>1, <2>1, <2>2, Zenon
  <1>4. \A n \in DOMAIN f : I[n] => ChildSet(n) \subseteq DOMAIN f
    BY <1>1, RootIsNode, ReachBelow
  <1>5. \A n \in DOMAIN f : n # Root => \E q \in DOMAIN f : I[q] /\ n \in ChildSet(q)
    BY <1>1, RootIsNode, ReachBelow
  <1>6. DOMAIN f = {Root} \cup UNION {ChildSet(n) : n \in {m \in DOMAIN f : ~ f[m]}}
    <2>1. \A n \in DOMAIN f : ~ f[n] <=> I[n]
      BY <1>1
    <2>2. \A n \in DOMAIN f : ~ f[n] => ChildSet(n) \subseteq DOMAIN f
      BY <1>4, <2>1
    <2>3. \A n \in DOMAIN f : n # Root => \E q \in DOMAIN f : ~ f[q] /\ n \in ChildSet(q)
      BY <1>5, <2>1
    <2> QED
      BY <1>2, <2>2, <2>3
  <1>7. \A n \in Nodes : InnerOf(f)[n] <=> n \in DOMAIN f /\ I[n]
    BY <1>1 DEF InnerOf, IsLeaf
  <1>8. Splits(InnerOf(f))
    <2>1. \A n \in Nodes : (~ IsLeaf(f, n)) \in BOOLEAN
      OBVIOUS
    <2>2. InnerOf(f) \in [Nodes -> BOOLEAN]
      BY <2>1, Zenon DEF InnerOf
    <2> QED
      BY <1>7, <2>2 DEF Splits
  <1> QED
    BY <1>1, <1>2, <1>3, <1>6, <1>7, <1>8

\* The nodes that a change of the tree splits, merges and deletes.
SplitBy(tree, after) == {n \in DOMAIN after : IsLeaf(tree, n) /\ ~ after[n]}
MergedBy(tree, after) == {n \in DOMAIN after : ~ IsLeaf(tree, n) /\ after[n]}
GoneBy(tree, after) ==
    UNION {Deleted(tree, c) : c \in UNION {ChildSet(n) : n \in MergedBy(tree, after)}}

\* What a change of the tree allocates and deletes turns the nodes of the old
\* tree into those of the new one.
LEMMA HeapFollows ==
    ASSUME NEW I, Splits(I), NEW tree, tree = Flags(I, Root),
           NEW K, Splits(K), NEW after, after = Flags(K, Root)
    PROVE  (DOMAIN tree \ GoneBy(tree, after)) \cup UNION {ChildSet(n) : n \in SplitBy(tree, after)}
                = DOMAIN after
  <1> DEFINE A == DOMAIN tree
             B == DOMAIN after
             H == InnerOf(tree)
  <1>a. PICK split : split = SplitBy(tree, after) /\ split = {n \in DOMAIN after : IsLeaf(tree, n) /\ ~ after[n]}
    BY DEF SplitBy
  <1>b. PICK merged : /\ merged = MergedBy(tree, after)
                      /\ merged = {n \in DOMAIN after : ~ IsLeaf(tree, n) /\ after[n]}
    BY DEF MergedBy
  <1>c. PICK gone : /\ gone = GoneBy(tree, after)
                    /\ gone = UNION {Deleted(tree, c) : c \in UNION {ChildSet(n) : n \in merged}}
    BY <1>b DEF GoneBy
  <1>1. Splits(H)
    BY FlagsFacts
  <1>2. A = Reach(I)[Root] /\ A \subseteq Nodes /\ Root \in A
    BY FlagsFacts
  <1>3. B = Reach(K)[Root] /\ B \subseteq Nodes /\ Root \in B
    BY FlagsFacts
  <1>4. \A n \in Nodes : H[n] <=> n \in A /\ I[n]
    BY FlagsFacts
  <1>5. \A n \in Nodes : IsLeaf(tree, n) <=> ~ (n \in A /\ I[n])
    BY <1>4 DEF InnerOf
  <1>6. \A n \in B : after[n] <=> ~ K[n]
    BY FlagsFacts
  <1>7. \A n \in B : n \in split <=> ~ (n \in A /\ I[n]) /\ K[n]
    BY <1>3, <1>5, <1>6, <1>a
  <1>8. \A n \in B : n \in merged <=> n \in A /\ I[n] /\ ~ K[n]
    BY <1>3, <1>5, <1>6, <1>b
  <1>9. split \subseteq B /\ merged \subseteq B
    BY <1>a, <1>b
  <1>10. \A x : x \in gone <=> \E n \in merged : \E c \in ChildSet(n) : x \in Reach(H)[c]
    <2>1. \A n \in merged : \A c \in ChildSet(n) : c \in Nodes
      BY <1>2, <1>8, <1>9, InnerChildren
    <2>2. \A n \in merged : \A c \in ChildSet(n) : Deleted(tree, c) = Reach(H)[c]
      BY <2>1, DeletedIsReach
    <2>3. \A x : x \in gone <=> \E n \in merged : \E c \in ChildSet(n) : x \in Deleted(tree, c)
      BY <1>c
    <2> QED
      BY <2>2, <2>3
  <1>11. \A n \in B : K[n] => ChildSet(n) \subseteq B
    BY <1>3, RootIsNode, ReachBelow
  <1>12. \A n \in merged : \A c \in ChildSet(n) : c \in Nodes /\ c[3] < n[3] /\ Below(c, n) /\ c[3] \in Nat /\ n[3] \in Nat
    BY <1>2, <1>8, <1>9, InnerChildren
  <1> HIDE DEF A, B, H
  <1>13. A \ B \subseteq gone
    <2> DEFINE Bad == {x \in A : x \notin B /\ x \notin gone}
    <2> SUFFICES ASSUME Bad # {} PROVE FALSE
      OBVIOUS
    <2>1. PICK x \in Bad : \A y \in Bad : y[3] <= x[3]
      <3>1. Bad \in SUBSET Nodes
        BY <1>2
      <3> HIDE DEF Bad
      <3> QED
        BY <3>1, GreatestNode
    <2>2. x \in A /\ x \notin B /\ x \notin gone /\ x # Root
      BY <1>3
    <2>3. PICK q \in A : I[q] /\ x \in ChildSet(q)
      BY <1>2, <2>2, RootIsNode, ReachBelow
    <2>4. q[3] > x[3] /\ q \in Nodes /\ x[3] \in Nat /\ q[3] \in Nat /\ x \in Nodes
      BY <1>2, <2>3, InnerChildren
    <2>5. CASE q \in B
      <3>1. q \in merged
        BY <1>8, <1>11, <2>2, <2>3, <2>5
      <3>2. x \in Reach(H)[x]
        BY <1>1, <2>4, ReachCases
      <3> QED
        BY <1>10, <2>2, <2>3, <3>1, <3>2
    <2>6. CASE q \notin B
      <3>1. q \in gone
        BY <2>1, <2>3, <2>4, <2>6
      <3>2. PICK n \in merged : \E c \in ChildSet(n) : q \in Reach(H)[c]
        BY <1>10, <3>1
      <3>3. PICK c \in ChildSet(n) : q \in Reach(H)[c]
        BY <3>2
      <3>4. H[q] /\ c \in Nodes
        BY <1>4, <1>12, <2>3, <2>4
      <3>5. x \in Reach(H)[c]
        BY <1>1, <2>3, <3>3, <3>4, ReachBelow
      <3> QED
        BY <1>10, <2>2, <3>3, <3>5
    <2> QED
      BY <2>5, <2>6
  <1>14. \A x \in B : x \notin gone
    <2> SUFFICES ASSUME NEW x \in B, NEW n \in merged, NEW c \in ChildSet(n), x \in Reach(H)[c]
                 PROVE  FALSE
      BY <1>10
    <2>1. c \in Nodes /\ c[3] < n[3] /\ Below(c, n) /\ c[3] \in Nat /\ n[3] \in Nat /\ n \in B /\ n \in Nodes
      BY <1>3, <1>9, <1>12
    <2>2. x \in Nodes /\ Below(x, c)
      BY <1>1, <2>1, ReachBelow
    <2>3. Below(x, n) /\ x[3] < n[3]
      <3>1. x[3] <= c[3] /\ x[3] \in Nat
        BY <2>1, <2>2, BelowOrders, NodeParts
      <3> QED
        BY <2>1, <2>2, <3>1, BelowOrders
    <2>4. K[n]
      BY <1>3, <2>1, <2>3, RootIsNode, BelowRoot, ReachAbove
    <2> QED
      BY <1>8, <2>1, <2>4
  <1>15. ASSUME NEW x \in B, x \notin A PROVE \E n \in split : x \in ChildSet(n)
    <2>1. x # Root
      BY <1>2, <1>15
    <2>2. PICK q \in B : K[q] /\ x \in ChildSet(q)
      BY <1>3, <2>1, RootIsNode, ReachBelow
    <2>3. ~ (q \in A /\ I[q])
      BY <1>2, <1>15, <2>2, RootIsNode, ReachBelow
    <2> QED
      BY <1>7, <2>2, <2>3
  <1>16. \A n \in split : ChildSet(n) \subseteq B
    BY <1>7, <1>9, <1>11
  <1>17. (A \ gone) \cup UNION {ChildSet(n) : n \in split} = B
    BY <1>13, <1>14, <1>15, <1>16
  <1> QED
    BY <1>17, <1>a, <1>c DEF A, B

-----------------------------------------------------------------------------
(* The inductive invariant *)

\* Before the first update the tree is its root; after one it is that of the
\* camera's position; and what is allocated is what is in the tree.  TypeOK and
\* NoNodeLeaks are no invariants of a step by themselves: what a step deletes is
\* known only with the shape of the whole tree, which FollowsCamera gives.
TreeInv ==
    /\ TypeOK
    /\ NoNodeLeaks
    /\ FollowsCamera
    /\ referencePoint = <<>> => leaf = Single(Root, TRUE)

\* The inner nodes that the state must have.
Wanted == IF referencePoint = <<>> THEN [n \in Nodes |-> FALSE] ELSE Near(referencePoint)

\* The tree of one node is that without inner nodes.
LEMMA SingleFlags ==
    /\ Splits([n \in Nodes |-> FALSE])
    /\ Single(Root, TRUE) = Flags([n \in Nodes |-> FALSE], Root)
    /\ Splits(InnerOf(Single(Root, TRUE)))
  <1> DEFINE I == [n \in Nodes |-> FALSE]
  <1>1. Splits(I) /\ ~ I[Root]
    BY RootIsNode DEF Splits
  <1>2. Reach(I)[Root] = {Root}
    BY <1>1, RootIsNode, ReachEquation
  <1>3. Single(Root, TRUE) = Flags(I, Root)
    BY <1>1, <1>2 DEF Single, Flags
  <1>4. Splits(InnerOf(Single(Root, TRUE)))
    BY <1>1, <1>3, FlagsFacts
  <1> QED
    BY <1>1, <1>3, <1>4

\* The invariant says which tree it is.
LEMMA LeafIsFlags ==
    ASSUME TreeInv
    PROVE  Splits(Wanted) /\ leaf = Flags(Wanted, Root)
  <1>1. CASE referencePoint = <<>>
    BY <1>1, SingleFlags DEF TreeInv, Wanted
  <1>2. CASE referencePoint # <<>>
    <2>1. Wanted = Near(referencePoint)
      BY <1>2 DEF Wanted
    <2>2. leaf = Update(Single(Root, TRUE), referencePoint)
      BY <1>2 DEF TreeInv, FollowsCamera
    <2>3. leaf = Flags(Near(referencePoint), Root)
      BY <2>2, SingleFlags, UpdateIsFlags
    <2> QED
      BY <2>1, <2>3, NearSplits
  <1> QED
    BY <1>1, <1>2

\* The initial state is a root that was never updated.
LEMMA InitTree == Init => TreeInv
  <1> SUFFICES ASSUME Init PROVE TreeInv
    OBVIOUS
  <1>1. leaf = Single(Root, TRUE) /\ heap = {Root} /\ referencePoint = <<>>
    BY DEF Init
  <1>2. DOMAIN leaf = {Root} /\ leaf \in [DOMAIN leaf -> BOOLEAN]
    BY <1>1 DEF Single
  <1>3. DOMAIN leaf = {Root} \cup UNION {ChildSet(n) : n \in DOMAIN leaf \ Leaves}
    <2>1. DOMAIN leaf \ Leaves = {}
      BY <1>1 DEF Single, Leaves
    <2> QED
      BY <1>2, <2>1
  <1> QED
    BY <1>1, <1>2, <1>3 DEF TreeInv, TypeOK, NoNodeLeaks, FollowsCamera

\* One update, from a tree of the invariant.
LEMMA ProcessTree == TreeInv /\ Process => TreeInv'
  <1> SUFFICES ASSUME TreeInv, Process PROVE TreeInv'
    OBVIOUS
  <1>1. PICK p \in Positions :
            /\ referencePoint' = p
            /\ leaf' = Update(leaf, p)
            /\ heap' = (heap \ UNION {Deleted(leaf, c) : c \in
                                UNION {ChildSet(n) : n \in {k \in DOMAIN Update(leaf, p) :
                                            ~ IsLeaf(leaf, k) /\ Update(leaf, p)[k]}}})
                        \cup UNION {ChildSet(n) : n \in {k \in DOMAIN Update(leaf, p) :
                                            IsLeaf(leaf, k) /\ ~ Update(leaf, p)[k]}}
    BY DEF Process
  <1>2. p # <<>>
    <2>1. p \in Int \X Int
      BY TerrainAssumption
    <2>2. 1 \in DOMAIN p /\ DOMAIN <<>> = {}
      BY <2>1
    <2> QED
      BY <2>2
  <1>3. Splits(Wanted) /\ leaf = Flags(Wanted, Root)
    BY LeafIsFlags
  <1>4. Splits(InnerOf(leaf))
    BY <1>3, FlagsFacts
  <1>5. PICK after : after = Update(leaf, p)
    OBVIOUS
  <1>6. after = Flags(Near(p), Root) /\ Splits(Near(p))
    BY <1>4, <1>5, UpdateIsFlags, NearSplits
  <1>7. leaf' = after
    BY <1>1, <1>5
  <1>8. leaf' = Update(Single(Root, TRUE), p)
    BY <1>6, <1>7, SingleFlags, UpdateIsFlags
  <1>9. leaf' \in [DOMAIN leaf' -> BOOLEAN]
    BY <1>6, <1>7, FlagsFacts
  <1>10. DOMAIN leaf' = {Root} \cup UNION {ChildSet(n) : n \in DOMAIN leaf' \ Leaves'}
    <2>1. DOMAIN after \ {m \in DOMAIN after : after[m]} = {m \in DOMAIN after : ~ after[m]}
      OBVIOUS
    <2>2. DOMAIN after = {Root} \cup UNION {ChildSet(n) : n \in {m \in DOMAIN after : ~ after[m]}}
      BY <1>6, FlagsFacts
    <2>3. Leaves' = {m \in DOMAIN after : after[m]}
      BY <1>7 DEF Leaves
    <2> QED
      BY <1>7, <2>1, <2>2, <2>3
  <1>11. heap' = DOMAIN leaf'
    <2>1. heap = DOMAIN leaf
      BY DEF TreeInv, NoNodeLeaks
    <2>2. heap' = (DOMAIN leaf \ GoneBy(leaf, after)) \cup UNION {ChildSet(n) : n \in SplitBy(leaf, after)}
      BY <1>1, <1>5, <2>1, Zenon DEF GoneBy, SplitBy, MergedBy
    <2>3. (DOMAIN leaf \ GoneBy(leaf, after)) \cup UNION {ChildSet(n) : n \in SplitBy(leaf, after)}
                = DOMAIN after
      BY <1>3, <1>6, HeapFollows
    <2> QED
      BY <1>7, <2>2, <2>3
  <1>12. TypeOK'
    BY <1>1, <1>9, <1>10 DEF TypeOK
  <1> QED
    BY <1>1, <1>2, <1>8, <1>11, <1>12 DEF TreeInv, NoNodeLeaks, FollowsCamera

\* The invariant holds in every state.
LEMMA TreeKept == Spec => []TreeInv
  <1>1. TreeInv /\ UNCHANGED vars => TreeInv'
    BY DEF TreeInv, TypeOK, NoNodeLeaks, FollowsCamera, Leaves, vars
  <1>2. TreeInv /\ [Next]_vars => TreeInv'
    BY <1>1, ProcessTree DEF Next
  <1> QED
    BY <1>2, InitTree, PTL DEF Spec

-----------------------------------------------------------------------------
(* Distances *)

\* The square of a sum is at most twice the sum of the squares.
LEMMA SquareOfSum ==
    ASSUME NEW a \in Int, NEW d \in Int
    PROVE  (a + d) * (a + d) <= 2 * (a * a) + 2 * (d * d)
  <1>1. PICK x \in Int, y \in Int, z \in Int : x = a * a /\ y = a * d /\ z = d * d
    OBVIOUS
  <1>2. (a + d) * (a + d) = x + 2 * y + z
    BY <1>1
  <1>3. (a - d) * (a - d) = x - 2 * y + z
    BY <1>1
  <1>4. (a - d) * (a - d) >= 0
    <2>1. \A e \in Int : e * e >= 0
      OBVIOUS
    <2> QED
      BY <2>1
  <1> QED
    BY <1>1, <1>2, <1>3, <1>4

\* A number between -e and e has a square of at most that of e.
LEMMA SquareBounded ==
    ASSUME NEW d \in Int, NEW e \in Nat, -e <= d, d <= e
    PROVE  d * d <= e * e
  <1>1. PICK u \in Nat : u = e - d
    OBVIOUS
  <1>2. PICK v \in Nat : v = e + d
    OBVIOUS
  <1>3. u * v >= 0
    OBVIOUS
  <1>4. u * v = e * e - d * d
    BY <1>1, <1>2
  <1> QED
    BY <1>3, <1>4

\* From within the range of a square of size q, moving by the half of both sizes,
\* one is within the range of a square at least twice as large.
LEMMA RangesNest ==
    ASSUME NEW a \in Int, NEW b \in Int, NEW c \in Int, NEW d \in Int, NEW q \in Nat, NEW m \in Nat,
           m > 0, 2 * q <= m,
           -(q + m) <= c, c <= q + m, -(q + m) <= d, d <= q + m,
           a * a + b * b < 50 * q * q
    PROVE  (a + c) * (a + c) + (b + d) * (b + d) < 50 * m * m
  <1>1. PICK e \in Nat : e = q + m
    OBVIOUS
  <1>2. c * c <= e * e /\ d * d <= e * e
    BY <1>1, SquareBounded
  <1>3. PICK r \in Nat : r = m - 2 * q
    OBVIOUS
  <1>4. PICK qq \in Nat, qr \in Nat, rr \in Nat : qq = q * q /\ qr = q * r /\ rr = r * r
    OBVIOUS
  <1>5. 50 * q * q = 50 * qq
    BY <1>4
  <1>6. e * e = 9 * qq + 6 * qr + rr
    <2>1. e = 3 * q + r
      BY <1>1, <1>3
    <2>2. (3 * q + r) * (3 * q + r) = 9 * (q * q) + 6 * (q * r) + r * r
      OBVIOUS
    <2> QED
      BY <1>4, <2>1, <2>2
  <1>7. 50 * m * m = 200 * qq + 200 * qr + 50 * rr
    <2>1. m = 2 * q + r
      BY <1>3
    <2>2. 50 * (2 * q + r) * (2 * q + r) = 200 * (q * q) + 200 * (q * r) + 50 * (r * r)
      OBVIOUS
    <2> QED
      BY <1>4, <2>1, <2>2
  <1>8. PICK A \in Int, B \in Int, C \in Int, D \in Int, E \in Int :
            A = a * a /\ B = b * b /\ C = c * c /\ D = d * d /\ E = e * e
    OBVIOUS
  <1>9. (a + c) * (a + c) <= 2 * A + 2 * C /\ (b + d) * (b + d) <= 2 * B + 2 * D
    BY <1>8, SquareOfSum
  <1>10. PICK X \in Int, Y \in Int : X = (a + c) * (a + c) /\ Y = (b + d) * (b + d)
    OBVIOUS
  <1>11. X + Y <= 2 * (A + B) + 2 * (C + D)
    BY <1>9, <1>10
  <1>12. A + B < 50 * qq /\ C <= E /\ D <= E /\ E = 9 * qq + 6 * qr + rr
    BY <1>2, <1>5, <1>6, <1>8
  <1>13. X + Y < 136 * qq + 24 * qr + 4 * rr
    BY <1>11, <1>12
  <1>14. X + Y < 200 * qq + 200 * qr + 50 * rr
    BY <1>13
  <1> QED
    BY <1>7, <1>10, <1>14

-----------------------------------------------------------------------------
(* Theorems *)

\* The nodes of the tree and its leaves, by the inner nodes it must have.
LEMMA LeavesFacts ==
    ASSUME TreeInv
    PROVE  /\ Splits(Wanted)
           /\ DOMAIN leaf = Reach(Wanted)[Root]
           /\ Leaves \subseteq Nodes
           /\ \A n : n \in Leaves <=> n \in Reach(Wanted)[Root] /\ ~ Wanted[n]
  <1>1. Splits(Wanted) /\ leaf = Flags(Wanted, Root)
    BY LeafIsFlags
  <1>2. DOMAIN leaf = Reach(Wanted)[Root] /\ DOMAIN leaf \subseteq Nodes
    BY <1>1, FlagsFacts
  <1>3. \A n \in DOMAIN leaf : leaf[n] <=> ~ Wanted[n]
    BY <1>1, FlagsFacts
  <1> QED
    BY <1>1, <1>2, <1>3 DEF Leaves

\* An area holds the points that its node covers.
LEMMA AreaCovers ==
    ASSUME NEW n \in Nodes, NEW x \in Int, NEW z \in Int
    PROVE  <<x, z>> \in Area(n) <=> Covers(n, x, z)
  BY NodeParts DEF Area, Covers

\* The leaves cover every point of the terrain once.
LEMMA TreeTiles == TreeInv => LeavesTile
  <1> SUFFICES ASSUME TreeInv,
                      NEW x \in Root[1]..(Root[1] + Size - 1), NEW z \in Root[1]..(Root[1] + Size - 1)
               PROVE  Cardinality({n \in Leaves : <<x, z>> \in Area(n)}) = 1
    BY DEF LeavesTile
  <1>1. x \in Int /\ z \in Int /\ Covers(Root, x, z)
    <2>1. Root[1] = Root[2] /\ Root[3] = Size /\ Root[1] \in Int /\ Size \in Nat
      BY RootIsNode, SizesAreNatural DEF Root
    <2> QED
      BY <2>1 DEF Covers
  <1>2. PICK m \in Reach(Wanted)[Root] :
            /\ ~ Wanted[m] /\ Covers(m, x, z)
            /\ \A k \in Reach(Wanted)[Root] : ~ Wanted[k] /\ Covers(k, x, z) => k = m
    BY <1>1, LeavesFacts, RootIsNode, ReachCovers
  <1>3. m \in Leaves /\ \A k \in Leaves : Covers(k, x, z) => k = m
    BY <1>2, LeavesFacts
  <1>4. \A n \in Leaves : <<x, z>> \in Area(n) <=> Covers(n, x, z)
    BY <1>1, LeavesFacts, AreaCovers
  <1>5. {n \in Leaves : <<x, z>> \in Area(n)} = {m}
    BY <1>2, <1>3, <1>4
  <1> QED
    BY <1>5, FS_Singleton

\* A leaf that the camera is over does not split any further: the camera is well
\* within the range of every node that it is over.
LEMMA TreeFinest == TreeInv => FinestAtCamera
  <1> SUFFICES ASSUME TreeInv, referencePoint # <<>>,
                      NEW n \in Leaves, referencePoint \in Area(n), ~ (n[3] < 2 * MinSize)
               PROVE  FALSE
    BY DEF FinestAtCamera
  <1>1. n \in Nodes /\ n[1] \in Int /\ n[2] \in Int /\ n[3] \in Nat /\ n[3] > 0 /\ MinSize \in Nat
    BY LeavesFacts, NodeParts, SizesAreNatural
  <1>2. ~ Near(referencePoint)[n]
    BY LeavesFacts DEF Wanted
  <1>3. MaySplit(n)
    BY <1>1 DEF MaySplit
  <1>4. ~ Intersects(referencePoint, n)
    BY <1>1, <1>2, <1>3 DEF Near
  <1>5. PICK x \in n[1]..(n[1] + n[3] - 1), z \in n[2]..(n[2] + n[3] - 1) : referencePoint = <<x, z>>
    BY DEF Area
  <1>6. PICK s \in Nat, a \in Int, b \in Int :
            s = n[3] /\ a = 2 * x - (2 * n[1] + n[3]) /\ b = 2 * z - (2 * n[2] + n[3])
    <2>1. x \in Int /\ z \in Int
      BY <1>1
    <2>2. 2 * x - (2 * n[1] + n[3]) \in Int /\ 2 * z - (2 * n[2] + n[3]) \in Int
      <3>1. \A u, v, w \in Int : 2 * u - (2 * v + w) \in Int
        OBVIOUS
      <3>2. n[3] \in Int
        BY <1>1
      <3> QED
        BY <1>1, <2>1, <3>1, <3>2, Zenon
    <2> QED
      BY <1>1, <2>2, Zenon
  <1>7. -s <= a /\ a <= s /\ -s <= b /\ b <= s /\ s > 0
    BY <1>1, <1>5, <1>6
  <1>8. a * a <= s * s /\ b * b <= s * s
    BY <1>7, SquareBounded
  <1>9. s * s > 0 /\ 50 * s * s = 50 * (s * s)
    BY <1>7
  <1>10. a * a + b * b < 50 * s * s
    <2>1. PICK S \in Int, A \in Int, B \in Int : S = s * s /\ A = a * a /\ B = b * b
      OBVIOUS
    <2> QED
      BY <1>8, <1>9, <2>1
  <1>11. Intersects(referencePoint, n)
    BY <1>5, <1>6, <1>10 DEF Intersects
  <1> QED
    BY <1>4, <1>11

\* If a leaf touched one of a quarter of its size or less, then the parent of the
\* smaller one would be in the camera's range and the larger one out of it.
LEMMA TreeMeets == TreeInv => LevelsMeet
  <1> SUFFICES ASSUME TreeInv, NEW m \in Leaves, NEW n \in Leaves, Touch(m, n), ~ (m[3] <= 2 * n[3])
               PROVE  FALSE
    BY DEF LevelsMeet
  <1>1. m \in Nodes /\ n \in Nodes
    BY LeavesFacts
  <1>2. /\ m[1] \in Int /\ m[2] \in Int /\ m[3] \in Nat /\ m[3] \in Sizes
        /\ n[1] \in Int /\ n[2] \in Int /\ n[3] \in Nat /\ n[3] \in Sizes
    BY <1>1, NodeParts
  <1>3. n # Root
    BY <1>1, <1>2, RootIsNode, SizesAreNatural
  <1>4. PICK q \in Reach(Wanted)[Root] : Wanted[q] /\ n \in ChildSet(q)
    BY <1>3, LeavesFacts, RootIsNode, ReachBelow
  <1>5. q \in Nodes /\ Below(n, q) /\ q[3] = 2 * n[3]
    BY <1>4, LeavesFacts, RootIsNode, ReachBelow, InnerChildren
  <1>6. q[1] \in Int /\ q[2] \in Int /\ q[3] \in Nat /\ q[3] \in Sizes
    BY <1>5, NodeParts
  <1>7. referencePoint # <<>> /\ Wanted = Near(referencePoint)
    BY <1>4, <1>5 DEF Wanted
  <1>8. Intersects(referencePoint, q)
    BY <1>4, <1>5, <1>7 DEF Near
  <1>9. ~ Intersects(referencePoint, m)
    <2>1. ~ Near(referencePoint)[m]
      BY <1>7, LeavesFacts
    <2>2. MaySplit(m)
      BY <1>2, SizesAreNatural DEF MaySplit
    <2> QED
      BY <1>1, <2>1, <2>2 DEF Near
  <1>10. 2 * q[3] <= m[3]
    <2>1. q[3] < m[3]
      BY <1>2, <1>5
    <2>2. PICK d \in Nat : d > 0 /\ m[3] = 2 * q[3] * d
      BY <1>2, <1>6, <2>1, SizesDouble
    <2>3. 1 * (2 * q[3]) <= d * (2 * q[3])
      <3>1. 2 * q[3] \in Nat /\ 2 * q[3] > 0
        BY <1>5, <1>6, NodeParts
      <3> QED
        BY <2>2, <3>1, TimesKeepsOrder
    <2> QED
      BY <1>2, <1>6, <2>2, <2>3
  <1>11. PICK x \in Int, z \in Int : referencePoint = <<x, z>>
    BY <1>7, TerrainAssumption DEF TreeInv, TypeOK
  <1>12. PICK a \in Int, b \in Int, c \in Int, d \in Int :
            /\ a = 2 * x - (2 * q[1] + q[3]) /\ b = 2 * z - (2 * q[2] + q[3])
            /\ a + c = 2 * x - (2 * m[1] + m[3]) /\ b + d = 2 * z - (2 * m[2] + m[3])
            /\ c = 2 * (q[1] - m[1]) + q[3] - m[3] /\ d = 2 * (q[2] - m[2]) + q[3] - m[3]
    <2> DEFINE a == 2 * x - (2 * q[1] + q[3])
               b == 2 * z - (2 * q[2] + q[3])
               c == 2 * (q[1] - m[1]) + q[3] - m[3]
               d == 2 * (q[2] - m[2]) + q[3] - m[3]
    <2>1. a \in Int /\ b \in Int /\ c \in Int /\ d \in Int
      BY <1>2, <1>6
    <2>2. a + c = 2 * x - (2 * m[1] + m[3]) /\ b + d = 2 * z - (2 * m[2] + m[3])
      BY <1>2, <1>6
    <2> QED
      BY <2>1, <2>2
  <1>13. a * a + b * b < 50 * q[3] * q[3]
    BY <1>8, <1>11, <1>12 DEF Intersects
  <1>14. -(q[3] + m[3]) <= c /\ c <= q[3] + m[3]
    BY <1>2, <1>5, <1>6, <1>12 DEF Touch, Below
  <1>15. -(q[3] + m[3]) <= d /\ d <= q[3] + m[3]
    BY <1>2, <1>5, <1>6, <1>12 DEF Touch, Below
  <1>16. m[3] > 0
    BY <1>1, NodeParts
  <1>17. (a + c) * (a + c) + (b + d) * (b + d) < 50 * m[3] * m[3]
    BY <1>2, <1>6, <1>10, <1>13, <1>14, <1>15, <1>16, RangesNest
  <1>18. Intersects(referencePoint, m)
    BY <1>11, <1>12, <1>17 DEF Intersects
  <1> QED
    BY <1>9, <1>18

\* Children exist exactly below nodes that are no leaves.
THEOREM TreeTypeCorrect == Spec => []TypeOK
  <1>1. TreeInv => TypeOK
    BY DEF TreeInv
  <1> QED
    BY <1>1, TreeKept, PTL

\* However often nodes split and merge, what is allocated is what is in the tree.
THEOREM NeverLeaks == Spec => []NoNodeLeaks
  <1>1. TreeInv => NoNodeLeaks
    BY DEF TreeInv
  <1> QED
    BY <1>1, TreeKept, PTL

\* The tree depends on the camera's position only, not on its path.
THEOREM AlwaysFollows == Spec => []FollowsCamera
  <1>1. TreeInv => FollowsCamera
    BY DEF TreeInv
  <1> QED
    BY <1>1, TreeKept, PTL

\* The leaves cover the terrain without gaps or overlaps.
THEOREM AlwaysTiles == Spec => []LeavesTile
  BY TreeTiles, TreeKept, PTL

\* The terrain is finest at the camera.
THEOREM AlwaysFinest == Spec => []FinestAtCamera
  BY TreeFinest, TreeKept, PTL

\* Leaves that touch differ by one level at most.
THEOREM AlwaysMeet == Spec => []LevelsMeet
  BY TreeMeets, TreeKept, PTL
=============================================================================
