---------------------------- MODULE SceneProofs -----------------------------
(***************************************************************************)
(* Proofs about GridMesh, for any number of points and any heights, and    *)
(* about Scene, for any objects, terrain and order of drawing.             *)
(***************************************************************************)
EXTENDS Scene, FiniteSetTheorems, TLAPS

-----------------------------------------------------------------------------
(* The mesh *)

\* Every corner of a triangle is a grid point, so that the index that is
\* pushed to indicesData lies in vertexData.
THEOREM TrianglesInGrid ==
    ASSUME NEW n \in Nat
    PROVE  \A t \in Triangles(n) : \A k \in 1..3 : t[k] \in Grid(n)
BY DEF Triangles, Cells, Upper, Lower, Grid, Line

\* A line of the grid ends before any later one begins.
LEMMA RowsApart ==
    ASSUME NEW n \in Nat, NEW i \in Nat, NEW k \in Nat, i < k
    PROVE  i * n + n <= k * n
<1>1. PICK d \in Nat : k = i + 1 + d
  <2>1. k - i - 1 \in Nat
    OBVIOUS
  <2> QED BY <2>1
<1>2. k * n = i * n + n + d * n
  BY <1>1
<1>3. d * n >= 0 /\ d * n \in Int /\ i * n \in Int
  OBVIOUS
<1> QED BY <1>2, <1>3

\* The places of two grid points in vertexData and normalsData differ, and lie
\* in the n * n elements that are allocated.
THEOREM IndexCorrect ==
    ASSUME NEW n \in Nat, NEW i \in Line(n), NEW j \in Line(n)
    PROVE  /\ Index(n, i, j) \in 0..(n * n - 1)
           /\ \A k, l \in Line(n) : Index(n, k, l) = Index(n, i, j) => k = i /\ l = j
<1>1. i \in Nat /\ j \in Nat /\ i < n /\ j < n /\ i * n \in Nat /\ n * n \in Nat
  BY DEF Line
<1>2. i * n + n <= n * n
  BY <1>1, RowsApart
<1>3. Index(n, i, j) \in 0..(n * n - 1)
  BY <1>1, <1>2 DEF Index
<1>4. ASSUME NEW k \in Line(n), NEW l \in Line(n), Index(n, k, l) = Index(n, i, j)
      PROVE  k = i /\ l = j
  <2>1. k \in Nat /\ l \in Nat /\ k < n /\ l < n /\ k * n \in Nat
    BY DEF Line
  <2>2. l + k * n = j + i * n
    BY <1>4 DEF Index
  <2>3. ~ i < k
    <3>1. i < k => i * n + n <= k * n
      BY <1>1, <2>1, RowsApart
    <3> QED BY <3>1, <2>2, <2>1, <1>1
  <2>4. ~ k < i
    <3>1. k < i => k * n + n <= i * n
      BY <1>1, <2>1, RowsApart
    <3> QED BY <3>1, <2>2, <2>1, <1>1
  <2>5. k = i
    BY <2>3, <2>4, <2>1, <1>1
  <2> QED BY <2>5, <2>2, <2>1, <1>1
<1> QED BY <1>3, <1>4

\* The height of a cross product of two edges depends on their ground plan only.
LEMMA CrossUp ==
    ASSUME NEW a, NEW b
    PROVE  Cross(a, b)[2] = a[3] * b[1] - a[1] * b[3]
BY DEF Cross

\* A cell of the grid has an area.
LEMMA AreaPositive == SpacingX * SpacingZ \in Nat \ {0}
BY SpacingAssumption

\* A triangle's normal points up, or the grid has no such triangle.
LEMMA TermsUp ==
    ASSUME NEW n \in Nat, NEW i \in Line(n), NEW j \in Line(n), NEW h,
           \A p \in Grid(n) : h[p] \in Int
    PROVE  /\ Behind(n, h, i, j)[2] = IF i > 0 /\ j < n - 1 THEN SpacingX * SpacingZ ELSE 0
           /\ Beside(n, h, i, j)[2] = IF j > 0 /\ i < n - 1 THEN SpacingX * SpacingZ ELSE 0
           /\ Ahead(n, h, i, j)[2] = IF i < n - 1 /\ j < n - 1 THEN SpacingX * SpacingZ ELSE 0
<1> USE SpacingAssumption
<1>1. i \in Int /\ j \in Int /\ i + 1 \in Int /\ j + 1 \in Int /\ i - 1 \in Int /\ j - 1 \in Int
  BY DEF Line
<1>2. /\ (i + 1) * SpacingX = i * SpacingX + SpacingX /\ (i - 1) * SpacingX = i * SpacingX - SpacingX
      /\ (j + 1) * SpacingZ = j * SpacingZ + SpacingZ /\ (j - 1) * SpacingZ = j * SpacingZ - SpacingZ
      /\ i * SpacingX \in Int /\ j * SpacingZ \in Int
  BY <1>1
<1>3. Behind(n, h, i, j)[2] = IF i > 0 /\ j < n - 1 THEN SpacingX * SpacingZ ELSE 0
  <2>1. CASE i > 0 /\ j < n - 1
    <3> DEFINE a == Sub(Vertex(h, i - 1, j + 1), Vertex(h, i, j))
               b == Sub(Vertex(h, i, j), Vertex(h, i - 1, j))
    <3>1. a[1] = - SpacingX /\ a[3] = SpacingZ
      BY <1>1, <1>2 DEF Sub, Vertex
    <3>2. b[1] = SpacingX /\ b[3] = 0
      BY <1>1, <1>2 DEF Sub, Vertex
    <3>3. Behind(n, h, i, j)[2] = a[3] * b[1] - a[1] * b[3]
      BY <2>1, CrossUp DEF Behind
    <3> HIDE DEF a, b
    <3>4. a[3] * b[1] - a[1] * b[3] = SpacingZ * SpacingX - (- SpacingX) * 0
      BY <3>1, <3>2
    <3> QED BY <2>1, <3>3, <3>4
  <2>2. CASE ~ (i > 0 /\ j < n - 1)
    BY <2>2 DEF Behind, Zero
  <2> QED BY <2>1, <2>2
<1>4. Beside(n, h, i, j)[2] = IF j > 0 /\ i < n - 1 THEN SpacingX * SpacingZ ELSE 0
  <2>1. CASE j > 0 /\ i < n - 1
    <3> DEFINE a == Sub(Vertex(h, i, j), Vertex(h, i, j - 1))
               b == Sub(Vertex(h, i + 1, j - 1), Vertex(h, i, j))
    <3>1. a[1] = 0 /\ a[3] = SpacingZ
      BY <1>1, <1>2 DEF Sub, Vertex
    <3>2. b[1] = SpacingX /\ b[3] = - SpacingZ
      BY <1>1, <1>2 DEF Sub, Vertex
    <3>3. Beside(n, h, i, j)[2] = a[3] * b[1] - a[1] * b[3]
      BY <2>1, CrossUp DEF Beside
    <3> HIDE DEF a, b
    <3>4. a[3] * b[1] - a[1] * b[3] = SpacingZ * SpacingX - 0 * (- SpacingZ)
      BY <3>1, <3>2
    <3> QED BY <2>1, <3>3, <3>4
  <2>2. CASE ~ (j > 0 /\ i < n - 1)
    BY <2>2 DEF Beside, Zero
  <2> QED BY <2>1, <2>2
<1>5. Ahead(n, h, i, j)[2] = IF i < n - 1 /\ j < n - 1 THEN SpacingX * SpacingZ ELSE 0
  <2>1. CASE i < n - 1 /\ j < n - 1
    <3> DEFINE a == Sub(Vertex(h, i, j), Vertex(h, i + 1, j))
               b == Sub(Vertex(h, i, j + 1), Vertex(h, i, j))
    <3>1. a[1] = - SpacingX /\ a[3] = 0
      BY <1>1, <1>2 DEF Sub, Vertex
    <3>2. b[1] = 0 /\ b[3] = SpacingZ
      BY <1>1, <1>2 DEF Sub, Vertex
    <3>3. Ahead(n, h, i, j)[2] = a[3] * b[1] - a[1] * b[3]
      BY <2>1, CrossUp DEF Ahead
    <3> HIDE DEF a, b
    <3>4. a[3] * b[1] - a[1] * b[3] = 0 * 0 - (- SpacingX) * SpacingZ
      BY <3>1, <3>2
    <3> QED BY <2>1, <3>3, <3>4
  <2>2. CASE ~ (i < n - 1 /\ j < n - 1)
    BY <2>2 DEF Ahead, Zero
  <2> QED BY <2>1, <2>2
<1> QED BY <1>3, <1>4, <1>5

\* Every normal of a mesh points up.
LEMMA NormalUp ==
    ASSUME NEW n \in Nat, NEW i \in Line(n), NEW j \in Line(n), NEW h,
           \A p \in Grid(n) : h[p] \in Int
    PROVE  Normal(n, h, i, j)[2] > 0
<1> DEFINE sum == Add(Add(Behind(n, h, i, j), Beside(n, h, i, j)), Ahead(n, h, i, j))
<1>1. sum[2] = (Behind(n, h, i, j)[2] + Beside(n, h, i, j)[2]) + Ahead(n, h, i, j)[2]
  BY DEF Add
<1>2. i \in Nat /\ j \in Nat /\ i <= n - 1 /\ j <= n - 1
  BY DEF Line
<1>3. CASE i = n - 1 /\ j = n - 1
  <2>1. ~ (j < n - 1) /\ ~ (i < n - 1)
    BY <1>2, <1>3
  <2>2. sum = Zero
    BY <2>1 DEF Add, Behind, Beside, Ahead, Zero
  <2>3. Normal(n, h, i, j) = <<0, 1, 0>>
    BY <2>2 DEF Normal
  <2> QED BY <2>3
<1>4. CASE ~ (i = n - 1 /\ j = n - 1)
  <2>1. \/ i < n - 1 /\ j < n - 1
        \/ i = n - 1 /\ j < n - 1 /\ i > 0
        \/ i < n - 1 /\ j = n - 1 /\ j > 0
    BY <1>2, <1>4
  <2>2. sum[2] > 0
    BY <1>1, <1>2, <2>1, TermsUp, AreaPositive
  <2>3. sum # Zero
    <3> HIDE DEF sum
    <3> QED BY <2>2 DEF Zero
  <2>4. Normal(n, h, i, j) = sum
    BY <2>3 DEF Normal
  <2> HIDE DEF sum
  <2> QED BY <2>4, <2>2
<1> QED BY <1>3, <1>4

-----------------------------------------------------------------------------
(* The surface *)

\* The k-th edge of a triangle.
EdgeOf(t, k) == CASE k = 1 -> <<t[1], t[2]>> [] k = 2 -> <<t[2], t[3]>> [] k = 3 -> <<t[3], t[1]>>
EdgeSet(n) == UNION {Edges(t) : t \in Triangles(n)}

\* The edges of the two triangles of a cell, by their corners.
LEMMA CellEdges ==
    ASSUME NEW i \in Int, NEW j \in Int
    PROVE  /\ EdgeOf(Upper(<<i, j>>), 1) = <<<<i, j>>, <<i + 1, j>>>>
           /\ EdgeOf(Upper(<<i, j>>), 2) = <<<<i + 1, j>>, <<i, j + 1>>>>
           /\ EdgeOf(Upper(<<i, j>>), 3) = <<<<i, j + 1>>, <<i, j>>>>
           /\ EdgeOf(Lower(<<i, j>>), 1) = <<<<i, j + 1>>, <<i + 1, j>>>>
           /\ EdgeOf(Lower(<<i, j>>), 2) = <<<<i + 1, j>>, <<i + 1, j + 1>>>>
           /\ EdgeOf(Lower(<<i, j>>), 3) = <<<<i + 1, j + 1>>, <<i, j + 1>>>>
  BY DEF EdgeOf, Upper, Lower

\* A triangle is the upper or the lower one of a cell.
LEMMA TriangleCases ==
    ASSUME NEW n \in Nat, NEW t \in Triangles(n)
    PROVE  \E i, j \in 0..(n - 2) : t = Upper(<<i, j>>) \/ t = Lower(<<i, j>>)
  <1>1. PICK c \in Cells(n) : t = Upper(c) \/ t = Lower(c)
    BY DEF Triangles
  <1>2. PICK i \in 0..(n - 2), j \in 0..(n - 2) : c = <<i, j>>
    BY DEF Cells
  <1> QED
    BY <1>1, <1>2

\* ... and the other way round.
LEMMA CellTriangles ==
    ASSUME NEW n \in Nat, NEW i \in 0..(n - 2), NEW j \in 0..(n - 2)
    PROVE  Upper(<<i, j>>) \in Triangles(n) /\ Lower(<<i, j>>) \in Triangles(n)
  <1>1. <<i, j>> \in Cells(n)
    BY DEF Cells
  <1> QED
    BY <1>1 DEF Triangles

\* An edge is that of a triangle, and one of three.
LEMMA EdgeCases ==
    ASSUME NEW n
    PROVE  \A e : e \in EdgeSet(n) <=> \E t \in Triangles(n) : \E k \in 1..3 : e = EdgeOf(t, k)
  <1>1. \A t : \A e : e \in Edges(t) <=> e = EdgeOf(t, 1) \/ e = EdgeOf(t, 2) \/ e = EdgeOf(t, 3)
    BY DEF Edges, EdgeOf
  <1>2. \A k : k \in 1..3 <=> k = 1 \/ k = 2 \/ k = 3
    OBVIOUS
  <1>3. \A e : e \in EdgeSet(n) <=> \E t \in Triangles(n) : e \in Edges(t)
    BY DEF EdgeSet
  <1>4. \A t : \A e : e \in Edges(t) <=> \E k \in 1..3 : e = EdgeOf(t, k)
    BY <1>1, <1>2, Zenon
  <1>5. ASSUME NEW e, e \in EdgeSet(n) PROVE \E t \in Triangles(n) : \E k \in 1..3 : e = EdgeOf(t, k)
    <2>1. PICK t \in Triangles(n) : e \in Edges(t)
      BY <1>3, <1>5, Zenon
    <2> QED
      BY <1>4, <2>1, Zenon
  <1>6. ASSUME NEW t \in Triangles(n), NEW k \in 1..3 PROVE EdgeOf(t, k) \in EdgeSet(n)
    <2>1. EdgeOf(t, k) \in Edges(t)
      BY <1>4, Zenon
    <2> QED
      BY <1>3, <2>1, Zenon
  <1> QED
    BY <1>5, <1>6, Zenon

\* The triangle of an edge and the edge's place in it, by the edge's direction.
Owner(e) ==
    LET x == e[1][1]
        z == e[1][2]
        dx == e[2][1] - x
        dz == e[2][2] - z
    IN  CASE dx = 1 /\ dz = 0 -> <<Upper(<<x, z>>), 1>>
          [] dx = -1 /\ dz = 1 -> <<Upper(<<x - 1, z>>), 2>>
          [] dx = 0 /\ dz = -1 -> <<Upper(<<x, z - 1>>), 3>>
          [] dx = 1 /\ dz = -1 -> <<Lower(<<x, z - 1>>), 1>>
          [] dx = 0 /\ dz = 1 -> <<Lower(<<x - 1, z>>), 2>>
          [] dx = -1 /\ dz = 0 -> <<Lower(<<x - 1, z - 1>>), 3>>

\* No two triangles share an edge of one direction.
LEMMA EdgeOwned ==
    ASSUME NEW n \in Nat, NEW t \in Triangles(n), NEW k \in 1..3
    PROVE  Owner(EdgeOf(t, k)) = <<t, k>>
  <1>1. PICK i \in 0..(n - 2), j \in 0..(n - 2) : t = Upper(<<i, j>>) \/ t = Lower(<<i, j>>)
    BY TriangleCases
  <1>2. i \in Int /\ j \in Int /\ i + 1 - 1 = i /\ j + 1 - 1 = j
    OBVIOUS
  <1>3. Owner(<<<<i, j>>, <<i + 1, j>>>>) = <<Upper(<<i, j>>), 1>>
    BY DEF Owner
  <1>4. Owner(<<<<i + 1, j>>, <<i, j + 1>>>>) = <<Upper(<<i, j>>), 2>>
    BY DEF Owner
  <1>5. Owner(<<<<i, j + 1>>, <<i, j>>>>) = <<Upper(<<i, j>>), 3>>
    BY DEF Owner
  <1>6. Owner(<<<<i, j + 1>>, <<i + 1, j>>>>) = <<Lower(<<i, j>>), 1>>
    BY DEF Owner
  <1>7. Owner(<<<<i + 1, j>>, <<i + 1, j + 1>>>>) = <<Lower(<<i, j>>), 2>>
    BY DEF Owner
  <1>8. Owner(<<<<i + 1, j + 1>>, <<i, j + 1>>>>) = <<Lower(<<i, j>>), 3>>
    BY DEF Owner
  <1>9. k = 1 \/ k = 2 \/ k = 3
    OBVIOUS
  <1>10. CASE t = Upper(<<i, j>>)
    BY <1>2, <1>3, <1>4, <1>5, <1>9, <1>10, CellEdges
  <1>11. CASE t = Lower(<<i, j>>)
    <2>1. CASE k = 1
      BY <1>2, <1>6, <1>11, <2>1, CellEdges
    <2>2. CASE k = 2
      BY <1>2, <1>7, <1>11, <2>2, CellEdges
    <2>3. CASE k = 3
      BY <1>2, <1>8, <1>11, <2>3, CellEdges
    <2> QED
      BY <1>9, <2>1, <2>2, <2>3
  <1> QED
    BY <1>1, <1>10, <1>11

\* The triangles are finitely many.
LEMMA TrianglesFinite == ASSUME NEW n \in Nat PROVE IsFiniteSet(Triangles(n))
  <1>1. IsFiniteSet(Line(n))
    BY FS_Interval DEF Line
  <1>2. PICK G : G = Grid(n) /\ IsFiniteSet(G)
    BY <1>1, FS_Product DEF Grid
  <1>3. PICK H : H = (G \X G) \X G /\ IsFiniteSet(H)
    BY <1>2, FS_Product
  <1>4. Triangles(n) \subseteq G \X G \X G
    <2> SUFFICES ASSUME NEW t \in Triangles(n) PROVE t \in G \X G \X G
      OBVIOUS
    <2>1. t[1] \in G /\ t[2] \in G /\ t[3] \in G
      BY <1>2, TrianglesInGrid
    <2>2. t = <<t[1], t[2], t[3]>>
      BY DEF Triangles, Upper, Lower
    <2> QED
      BY <2>1, <2>2
  <1> DEFINE g == [x \in H |-> <<x[1][1], x[1][2], x[2]>>]
  <1>5. g \in Surjection(H, G \X G \X G)
    <2>1. \A x \in H : g[x] \in G \X G \X G
      BY <1>3
    <2>2. ASSUME NEW t \in G \X G \X G PROVE \E x \in H : g[x] = t
      <3>1. PICK a \in G, b \in G, c \in G : t = <<a, b, c>>
        OBVIOUS
      <3>2. <<<<a, b>>, c>> \in H /\ g[<<<<a, b>>, c>>] = t
        BY <1>3, <3>1
      <3> QED
        BY <3>2
    <2> QED
      BY <2>1, <2>2 DEF Surjection
  <1>6. IsFiniteSet(G \X G \X G)
    BY <1>3, <1>5, FS_Surjection
  <1> QED
    BY <1>4, <1>6, FS_Subset

\* A triangle has three edges, and no other triangle has any of them.
LEMMA EdgesCounted ==
    ASSUME NEW n \in Nat
    PROVE  Cardinality(EdgeSet(n)) = 3 * Cardinality(Triangles(n))
  <1> DEFINE S == Triangles(n) \X (1..3)
             f == [x \in S |-> EdgeOf(x[1], x[2])]
  <1>1. f \in [S -> EdgeSet(n)]
    BY EdgeCases
  <1>2. \A x, y \in S : f[x] = f[y] => x = y
    <2>1. \A x \in S : x = <<x[1], x[2]>> /\ x[1] \in Triangles(n) /\ x[2] \in 1..3
      OBVIOUS
    <2>2. \A x \in S : Owner(f[x]) = x
      BY <2>1, EdgeOwned
    <2> QED
      BY <2>2, Zenon
  <1>3. \A e \in EdgeSet(n) : \E x \in S : f[x] = e
    <2> SUFFICES ASSUME NEW e \in EdgeSet(n) PROVE \E x \in S : f[x] = e
      OBVIOUS
    <2>1. PICK t \in Triangles(n), k \in 1..3 : e = EdgeOf(t, k)
      BY EdgeCases
    <2>2. <<t, k>> \in S /\ f[<<t, k>>] = e
      BY <2>1
    <2> QED
      BY <2>2
  <1>4. f \in Surjection(S, EdgeSet(n)) /\ f \in Injection(S, EdgeSet(n))
    <2>1. f \in Surjection(S, EdgeSet(n))
      <3> HIDE DEF f, S
      <3> QED
        BY <1>1, <1>3 DEF Surjection
    <2>2. f \in Injection(S, EdgeSet(n))
      <3> HIDE DEF f, S
      <3> QED
        BY <1>1, <1>2 DEF Injection, IsInjective
    <2> QED
      BY <2>1, <2>2
  <1>5. IsFiniteSet(1..3) /\ Cardinality(1..3) = 3
    <2>1. IsFiniteSet(1..3) /\ Cardinality(1..3) = IF 1 > 3 THEN 0 ELSE 3 - 1 + 1
      <3>1. 1 \in Int /\ 3 \in Int
        OBVIOUS
      <3> QED
        BY <3>1, FS_Interval, Zenon
    <2> QED
      BY <2>1
  <1>6. IsFiniteSet(S) /\ Cardinality(S) = Cardinality(Triangles(n)) * 3
    BY <1>5, TrianglesFinite, FS_Product
  <1>7. Cardinality(EdgeSet(n)) = Cardinality(S)
    <2> HIDE DEF S, f
    <2> QED
      BY <1>4, <1>6, FS_Surjection
  <1>8. Cardinality(Triangles(n)) \in Nat
    BY TrianglesFinite, FS_CardinalityType
  <1> QED
    BY <1>6, <1>7, <1>8

\* Every edge is also that of another triangle, in the other direction, or on
\* the border.
LEMMA EdgesMeet ==
    ASSUME NEW n \in Nat, NEW e \in EdgeSet(n)
    PROVE  <<e[2], e[1]>> \in EdgeSet(n) \/ OnBorder(n, e)
  <1>1. PICK t \in Triangles(n), k \in 1..3 : e = EdgeOf(t, k)
    BY EdgeCases
  <1>2. PICK i \in 0..(n - 2), j \in 0..(n - 2) : t = Upper(<<i, j>>) \/ t = Lower(<<i, j>>)
    BY TriangleCases
  <1>3. i \in Int /\ j \in Int /\ n \in Int
    OBVIOUS
  <1>4. ASSUME NEW a \in 0..(n - 2), NEW b \in 0..(n - 2)
        PROVE  /\ <<<<a, b>>, <<a + 1, b>>>> \in EdgeSet(n)
               /\ <<<<a + 1, b>>, <<a, b + 1>>>> \in EdgeSet(n)
               /\ <<<<a, b + 1>>, <<a, b>>>> \in EdgeSet(n)
               /\ <<<<a, b + 1>>, <<a + 1, b>>>> \in EdgeSet(n)
               /\ <<<<a + 1, b>>, <<a + 1, b + 1>>>> \in EdgeSet(n)
               /\ <<<<a + 1, b + 1>>, <<a, b + 1>>>> \in EdgeSet(n)
    <2>1. a \in Int /\ b \in Int /\ 1 \in 1..3 /\ 2 \in 1..3 /\ 3 \in 1..3
      OBVIOUS
    <2>2. Upper(<<a, b>>) \in Triangles(n) /\ Lower(<<a, b>>) \in Triangles(n)
      BY CellTriangles
    <2>3. \A u \in Triangles(n) : \A l \in 1..3 : EdgeOf(u, l) \in EdgeSet(n)
      BY EdgeCases
    <2>4. /\ EdgeOf(Upper(<<a, b>>), 1) \in EdgeSet(n) /\ EdgeOf(Upper(<<a, b>>), 2) \in EdgeSet(n)
          /\ EdgeOf(Upper(<<a, b>>), 3) \in EdgeSet(n) /\ EdgeOf(Lower(<<a, b>>), 1) \in EdgeSet(n)
          /\ EdgeOf(Lower(<<a, b>>), 2) \in EdgeSet(n) /\ EdgeOf(Lower(<<a, b>>), 3) \in EdgeSet(n)
      BY <2>1, <2>2, <2>3, Zenon
    <2> QED
      BY <2>1, <2>4, CellEdges
  <1>5. CASE e = <<<<i, j>>, <<i + 1, j>>>>
    <2>1. CASE j = 0
      BY <1>3, <1>5, <2>1 DEF OnBorder
    <2>2. CASE j # 0
      <3>1. j - 1 \in 0..(n - 2) /\ j - 1 + 1 = j
        BY <1>3, <2>2
      <3>2. <<<<i + 1, j>>, <<i, j>>>> \in EdgeSet(n)
        BY <1>4, <3>1
      <3> QED
        BY <1>5, <3>2
    <2> QED
      BY <2>1, <2>2
  <1>6. CASE e = <<<<i + 1, j>>, <<i, j + 1>>>>
    BY <1>4, <1>6
  <1>7. CASE e = <<<<i, j + 1>>, <<i, j>>>>
    <2>1. CASE i = 0
      BY <1>3, <1>7, <2>1 DEF OnBorder
    <2>2. CASE i # 0
      <3>1. i - 1 \in 0..(n - 2) /\ i - 1 + 1 = i
        BY <1>3, <2>2
      <3>2. <<<<i, j>>, <<i, j + 1>>>> \in EdgeSet(n)
        BY <1>4, <3>1
      <3> QED
        BY <1>7, <3>2
    <2> QED
      BY <2>1, <2>2
  <1>8. CASE e = <<<<i, j + 1>>, <<i + 1, j>>>>
    BY <1>4, <1>8
  <1>9. CASE e = <<<<i + 1, j>>, <<i + 1, j + 1>>>>
    <2>1. CASE i + 1 = n - 1
      BY <1>3, <1>9, <2>1 DEF OnBorder
    <2>2. CASE i + 1 # n - 1
      <3>1. i + 1 \in 0..(n - 2)
        BY <1>3, <2>2
      <3>2. <<<<i + 1, j + 1>>, <<i + 1, j>>>> \in EdgeSet(n)
        BY <1>4, <3>1
      <3> QED
        BY <1>9, <3>2
    <2> QED
      BY <2>1, <2>2
  <1>10. CASE e = <<<<i + 1, j + 1>>, <<i, j + 1>>>>
    <2>1. CASE j + 1 = n - 1
      BY <1>3, <1>10, <2>1 DEF OnBorder
    <2>2. CASE j + 1 # n - 1
      <3>1. j + 1 \in 0..(n - 2)
        BY <1>3, <2>2
      <3>2. <<<<i, j + 1>>, <<i + 1, j + 1>>>> \in EdgeSet(n)
        BY <1>4, <3>1
      <3> QED
        BY <1>10, <3>2
    <2> QED
      BY <2>1, <2>2
  <1>11. k = 1 \/ k = 2 \/ k = 3
    OBVIOUS
  <1> QED
    <2>1. CASE t = Upper(<<i, j>>)
      <3>1. \/ e = EdgeOf(Upper(<<i, j>>), 1)
            \/ e = EdgeOf(Upper(<<i, j>>), 2)
            \/ e = EdgeOf(Upper(<<i, j>>), 3)
        BY <1>1, <1>11, <2>1, Zenon
      <3>2. e = <<<<i, j>>, <<i + 1, j>>>> \/ e = <<<<i + 1, j>>, <<i, j + 1>>>> \/ e = <<<<i, j + 1>>, <<i, j>>>>
        BY <1>3, <3>1, CellEdges, Zenon
      <3> QED
        BY <1>5, <1>6, <1>7, <3>2, Zenon
    <2>2. CASE t = Lower(<<i, j>>)
      <3>1. \/ e = EdgeOf(Lower(<<i, j>>), 1)
            \/ e = EdgeOf(Lower(<<i, j>>), 2)
            \/ e = EdgeOf(Lower(<<i, j>>), 3)
        BY <1>1, <1>11, <2>2, Zenon
      <3>2. \/ e = <<<<i, j + 1>>, <<i + 1, j>>>>
            \/ e = <<<<i + 1, j>>, <<i + 1, j + 1>>>>
            \/ e = <<<<i + 1, j + 1>>, <<i, j + 1>>>>
        BY <1>3, <3>1, CellEdges, Zenon
      <3> QED
        BY <1>8, <1>9, <1>10, <3>2, Zenon
    <2> QED
      BY <1>2, <2>1, <2>2

\* Every triangle turns clockwise when it is seen from above.
LEMMA TrianglesTurn ==
    ASSUME NEW n \in Nat, NEW t \in Triangles(n)
    PROVE  Clockwise(t) > 0
  <1>1. PICK i \in 0..(n - 2), j \in 0..(n - 2) : t = Upper(<<i, j>>) \/ t = Lower(<<i, j>>)
    BY TriangleCases
  <1>2. i \in Int /\ j \in Int
    OBVIOUS
  <1>3. Clockwise(Upper(<<i, j>>)) = (i + 1 - i) * (j + 1 - j) - (j - j) * (i - i)
    BY DEF Clockwise, Upper
  <1>4. Clockwise(Lower(<<i, j>>)) = (i + 1 - i) * (j + 1 - (j + 1)) - (j - (j + 1)) * (i + 1 - i)
    BY DEF Clockwise, Lower
  <1>5. i + 1 - i = 1 /\ j + 1 - j = 1 /\ j - j = 0 /\ i - i = 0 /\ j + 1 - (j + 1) = 0 /\ j - (j + 1) = -1
    BY <1>2
  <1> QED
    BY <1>1, <1>3, <1>4, <1>5

-----------------------------------------------------------------------------
(* One handler *)

GlFields == {"program", "vao", "fbo", "enabled", "depthFunc", "cullFace", "unit", "texture",
             "cleared", "material", "lit", "buffers"}

\* What every context is, as far as the handlers rely on it.
Context(g) ==
    /\ DOMAIN g = GlFields
    /\ g.unit \in {0, 1}
    /\ DOMAIN g.texture = {0, 1}
    /\ \A u \in {0, 1} : DOMAIN g.texture[u] = {"2D", "CUBE_MAP"}
    /\ DOMAIN g.material = Programs
    /\ DOMAIN g.buffers = {"indices", "vertices", "normals"}
    /\ g.enabled \subseteq Tests

Untouched(g, d, fields) == \A f \in fields : d[f] = g[f]

\* What is in the context when an object draws, and what it is made of.
LEMMA SphereDrawn ==
    ASSUME NEW g, Context(g)
    PROVE  /\ Context(SphereDraw(g))
           /\ SphereDraw(g).program = "LightingShader" /\ SphereDraw(g).vao = <<"Sphere">>
           /\ SphereDraw(g).cullFace = "BACK"
           /\ SphereDraw(g).material = [g.material EXCEPT !["LightingShader"] = "Sphere"]
           /\ Untouched(g, SphereDraw(g),
                        GlFields \ {"program", "vao", "cullFace", "material"})
BY DEF SphereDraw, SetMaterial, Use, Context, GlFields, Untouched, Programs

\* SingleMeshLodTerrain's draw call uses its own program, texture and material, and no other part of the context.
LEMMA LodTerrainDrawn ==
    ASSUME NEW g, Context(g)
    PROVE  /\ Context(LodTerrainDraw(g))
           /\ LodTerrainDraw(g).program = "TerrainLod" /\ LodTerrainDraw(g).vao = <<"LodTerrain">>
           /\ LodTerrainDraw(g).unit = 0
           /\ LodTerrainDraw(g).texture[0]["2D"] = "heightmap"
           /\ LodTerrainDraw(g).texture[0]["CUBE_MAP"] = g.texture[0]["CUBE_MAP"]
           /\ LodTerrainDraw(g).material = [g.material EXCEPT !["TerrainLod"] = "LodTerrain"]
           /\ Untouched(g, LodTerrainDraw(g),
                        GlFields \ {"program", "vao", "unit", "texture", "material"})
BY DEF LodTerrainDraw, BindTexture, SetMaterial, Use, Context, GlFields, Untouched, Programs

\* Skybox's draw call sets culling and depth function to the defaults' values again.
LEMMA SkyboxDrawn ==
    ASSUME NEW g, Context(g)
    PROVE  /\ Context(SkyboxDraw(g))
           /\ SkyboxDraw(g).program = "SkyboxShader" /\ SkyboxDraw(g).vao = <<"Skybox">>
           /\ SkyboxDraw(g).depthFunc = "LEQUAL" /\ SkyboxDraw(g).cullFace = "BACK"
           /\ SkyboxDraw(g).texture[0]["CUBE_MAP"] \in {g.texture[0]["CUBE_MAP"], "skybox"}
           /\ Untouched(g, SkyboxDraw(g),
                        GlFields \ {"program", "vao", "depthFunc", "cullFace", "texture"})
BY DEF SkyboxDraw, BindTexture, Use, Context, GlFields, Untouched

\* Framebuffer draws what it captured on the window, without tests.
LEMMA FramebufferDrawn ==
    ASSUME NEW g, Context(g)
    PROVE  /\ Context(FramebufferDraw(g))
           /\ FramebufferDraw(g).program = "FramebufferShader"
           /\ FramebufferDraw(g).vao = <<"Framebuffer">>
           /\ FramebufferDraw(g).fbo = "window" /\ "window" \in FramebufferDraw(g).cleared
           /\ FramebufferDraw(g).enabled = {} /\ g.cleared \subseteq FramebufferDraw(g).cleared
           /\ FramebufferDraw(g).texture[0]["2D"] = "color"
           /\ FramebufferDraw(g).texture[1]["2D"] = "depth"
           /\ FramebufferDraw(g).texture[0]["CUBE_MAP"] = g.texture[0]["CUBE_MAP"]
           /\ Untouched(g, FramebufferDraw(g),
                        {"depthFunc", "cullFace", "material", "lit", "buffers"})
<1> DEFINE target == Clear([g EXCEPT !.fbo = "window", !.enabled = @ \ Tests])
           first == BindTexture([Use(target, "FramebufferShader") EXCEPT !.vao = <<"Framebuffer">>, !.unit = 0],
                                "2D", "color")
<1>1. /\ Context(target) /\ target.fbo = "window" /\ "window" \in target.cleared /\ target.enabled = {}
      /\ g.cleared \subseteq target.cleared
      /\ Untouched(g, target, {"depthFunc", "cullFace", "material", "lit", "buffers", "texture"})
  BY DEF Clear, Context, GlFields, Untouched, Tests
<1> HIDE DEF target
<1>2. /\ Context(first) /\ first.program = "FramebufferShader" /\ first.vao = <<"Framebuffer">>
      /\ first.texture[0]["2D"] = "color" /\ first.texture[0]["CUBE_MAP"] = target.texture[0]["CUBE_MAP"]
      /\ Untouched(target, first, {"depthFunc", "cullFace", "material", "lit", "buffers",
                                   "fbo", "cleared", "enabled"})
  BY <1>1 DEF BindTexture, Use, Context, GlFields, Untouched
<1>3. FramebufferDraw(g) = BindTexture([first EXCEPT !.unit = 1], "2D", "depth")
  BY DEF FramebufferDraw, first, target
<1> HIDE DEF first
<1> QED BY <1>1, <1>2, <1>3 DEF BindTexture, Context, GlFields, Untouched

\* A mesh terrain draws with its program and its buffers, of which it sends what its type sends each frame.
LEMMA MeshTerrainDrawn ==
    ASSUME NEW g, Context(g), terrainType \in TerrainTypes
    PROVE  /\ Context(MeshTerrainDraw(g))
           /\ MeshTerrainDraw(g).program = ProgramOf("MeshTerrain")
           /\ MeshTerrainDraw(g).vao = VaoOf("MeshTerrain")
           /\ MeshTerrainDraw(g).material =
                IF terrainType \in {"FLAT", "SIMPLEX"}
                THEN [g.material EXCEPT ![ProgramOf("MeshTerrain")] = "MeshTerrain"] ELSE g.material
           /\ MeshTerrainDraw(g).buffers.indices = g.buffers.indices
           /\ MeshTerrainDraw(g).buffers.vertices =
                IF terrainType = "SIMPLEX" THEN mesh.vertexData ELSE g.buffers.vertices
           /\ MeshTerrainDraw(g).buffers.normals =
                IF terrainType = "SIMPLEX" THEN mesh.normalsData ELSE g.buffers.normals
           /\ Untouched(g, MeshTerrainDraw(g),
                        GlFields \ {"program", "vao", "material", "buffers"})
<1> DEFINE used == Use(g, ProgramOf("MeshTerrain"))
           own == IF terrainType \in {"FLAT", "SIMPLEX"} THEN SetMaterial(used, "MeshTerrain") ELSE used
           bound == [own EXCEPT !.vao = VaoOf("MeshTerrain")]
<1>1. ProgramOf("MeshTerrain") \in Programs
  BY DEF ProgramOf, Programs
<1>2. /\ Context(own) /\ own.program = ProgramOf("MeshTerrain")
      /\ own.material = IF terrainType \in {"FLAT", "SIMPLEX"}
                        THEN [g.material EXCEPT ![ProgramOf("MeshTerrain")] = "MeshTerrain"] ELSE g.material
      /\ Untouched(g, own, GlFields \ {"program", "material"})
  BY <1>1 DEF SetMaterial, Use, Context, GlFields, Untouched
<1> HIDE DEF own
<1>3. /\ Context(bound) /\ bound.program = ProgramOf("MeshTerrain") /\ bound.vao = VaoOf("MeshTerrain")
      /\ bound.material = own.material
      /\ Untouched(g, bound, GlFields \ {"program", "vao", "material"})
  BY <1>2 DEF Context, GlFields, Untouched
<1>4. MeshTerrainDraw(g) = IF terrainType = "SIMPLEX"
        THEN [bound EXCEPT !.buffers.vertices = mesh.vertexData, !.buffers.normals = mesh.normalsData]
        ELSE bound
  BY DEF MeshTerrainDraw, own
<1> HIDE DEF bound
<1>5. CASE terrainType = "SIMPLEX"
  <2> DEFINE sent == [bound EXCEPT !.buffers.vertices = mesh.vertexData, !.buffers.normals = mesh.normalsData]
  <2>1. /\ Context(sent) /\ Untouched(bound, sent, GlFields \ {"buffers"})
        /\ sent.buffers.indices = bound.buffers.indices
        /\ sent.buffers.vertices = mesh.vertexData /\ sent.buffers.normals = mesh.normalsData
    BY <1>3 DEF Context, GlFields, Untouched
  <2>2. MeshTerrainDraw(g) = sent
    BY <1>4, <1>5
  <2> HIDE DEF sent
  <2> QED BY <1>2, <1>3, <1>5, <2>1, <2>2 DEF GlFields, Untouched
<1>6. CASE terrainType # "SIMPLEX"
  BY <1>2, <1>3, <1>4, <1>6 DEF GlFields, Untouched
<1> QED BY <1>5, <1>6

\* A terrain's constructor and initialize() leave its own mesh and material behind.
LEMMA TerrainInitialized ==
    ASSUME NEW g, Context(g), NEW m, terrainType \in TerrainTypes
    PROVE  /\ Context(TerrainInit(g, m))
           /\ TerrainInit(g, m).buffers = Sent(m)
           /\ TerrainInit(g, m).material =
                IF terrainType \in {"RANDOM", "WATER"}
                THEN [g.material EXCEPT ![ProgramOf("MeshTerrain")] = "MeshTerrain"] ELSE g.material
           /\ Untouched(g, TerrainInit(g, m), GlFields \ {"program", "vao", "material", "buffers"})
<1> DEFINE p == ProgramOf("MeshTerrain")
           constructed == CASE terrainType \in {"RANDOM", "WATER"} -> SetMaterial(Use(g, p), "MeshTerrain")
                            [] terrainType = "SIMPLEX" -> Use(g, p)
                            [] OTHER -> g
<1>1. p \in Programs
  BY DEF ProgramOf, Programs
<1>2. /\ Context(constructed) /\ Untouched(g, constructed, GlFields \ {"program", "material"})
      /\ constructed.material =
            IF terrainType \in {"RANDOM", "WATER"}
            THEN [g.material EXCEPT ![p] = "MeshTerrain"] ELSE g.material
  <2> HIDE DEF p
  <2>1. CASE terrainType \in {"RANDOM", "WATER"}
    BY <1>1, <2>1 DEF SetMaterial, Use, Context, GlFields, Untouched
  <2>2. CASE terrainType = "SIMPLEX"
    BY <2>2 DEF Use, Context, GlFields, Untouched
  <2>3. CASE terrainType = "FLAT"
    BY <2>3 DEF Untouched
  <2> QED BY <2>1, <2>2, <2>3 DEF TerrainTypes
<1>3. TerrainInit(g, m) = Use([constructed EXCEPT !.vao = <<"MeshTerrain", m.vao>>, !.buffers = Sent(m)], p)
  BY DEF TerrainInit
<1>4. DOMAIN Sent(m) = {"indices", "vertices", "normals"}
  BY DEF Sent
<1> HIDE DEF constructed, p
<1> QED BY <1>2, <1>3, <1>4 DEF Use, Context, GlFields, Untouched, p

\* Constructors change program, vertex array, framebuffer and textures only.
LEMMA ConstructedContext ==
    ASSUME NEW g, Context(g), NEW o \in Objects \ {"MeshTerrain"}
    PROVE  /\ Context(Constructed(g, o))
           /\ Constructed(g, o).fbo \in {g.fbo, "window"}
           /\ o # "Skybox" => Constructed(g, o).texture[0]["CUBE_MAP"] = g.texture[0]["CUBE_MAP"]
           /\ o = "Skybox" /\ g.unit = 0 => Constructed(g, o).texture[0]["CUBE_MAP"] = "skybox"
           /\ Untouched(g, Constructed(g, o), GlFields \ {"program", "vao", "fbo", "texture"})
<1>1. CASE o = "Sphere"
  BY <1>1 DEF Constructed, Use, Context, GlFields, Untouched
<1>2. CASE o = "LodTerrain"
  BY <1>2 DEF Constructed, BindTexture, Use, Context, GlFields, Untouched
<1>3. CASE o = "Skybox"
  BY <1>3 DEF Constructed, BindTexture, Use, Context, GlFields, Untouched
<1>4. CASE o = "Framebuffer"
  BY <1>4 DEF Constructed, BindTexture, Use, Context, GlFields, Untouched
<1> QED BY <1>1, <1>2, <1>3, <1>4 DEF Objects

\* A new mesh has the type it should have.
LEMMA MeshTyped ==
    ASSUME NEW n \in Points, NEW h \in Heights, NEW k \in 1..MaxTerrains
    PROVE  Maps(Mesh(n, h, k))
<1>1. \A p \in Grid(n) : h[p] \in Int
  <2>1. CASE h = Ground
    BY <2>1, SceneAssumption DEF Ground, Grid, Line
  <2>2. CASE h \in Fields
    BY <2>2, SceneAssumption
  <2> QED BY <2>1, <2>2 DEF Heights
<1> QED BY <1>1 DEF Mesh, Maps

-----------------------------------------------------------------------------
(* Between the handlers *)

Faces == gl.cullFace = "FRONT" /\ gl.depthFunc = "LESS"

\* Framebuffer switches the tests off when it renders, and on in the next
\* preprocess(); when nothing has rendered yet, they are on, whoever is registered.
Captures ==
    /\ "Framebuffer" \in registered
    /\ \/ stage = "preprocess" /\ "Framebuffer" \in performed
       \/ stage = "render" /\ "Framebuffer" \notin performed

Target ==
    /\ stage = "setup" \/ "Framebuffer" \notin registered => gl.enabled = Tests /\ gl.fbo = "window"
    /\ Captures => gl.enabled = Tests /\ gl.fbo = "Framebuffer"
    /\ stage = "render" /\ "Framebuffer" \notin performed => gl.fbo \in gl.cleared
    /\ stage = "render" /\ "Framebuffer" \in performed => performed = registered

\* No unit but the first is selected before the loop, so Skybox is bound there.
Skies ==
    /\ stage = "setup" => gl.unit = 0
    /\ "Skybox" \in registered => gl.texture[0]["CUBE_MAP"] = "skybox"

Lit ==
    /\ stage # "setup" \/ registered # {} => shaderCollection = Programs
    /\ stage = "render" => Programs \subseteq gl.lit

Material ==
    "MeshTerrain" \in registered /\ terrainType \in {"RANDOM", "WATER"} =>
        gl.material[ProgramOf("MeshTerrain")] \in MaterialsOf("MeshTerrain")

Buffers ==
    "MeshTerrain" \in registered =>
        /\ gl.buffers.indices = Triangles(mesh.points)
        /\ terrainType # "SIMPLEX" =>
                gl.buffers.vertices = mesh.vertexData /\ gl.buffers.normals = mesh.normalsData

SceneInv ==
    /\ TypeOK /\ Context(gl)
    /\ Faces /\ Target /\ Skies /\ Lit /\ Material /\ Buffers

\* The context starts with the engine's defaults.
LEMMA InitScene == Init => SceneInv
BY DEF Init, SceneInv, TypeOK, Context, GlFields, InitialContext, Tests, Faces, Target, Captures,
       Skies, Lit, Material, Buffers

USE DEF Objects

\* Registering a shader keeps the invariant.
LEMMA RegisterKeeps ==
    ASSUME SceneInv, NEW p \in Programs, RegisterShader(p)
    PROVE  SceneInv'
BY DEF SceneInv, RegisterShader, TypeOK, Maps, Context, Faces, Target, Captures, Skies, Lit,
       Material, MaterialsOf, ProgramOf, Buffers

\* The constructors keep the invariant, in any order.
LEMMA ConstructKeeps ==
    ASSUME SceneInv, NEW o \in Objects, Construct(o)
    PROVE  SceneInv'
<1>1. CASE o = "MeshTerrain"
  <2>1. PICK n \in Points, h \in Heights : mesh' = Mesh(n, h, 1) /\ gl' = TerrainInit(gl, Mesh(n, h, 1))
    BY <1>1 DEF Construct
  <2> DEFINE m == Mesh(n, h, 1)
  <2>2. Maps(m)
    BY MeshTyped, SceneAssumption
  <2>3. /\ m.points = n /\ Sent(m).indices = Triangles(m.points)
        /\ terrainType # "SIMPLEX" =>
                Sent(m).vertices = m.vertexData /\ Sent(m).normals = m.normalsData
    BY DEF Mesh, Sent
  <2> HIDE DEF m
  <2>4. /\ Context(gl') /\ gl'.buffers = Sent(m)
        /\ gl'.material = IF terrainType \in {"RANDOM", "WATER"}
                          THEN [gl.material EXCEPT ![ProgramOf("MeshTerrain")] = "MeshTerrain"] ELSE gl.material
        /\ Untouched(gl, gl', GlFields \ {"program", "vao", "material", "buffers"})
    BY <2>1, TerrainInitialized DEF SceneInv, TypeOK, m
  <2>5. /\ stage = "setup" /\ shaderCollection = Programs /\ registered' = registered \cup {o}
        /\ "Framebuffer" \notin registered
        /\ UNCHANGED <<stage, shaderCollection, performed, terrainType>> /\ mesh' = m
    BY <1>1, <2>1 DEF Construct, m
  <2>6. TypeOK'
    BY <1>1, <2>2, <2>5 DEF SceneInv, TypeOK, Maps
  <2>7. Faces' /\ Target' /\ Skies' /\ Lit'
    BY <1>1, <2>4, <2>5 DEF SceneInv, Faces, Target, Captures, Skies, Lit, Untouched, GlFields
  <2>8. Material'
    BY <1>1, <2>4, <2>5 DEF SceneInv, Material, MaterialsOf, ProgramOf, Context, Programs
  <2>9. Buffers'
    BY <2>3, <2>4, <2>5 DEF Buffers
  <2> QED BY <2>4, <2>6, <2>7, <2>8, <2>9 DEF SceneInv
<1>2. CASE o # "MeshTerrain"
  <2>1. gl' = Constructed(gl, o) /\ mesh' = mesh
    BY <1>2 DEF Construct
  <2>2. /\ Context(gl') /\ gl'.fbo \in {gl.fbo, "window"}
        /\ o # "Skybox" => gl'.texture[0]["CUBE_MAP"] = gl.texture[0]["CUBE_MAP"]
        /\ o = "Skybox" /\ gl.unit = 0 => gl'.texture[0]["CUBE_MAP"] = "skybox"
        /\ Untouched(gl, gl', GlFields \ {"program", "vao", "fbo", "texture"})
    BY <1>2, <2>1, ConstructedContext DEF SceneInv
  <2>3. /\ stage = "setup" /\ shaderCollection = Programs /\ registered' = registered \cup {o}
        /\ UNCHANGED <<stage, shaderCollection, performed, terrainType>>
    BY DEF Construct
  <2>4. TypeOK'
    BY <1>2, <2>1, <2>3 DEF SceneInv, TypeOK, Maps
  <2>5. Faces' /\ Target' /\ Skies' /\ Lit'
    BY <2>2, <2>3 DEF SceneInv, Faces, Target, Captures, Skies, Lit, Untouched, GlFields
  <2>6. Material' /\ Buffers'
    BY <1>2, <2>1, <2>2, <2>3
       DEF SceneInv, Material, MaterialsOf, ProgramOf, Buffers, Untouched, GlFields
  <2> QED BY <2>2, <2>4, <2>5, <2>6 DEF SceneInv
<1> QED BY <1>1, <1>2

\* The start of a frame changes only what is cleared.
LEMMA StartFrameKeeps ==
    ASSUME SceneInv, StartFrame
    PROVE  SceneInv'
<1>1. Context(gl') /\ Untouched(gl, gl', GlFields \ {"cleared"})
  BY DEF SceneInv, StartFrame, Context, GlFields, Untouched
<1>2. TypeOK' /\ Lit'
  BY DEF SceneInv, StartFrame, TypeOK, Maps, Lit
<1>3. Faces' /\ Target' /\ Skies' /\ Material' /\ Buffers'
  BY <1>1 DEF SceneInv, StartFrame, Faces, Target, Captures, Skies, Material, MaterialsOf, ProgramOf,
             Buffers, Untouched, GlFields
<1> QED BY <1>1, <1>2, <1>3 DEF SceneInv

\* Each preprocess() keeps the invariant.
LEMMA PreprocessKeeps ==
    ASSUME SceneInv, NEW o \in Objects, Preprocess(o)
    PROVE  SceneInv'
<1>1. /\ stage = "preprocess" /\ o \in registered /\ performed' = performed \cup {o}
      /\ UNCHANGED <<stage, shaderCollection, registered, terrainType>>
  BY DEF Preprocess
<1>2. CASE o = "Framebuffer"
  <2>1. CaptureFrame /\ UNCHANGED mesh
    BY <1>2 DEF Preprocess
  <2>2. /\ Context(gl') /\ gl'.fbo = "Framebuffer" /\ gl'.enabled = Tests
        /\ Untouched(gl, gl', GlFields \ {"fbo", "enabled"})
    BY <2>1 DEF CaptureFrame, SceneInv, Context, GlFields, Untouched
  <2> QED BY <1>1, <1>2, <2>1, <2>2 DEF SceneInv, TypeOK, Maps, Faces, Target, Captures, Skies, Lit, Material,
             MaterialsOf, ProgramOf, Buffers, Untouched, GlFields
<1>3. CASE o = "MeshTerrain" /\ Apply
  <2>1. PICK n \in Points, h \in Heights :
            /\ mesh.vao < MaxTerrains /\ mesh' = Mesh(n, h, mesh.vao + 1)
            /\ gl' = TerrainInit(gl, Mesh(n, h, mesh.vao + 1))
    BY <1>3 DEF Apply, Slider
  <2> DEFINE m == Mesh(n, h, mesh.vao + 1)
  <2>2. Maps(m)
    <3>1. mesh.vao + 1 \in 1..MaxTerrains
      BY <1>1, <1>3, <2>1, SceneAssumption DEF SceneInv, TypeOK, Maps
    <3> QED BY <3>1, MeshTyped
  <2>3. /\ m.points = n /\ Sent(m).indices = Triangles(m.points)
        /\ terrainType # "SIMPLEX" =>
                Sent(m).vertices = m.vertexData /\ Sent(m).normals = m.normalsData
    BY DEF Mesh, Sent
  <2> HIDE DEF m
  <2>4. /\ Context(gl') /\ gl'.buffers = Sent(m) /\ mesh' = m
        /\ gl'.material = IF terrainType \in {"RANDOM", "WATER"}
                          THEN [gl.material EXCEPT ![ProgramOf("MeshTerrain")] = "MeshTerrain"] ELSE gl.material
        /\ Untouched(gl, gl', GlFields \ {"program", "vao", "material", "buffers"})
    BY <2>1, TerrainInitialized DEF SceneInv, TypeOK, m
  <2>5. TypeOK'
    BY <1>1, <1>3, <2>2, <2>4 DEF SceneInv, TypeOK, Maps
  <2>6. Faces' /\ Target' /\ Skies' /\ Lit'
    BY <1>1, <1>3, <2>4 DEF SceneInv, Faces, Target, Captures, Skies, Lit, Untouched, GlFields
  <2>7. Material'
    BY <1>1, <2>4 DEF SceneInv, Material, MaterialsOf, ProgramOf, Context, Programs
  <2>8. Buffers'
    BY <1>1, <2>3, <2>4 DEF Buffers
  <2> QED BY <2>4, <2>5, <2>6, <2>7, <2>8 DEF SceneInv
<1>4. CASE o = "MeshTerrain" /\ UpdateSimplexNoise
  <2>1. PICK h \in Heights : mesh' = Mesh(mesh.points, h, mesh.vao) /\ gl' = gl /\ terrainType = "SIMPLEX"
    BY <1>4 DEF UpdateSimplexNoise, Heights
  <2>2. Maps(mesh') /\ mesh'.points = mesh.points
    BY <1>1, <1>4, <2>1, MeshTyped DEF SceneInv, TypeOK, Maps, Mesh
  <2>3. TypeOK'
    BY <1>1, <1>4, <2>2 DEF SceneInv, TypeOK, Maps
  <2> QED BY <1>1, <1>4, <2>1, <2>2, <2>3 DEF SceneInv, Context, Faces, Target, Captures, Skies, Lit, Material,
             MaterialsOf, ProgramOf, Buffers
<1>5. CASE o # "Framebuffer" /\ UNCHANGED <<mesh, gl>>
  BY <1>1, <1>5 DEF SceneInv, TypeOK, Maps, Context, Faces, Target, Captures, Skies, Lit, Material,
             MaterialsOf, ProgramOf, Buffers
<1> QED BY <1>2, <1>3, <1>4, <1>5 DEF Preprocess

\* ShaderManager's updatePerFrame() lights all registered shaders and clears where drawing goes.
LEMMA UpdateKeeps ==
    ASSUME SceneInv, UpdatePerFrame
    PROVE  SceneInv'
<1>1. /\ stage = "preprocess" /\ performed = registered /\ stage' = "render" /\ performed' = {}
      /\ UNCHANGED <<shaderCollection, registered, terrainType, mesh>>
  BY DEF UpdatePerFrame
<1>2. PICK p \in shaderCollection :
        gl' = [Use(Clear(gl), p) EXCEPT !.lit = @ \cup shaderCollection]
  BY DEF UpdatePerFrame
<1>3. /\ Context(gl') /\ gl'.lit = gl.lit \cup shaderCollection /\ gl'.fbo \in gl'.cleared
      /\ Untouched(gl, gl', GlFields \ {"program", "lit", "cleared"})
  BY <1>2 DEF SceneInv, Use, Clear, Context, GlFields, Untouched
<1>4. TypeOK' /\ Lit'
  BY <1>1, <1>3 DEF SceneInv, TypeOK, Maps, Lit
<1>5. Faces' /\ Target' /\ Skies' /\ Material' /\ Buffers'
  BY <1>1, <1>3 DEF SceneInv, Faces, Target, Captures, Skies, Material, MaterialsOf, ProgramOf, Buffers,
                    Untouched, GlFields
<1> QED BY <1>3, <1>4, <1>5 DEF SceneInv

\* What a draw call changes for the objects that come after it.
LEMMA Drawn ==
    ASSUME SceneInv, NEW o \in Objects
    PROVE  LET d == AtDraw(gl, o)
           IN  /\ Context(d) /\ d.lit = gl.lit /\ gl.cleared \subseteq d.cleared
               /\ o # "Framebuffer" =>
                    d.enabled = gl.enabled /\ d.fbo = gl.fbo /\ d.cleared = gl.cleared
               /\ d.cullFace = IF o \in {"Sphere", "Skybox"} THEN "BACK" ELSE "FRONT"
               /\ d.depthFunc = IF o = "Skybox" THEN "LEQUAL" ELSE "LESS"
               /\ "Skybox" \in registered => d.texture[0]["CUBE_MAP"] = "skybox"
               /\ o \in {"Sphere", "LodTerrain"} =>
                    d.material = [gl.material EXCEPT ![ProgramOf(o)] = o]
               /\ o \in {"Skybox", "Framebuffer"} => d.material = gl.material
               /\ o # "MeshTerrain" => d.buffers = gl.buffers
               /\ d.program = ProgramOf(o) /\ d.vao = VaoOf(o)
<1> SUFFICES ASSUME SceneInv, NEW d, d = AtDraw(gl, o)
             PROVE  /\ Context(d) /\ d.lit = gl.lit /\ gl.cleared \subseteq d.cleared
                    /\ o # "Framebuffer" =>
                        d.enabled = gl.enabled /\ d.fbo = gl.fbo /\ d.cleared = gl.cleared
                    /\ d.cullFace = IF o \in {"Sphere", "Skybox"} THEN "BACK" ELSE "FRONT"
                    /\ d.depthFunc = IF o = "Skybox" THEN "LEQUAL" ELSE "LESS"
                    /\ "Skybox" \in registered => d.texture[0]["CUBE_MAP"] = "skybox"
                    /\ o \in {"Sphere", "LodTerrain"} =>
                        d.material = [gl.material EXCEPT ![ProgramOf(o)] = o]
                    /\ o \in {"Skybox", "Framebuffer"} => d.material = gl.material
                    /\ o # "MeshTerrain" => d.buffers = gl.buffers
                    /\ d.program = ProgramOf(o) /\ d.vao = VaoOf(o)
  OBVIOUS
<1>0. /\ Context(gl) /\ gl.cullFace = "FRONT" /\ gl.depthFunc = "LESS" /\ terrainType \in TerrainTypes
      /\ "Skybox" \in registered => gl.texture[0]["CUBE_MAP"] = "skybox"
  BY DEF SceneInv, Faces, Skies, TypeOK
<1>1. CASE o = "Sphere"
  BY <1>0, <1>1, SphereDrawn DEF AtDraw, ProgramOf, VaoOf, Untouched, GlFields
<1>2. CASE o = "LodTerrain"
  BY <1>0, <1>2, LodTerrainDrawn DEF AtDraw, ProgramOf, VaoOf, Untouched, GlFields
<1>3. CASE o = "Skybox"
  BY <1>0, <1>3, SkyboxDrawn DEF AtDraw, ProgramOf, VaoOf, Untouched, GlFields
<1>4. CASE o = "Framebuffer"
  <2>1. d = FramebufferDraw(gl)
    BY <1>4 DEF AtDraw
  <2>2. ProgramOf(o) = "FramebufferShader" /\ VaoOf(o) = <<"Framebuffer">>
    BY <1>4 DEF ProgramOf, VaoOf
  <2> QED BY <1>0, <1>4, <2>1, <2>2, FramebufferDrawn DEF Untouched
<1>5. CASE o = "MeshTerrain"
  <2>1. d = MeshTerrainDraw(gl)
    BY <1>5 DEF AtDraw
  <2>2. Untouched(gl, d, GlFields \ {"program", "vao", "material", "buffers"})
    BY <1>0, <2>1, MeshTerrainDrawn
  <2>3. Context(d) /\ d.program = ProgramOf("MeshTerrain") /\ d.vao = VaoOf("MeshTerrain")
    BY <1>0, <2>1, MeshTerrainDrawn
  <2>4. /\ d.lit = gl.lit /\ d.cleared = gl.cleared /\ d.enabled = gl.enabled /\ d.fbo = gl.fbo
        /\ d.cullFace = gl.cullFace /\ d.depthFunc = gl.depthFunc /\ d.texture = gl.texture
    BY <2>2 DEF Untouched, GlFields
  <2> QED BY <1>0, <1>5, <2>3, <2>4
<1> QED BY <1>1, <1>2, <1>3, <1>4, <1>5

\* Each render() keeps the invariant.
LEMMA RenderKeeps ==
    ASSUME SceneInv, NEW o \in Objects, Render(o)
    PROVE  SceneInv'
<1> DEFINE d == AtDraw(gl, o)
<1>1. /\ stage = "render" /\ o \in registered \ performed /\ performed' = performed \cup {o}
      /\ o = "Framebuffer" => performed' = registered
      /\ gl' = AfterDraw(d, o) /\ UNCHANGED <<stage, shaderCollection, registered, terrainType, mesh>>
  BY DEF Render, MayRender, SceneInv, TypeOK
<1>2. /\ Context(d) /\ d.lit = gl.lit /\ gl.cleared \subseteq d.cleared
      /\ o # "Framebuffer" => d.enabled = gl.enabled /\ d.fbo = gl.fbo /\ d.cleared = gl.cleared
      /\ d.cullFace = IF o \in {"Sphere", "Skybox"} THEN "BACK" ELSE "FRONT"
      /\ d.depthFunc = IF o = "Skybox" THEN "LEQUAL" ELSE "LESS"
      /\ "Skybox" \in registered => d.texture[0]["CUBE_MAP"] = "skybox"
      /\ o \in {"Sphere", "LodTerrain"} => d.material = [gl.material EXCEPT ![ProgramOf(o)] = o]
      /\ o \in {"Skybox", "Framebuffer"} => d.material = gl.material
      /\ o # "MeshTerrain" => d.buffers = gl.buffers
  BY Drawn
<1>3. o = "MeshTerrain" =>
        /\ d.buffers.indices = gl.buffers.indices
        /\ terrainType # "SIMPLEX" =>
                d.buffers.vertices = gl.buffers.vertices /\ d.buffers.normals = gl.buffers.normals
        /\ terrainType \in {"RANDOM", "WATER"} => d.material = gl.material
  BY MeshTerrainDrawn DEF SceneInv, TypeOK, AtDraw
<1> HIDE DEF d
<1>4. /\ Context(gl') /\ gl'.cullFace = "FRONT" /\ gl'.depthFunc = "LESS"
      /\ Untouched(d, gl', GlFields \ {"cullFace", "depthFunc"})
  BY <1>1, <1>2 DEF AfterDraw, Context, GlFields, Untouched
<1>5. TypeOK' /\ Lit' /\ Faces' /\ Skies'
  BY <1>1, <1>2, <1>4 DEF SceneInv, TypeOK, Maps, Lit, Faces, Skies, Untouched, GlFields
<1>6. Target'
  BY <1>1, <1>2, <1>4 DEF SceneInv, Target, Captures, Untouched, GlFields
<1>7. Material'
  <2>1. gl'.material = d.material /\ DOMAIN gl.material = Programs
    BY <1>4 DEF SceneInv, Context, Untouched, GlFields
  <2>2. SUFFICES ASSUME "MeshTerrain" \in registered, terrainType \in {"RANDOM", "WATER"}
                 PROVE  d.material[ProgramOf("MeshTerrain")] \in MaterialsOf("MeshTerrain")
    BY <1>1, <2>1 DEF Material, MaterialsOf, ProgramOf
  <2>3. gl.material[ProgramOf("MeshTerrain")] \in MaterialsOf("MeshTerrain")
    BY <1>1, <2>2 DEF SceneInv, Material
  <2>4. ProgramOf("MeshTerrain") \in Programs /\ ProgramOf("MeshTerrain") # ProgramOf("LodTerrain")
    BY DEF ProgramOf, Programs
  <2>5. CASE o \in {"Sphere", "LodTerrain"} /\ ProgramOf(o) # ProgramOf("MeshTerrain")
    BY <1>2, <2>1, <2>3, <2>4, <2>5
  <2>6. CASE o = "Sphere" /\ ProgramOf(o) = ProgramOf("MeshTerrain")
    <3>1. d.material[ProgramOf("MeshTerrain")] = "Sphere" BY <1>2, <2>1, <2>4, <2>6
    <3>2. terrainType = "RANDOM" BY <2>2, <2>6 DEF ProgramOf
    <3>3. "Sphere" \in registered BY <1>1, <2>6
    <3> QED BY <3>1, <3>2, <3>3 DEF MaterialsOf
  <2>7. CASE o \notin {"Sphere", "LodTerrain"}
    BY <1>2, <1>3, <2>2, <2>3, <2>7
  <2> QED BY <2>4, <2>5, <2>6, <2>7
<1>8. Buffers'
  BY <1>1, <1>2, <1>3, <1>4 DEF SceneInv, Buffers, Untouched, GlFields
<1> QED BY <1>4, <1>5, <1>6, <1>7, <1>8 DEF SceneInv

\* The invariant of context and terrain holds in every reachable state.
THEOREM SceneInvariance == Spec => []SceneInv
<1>1. SceneInv /\ [Next]_vars => SceneInv'
  <2>1. SceneInv /\ UNCHANGED vars => SceneInv'
    BY DEF vars, SceneInv, TypeOK, Maps, Context, Faces, Target, Captures, Skies, Lit, Material,
           MaterialsOf, ProgramOf, Buffers
  <2> QED BY <2>1, RegisterKeeps, ConstructKeeps, StartFrameKeeps, PreprocessKeeps, UpdateKeeps, RenderKeeps
          DEF Next
<1> QED BY InitScene, <1>1, PTL DEF Spec

-----------------------------------------------------------------------------

\* The state has its type, for any terrain.
THEOREM TypeCorrect == Spec => []TypeOK
BY SceneInvariance, PTL DEF SceneInv

\* No object's draw call depends on what another object has left in the context.
THEOREM DrawnCorrect == Spec => []DrawnAsMeant
<1>1. SceneInv => DrawnAsMeant
  <2> SUFFICES ASSUME SceneInv, NEW o \in Objects, MayRender(o), NEW g, g = AtDraw(gl, o)
               PROVE  /\ g.program = ProgramOf(o) /\ g.vao = VaoOf(o)
                      /\ g.fbo = IF "Framebuffer" \in registered \ {o} THEN "Framebuffer" ELSE "window"
                      /\ g.fbo \in g.cleared
                      /\ g.enabled = IF o = "Framebuffer" THEN {} ELSE Tests
                      /\ g.depthFunc = IF o = "Skybox" THEN "LEQUAL" ELSE "LESS"
                      /\ g.cullFace = IF o \in {"Sphere", "Skybox"} THEN "BACK" ELSE "FRONT"
    BY DEF DrawnAsMeant
  <2>1. /\ g.program = ProgramOf(o) /\ g.vao = VaoOf(o)
        /\ g.depthFunc = IF o = "Skybox" THEN "LEQUAL" ELSE "LESS"
        /\ g.cullFace = IF o \in {"Sphere", "Skybox"} THEN "BACK" ELSE "FRONT"
        /\ o # "Framebuffer" => g.enabled = gl.enabled /\ g.fbo = gl.fbo /\ g.cleared = gl.cleared
    BY Drawn
  <2>2. CASE o = "Framebuffer"
    BY <2>1, <2>2, FramebufferDrawn DEF AtDraw, SceneInv
  <2>3. CASE o # "Framebuffer"
    <3>1. stage = "render" /\ "Framebuffer" \notin performed
      BY DEF MayRender, SceneInv, TypeOK, Target
    <3> QED BY <2>1, <2>3, <3>1 DEF SceneInv, Target, Captures
  <2> QED BY <2>1, <2>2, <2>3
<1> QED BY SceneInvariance, <1>1, PTL
\* The samplers find their textures, for any order of drawing.
THEOREM TexturesCorrect == Spec => []TexturesInPlace
<1>1. SceneInv => TexturesInPlace
  <2> SUFFICES ASSUME SceneInv, NEW o \in Objects, MayRender(o), NEW t, t = AtDraw(gl, o).texture
               PROVE  CASE o = "LodTerrain" -> t[0]["2D"] = "heightmap"
                        [] o = "Skybox" -> t[0]["CUBE_MAP"] = "skybox"
                        [] o = "Framebuffer" -> t[0]["2D"] = "color" /\ t[1]["2D"] = "depth"
                        [] OTHER -> TRUE
    BY DEF TexturesInPlace
  <2>1. CASE o = "LodTerrain"
    BY <2>1, LodTerrainDrawn DEF AtDraw, SceneInv
  <2>2. CASE o = "Skybox"
    BY <2>2, Drawn DEF MayRender
  <2>3. CASE o = "Framebuffer"
    BY <2>3, FramebufferDrawn DEF AtDraw, SceneInv
  <2>4. CASE o \notin {"LodTerrain", "Skybox", "Framebuffer"}
    BY <2>4
  <2> QED BY <2>1, <2>2, <2>3, <2>4
<1> QED BY SceneInvariance, <1>1, PTL

\* An object is lit, and drawn with its own material; a RandomTerrain registered
\* next to a Sphere is drawn with its own or the Sphere's.
THEOREM MaterialCorrect == Spec => []MaterialsKept
<1>1. SceneInv => MaterialsKept
  <2> SUFFICES ASSUME SceneInv, NEW o \in {"Sphere", "LodTerrain", "MeshTerrain"}, MayRender(o),
                      NEW g, g = AtDraw(gl, o)
               PROVE  /\ ProgramOf(o) \in g.lit
                      /\ g.material[ProgramOf(o)] \in MaterialsOf(o)
    BY DEF MaterialsKept
  <2>1. ProgramOf(o) \in Programs
    BY DEF ProgramOf, Programs
  <2>2. ProgramOf(o) \in g.lit
    BY <2>1, Drawn DEF MayRender, SceneInv, Lit, Objects
  <2>3. CASE o \in {"Sphere", "LodTerrain"}
    <3>1. g.material = [gl.material EXCEPT ![ProgramOf(o)] = o]
      BY <2>3, Drawn DEF Objects
    <3> QED BY <2>1, <2>2, <3>1 DEF SceneInv, Context, MaterialsOf
  <2>4. CASE o = "MeshTerrain"
    <3>1. g.material = IF terrainType \in {"FLAT", "SIMPLEX"}
                       THEN [gl.material EXCEPT ![ProgramOf("MeshTerrain")] = "MeshTerrain"] ELSE gl.material
      BY <2>4, MeshTerrainDrawn DEF AtDraw, SceneInv, TypeOK
    <3>2. terrainType \in {"RANDOM", "WATER"} => gl.material[ProgramOf(o)] \in MaterialsOf(o)
      BY <2>4 DEF SceneInv, Material, MayRender
    <3> QED BY <2>1, <2>2, <2>4, <3>1, <3>2
         DEF SceneInv, Context, TypeOK, TerrainTypes, MaterialsOf
  <2> QED BY <2>3, <2>4
<1> QED BY SceneInvariance, <1>1, PTL

\* What is drawn of the terrain is what the program has computed of it.
THEOREM MeshCurrent == Spec => []MeshIsCurrent
<1>1. SceneInv => MeshIsCurrent
  <2> SUFFICES ASSUME SceneInv, MayRender("MeshTerrain"), NEW b, b = AtDraw(gl, "MeshTerrain").buffers
               PROVE  /\ b.indices = Triangles(mesh.points)
                      /\ b.vertices = mesh.vertexData
                      /\ terrainType # "WATER" => b.normals = mesh.normalsData
    BY DEF MeshIsCurrent
  <2>1. AtDraw(gl, "MeshTerrain") = MeshTerrainDraw(gl)
    BY DEF AtDraw
  <2>2. /\ b.indices = gl.buffers.indices
        /\ b.vertices = IF terrainType = "SIMPLEX" THEN mesh.vertexData ELSE gl.buffers.vertices
        /\ b.normals = IF terrainType = "SIMPLEX" THEN mesh.normalsData ELSE gl.buffers.normals
    BY <2>1, MeshTerrainDrawn DEF SceneInv, TypeOK
  <2> QED BY <2>2 DEF SceneInv, Buffers, MayRender
<1> QED BY SceneInvariance, <1>1, PTL

\* No vertex of the terrain is lit from below, whatever its heights.
THEOREM NormalsCorrect == Spec => []NormalsPointUp
<1>1. SceneInv => NormalsPointUp
  <2> SUFFICES ASSUME SceneInv, "MeshTerrain" \in registered, terrainType # "WATER",
                      NEW p \in Grid(mesh.points)
               PROVE  mesh.normalsData[p][2] > 0
    BY DEF NormalsPointUp
  <2>1. /\ mesh.points \in Nat /\ mesh.vertexData \in [Grid(mesh.points) -> Int]
        /\ mesh.normalsData = Normals(mesh.points, mesh.vertexData)
    BY SceneAssumption DEF SceneInv, TypeOK, Maps
  <2>2. p[1] \in Line(mesh.points) /\ p[2] \in Line(mesh.points)
    BY DEF Grid
  <2>3. Normal(mesh.points, mesh.vertexData, p[1], p[2])[2] > 0
    BY <2>1, <2>2, NormalUp
  <2>4. mesh.normalsData[p] = Normal(mesh.points, mesh.vertexData, p[1], p[2])
    BY <2>1 DEF Normals
  <2> QED BY <2>3, <2>4
<1> QED BY SceneInvariance, <1>1, PTL

\* The triangles of the terrain form one surface: none is culled, and no edge is
\* shared by more than two, whatever the number of points.
THEOREM SurfaceCorrect == Spec => []MeshIsSurface
<1>1. SceneInv => MeshIsSurface
  <2> SUFFICES ASSUME SceneInv, "MeshTerrain" \in registered
               PROVE  /\ \A t \in Triangles(mesh.points) : Clockwise(t) > 0
                      /\ Cardinality(EdgeSet(mesh.points)) = 3 * Cardinality(Triangles(mesh.points))
                      /\ \A e \in EdgeSet(mesh.points) :
                            <<e[2], e[1]>> \in EdgeSet(mesh.points) \/ OnBorder(mesh.points, e)
    BY DEF MeshIsSurface, EdgeSet
  <2>1. mesh.points \in Nat
    BY SceneAssumption DEF SceneInv, TypeOK, Maps
  <2> QED BY <2>1, TrianglesTurn, EdgesCounted, EdgesMeet
<1> QED BY SceneInvariance, <1>1, PTL
=============================================================================
