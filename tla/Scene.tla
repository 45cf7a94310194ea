------------------------------- MODULE Scene --------------------------------
(***************************************************************************)
(* What the main thread does with OpenGL: ShaderManager sends the light to *)
(* every shader, and the objects of App/Renderables draw, all of them on   *)
(* one context whose state outlives every call.  An object that forgets to *)
(* set something, or to set it back, shows in what ANOTHER object draws.   *)
(*                                                                         *)
(* A handler runs without interruption (ProcessableQueue), so it is one    *)
(* step.  main() registers Framebuffer and SimpleMeshTerrainManager in     *)
(* lines that are commented out; here they may be registered or not.       *)
(* Matrices, which every object sends before it draws, are left out, and   *)
(* so are point lights: initializeLights() creates none.                   *)
(***************************************************************************)
EXTENDS GridMesh

CONSTANTS
    None,           \* nothing bound, nothing sent
    Points,         \* bound: the values of the slider pointsPerLine
    Fields,         \* bound: the heights noise and std::rand() may give
    MaxTerrains     \* bound: terrains created, the first one included

ASSUME SceneAssumption ==
    /\ Points \subseteq Nat \ {0, 1} /\ Points # {}
    /\ MaxTerrains \in Nat \ {0}
    /\ Fields # {} /\ \A h \in Fields, n \in Points : Grid(n) \subseteq DOMAIN h
    /\ \A h \in Fields : \A p \in DOMAIN h : h[p] \in Int

VARIABLES
    stage,              \* what the main thread is doing
    shaderCollection,   \* shaders registered
    registered,         \* objects constructed and registered
    performed,          \* objects that have performed in this phase
    terrainType,        \* of SimpleMeshTerrainManager
    mesh,               \* the terrain of SimpleMeshTerrainManager: its arrays
    gl                  \* the context

vars == <<stage, shaderCollection, registered, performed, terrainType, mesh, gl>>

Objects == {"Sphere", "LodTerrain", "Skybox", "MeshTerrain", "Framebuffer"}
TerrainTypes == {"FLAT", "RANDOM", "WATER", "SIMPLEX"}
Programs == {"LightingShader", "WaterShader", "SkyboxShader", "TerrainLod",
             "HeightmapShader", "FramebufferShader"}

ProgramOf(o) ==
    CASE o = "Sphere" -> "LightingShader"
      [] o = "LodTerrain" -> "TerrainLod"
      [] o = "Skybox" -> "SkyboxShader"
      [] o = "Framebuffer" -> "FramebufferShader"
      [] o = "MeshTerrain" -> IF terrainType = "WATER" THEN "WaterShader" ELSE "LightingShader"

-----------------------------------------------------------------------------
(* OpenGL *)

Tests == {"DEPTH_TEST", "CULL_FACE"}

\* setDefaultOglParameters(), and OpenGL's own defaults.
InitialContext ==
    [program |-> None, vao |-> None, fbo |-> "window",
     enabled |-> Tests, depthFunc |-> "LESS", cullFace |-> "FRONT",
     unit |-> 0, texture |-> [u \in {0, 1} |-> [target \in {"2D", "CUBE_MAP"} |-> None]],
     cleared |-> {},
     material |-> [p \in Programs |-> None], lit |-> {},
     buffers |-> [indices |-> None, vertices |-> None, normals |-> None]]

Use(g, p) == [g EXCEPT !.program = p]

\* A uniform is set in the program that is in use.
SetMaterial(g, o) == [g EXCEPT !.material[g.program] = o]
BindTexture(g, target, t) == [g EXCEPT !.texture[g.unit][target] = t]
Clear(g) == [g EXCEPT !.cleared = @ \cup {g.fbo}]

-----------------------------------------------------------------------------
(* SimpleMeshTerrainManager *)

\* The constructors and initialize() of the four terrains.
Ground == [p \in Nat \X Nat |-> 0]
Heights == IF terrainType \in {"RANDOM", "SIMPLEX"} THEN Fields ELSE {Ground}

Mesh(n, h, k) ==
    LET data == [p \in Grid(n) |-> h[p]]
    IN  [points |-> n, vertexData |-> data, vao |-> k,
         normalsData |-> IF terrainType = "WATER" THEN None ELSE Normals(n, data)]

\* glBufferData(): SIMPLEX sends vertices and normals when it renders.
Sent(m) == [indices |-> Triangles(m.points),
            vertices |-> IF terrainType = "SIMPLEX" THEN None ELSE m.vertexData,
            normals |-> IF terrainType = "SIMPLEX" THEN None ELSE m.normalsData]

\* Mutant: the constructors set uniforms before they call use().
TerrainInitUnused(g, m) ==
    LET constructed == IF terrainType \in {"RANDOM", "WATER"} THEN SetMaterial(g, "MeshTerrain") ELSE g
    IN  Use([constructed EXCEPT !.vao = <<"MeshTerrain", m.vao>>, !.buffers = Sent(m)], ProgramOf("MeshTerrain"))

\* terrainInit(): a new terrain, with a vertex array and buffers of its own.
TerrainInit(g, m) ==
    LET p == ProgramOf("MeshTerrain")
        constructed ==
            CASE terrainType \in {"RANDOM", "WATER"} -> SetMaterial(Use(g, p), "MeshTerrain")
              [] terrainType = "SIMPLEX" -> Use(g, p)
              [] OTHER -> g
    IN  Use([constructed EXCEPT !.vao = <<"MeshTerrain", m.vao>>, !.buffers = Sent(m)], p)

VaoOf(o) == IF o = "MeshTerrain" THEN <<o, mesh.vao>> ELSE <<o>>

-----------------------------------------------------------------------------
(* The objects *)

\* The constructors; LodTerrain's fills its height map with a compute shader.
Constructed(g, o) ==
    CASE o = "Sphere" -> [Use(g, "LightingShader") EXCEPT !.vao = <<o>>]
      [] o = "LodTerrain" ->
            [BindTexture(Use(g, "HeightmapShader"), "2D", "heightmap") EXCEPT !.vao = <<o>>]
      [] o = "Skybox" ->
            BindTexture([Use(g, "SkyboxShader") EXCEPT !.vao = <<o>>], "CUBE_MAP", "skybox")
      [] o = "Framebuffer" ->
            [BindTexture(Use(g, "FramebufferShader"), "2D", "depth") EXCEPT !.vao = <<o>>, !.fbo = "window"]

\* render(), up to the draw call.
SphereDraw(g) ==
    [SetMaterial(Use(g, "LightingShader"), "Sphere") EXCEPT !.vao = <<"Sphere">>, !.cullFace = "BACK"]

\* Mutant: no texture unit is selected, as in Skybox::render().
LodTerrainDrawActive(g) ==
    [BindTexture(SetMaterial(Use(g, "TerrainLod"), "LodTerrain"), "2D", "heightmap")
        EXCEPT !.vao = <<"LodTerrain">>]

LodTerrainDraw(g) ==
    [BindTexture([SetMaterial(Use(g, "TerrainLod"), "LodTerrain") EXCEPT !.unit = 0], "2D", "heightmap")
        EXCEPT !.vao = <<"LodTerrain">>]
SkyboxDraw(g) ==
    BindTexture([Use(g, "SkyboxShader") EXCEPT !.vao = <<"Skybox">>, !.depthFunc = "LEQUAL",
                                               !.cullFace = "BACK"], "CUBE_MAP", "skybox")
FramebufferDraw(g) ==
    LET target == Clear([g EXCEPT !.fbo = "window", !.enabled = @ \ Tests])
        first == BindTexture([Use(target, "FramebufferShader") EXCEPT !.vao = <<"Framebuffer">>, !.unit = 0],
                             "2D", "color")
    IN  BindTexture([first EXCEPT !.unit = 1], "2D", "depth")

\* Mutant: the mesh is sent once, when the terrain is created.
MeshTerrainDrawUnsent(g) ==
    LET used == Use(g, ProgramOf("MeshTerrain"))
        own == IF terrainType \in {"FLAT", "SIMPLEX"} THEN SetMaterial(used, "MeshTerrain") ELSE used
    IN  [own EXCEPT !.vao = VaoOf("MeshTerrain")]

MeshTerrainDraw(g) ==
    LET used == Use(g, ProgramOf("MeshTerrain"))
        own == IF terrainType \in {"FLAT", "SIMPLEX"} THEN SetMaterial(used, "MeshTerrain") ELSE used
        bound == [own EXCEPT !.vao = VaoOf("MeshTerrain")]
    IN  IF terrainType = "SIMPLEX"
        THEN [bound EXCEPT !.buffers.vertices = mesh.vertexData, !.buffers.normals = mesh.normalsData]
        ELSE bound

AtDraw(g, o) ==
    CASE o = "Sphere" -> SphereDraw(g)
      [] o = "LodTerrain" -> LodTerrainDraw(g)
      [] o = "Skybox" -> SkyboxDraw(g)
      [] o = "Framebuffer" -> FramebufferDraw(g)
      [] o = "MeshTerrain" -> MeshTerrainDraw(g)

\* Mutant: Sphere leaves the culling as it needed it.
AfterDrawSkyboxOnly(g, o) ==
    IF o = "Skybox" THEN [g EXCEPT !.cullFace = "FRONT", !.depthFunc = "LESS"] ELSE g

\* render(), after the draw call.
AfterDraw(g, o) ==
    CASE o = "Sphere" -> [g EXCEPT !.cullFace = "FRONT"]
      [] o = "Skybox" -> [g EXCEPT !.cullFace = "FRONT", !.depthFunc = "LESS"]
      [] OTHER -> g

-----------------------------------------------------------------------------

Init ==
    /\ stage = "setup"
    /\ shaderCollection = {} /\ registered = {} /\ performed = {}
    /\ terrainType \in TerrainTypes
    /\ mesh = None
    /\ gl = InitialContext

\* main() registers all shaders, and then the objects.
RegisterShader(p) ==
    /\ stage = "setup" /\ p \notin shaderCollection
    /\ shaderCollection' = shaderCollection \cup {p}
    /\ UNCHANGED <<stage, registered, performed, terrainType, mesh, gl>>

\* Framebuffer comes after all that is drawn into it.
Construct(o) ==
    /\ stage = "setup" /\ shaderCollection = Programs
    /\ o \notin registered /\ "Framebuffer" \notin registered
    /\ registered' = registered \cup {o}
    /\ IF o = "MeshTerrain"
       THEN \E n \in Points, h \in Heights : mesh' = Mesh(n, h, 1) /\ gl' = TerrainInit(gl, Mesh(n, h, 1))
       ELSE gl' = Constructed(gl, o) /\ UNCHANGED mesh
    /\ UNCHANGED <<stage, shaderCollection, performed, terrainType>>

\* The next iteration of the loop in Engine::run(): nothing is cleared yet.
StartFrame ==
    /\ \/ stage = "setup" /\ shaderCollection = Programs
       \/ stage = "render" /\ performed = registered
    /\ stage' = "preprocess"
    /\ performed' = {}
    /\ gl' = [gl EXCEPT !.cleared = {}]
    /\ UNCHANGED <<shaderCollection, registered, terrainType, mesh>>

\* Mutant: the sliders start at zero.
SliderFromZero == Points \cup {0}

Slider == Points

\* The button "Apply": the terrain is deleted, and another one initialized.
Apply ==
    \E n \in Slider, h \in Heights :
        LET m == Mesh(n, h, mesh.vao + 1)
        IN  /\ mesh.vao < MaxTerrains
            /\ mesh' = m
            /\ gl' = TerrainInit(gl, m)

\* updateHeightmap(), when a parameter of the noise was changed.
UpdateSimplexNoise ==
    /\ terrainType = "SIMPLEX"
    /\ \E h \in Fields : mesh' = Mesh(mesh.points, h, mesh.vao)
    /\ UNCHANGED gl

\* Framebuffer::preprocess()
CaptureFrame == gl' = [gl EXCEPT !.fbo = "Framebuffer", !.enabled = @ \cup Tests]

\* preprocess(), in any order: no object relies on it.
Preprocess(o) ==
    /\ stage = "preprocess" /\ o \in registered \ performed
    /\ performed' = performed \cup {o}
    /\ CASE o = "Framebuffer" -> CaptureFrame /\ UNCHANGED mesh
         [] o = "MeshTerrain" -> Apply \/ UpdateSimplexNoise \/ UNCHANGED <<mesh, gl>>
         [] OTHER -> UNCHANGED <<mesh, gl>>
    /\ UNCHANGED <<stage, shaderCollection, registered, terrainType>>

\* glClear() and updatePerFrame(), which leaves some program in use.
UpdatePerFrame ==
    /\ stage = "preprocess" /\ performed = registered
    /\ stage' = "render"
    /\ performed' = {}
    /\ \E p \in shaderCollection :
            gl' = [Use(Clear(gl), p) EXCEPT !.lit = @ \cup shaderCollection]
    /\ UNCHANGED <<shaderCollection, registered, terrainType, mesh>>

\* Framebuffer, registered last, renders last; the others in any order.
MayRender(o) ==
    /\ stage = "render" /\ o \in registered \ performed
    /\ o = "Framebuffer" => performed = registered \ {o}

Render(o) ==
    /\ MayRender(o)
    /\ performed' = performed \cup {o}
    /\ gl' = AfterDraw(AtDraw(gl, o), o)
    /\ UNCHANGED <<stage, shaderCollection, registered, terrainType, mesh>>

Next ==
    \/ \E p \in Programs : RegisterShader(p)
    \/ \E o \in Objects : Construct(o) \/ Preprocess(o) \/ Render(o)
    \/ StartFrame \/ UpdatePerFrame

Spec == Init /\ [][Next]_vars

-----------------------------------------------------------------------------
(* Properties *)

Maps(m) ==
    /\ m.points \in Points /\ m.vao \in 1..MaxTerrains
    /\ m.vertexData \in [Grid(m.points) -> Int]
    /\ terrainType # "WATER" => m.normalsData = Normals(m.points, m.vertexData)

\* The type of the state: there is a mesh once there is a terrain, of as many
\* points as the slider allows, with the normals of its heights.
TypeOK ==
    /\ stage \in {"setup", "preprocess", "render"}
    /\ shaderCollection \subseteq Programs
    /\ registered \subseteq Objects /\ performed \subseteq registered
    /\ terrainType \in TerrainTypes
    /\ IF "MeshTerrain" \in registered THEN Maps(mesh) ELSE mesh = None

\* Whatever was drawn before it, an object is drawn by its own program from its
\* own vertices, into the framebuffer it should be drawn into, which has been
\* cleared in this frame, with the tests and the culling it was written for.
DrawnAsMeant ==
    \A o \in Objects : MayRender(o) =>
        LET g == AtDraw(gl, o)
        IN  /\ g.program = ProgramOf(o) /\ g.vao = VaoOf(o)
            /\ g.fbo = IF "Framebuffer" \in registered \ {o} THEN "Framebuffer" ELSE "window"
            /\ g.fbo \in g.cleared
            /\ g.enabled = IF o = "Framebuffer" THEN {} ELSE Tests
            /\ g.depthFunc = IF o = "Skybox" THEN "LEQUAL" ELSE "LESS"
            /\ g.cullFace = IF o \in {"Sphere", "Skybox"} THEN "BACK" ELSE "FRONT"

\* The samplers find their textures, also when Framebuffer has left unit 1
\* active and Skybox, which selects no unit, has bound its texture there.
TexturesInPlace ==
    \A o \in Objects : MayRender(o) =>
        LET t == AtDraw(gl, o).texture
        IN  CASE o = "LodTerrain" -> t[0]["2D"] = "heightmap"
              [] o = "Skybox" -> t[0]["CUBE_MAP"] = "skybox"
              [] o = "Framebuffer" -> t[0]["2D"] = "color" /\ t[1]["2D"] = "depth"
              [] OTHER -> TRUE

\* An object is lit and has its own material, although RandomTerrain and
\* WaterTerrain set theirs only when they are constructed; but a RandomTerrain next
\* to a Sphere, which sets its material in the same program when it draws, is
\* drawn with the one or the other.
MaterialsOf(o) ==
    {o} \cup IF terrainType = "RANDOM" /\ o = "MeshTerrain" THEN {"Sphere"} \cap registered ELSE {}

MaterialsKept ==
    \A o \in {"Sphere", "LodTerrain", "MeshTerrain"} : MayRender(o) =>
        LET g == AtDraw(gl, o)
        IN  ProgramOf(o) \in g.lit /\ g.material[ProgramOf(o)] \in MaterialsOf(o)

\* The terrain is drawn from the arrays as they are now, although sliders change
\* them, and the terrain itself, between frames.
MeshIsCurrent ==
    MayRender("MeshTerrain") =>
        LET buffers == AtDraw(gl, "MeshTerrain").buffers
        IN  /\ buffers.indices = Triangles(mesh.points)
            /\ buffers.vertices = mesh.vertexData
            /\ terrainType # "WATER" => buffers.normals = mesh.normalsData

\* The triangles form one surface over the grid: they all turn clockwise when
\* seen from above, so that none is culled as a front face, and every edge is
\* that of two triangles, in opposite directions, or on the border.
MeshIsSurface ==
    "MeshTerrain" \in registered =>
        LET triangles == Triangles(mesh.points)
            edges == UNION {Edges(t) : t \in triangles}
        IN  /\ \A t \in triangles : Clockwise(t) > 0
            /\ Cardinality(edges) = 3 * Cardinality(triangles)
            /\ \A e \in edges : <<e[2], e[1]>> \in edges \/ OnBorder(mesh.points, e)

\* Every normal points up, whatever the heights: no vertex is lit from below.
NormalsPointUp ==
    "MeshTerrain" \in registered /\ terrainType # "WATER" =>
        \A p \in Grid(mesh.points) : mesh.normalsData[p][2] > 0
=============================================================================
