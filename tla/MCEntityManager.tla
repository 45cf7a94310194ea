--------------------------- MODULE MCEntityManager ---------------------------
(* The messangers of the application and what their constructors register. *)
EXTENDS EntityManager

MCManager == "EntityManager"
MCMessangers == {"CameraManager", "SingleMeshLodTerrain", MCManager}
MCReaders == {"SingleMeshLodTerrain", MCManager}
MCNameOf == [m \in MCMessangers |-> m]

\* CameraManager.cpp:12-18 and SingleMeshLodTerrain.cpp:18-26.
MCProperties == {"cameraIndex", "terrainOffset", "notify variable"}
MCRecipientOf ==
    [p \in MCProperties |-> IF p = "notify variable" THEN "SingleMeshLodTerrain" ELSE None]
MCScript ==
    [m \in MCMessangers |->
        CASE m = "CameraManager" ->
                <<RegisterEntity(<<>>), RegisterProperty(<<m>>, "cameraIndex")>>
          [] m = "SingleMeshLodTerrain" ->
                <<RegisterEntity(<<>>), RegisterProperty(<<m>>, "terrainOffset"),
                  RegisterProperty(<<m>>, "notify variable")>>
          [] OTHER -> <<>>]
=============================================================================
