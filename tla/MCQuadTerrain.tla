---------------------------- MODULE MCQuadTerrain ----------------------------
(* A terrain of four levels, and positions far enough for all of it to merge. *)
EXTENDS QuadTerrain

MCSizes == {2, 4, 8, 16}

MCCoordinates == {-75, -52, -30, -18, -9, -3, 0, 5, 12, 26, 60}
MCPositions == MCCoordinates \X MCCoordinates
=============================================================================
