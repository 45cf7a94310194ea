---------------------------- MODULE MCCameraInput ----------------------------
(* The cameras of the application, in main.cpp's order. *)
EXTENDS CameraInput

MCKindOf == [c \in {"menu", "first", "overview"} |-> c]
MCCameras == <<"menu", "first", "overview">>

\* The two cameras that move.
MCMovingKindOf == [c \in {"first", "overview"} |-> c]
MCMovingCameras == <<"first", "overview">>
=============================================================================
