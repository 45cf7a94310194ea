----------------------------- MODULE CameraInput -----------------------------
(***************************************************************************)
(* CameraManager, its cameras and the InputManager.  GLFW delivers events  *)
(* in glfwPollEvents(), at the end of a frame; the frame's preprocess()    *)
(* tests the toggle key, switches cameras, and updates the current one,    *)
(* which reads the keys.  So the manager acts on what the cameras read one *)
(* frame earlier, while a camera acts at once.                             *)
(*                                                                         *)
(* A camera's position and direction are reduced to numbers modulo Places  *)
(* that grow by one when input moves or turns it.  Only a first-person     *)
(* camera has its angles here, from which it computes its direction.       *)
(***************************************************************************)
EXTENDS Integers, Sequences, FiniteSets

CONSTANTS
    Cameras,    \* CameraController objects, in the order of addCamera()
    KindOf,     \* "menu", "first" or "overview"
    MoveKeys,   \* the keys that FirstPersonCameraController registers
    MaxDown,    \* bound: keys and mouse buttons that are down at once
    Places      \* bound: positions, and directions, told apart

ASSUME CamerasAssumption ==
    /\ Cameras \in Seq(DOMAIN KindOf) /\ Cameras # <<>>
    /\ \A i, j \in 1..Len(Cameras) : Cameras[i] = Cameras[j] => i = j
    /\ KindOf \in [DOMAIN KindOf -> {"menu", "first", "overview"}]
    /\ MoveKeys \cap {"T", "P", "ESCAPE"} = {}
    /\ MaxDown \in Nat /\ Places \in Nat \ {0}

VARIABLES
    key,            \* GLFW's state of each key; "STICK": released, not read yet
    mousePressed,   \* the mouse buttons that are down
    mouse_scroll_moved,
    keysStates,     \* the registered keys and their states
    cameraControllersList, currentCameraIndex,
    cameraPtr,      \* the engine's camera
    cursorMode, polygonMode,
    draw_mode,      \* of each camera, as are the three next
    position, direction, angles,
    shouldClose,
    due             \* history: "T" or "P" was pressed; it neither acted nor was lost yet

glfwVars   == <<key, mousePressed, mouse_scroll_moved>>
listVars   == <<cameraControllersList, currentCameraIndex, cameraPtr>>
screenVars == <<cursorMode, polygonMode, draw_mode, shouldClose>>
viewVars   == <<position, direction, angles>>
vars == <<glfwVars, keysStates, listVars, screenVars, viewVars, due>>

Keys == {"T", "P", "ESCAPE"} \cup MoveKeys
None == "nullptr"
Controllers == DOMAIN KindOf
Added == {cameraControllersList[i] : i \in 1..Len(cameraControllersList)}

Init ==
    /\ key = [k \in Keys |-> "RELEASE"]
    /\ mousePressed = {} /\ mouse_scroll_moved = FALSE
    /\ keysStates = [k \in {"T"} |-> "NOT_PRESSED"]
    /\ cameraControllersList = <<>> /\ currentCameraIndex = -1 /\ cameraPtr = None
    /\ cursorMode = "NORMAL" /\ polygonMode = "FILLED"
    /\ draw_mode = [c \in Controllers |-> "FILLED"]
    /\ position = [c \in Controllers |-> 0]
    /\ angles = [c \in Controllers |-> 0] /\ direction = angles
    /\ shouldClose = FALSE
    /\ due = {}

\* run() is called when all cameras are added; polling begins then.
Running == Len(cameraControllersList) = Len(Cameras) /\ ~ shouldClose

-----------------------------------------------------------------------------
(* GLFW, with GLFW_STICKY_KEYS *)

\* The keys not read as released, and the mouse buttons pressed.
Down == {k \in Keys : key[k] # "RELEASE"} \cup mousePressed

KeyPressed(k) ==
    /\ Running
    /\ Cardinality(Down \cup {k}) <= MaxDown
    /\ key' = [key EXCEPT ![k] = "PRESS"]
    /\ due' = due \cup (IF key[k] # "PRESS" THEN {k} \cap {"T", "P"} ELSE {})
    /\ UNCHANGED <<mousePressed, mouse_scroll_moved, keysStates, listVars, screenVars, viewVars>>

KeyReleased(k) ==
    /\ Running /\ key[k] = "PRESS"
    /\ key' = [key EXCEPT ![k] = "STICK"]
    /\ UNCHANGED <<mousePressed, mouse_scroll_moved, keysStates, listVars, screenVars, viewVars, due>>

MouseButton ==
    /\ Running
    /\ \E b \in {"left", "right"} :
            \/ b \in mousePressed /\ mousePressed' = mousePressed \ {b}
            \/ /\ b \notin mousePressed /\ Cardinality(Down \cup {b}) <= MaxDown
               /\ mousePressed' = mousePressed \cup {b}
    /\ UNCHANGED <<key, mouse_scroll_moved, keysStates, listVars, screenVars, viewVars, due>>

Scroll ==
    /\ Running
    /\ mouse_scroll_moved' = TRUE
    /\ UNCHANGED <<key, mousePressed, keysStates, listVars, screenVars, viewVars, due>>

\* Mutant: the keys are not sticky.
GetKeyNow(k) == key[k] = "PRESS"

\* glfwGetKey(): what it returns, and the state it leaves.
GetKey(k) == key[k] # "RELEASE"
KeyRead == [k \in Keys |-> IF key[k] = "STICK" THEN "RELEASE" ELSE key[k]]

-----------------------------------------------------------------------------
(* The program *)

\* Mutant: a key is not registered.
RegisteredNot(dict, keys) == dict

Registered(dict, keys) ==
    [k \in DOMAIN dict \cup keys |-> IF k \in DOMAIN dict THEN dict[k] ELSE "NOT_PRESSED"]

CursorFor(c) == IF KindOf[c] = "first" THEN "DISABLED" ELSE "NORMAL"
RegisteredBy(c) == IF KindOf[c] = "first" THEN {"P"} \cup MoveKeys ELSE {}

\* A camera is constructed, which registers its default key, and added; the
\* first one is enabled.
AddCamera ==
    /\ Len(cameraControllersList) < Len(Cameras)
    /\ LET c == Cameras[Len(cameraControllersList) + 1]
       IN  /\ cameraControllersList' = Append(cameraControllersList, c)
           /\ \/ /\ currentCameraIndex = -1
                 /\ currentCameraIndex' = 0 /\ cameraPtr' = c
                 /\ cursorMode' = CursorFor(c)
                 /\ keysStates' = Registered(keysStates, {"P"} \cup RegisteredBy(c))
              \/ /\ currentCameraIndex # -1
                 /\ keysStates' = Registered(keysStates, {"P"})
                 /\ UNCHANGED <<currentCameraIndex, cameraPtr, cursorMode>>
    /\ UNCHANGED <<glfwVars, polygonMode, draw_mode, shouldClose, viewVars, due>>

\* process_input(): a registered key is read and its state moves on.
NextState(state, pressed) ==
    CASE pressed /\ state = "NOT_PRESSED" -> "JUST_PRESSED"
      [] pressed /\ state # "NOT_PRESSED" -> "HOLD_PRESSED"
      [] ~ pressed -> "NOT_PRESSED"

\* With the right button down, an overview camera goes round the point it looks
\* at by angles that its enable() computed: it may get anywhere.
Orbits(c) == KindOf[c] = "overview" /\ "right" \in mousePressed

\* How far a camera may move in a frame: keys may cancel each other out, and a
\* mouse with a button pressed may rest.
Moves(c) ==
    IF Orbits(c) THEN 0..(Places - 1)
    ELSE IF \/ /\ KindOf[c] = "first"
               /\ \E k \in MoveKeys \cap DOMAIN keysStates : keysStates[k] # "NOT_PRESSED"
            \/ /\ KindOf[c] = "overview"
               /\ mousePressed # {} \/ mouse_scroll_moved
         THEN {0, 1} ELSE {0}

\* How far it may turn: a first-person camera with the mouse, which enable()
\* puts to the middle of the window in the frame of a switch.
Turns(c) ==
    IF Orbits(c) THEN 0..(Places - 1)
    ELSE IF KindOf[c] = "first" /\ c = cameraPtr THEN {0, 1} ELSE {0}

\* Mutant: the key is down.
ToggleHeld == keysStates["T"] # "NOT_PRESSED"

\* CameraManager::preprocess() tests the toggle key.
ToggleTested == keysStates["T"] = "JUST_PRESSED"

\* The camera preprocess() updates.
NextIndex ==
    IF ToggleTested THEN (currentCameraIndex + 1) % Len(cameraControllersList)
    ELSE currentCameraIndex
NextCamera == cameraControllersList[NextIndex + 1]

\* enableCamera(), if the camera changes: the cursor, the engine's pointer, and
\* the keys a first-person camera registers.
EnableCamera ==
    \/ NextIndex = currentCameraIndex /\ UNCHANGED <<cursorMode, cameraPtr>>
    \/ NextIndex # currentCameraIndex /\ cursorMode' = CursorFor(NextCamera) /\ cameraPtr' = NextCamera

\* updatePerFrame() -> processDefaultInput().
ProcessInput ==
    LET keys == IF NextIndex = currentCameraIndex THEN keysStates
                ELSE Registered(keysStates, RegisteredBy(NextCamera))
    IN  /\ keysStates' = [k \in DOMAIN keys |-> NextState(keys[k], GetKey(k))]
        /\ key' = [k \in Keys |-> IF k \in DOMAIN keys \cup {"ESCAPE"} THEN KeyRead[k] ELSE key[k]]
        /\ shouldClose' = (shouldClose \/ GetKey("ESCAPE"))

\* toggleDrawMode(), when "P" was just pressed.
ToggleDrawMode ==
    \/ /\ keysStates'["P"] = "JUST_PRESSED"
       /\ polygonMode' = IF draw_mode[NextCamera] = "FILLED" THEN "WIREFRAME" ELSE "FILLED"
       /\ draw_mode' = [draw_mode EXCEPT ![NextCamera] = polygonMode']
    \/ keysStates'["P"] # "JUST_PRESSED" /\ UNCHANGED <<polygonMode, draw_mode>>

\* Mutant: a camera keeps the position it had.
StartPositionKept == position[NextCamera]

\* setPosition() and setDirection() of a switch take these over.
StartPosition == position[cameraControllersList[currentCameraIndex + 1]]
StartDirection == direction[cameraControllersList[currentCameraIndex + 1]]

\* updatePerFrame(): the input moves and turns the camera.  A first-person
\* camera turns its angles and computes the direction from them.
UpdateView ==
    \E move \in Moves(NextCamera), turn \in Turns(NextCamera) :
        /\ position' = [position EXCEPT ![NextCamera] = (StartPosition + move) % Places]
        /\ \/ /\ KindOf[NextCamera] = "first"
              /\ angles' = [angles EXCEPT ![NextCamera] = (@ + turn) % Places]
              /\ direction' = [direction EXCEPT ![NextCamera] = angles'[NextCamera]]
           \/ /\ KindOf[NextCamera] # "first"
              /\ direction' = [direction EXCEPT ![NextCamera] = (StartDirection + turn) % Places]
              /\ UNCHANGED angles

Preprocess ==
    /\ Running /\ currentCameraIndex # -1
    /\ currentCameraIndex' = NextIndex
    /\ EnableCamera
    /\ UpdateView
    /\ mouse_scroll_moved' = (mouse_scroll_moved /\ KindOf[NextCamera] # "overview")
    /\ ProcessInput
    /\ ToggleDrawMode
    /\ due' = due \ ((IF ToggleTested THEN {"T"} ELSE {})
                        \cup (IF keysStates'["P"] = "JUST_PRESSED" THEN {"P"} ELSE {})
                        \cup {k \in {"T", "P"} : keysStates'[k] = "HOLD_PRESSED"})
    /\ UNCHANGED <<mousePressed, cameraControllersList>>

Next ==
    \/ AddCamera \/ Preprocess \/ MouseButton \/ Scroll
    \/ \E k \in Keys : KeyPressed(k) \/ KeyReleased(k)

Spec == Init /\ [][Next]_vars

\* The frame loop goes on (ProcessableQueue: EveryTaskPerformed).
FairSpec == Spec /\ WF_vars(Preprocess)

-----------------------------------------------------------------------------
(* Properties *)

\* The type of the state; keys of cameras that were never enabled are unknown.
TypeOK ==
    /\ key \in [Keys -> {"RELEASE", "PRESS", "STICK"}]
    /\ mousePressed \subseteq {"left", "right"} /\ mouse_scroll_moved \in BOOLEAN
    /\ DOMAIN keysStates \subseteq Keys \ {"ESCAPE"}
    /\ "T" \in DOMAIN keysStates /\ (Added # {} => "P" \in DOMAIN keysStates)
    /\ \A k \in DOMAIN keysStates :
            keysStates[k] \in {"NOT_PRESSED", "JUST_PRESSED", "HOLD_PRESSED"}
    /\ cameraControllersList \in Seq(Controllers)
    /\ Len(cameraControllersList) <= Len(Cameras)
    /\ cameraControllersList = SubSeq(Cameras, 1, Len(cameraControllersList))
    /\ IF cameraControllersList = <<>> THEN currentCameraIndex = -1
       ELSE currentCameraIndex \in 0..(Len(cameraControllersList) - 1)
    /\ cameraPtr \in Controllers \cup {None}
    /\ cursorMode \in {"NORMAL", "DISABLED"} /\ polygonMode \in {"FILLED", "WIREFRAME"}
    /\ draw_mode \in [Controllers -> {"FILLED", "WIREFRAME"}]
    /\ position \in [Controllers -> 0..(Places - 1)]
    /\ direction \in [Controllers -> 0..(Places - 1)]
    /\ angles \in [Controllers -> 0..(Places - 1)]
    /\ shouldClose \in BOOLEAN /\ due \subseteq {"T", "P"}

\* The engine draws with the camera the manager updates, the cursor is as this
\* camera wants it, and the keys it reads are registered.
CameraIsEnabled ==
    currentCameraIndex # -1 =>
        /\ cameraPtr = cameraControllersList[currentCameraIndex + 1]
        /\ cursorMode = CursorFor(cameraPtr)
        /\ RegisteredBy(cameraPtr) \subseteq DOMAIN keysStates

\* A press acts at most once, and nothing acts without a press, although "T" is
\* tested a frame after it is read, by way of whichever camera is current then,
\* and a key may be held or tapped at will.  A press goes without acting only if
\* the release before it was not read, so that it looks like a key held.
ActsOncePerPress ==
    [][/\ currentCameraIndex' # currentCameraIndex /\ currentCameraIndex # -1 => "T" \in due
       /\ draw_mode' # draw_mode \/ polygonMode' # polygonMode => "P" \in due
       /\ "T" \in due \ due' => \/ currentCameraIndex' # currentCameraIndex
                                \/ Len(cameraControllersList) = 1
                                \/ keysStates["T"] = "HOLD_PRESSED"
       /\ "P" \in due \ due' => \/ draw_mode' # draw_mode
                                \/ keysStates["P"] # "NOT_PRESSED"]_vars

\* A press acts, however short, if the release before it was read, unless Escape
\* ends the program.  (What a press made earlier does: ActsOncePerPress.)
PressActs ==
    \A k \in {"T", "P"} :
        (k \in due /\ k \in DOMAIN keysStates /\ keysStates[k] = "NOT_PRESSED")
            ~> (k \notin due \/ shouldClose)

\* A press not read yet, or a press of T not tested yet, is due; what is due was
\* not read since, or is such a press of T.
PendingPresses ==
    \A k \in DOMAIN keysStates \cap {"T", "P"} :
        LET untested == k = "T" /\ keysStates[k] = "JUST_PRESSED"
        IN  /\ keysStates[k] = "NOT_PRESSED" /\ key[k] # "RELEASE" => k \in due
            /\ untested => k \in due
            /\ k \in due => key[k] # "RELEASE" \/ untested

\* The engine's camera is moved and turned by the current camera's own input and
\* by nothing else, when cameras change too: the position is that of the camera
\* before.  So is the direction, but for a first-person camera, which overwrites
\* the direction it is given and looks where it looked when it was left.  (What
\* an overview camera does while the right button is down is left open.)
ViewFollowsInput ==
    [][cameraPtr # None =>
        LET resumed == IF KindOf[cameraPtr'] = "first" THEN cameraPtr' ELSE cameraPtr
        IN  /\ \E by \in Moves(cameraPtr') :
                    position'[cameraPtr'] = (position[cameraPtr] + by) % Places
            /\ \E by \in Turns(cameraPtr') :
                    direction'[cameraPtr'] = (direction[resumed] + by) % Places]_vars

-----------------------------------------------------------------------------
(* What a comment of the source says and the code does not do *)

\* CameraController.h:53: "enable is being called every time the camera is
\* enabled, so it should prepare environment for the camera to be used".  The
\* polygon mode is part of it: the camera keeps its own in draw_mode.
EnvironmentIsPrepared ==
    currentCameraIndex # -1 => polygonMode = draw_mode[cameraPtr]
=============================================================================
