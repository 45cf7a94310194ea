-------------------------- MODULE CameraInputProofs --------------------------
(***************************************************************************)
(* Proofs about CameraInput, for any cameras and keys: a press acts at     *)
(* most once, the camera in use is enabled, its input moves and turns it.  *)
(***************************************************************************)
EXTENDS CameraInput, SequenceTheorems, TLAPS

\* Nothing is polled before a camera is added.
NothingPolled ==
    cameraControllersList = <<>> =>
        /\ due = {} /\ key = [k \in Keys |-> "RELEASE"]
        /\ cameraPtr = None

\* A first-person camera looks where its angles say.
LooksByAngles ==
    \A c \in Controllers : KindOf[c] = "first" => angles[c] = direction[c]

\* The inductive invariant.
Inv == TypeOK /\ CameraIsEnabled /\ PendingPresses /\ NothingPolled /\ LooksByAngles

-----------------------------------------------------------------------------
(* Operators *)

\* An index goes round the cameras.
LEMMA IndexInRange ==
    ASSUME NEW n \in Nat \ {0}, NEW i \in Nat
    PROVE  i % n \in 0..(n - 1)
  OBVIOUS

\* Going round more than one camera leads to another one.
LEMMA IndexMoves ==
    ASSUME NEW n \in Nat \ {0}, n # 1, NEW i \in 0..(n - 1)
    PROVE  (i + 1) % n # i
  <1>1. CASE i + 1 = n
    <2>1. n % n = 0 OBVIOUS
    <2> QED BY <1>1, <2>1
  <1>2. CASE i + 1 # n
    <2>1. i + 1 \in 0..(n - 1) BY <1>2
    <2>2. (i + 1) % n = i + 1 BY <2>1
    <2> QED BY <2>2
  <1> QED BY <1>1, <1>2

\* A place stays itself when nothing moves it.
LEMMA PlaceKept ==
    ASSUME NEW place \in 0..(Places - 1)
    PROVE  (place + 0) % Places = place
  <1>1. Places \in Nat \ {0} BY CamerasAssumption
  <1> QED BY <1>1

\* The input moves and turns a camera by a number of places.
LEMMA StepsOfInput ==
    ASSUME NEW c \in Controllers
    PROVE  Moves(c) \subseteq Nat /\ Turns(c) \subseteq Nat
  <1>1. 0..(Places - 1) \subseteq Nat BY CamerasAssumption
  <1> QED BY <1>1 DEF Moves, Turns

\* A place that moves on is still a place.
LEMMA PlaceInRange ==
    ASSUME NEW place \in 0..(Places - 1), NEW by \in Nat
    PROVE  (place + by) % Places \in 0..(Places - 1)
  <1>1. Places \in Nat \ {0} /\ place + by \in Nat BY CamerasAssumption
  <1> QED BY <1>1, IndexInRange

\* The states of a key.
LEMMA KeyStates ==
    ASSUME NEW state \in {"NOT_PRESSED", "JUST_PRESSED", "HOLD_PRESSED"}, NEW pressed \in BOOLEAN
    PROVE  /\ NextState(state, pressed) \in {"NOT_PRESSED", "JUST_PRESSED", "HOLD_PRESSED"}
           /\ NextState(state, pressed) = "JUST_PRESSED" <=> pressed /\ state = "NOT_PRESSED"
           /\ NextState(state, pressed) = "NOT_PRESSED" <=> ~ pressed
  BY DEF NextState

\* Adding the next camera makes the list a longer part of the program's.
LEMMA AddedInOrder ==
    ASSUME TypeOK, Len(cameraControllersList) < Len(Cameras),
           NEW l, l = Append(cameraControllersList, Cameras[Len(cameraControllersList) + 1])
    PROVE  /\ l \in Seq(Controllers) /\ Len(l) = Len(cameraControllersList) + 1
           /\ Len(l) <= Len(Cameras)
           /\ l = SubSeq(Cameras, 1, Len(l))
           /\ \A i \in 1..Len(cameraControllersList) : l[i] = cameraControllersList[i]
           /\ l[Len(l)] = Cameras[Len(l)] /\ l[Len(l)] \in Controllers
  <1> DEFINE n == Len(cameraControllersList)
  <1>1. Cameras \in Seq(Controllers) BY CamerasAssumption DEF Controllers
  <1>2. n \in Nat /\ cameraControllersList \in Seq(Controllers)
    BY DEF TypeOK
  <1>3. n + 1 \in 1..Len(Cameras) /\ Cameras[n + 1] \in Controllers
    BY <1>1, <1>2
  <1>4. SubSeq(Cameras, 1, n + 1) = Append(SubSeq(Cameras, 1, n), Cameras[n + 1])
    <2>1. 1 \in 1..(Len(Cameras) + 1) /\ n + 1 \in (1 - 1)..Len(Cameras) /\ 1 <= n + 1
      BY <1>1, <1>3
    <2>2. (n + 1) - 1 = n BY <1>2
    <2> QED BY <1>1, <2>1, <2>2, SubSeqRecursiveSecond
  <1>5. cameraControllersList = SubSeq(Cameras, 1, n) BY DEF TypeOK
  <1>6. /\ l \in Seq(Controllers) /\ Len(l) = n + 1
        /\ \A i \in 1..n : l[i] = cameraControllersList[i]
        /\ l[n + 1] = Cameras[n + 1]
    BY <1>2, <1>3
  <1> QED BY <1>2, <1>3, <1>4, <1>5, <1>6

-----------------------------------------------------------------------------
(* Type *)

\* While events are polled there is a camera, and it is in the list.
LEMMA RunningHasCamera ==
    ASSUME TypeOK, Running
    PROVE  /\ cameraControllersList # <<>> /\ Len(cameraControllersList) \in Nat \ {0}
           /\ currentCameraIndex \in 0..(Len(cameraControllersList) - 1)
           /\ {"T", "P"} \subseteq DOMAIN keysStates
  <1>1. Len(Cameras) \in Nat \ {0} BY CamerasAssumption
  <1>2. cameraControllersList \in Seq(Controllers) /\ Len(cameraControllersList) = Len(Cameras)
    BY DEF TypeOK, Running
  <1>3. 1 \in 1..Len(cameraControllersList) BY <1>1, <1>2
  <1>4. cameraControllersList # <<>> BY <1>1, <1>2
  <1>5. Added # {} BY <1>3 DEF Added
  <1> QED BY <1>1, <1>2, <1>4, <1>5 DEF TypeOK

\* preprocess() goes on to a camera of the list.
LEMMA NextCameraListed ==
    ASSUME TypeOK, Running
    PROVE  /\ NextIndex \in 0..(Len(cameraControllersList) - 1)
           /\ NextCamera \in Controllers
           /\ cameraControllersList[currentCameraIndex + 1] \in Controllers
  <1> DEFINE n == Len(cameraControllersList)
  <1>1. n \in Nat \ {0} /\ currentCameraIndex \in 0..(n - 1) BY RunningHasCamera
  <1>2. (currentCameraIndex + 1) % n \in 0..(n - 1)
    <2>1. currentCameraIndex + 1 \in Nat BY <1>1
    <2> QED BY <1>1, <2>1, IndexInRange
  <1>3. NextIndex \in 0..(n - 1) BY <1>1, <1>2 DEF NextIndex
  <1>4. cameraControllersList \in Seq(Controllers) BY DEF TypeOK
  <1>5. NextIndex + 1 \in 1..n /\ currentCameraIndex + 1 \in 1..n BY <1>1, <1>3
  <1> QED BY <1>3, <1>4, <1>5 DEF NextCamera

\* What preprocess() does to the keys: the known ones are read and move on.
LEMMA KeysMoveOn ==
    ASSUME TypeOK, Running, ProcessInput
    PROVE  /\ DOMAIN keysStates \subseteq DOMAIN keysStates'
           /\ DOMAIN keysStates' = (IF NextIndex = currentCameraIndex THEN DOMAIN keysStates
                                    ELSE DOMAIN keysStates \cup RegisteredBy(NextCamera))
           /\ \A k \in DOMAIN keysStates : keysStates'[k] = NextState(keysStates[k], GetKey(k))
           /\ \A k \in DOMAIN keysStates' :
                    keysStates'[k] \in {"NOT_PRESSED", "JUST_PRESSED", "HOLD_PRESSED"}
           /\ \A k \in DOMAIN keysStates' : key'[k] = KeyRead[k]
           /\ key' \in [Keys -> {"RELEASE", "PRESS", "STICK"}]
  <1> DEFINE keys == IF NextIndex = currentCameraIndex THEN keysStates
                     ELSE Registered(keysStates, RegisteredBy(NextCamera))
  <1> DEFINE States == {"NOT_PRESSED", "JUST_PRESSED", "HOLD_PRESSED"}
  <1>1. /\ DOMAIN keys = (IF NextIndex = currentCameraIndex THEN DOMAIN keysStates
                          ELSE DOMAIN keysStates \cup RegisteredBy(NextCamera))
        /\ \A k \in DOMAIN keysStates : keys[k] = keysStates[k]
        /\ \A k \in DOMAIN keys : keys[k] \in States
    BY DEF Registered, TypeOK
  <1>2. RegisteredBy(NextCamera) \subseteq Keys
    BY DEF RegisteredBy, Keys
  <1>3. DOMAIN keys \subseteq Keys BY <1>1, <1>2 DEF TypeOK
  <1>4. /\ keysStates' = [k \in DOMAIN keys |-> NextState(keys[k], GetKey(k))]
        /\ key' = [k \in Keys |-> IF k \in DOMAIN keys \cup {"ESCAPE"} THEN KeyRead[k] ELSE key[k]]
    BY DEF ProcessInput
  <1>5. \A k \in DOMAIN keys : NextState(keys[k], GetKey(k)) \in States
    BY <1>1, KeyStates DEF GetKey
  <1>6. KeyRead \in [Keys -> {"RELEASE", "PRESS", "STICK"}]
    BY DEF KeyRead, TypeOK
  <1>7. key' \in [Keys -> {"RELEASE", "PRESS", "STICK"}]
    BY <1>4, <1>6 DEF TypeOK
  <1>8. \A k \in DOMAIN keys : key'[k] = KeyRead[k] BY <1>3, <1>4
  <1>9. DOMAIN keysStates' = DOMAIN keys BY <1>4
  <1>10. \A k \in DOMAIN keysStates : keysStates'[k] = NextState(keysStates[k], GetKey(k))
    BY <1>1, <1>4
  <1>11. \A k \in DOMAIN keysStates' : keysStates'[k] \in States
    BY <1>4, <1>5
  <1> HIDE DEF keys
  <1>12. DOMAIN keysStates \subseteq DOMAIN keys BY <1>1
  <1> QED BY <1>1, <1>7, <1>8, <1>9, <1>10, <1>11, <1>12

\* The initial state, without cameras, has its type.
LEMMA TypeInit == Init => TypeOK
  <1> SUFFICES ASSUME Init PROVE TypeOK OBVIOUS
  <1>1. cameraControllersList = <<>> /\ Len(cameraControllersList) = 0 BY DEF Init
  <1>2. Len(Cameras) \in Nat BY CamerasAssumption
  <1>3. SubSeq(Cameras, 1, 0) = <<>> BY CamerasAssumption
  <1>4. Added = {} BY <1>1 DEF Added
  <1>5. 0 \in 0..(Places - 1) BY CamerasAssumption
  <1>6. cameraControllersList \in Seq(Controllers) BY <1>1
  <1>7. /\ Len(cameraControllersList) <= Len(Cameras)
        /\ cameraControllersList = SubSeq(Cameras, 1, Len(cameraControllersList))
    BY <1>1, <1>2, <1>3
  <1>8. /\ position \in [Controllers -> 0..(Places - 1)]
        /\ direction \in [Controllers -> 0..(Places - 1)]
        /\ angles \in [Controllers -> 0..(Places - 1)]
    BY <1>5 DEF Init
  <1>9. key \in [Keys -> {"RELEASE", "PRESS", "STICK"}] BY DEF Init
  <1>10. draw_mode \in [Controllers -> {"FILLED", "WIREFRAME"}] BY DEF Init
  <1>11. /\ DOMAIN keysStates \subseteq Keys \ {"ESCAPE"} /\ "T" \in DOMAIN keysStates
         /\ \A k \in DOMAIN keysStates :
                keysStates[k] \in {"NOT_PRESSED", "JUST_PRESSED", "HOLD_PRESSED"}
    BY DEF Init, Keys
  <1> QED
    BY <1>1, <1>4, <1>6, <1>7, <1>8, <1>9, <1>10, <1>11 DEF Init, TypeOK

\* AddCamera keeps the type.
LEMMA TypeAdd == ASSUME TypeOK, AddCamera PROVE TypeOK'
  <1> DEFINE l == cameraControllersList'
  <1> DEFINE c == Cameras[Len(cameraControllersList) + 1]
  <1>1. l = Append(cameraControllersList, c) BY DEF AddCamera
  <1>2. /\ l \in Seq(Controllers) /\ Len(l) = Len(cameraControllersList) + 1
        /\ Len(l) <= Len(Cameras) /\ l = SubSeq(Cameras, 1, Len(l))
        /\ l[Len(l)] = Cameras[Len(l)] /\ l[Len(l)] \in Controllers
    BY <1>1, AddedInOrder DEF AddCamera
  <1>3. Len(cameraControllersList) \in Nat BY DEF TypeOK
  <1>4. c \in Controllers BY <1>2
  <1>5. l # <<>> BY <1>2, <1>3
  <1>6. currentCameraIndex' \in 0..(Len(l) - 1)
    <2>1. CASE currentCameraIndex = -1 BY <2>1, <1>2, <1>3 DEF AddCamera
    <2>2. CASE currentCameraIndex # -1
      <3>1. currentCameraIndex \in 0..(Len(cameraControllersList) - 1) BY <2>2 DEF TypeOK
      <3> QED BY <2>2, <3>1, <1>2, <1>3 DEF AddCamera
    <2> QED BY <2>1, <2>2
  <1>7. /\ DOMAIN keysStates' \subseteq Keys \ {"ESCAPE"}
        /\ "T" \in DOMAIN keysStates' /\ "P" \in DOMAIN keysStates'
        /\ \A k \in DOMAIN keysStates' : keysStates'[k] \in {"NOT_PRESSED", "JUST_PRESSED", "HOLD_PRESSED"}
    <2>1. RegisteredBy(c) \cup {"P"} \subseteq Keys \ {"ESCAPE"}
      BY CamerasAssumption DEF RegisteredBy, Keys
    <2>2. \/ keysStates' = Registered(keysStates, {"P"} \cup RegisteredBy(c))
          \/ keysStates' = Registered(keysStates, {"P"})
      BY DEF AddCamera
    <2> QED BY <2>1, <2>2 DEF Registered, TypeOK
  <1>8. cameraPtr' \in Controllers \cup {None} BY <1>4 DEF AddCamera, TypeOK
  <1>9. cursorMode' \in {"NORMAL", "DISABLED"} BY DEF AddCamera, TypeOK, CursorFor
  <1>10. UNCHANGED <<glfwVars, polygonMode, draw_mode, shouldClose, viewVars, due>> BY DEF AddCamera
  <1> HIDE DEF l, c
  <1> QED BY <1>2, <1>5, <1>6, <1>7, <1>8, <1>9, <1>10 DEF TypeOK, glfwVars, viewVars, l

\* What updatePerFrame() does to the view of a camera keeps the type.
LEMMA TypeView ==
    ASSUME TypeOK, UpdateView, NextCamera \in Controllers,
           cameraControllersList[currentCameraIndex + 1] \in Controllers
    PROVE  /\ position' \in [Controllers -> 0..(Places - 1)]
           /\ direction' \in [Controllers -> 0..(Places - 1)]
           /\ angles' \in [Controllers -> 0..(Places - 1)]
  <1> DEFINE Place == 0..(Places - 1)
  <1>1. PICK move \in Moves(NextCamera), turn \in Turns(NextCamera) :
            /\ position' = [position EXCEPT ![NextCamera] = (StartPosition + move) % Places]
            /\ \/ /\ KindOf[NextCamera] = "first"
                  /\ angles' = [angles EXCEPT ![NextCamera] = (@ + turn) % Places]
                  /\ direction' = [direction EXCEPT ![NextCamera] = angles'[NextCamera]]
               \/ /\ KindOf[NextCamera] # "first"
                  /\ direction' = [direction EXCEPT ![NextCamera] = (StartDirection + turn) % Places]
                  /\ UNCHANGED angles
    BY DEF UpdateView
  <1>2. /\ position \in [Controllers -> Place] /\ direction \in [Controllers -> Place]
        /\ angles \in [Controllers -> Place]
    BY DEF TypeOK
  <1>3. StartPosition \in Place /\ StartDirection \in Place /\ angles[NextCamera] \in Place
    BY <1>2 DEF StartPosition, StartDirection
  <1>4. move \in Nat /\ turn \in Nat BY <1>1, StepsOfInput
  <1>5. /\ (StartPosition + move) % Places \in Place
        /\ (StartDirection + turn) % Places \in Place
        /\ (angles[NextCamera] + turn) % Places \in Place
    BY <1>3, <1>4, PlaceInRange
  <1> HIDE DEF Place
  <1>6. position' \in [Controllers -> Place] BY <1>1, <1>2, <1>5
  <1>7. CASE KindOf[NextCamera] = "first"
    <2>1. /\ angles' = [angles EXCEPT ![NextCamera] = (@ + turn) % Places]
          /\ direction' = [direction EXCEPT ![NextCamera] = angles'[NextCamera]]
      BY <1>1, <1>7
    <2>2. angles' \in [Controllers -> Place] BY <1>2, <1>5, <2>1
    <2> QED BY <1>2, <1>6, <2>1, <2>2 DEF Place
  <1>8. CASE KindOf[NextCamera] # "first"
    BY <1>1, <1>2, <1>5, <1>6, <1>8 DEF Place
  <1> QED BY <1>7, <1>8

\* Preprocess keeps the type.
LEMMA TypePreprocess == ASSUME TypeOK, Preprocess PROVE TypeOK'
  <1>1. Running /\ ProcessInput BY DEF Preprocess
  <1>2. /\ NextIndex \in 0..(Len(cameraControllersList) - 1)
        /\ NextCamera \in Controllers
        /\ cameraControllersList[currentCameraIndex + 1] \in Controllers
    BY <1>1, NextCameraListed
  <1>3. /\ cameraControllersList # <<>> /\ {"T", "P"} \subseteq DOMAIN keysStates
    BY <1>1, RunningHasCamera
  <1>4. /\ DOMAIN keysStates \subseteq DOMAIN keysStates'
        /\ DOMAIN keysStates' \subseteq DOMAIN keysStates \cup RegisteredBy(NextCamera)
        /\ \A k \in DOMAIN keysStates' :
                keysStates'[k] \in {"NOT_PRESSED", "JUST_PRESSED", "HOLD_PRESSED"}
        /\ key' \in [Keys -> {"RELEASE", "PRESS", "STICK"}]
    BY <1>1, KeysMoveOn
  <1>5. RegisteredBy(NextCamera) \subseteq Keys \ {"ESCAPE"}
    BY CamerasAssumption DEF RegisteredBy, Keys
  <1>6. /\ position' \in [Controllers -> 0..(Places - 1)]
        /\ direction' \in [Controllers -> 0..(Places - 1)]
        /\ angles' \in [Controllers -> 0..(Places - 1)]
    <2>1. UpdateView BY DEF Preprocess
    <2> QED BY <1>2, <2>1, TypeView
  <1>7. mouse_scroll_moved' \in BOOLEAN BY DEF Preprocess, TypeOK
  <1>8. cameraPtr' \in Controllers \cup {None} /\ cursorMode' \in {"NORMAL", "DISABLED"}
    BY <1>2 DEF Preprocess, EnableCamera, CursorFor, TypeOK
  <1>9. polygonMode' \in {"FILLED", "WIREFRAME"} /\ draw_mode' \in [Controllers -> {"FILLED", "WIREFRAME"}]
    <2>1. CASE keysStates'["P"] = "JUST_PRESSED"
      <3>1. /\ polygonMode' = IF draw_mode[NextCamera] = "FILLED" THEN "WIREFRAME" ELSE "FILLED"
            /\ draw_mode' = [draw_mode EXCEPT ![NextCamera] = polygonMode']
        BY <2>1 DEF Preprocess, ToggleDrawMode
      <3> QED BY <3>1 DEF TypeOK
    <2>2. CASE keysStates'["P"] # "JUST_PRESSED"
      BY <2>2 DEF Preprocess, ToggleDrawMode, TypeOK
    <2> QED BY <2>1, <2>2
  <1>10. shouldClose' \in BOOLEAN BY <1>1 DEF ProcessInput, TypeOK, GetKey
  <1>11. due' \subseteq {"T", "P"} BY DEF Preprocess, TypeOK
  <1>12. /\ UNCHANGED <<mousePressed, cameraControllersList>>
         /\ currentCameraIndex' = NextIndex
    BY DEF Preprocess
  <1>13. Added' = Added BY <1>12 DEF Added
  <1> QED
    BY <1>2, <1>3, <1>4, <1>5, <1>6, <1>7, <1>8, <1>9, <1>10, <1>11, <1>12, <1>13 DEF TypeOK

\* Every step keeps the type.
LEMMA TypeStep == ASSUME TypeOK, [Next]_vars PROVE TypeOK'
  <1>1. CASE AddCamera BY <1>1, TypeAdd
  <1>2. CASE Preprocess BY <1>2, TypePreprocess
  <1>3. CASE MouseButton
    <2>1. mousePressed' \subseteq {"left", "right"}
      <3>1. mousePressed \subseteq {"left", "right"} BY DEF TypeOK
      <3> QED BY <1>3, <3>1 DEF MouseButton
    <2>2. UNCHANGED <<key, mouse_scroll_moved, keysStates, listVars, screenVars, viewVars, due>>
      BY <1>3 DEF MouseButton
    <2> QED BY <2>1, <2>2 DEF TypeOK, listVars, screenVars, viewVars, Added
  <1>4. CASE Scroll
    BY <1>4 DEF Scroll, TypeOK, listVars, screenVars, viewVars, Added
  <1>5. ASSUME NEW k \in Keys, KeyPressed(k) PROVE TypeOK'
    <2>1. key' = [key EXCEPT ![k] = "PRESS"] /\ due' \subseteq {"T", "P"}
      BY <1>5 DEF KeyPressed, TypeOK
    <2> QED BY <1>5, <2>1 DEF KeyPressed, TypeOK, listVars, screenVars, viewVars, Added
  <1>6. ASSUME NEW k \in Keys, KeyReleased(k) PROVE TypeOK'
    BY <1>6 DEF KeyReleased, TypeOK, listVars, screenVars, viewVars, Added
  <1>7. CASE UNCHANGED vars
    BY <1>7 DEF vars, glfwVars, listVars, screenVars, viewVars, TypeOK, Added
  <1> QED BY <1>1, <1>2, <1>3, <1>4, <1>5, <1>6, <1>7 DEF Next

-----------------------------------------------------------------------------
(* The camera in use *)

\* Every step leaves the camera in use enabled: only Preprocess and AddCamera change it.
LEMMA EnabledStep == ASSUME Inv, [Next]_vars, TypeOK' PROVE CameraIsEnabled'
  <1> USE DEF Inv
  <1>1. CASE AddCamera
    <2> DEFINE n == Len(cameraControllersList)
    <2> DEFINE c == Cameras[n + 1]
    <2>1. cameraControllersList' = Append(cameraControllersList, c) BY <1>1 DEF AddCamera
    <2>2. /\ Len(cameraControllersList') = n + 1
          /\ \A i \in 1..n : cameraControllersList'[i] = cameraControllersList[i]
          /\ cameraControllersList'[Len(cameraControllersList')] = c
      BY <1>1, <2>1, AddedInOrder DEF AddCamera
    <2>3. n \in Nat /\ (currentCameraIndex = -1 <=> n = 0)
      <3>1. n \in Nat /\ (cameraControllersList = <<>> <=> n = 0) BY DEF TypeOK
      <3>2. IF cameraControllersList = <<>> THEN currentCameraIndex = -1
            ELSE currentCameraIndex \in 0..(n - 1)
        BY DEF TypeOK
      <3> QED BY <3>1, <3>2
    <2>4. CASE currentCameraIndex = -1
      <3>1. /\ currentCameraIndex' = 0 /\ cameraPtr' = c /\ cursorMode' = CursorFor(c)
            /\ keysStates' = Registered(keysStates, {"P"} \cup RegisteredBy(c))
        BY <1>1, <2>4 DEF AddCamera
      <3>2. cameraControllersList'[currentCameraIndex' + 1] = c BY <2>2, <2>3, <2>4, <3>1
      <3>3. RegisteredBy(c) \subseteq DOMAIN keysStates' BY <3>1 DEF Registered
      <3> QED BY <3>1, <3>2, <3>3 DEF CameraIsEnabled, CursorFor, RegisteredBy
    <2>5. CASE currentCameraIndex # -1
      <3>1. /\ UNCHANGED <<currentCameraIndex, cameraPtr, cursorMode>>
            /\ keysStates' = Registered(keysStates, {"P"})
        BY <1>1, <2>5 DEF AddCamera
      <3>2. currentCameraIndex + 1 \in 1..n
        <4>1. currentCameraIndex \in 0..(n - 1) BY <2>5 DEF TypeOK
        <4> QED BY <2>3, <4>1
      <3>3. DOMAIN keysStates \subseteq DOMAIN keysStates' BY <3>1 DEF Registered
      <3> QED BY <2>2, <2>5, <3>1, <3>2, <3>3 DEF CameraIsEnabled, CursorFor, RegisteredBy
    <2> QED BY <2>4, <2>5
  <1>2. CASE Preprocess
    <2>1. Running /\ ProcessInput /\ EnableCamera /\ currentCameraIndex # -1
          /\ currentCameraIndex' = NextIndex /\ UNCHANGED cameraControllersList
      BY <1>2 DEF Preprocess
    <2>2. /\ DOMAIN keysStates \subseteq DOMAIN keysStates'
          /\ DOMAIN keysStates' = (IF NextIndex = currentCameraIndex THEN DOMAIN keysStates
                                    ELSE DOMAIN keysStates \cup RegisteredBy(NextCamera))
      BY <2>1, KeysMoveOn
    <2>3. CASE NextIndex = currentCameraIndex
      BY <2>1, <2>2, <2>3 DEF EnableCamera, CameraIsEnabled, CursorFor, RegisteredBy
    <2>4. CASE NextIndex # currentCameraIndex
      <3>1. cursorMode' = CursorFor(NextCamera) /\ cameraPtr' = NextCamera
        BY <2>1, <2>4 DEF EnableCamera
      <3>2. cameraControllersList'[currentCameraIndex' + 1] = NextCamera
        BY <2>1 DEF NextCamera
      <3>3. RegisteredBy(NextCamera) \subseteq DOMAIN keysStates' BY <2>2, <2>4
      <3> QED BY <3>1, <3>2, <3>3 DEF CameraIsEnabled, CursorFor, RegisteredBy
    <2> QED BY <2>3, <2>4
  <1>3. ASSUME UNCHANGED <<keysStates, listVars, screenVars>> PROVE CameraIsEnabled'
    BY <1>3 DEF listVars, screenVars, CameraIsEnabled, CursorFor, RegisteredBy
  <1>4. CASE MouseButton BY <1>3, <1>4 DEF MouseButton
  <1>5. CASE Scroll BY <1>3, <1>5 DEF Scroll
  <1>6. ASSUME NEW k \in Keys, KeyPressed(k) \/ KeyReleased(k) PROVE CameraIsEnabled'
    BY <1>3, <1>6 DEF KeyPressed, KeyReleased
  <1>7. CASE UNCHANGED vars BY <1>3, <1>7 DEF vars
  <1> QED BY <1>1, <1>2, <1>4, <1>5, <1>6, <1>7 DEF Next

-----------------------------------------------------------------------------
(* Presses *)

\* Keys are not polled before a camera registers them.
LEMMA NothingPolledStep == ASSUME Inv, [Next]_vars, TypeOK' PROVE NothingPolled'
  <1> USE DEF Inv
  <1>1. CASE AddCamera
    <2>1. cameraControllersList' # <<>>
      <3>1. Len(cameraControllersList') = Len(cameraControllersList) + 1
        BY <1>1, AddedInOrder DEF AddCamera
      <3>2. Len(cameraControllersList) \in Nat BY DEF TypeOK
      <3> QED BY <3>1, <3>2
    <2> QED BY <2>1 DEF NothingPolled
  <1>2. ASSUME Running, UNCHANGED cameraControllersList PROVE NothingPolled'
    BY <1>2, RunningHasCamera DEF NothingPolled
  <1>3. CASE Preprocess BY <1>2, <1>3 DEF Preprocess
  <1>4. CASE MouseButton BY <1>2, <1>4 DEF MouseButton, listVars
  <1>5. CASE Scroll BY <1>2, <1>5 DEF Scroll, listVars
  <1>6. ASSUME NEW k \in Keys, KeyPressed(k) \/ KeyReleased(k) PROVE NothingPolled'
    BY <1>2, <1>6 DEF KeyPressed, KeyReleased, listVars
  <1>7. CASE UNCHANGED vars BY <1>7 DEF vars, glfwVars, listVars, NothingPolled, Keys
  <1> QED BY <1>1, <1>3, <1>4, <1>5, <1>6, <1>7 DEF Next

\* What PendingPresses says of a key.
PressIsPending(k, isDue, state, glfw) ==
    /\ state = "NOT_PRESSED" /\ glfw # "RELEASE" => isDue
    /\ k = "T" /\ state = "JUST_PRESSED" => isDue
    /\ isDue => glfw # "RELEASE" \/ (k = "T" /\ state = "JUST_PRESSED")

\* Presses stay due until the key is read and, for T, tested.
LEMMA PendingStep == ASSUME Inv, [Next]_vars, TypeOK' PROVE PendingPresses'
  <1> USE DEF Inv
  <1>1. CASE AddCamera
    <2>1. /\ DOMAIN keysStates' = DOMAIN keysStates
                \cup (IF currentCameraIndex = -1
                      THEN {"P"} \cup RegisteredBy(Cameras[Len(cameraControllersList) + 1]) ELSE {"P"})
          /\ \A k \in DOMAIN keysStates : keysStates'[k] = keysStates[k]
          /\ \A k \in DOMAIN keysStates' \ DOMAIN keysStates : keysStates'[k] = "NOT_PRESSED"
          /\ key' = key /\ due' = due
      BY <1>1 DEF AddCamera, Registered, glfwVars
    <2>2. ASSUME NEW k \in DOMAIN keysStates' \cap {"T", "P"}, k \notin DOMAIN keysStates
          PROVE  k = "P" /\ due = {} /\ key["P"] = "RELEASE"
      <3>1. k = "P" /\ Added = {} BY <2>2 DEF TypeOK
      <3>2. cameraControllersList = <<>>
        <4>1. cameraControllersList \in Seq(Controllers) BY DEF TypeOK
        <4>2. ASSUME Len(cameraControllersList) >= 1 PROVE FALSE
          BY <3>1, <4>1, <4>2 DEF Added
        <4>3. Len(cameraControllersList) = 0 BY <4>1, <4>2
        <4> QED BY <4>1, <4>3
      <3> QED BY <3>1, <3>2 DEF NothingPolled, Keys
    <2> QED BY <2>1, <2>2 DEF PendingPresses
  <1>2. CASE Preprocess
    <2>1. Running /\ ProcessInput BY <1>2 DEF Preprocess
    <2>2. /\ \A k \in DOMAIN keysStates : keysStates'[k] = NextState(keysStates[k], GetKey(k))
          /\ \A k \in DOMAIN keysStates' : key'[k] = KeyRead[k]
          /\ DOMAIN keysStates \subseteq DOMAIN keysStates'
      BY <2>1, KeysMoveOn
    <2>3. {"T", "P"} \subseteq DOMAIN keysStates BY <2>1, RunningHasCamera
    <2>4. due' = due \ ((IF ToggleTested THEN {"T"} ELSE {})
                            \cup (IF keysStates'["P"] = "JUST_PRESSED" THEN {"P"} ELSE {})
                            \cup {k \in {"T", "P"} : keysStates'[k] = "HOLD_PRESSED"})
      BY <1>2 DEF Preprocess
    <2>5. ASSUME NEW k \in {"T", "P"}
          PROVE  /\ keysStates[k] \in {"NOT_PRESSED", "JUST_PRESSED", "HOLD_PRESSED"}
                 /\ key[k] \in {"RELEASE", "PRESS", "STICK"}
                 /\ key'[k] = IF key[k] = "STICK" THEN "RELEASE" ELSE key[k]
                 /\ keysStates'[k] \in {"NOT_PRESSED", "JUST_PRESSED", "HOLD_PRESSED"}
                 /\ keysStates'[k] = "JUST_PRESSED" <=> key[k] # "RELEASE" /\ keysStates[k] = "NOT_PRESSED"
                 /\ keysStates'[k] = "NOT_PRESSED" <=> key[k] = "RELEASE"
                 /\ PressIsPending(k, k \in due, keysStates[k], key[k])
      <3>1. k \in Keys /\ k \in DOMAIN keysStates /\ k \in DOMAIN keysStates'
        BY <2>2, <2>3 DEF Keys
      <3>2. /\ keysStates[k] \in {"NOT_PRESSED", "JUST_PRESSED", "HOLD_PRESSED"}
            /\ key[k] \in {"RELEASE", "PRESS", "STICK"}
        BY <3>1 DEF TypeOK
      <3>3. key'[k] = IF key[k] = "STICK" THEN "RELEASE" ELSE key[k]
        BY <2>2, <3>1 DEF KeyRead
      <3>4. PressIsPending(k, k \in due, keysStates[k], key[k])
        BY <3>1 DEF PendingPresses, PressIsPending
      <3>5. keysStates'[k] = NextState(keysStates[k], key[k] # "RELEASE")
        BY <2>2, <3>1 DEF GetKey
      <3> QED BY <3>2, <3>3, <3>4, <3>5, KeyStates
    <2>6. PressIsPending("T", "T" \in due', keysStates'["T"], key'["T"])
      <3>1. "T" \in due' <=> /\ "T" \in due /\ keysStates["T"] # "JUST_PRESSED"
                            /\ keysStates'["T"] # "HOLD_PRESSED"
        BY <2>4 DEF ToggleTested
      <3> QED BY <2>5, <3>1 DEF PressIsPending
    <2>7. PressIsPending("P", "P" \in due', keysStates'["P"], key'["P"])
      <3>1. "P" \in due' <=> /\ "P" \in due /\ keysStates'["P"] # "JUST_PRESSED"
                            /\ keysStates'["P"] # "HOLD_PRESSED"
        BY <2>4
      <3> QED BY <2>5, <3>1 DEF PressIsPending
    <2> QED BY <2>6, <2>7 DEF PendingPresses, PressIsPending
  <1>3. ASSUME UNCHANGED <<key, keysStates, due>> PROVE PendingPresses'
    BY <1>3 DEF PendingPresses
  <1>4. CASE MouseButton BY <1>3, <1>4 DEF MouseButton
  <1>5. CASE Scroll BY <1>3, <1>5 DEF Scroll
  <1>6. ASSUME NEW k \in Keys, KeyPressed(k) PROVE PendingPresses'
    <2>1. {"T", "P"} \subseteq DOMAIN keysStates BY <1>6, RunningHasCamera DEF KeyPressed
    <2>2. /\ key' = [key EXCEPT ![k] = "PRESS"] /\ keysStates' = keysStates
          /\ due' = due \cup (IF key[k] # "PRESS" THEN {k} \cap {"T", "P"} ELSE {})
          /\ key \in [Keys -> {"RELEASE", "PRESS", "STICK"}]
      BY <1>6 DEF KeyPressed, TypeOK
    <2>3. ASSUME NEW j \in {"T", "P"}
          PROVE  PressIsPending(j, j \in due', keysStates'[j], key'[j])
      <3>1. j \in Keys BY DEF Keys
      <3>2. PressIsPending(j, j \in due, keysStates[j], key[j])
        BY <2>1 DEF PendingPresses, PressIsPending
      <3>3. CASE j # k
        <4>1. key'[j] = key[j] /\ (j \in due' <=> j \in due) BY <2>2, <3>1, <3>3
        <4> QED BY <2>2, <3>2, <4>1
      <3>4. CASE j = k
        <4>1. key'[j] = "PRESS" BY <2>2, <3>1, <3>4
        <4>2. j \in due' <=> j \in due \/ key[j] # "PRESS" BY <2>2, <3>1, <3>4
        <4> QED BY <2>2, <3>2, <4>1, <4>2 DEF PressIsPending
      <3> QED BY <3>3, <3>4
    <2> QED BY <2>3 DEF PendingPresses, PressIsPending
  <1>7. ASSUME NEW k \in Keys, KeyReleased(k) PROVE PendingPresses'
    <2>1. /\ key[k] = "PRESS" /\ key' = [key EXCEPT ![k] = "STICK"]
          /\ keysStates' = keysStates /\ due' = due
          /\ key \in [Keys -> {"RELEASE", "PRESS", "STICK"}]
      BY <1>7 DEF KeyReleased, TypeOK
    <2>2. \A j \in {"T", "P"} : key'[j] # "RELEASE" <=> key[j] # "RELEASE"
      BY <2>1 DEF Keys
    <2> QED BY <2>1, <2>2 DEF PendingPresses
  <1>8. CASE UNCHANGED vars BY <1>3, <1>8 DEF vars, glfwVars
  <1> QED BY <1>1, <1>2, <1>4, <1>5, <1>6, <1>7, <1>8 DEF Next

-----------------------------------------------------------------------------
(* Where first-person cameras look *)

\* A first-person camera's direction is computed from its angles, or neither changes.
LEMMA LooksStep == ASSUME Inv, [Next]_vars PROVE LooksByAngles'
  <1> USE DEF Inv
  <1>1. CASE Preprocess
    <2>1. NextCamera \in Controllers /\ UpdateView BY <1>1, NextCameraListed DEF Preprocess
    <2>2. angles \in [Controllers -> 0..(Places - 1)] /\ direction \in [Controllers -> 0..(Places - 1)]
      BY DEF TypeOK
    <2>3. CASE KindOf[NextCamera] = "first"
      <3>1. PICK turn \in Turns(NextCamera) :
                /\ angles' = [angles EXCEPT ![NextCamera] = (@ + turn) % Places]
                /\ direction' = [direction EXCEPT ![NextCamera] = angles'[NextCamera]]
        BY <2>1, <2>3 DEF UpdateView
      <3> QED BY <2>1, <2>2, <3>1 DEF LooksByAngles
    <2>4. CASE KindOf[NextCamera] # "first"
      <3>1. PICK turn \in Turns(NextCamera) :
                /\ direction' = [direction EXCEPT ![NextCamera] = (StartDirection + turn) % Places]
                /\ UNCHANGED angles
        BY <2>1, <2>4 DEF UpdateView
      <3> QED BY <2>1, <2>2, <2>4, <3>1 DEF LooksByAngles
    <2> QED BY <2>3, <2>4
  <1>2. ASSUME UNCHANGED viewVars PROVE LooksByAngles'
    BY <1>2 DEF viewVars, LooksByAngles
  <1>3. CASE AddCamera BY <1>2, <1>3 DEF AddCamera
  <1>4. CASE MouseButton BY <1>2, <1>4 DEF MouseButton
  <1>5. CASE Scroll BY <1>2, <1>5 DEF Scroll
  <1>6. ASSUME NEW k \in Keys, KeyPressed(k) \/ KeyReleased(k) PROVE LooksByAngles'
    BY <1>2, <1>6 DEF KeyPressed, KeyReleased
  <1>7. CASE UNCHANGED vars BY <1>2, <1>7 DEF vars
  <1> QED BY <1>1, <1>3, <1>4, <1>5, <1>6, <1>7 DEF Next

-----------------------------------------------------------------------------
(* Theorems *)

\* Nothing is registered, pressed or due at the start.
LEMMA InvInit == Init => Inv
  <1> SUFFICES ASSUME Init PROVE Inv OBVIOUS
  <1>1. TypeOK BY TypeInit
  <1>2. CameraIsEnabled BY DEF Init, CameraIsEnabled
  <1>3. PendingPresses BY DEF Init, PendingPresses, Keys
  <1>4. NothingPolled BY DEF Init, NothingPolled
  <1>5. LooksByAngles BY DEF Init, LooksByAngles
  <1> QED BY <1>1, <1>2, <1>3, <1>4, <1>5 DEF Inv

\* Each conjunct of the invariant is kept by every step.
LEMMA InvStep == Inv /\ [Next]_vars => Inv'
  <1> SUFFICES ASSUME Inv, [Next]_vars PROVE Inv' OBVIOUS
  <1>1. TypeOK' BY TypeStep DEF Inv
  <1> QED BY <1>1, EnabledStep, PendingStep, NothingPolledStep, LooksStep DEF Inv

\* The inductive invariant holds in every reachable state.
LEMMA Invariance == Spec => []Inv
  BY InvInit, InvStep, PTL DEF Spec

\* TypeOK: the indices, keys and states stay what the code takes them for, for
\* any cameras.
THEOREM TypeCorrect == Spec => []TypeOK
  <1>1. Inv => TypeOK BY DEF Inv
  <1> QED BY <1>1, Invariance, PTL

\* CameraIsEnabled: the engine draws with the camera the manager updates, and
\* what this camera needs is set up.
THEOREM EnabledCorrect == Spec => []CameraIsEnabled
  <1>1. Inv => CameraIsEnabled BY DEF Inv
  <1> QED BY <1>1, Invariance, PTL

\* PendingPresses: a press that was not read yet, or of T not tested yet, is due,
\* and nothing else that was read is.
THEOREM PendingCorrect == Spec => []PendingPresses
  <1>1. Inv => PendingPresses BY DEF Inv
  <1> QED BY <1>1, Invariance, PTL

\* A switch and a change of the draw mode use a press up, and a press is used up
\* by them, or lost behind an earlier one.
LEMMA ActsStep ==
    ASSUME Inv, [Next]_vars
    PROVE  /\ currentCameraIndex' # currentCameraIndex /\ currentCameraIndex # -1 => "T" \in due
           /\ draw_mode' # draw_mode \/ polygonMode' # polygonMode => "P" \in due
           /\ "T" \in due \ due' => \/ currentCameraIndex' # currentCameraIndex
                                    \/ Len(cameraControllersList) = 1
                                    \/ keysStates["T"] = "HOLD_PRESSED"
           /\ "P" \in due \ due' => \/ draw_mode' # draw_mode
                                    \/ keysStates["P"] # "NOT_PRESSED"
  <1> USE DEF Inv
  <1>1. CASE Preprocess
    <2>1. {"T", "P"} \subseteq DOMAIN keysStates /\ Running /\ ProcessInput
      BY <1>1, RunningHasCamera DEF Preprocess
    <2>2. ASSUME NEW k \in {"T", "P"}
          PROVE  /\ keysStates'[k] = "JUST_PRESSED" => key[k] # "RELEASE" /\ keysStates[k] = "NOT_PRESSED"
                 /\ keysStates'[k] = "HOLD_PRESSED" => keysStates[k] # "NOT_PRESSED"
                 /\ keysStates[k] \in {"NOT_PRESSED", "JUST_PRESSED", "HOLD_PRESSED"}
      <3>1. keysStates'[k] = NextState(keysStates[k], key[k] # "RELEASE")
        BY <2>1, KeysMoveOn DEF GetKey
      <3>2. keysStates[k] \in {"NOT_PRESSED", "JUST_PRESSED", "HOLD_PRESSED"}
        BY <2>1 DEF TypeOK
      <3> QED BY <3>1, <3>2, KeyStates
    <2>3. due' = due \ ((IF ToggleTested THEN {"T"} ELSE {})
                            \cup (IF keysStates'["P"] = "JUST_PRESSED" THEN {"P"} ELSE {})
                            \cup {k \in {"T", "P"} : keysStates'[k] = "HOLD_PRESSED"})
      BY <1>1 DEF Preprocess
    <2>4. currentCameraIndex' = NextIndex BY <1>1 DEF Preprocess
    <2>5. ASSUME currentCameraIndex' # currentCameraIndex PROVE "T" \in due
      <3>1. keysStates["T"] = "JUST_PRESSED"
        BY <2>4, <2>5 DEF NextIndex, ToggleTested
      <3> QED BY <2>1, <3>1 DEF PendingPresses
    <2>6. ASSUME draw_mode' # draw_mode \/ polygonMode' # polygonMode PROVE "P" \in due
      <3>1. keysStates'["P"] = "JUST_PRESSED"
        BY <1>1, <2>6 DEF Preprocess, ToggleDrawMode
      <3>2. key["P"] # "RELEASE" /\ keysStates["P"] = "NOT_PRESSED" BY <2>2, <3>1
      <3> QED BY <2>1, <3>2 DEF PendingPresses
    <2>7. ASSUME "T" \in due \ due', Len(cameraControllersList) # 1, keysStates["T"] # "HOLD_PRESSED"
          PROVE  currentCameraIndex' # currentCameraIndex
      <3>1. ToggleTested
        <4>1. ToggleTested \/ keysStates'["T"] = "HOLD_PRESSED" BY <2>3, <2>7
        <4>2. ASSUME keysStates'["T"] = "HOLD_PRESSED" PROVE ToggleTested
          BY <2>2, <2>7, <4>2 DEF ToggleTested
        <4> QED BY <4>1, <4>2
      <3>2. /\ Len(cameraControllersList) \in Nat \ {0}
            /\ currentCameraIndex \in 0..(Len(cameraControllersList) - 1)
        BY <2>1, RunningHasCamera
      <3>3. (currentCameraIndex + 1) % Len(cameraControllersList) # currentCameraIndex
        BY <2>7, <3>2, IndexMoves
      <3> QED BY <2>4, <3>1, <3>3 DEF NextIndex
    <2>8. ASSUME "P" \in due \ due', keysStates["P"] = "NOT_PRESSED"
          PROVE  draw_mode' # draw_mode
      <3>1. keysStates'["P"] = "JUST_PRESSED" BY <2>2, <2>3, <2>8
      <3>2. /\ polygonMode' = IF draw_mode[NextCamera] = "FILLED" THEN "WIREFRAME" ELSE "FILLED"
            /\ draw_mode' = [draw_mode EXCEPT ![NextCamera] = polygonMode']
        BY <1>1, <3>1 DEF Preprocess, ToggleDrawMode
      <3>3. NextCamera \in Controllers /\ draw_mode \in [Controllers -> {"FILLED", "WIREFRAME"}]
        BY <2>1, NextCameraListed DEF TypeOK
      <3>4. draw_mode'[NextCamera] # draw_mode[NextCamera] BY <3>2, <3>3
      <3> QED BY <3>4
    <2> QED BY <2>5, <2>6, <2>7, <2>8
  <1>2. CASE AddCamera BY <1>2 DEF AddCamera
  <1>3. ASSUME UNCHANGED <<listVars, screenVars>>, due \subseteq due'
        PROVE  UNCHANGED <<currentCameraIndex, draw_mode, polygonMode>> /\ due \ due' = {}
    BY <1>3 DEF listVars, screenVars
  <1>4. CASE MouseButton BY <1>3, <1>4 DEF MouseButton
  <1>5. CASE Scroll BY <1>3, <1>5 DEF Scroll
  <1>6. ASSUME NEW k \in Keys, KeyPressed(k) \/ KeyReleased(k)
        PROVE  UNCHANGED <<currentCameraIndex, draw_mode, polygonMode>> /\ due \ due' = {}
    BY <1>3, <1>6 DEF KeyPressed, KeyReleased
  <1>7. CASE UNCHANGED vars BY <1>3, <1>7 DEF vars
  <1> QED BY <1>1, <1>2, <1>4, <1>5, <1>6, <1>7 DEF Next

\* ActsOncePerPress: no press toggles twice, however long a key is held and
\* whichever camera reads it, and none is used up without acting or being lost.
THEOREM ActsCorrect == Spec => ActsOncePerPress
  <1>1. Inv /\ [Next]_vars =>
            [/\ currentCameraIndex' # currentCameraIndex /\ currentCameraIndex # -1 => "T" \in due
             /\ draw_mode' # draw_mode \/ polygonMode' # polygonMode => "P" \in due
             /\ "T" \in due \ due' => \/ currentCameraIndex' # currentCameraIndex
                                      \/ Len(cameraControllersList) = 1
                                      \/ keysStates["T"] = "HOLD_PRESSED"
             /\ "P" \in due \ due' => \/ draw_mode' # draw_mode
                                      \/ keysStates["P"] # "NOT_PRESSED"]_vars
    BY ActsStep
  <1> QED BY <1>1, Invariance, PTL DEF Spec, ActsOncePerPress

\* The camera whose direction the next one goes on from.
Resumed == IF KindOf[cameraPtr'] = "first" THEN cameraPtr' ELSE cameraPtr

\* What the camera in use shows moves and turns by that camera's input, also in
\* the frame of a switch.
LEMMA ViewStep ==
    ASSUME Inv, [Next]_vars, cameraPtr # None
    PROVE  /\ \E by \in Moves(cameraPtr') :
                    position'[cameraPtr'] = (position[cameraPtr] + by) % Places
           /\ \E by \in Turns(cameraPtr') :
                    direction'[cameraPtr'] = (direction[Resumed] + by) % Places
  <1> USE DEF Inv
  <1>1. CASE Preprocess
    <2>1. Running /\ EnableCamera /\ currentCameraIndex # -1 /\ UpdateView
      BY <1>1 DEF Preprocess
    <2>2. /\ NextCamera \in Controllers
          /\ cameraControllersList[currentCameraIndex + 1] \in Controllers
      BY <2>1, NextCameraListed
    <2>3. cameraPtr = cameraControllersList[currentCameraIndex + 1]
      BY <2>1 DEF CameraIsEnabled
    <2>4. cameraPtr' = NextCamera
      BY <2>1, <2>3 DEF EnableCamera, NextCamera
    <2>5. StartPosition = position[cameraPtr] /\ StartDirection = direction[cameraPtr]
      BY <2>3 DEF StartPosition, StartDirection
    <2>6. PICK move \in Moves(NextCamera), turn \in Turns(NextCamera) :
            /\ position' = [position EXCEPT ![NextCamera] = (StartPosition + move) % Places]
            /\ \/ /\ KindOf[NextCamera] = "first"
                  /\ angles' = [angles EXCEPT ![NextCamera] = (@ + turn) % Places]
                  /\ direction' = [direction EXCEPT ![NextCamera] = angles'[NextCamera]]
               \/ /\ KindOf[NextCamera] # "first"
                  /\ direction' = [direction EXCEPT ![NextCamera] = (StartDirection + turn) % Places]
                  /\ UNCHANGED angles
      BY <2>1 DEF UpdateView
    <2>7. /\ position \in [Controllers -> 0..(Places - 1)]
          /\ direction \in [Controllers -> 0..(Places - 1)]
          /\ angles \in [Controllers -> 0..(Places - 1)]
      BY DEF TypeOK
    <2>8. position'[cameraPtr'] = (position[cameraPtr] + move) % Places
      BY <2>2, <2>4, <2>5, <2>6, <2>7
    <2>9. direction'[cameraPtr'] = (direction[Resumed] + turn) % Places
      <3>1. CASE KindOf[NextCamera] = "first"
        <4>1. direction'[NextCamera] = (angles[NextCamera] + turn) % Places
          BY <2>2, <2>6, <2>7, <3>1
        <4>2. angles[NextCamera] = direction[NextCamera] BY <2>2, <3>1 DEF LooksByAngles
        <4> QED BY <2>4, <3>1, <4>1, <4>2 DEF Resumed
      <3>2. CASE KindOf[NextCamera] # "first"
        BY <2>2, <2>4, <2>5, <2>6, <2>7, <3>2 DEF Resumed
      <3> QED BY <3>1, <3>2
    <2> QED BY <2>4, <2>6, <2>8, <2>9
  <1>2. ASSUME UNCHANGED <<cameraPtr, viewVars>>
        PROVE  /\ \E by \in Moves(cameraPtr') :
                        position'[cameraPtr'] = (position[cameraPtr] + by) % Places
               /\ \E by \in Turns(cameraPtr') :
                        direction'[cameraPtr'] = (direction[Resumed] + by) % Places
    <2>1. /\ cameraPtr' = cameraPtr /\ position' = position /\ direction' = direction
          /\ Resumed = cameraPtr
      BY <1>2 DEF viewVars, Resumed
    <2>2. cameraPtr \in Controllers BY DEF TypeOK
    <2>3. position[cameraPtr] \in 0..(Places - 1) /\ direction[cameraPtr] \in 0..(Places - 1)
      BY <2>2 DEF TypeOK
    <2>4. /\ (position[cameraPtr] + 0) % Places = position[cameraPtr]
          /\ (direction[cameraPtr] + 0) % Places = direction[cameraPtr]
      BY <2>3, PlaceKept
    <2>5. 0 \in Moves(cameraPtr) /\ 0 \in Turns(cameraPtr)
      <3>1. 0 \in 0..(Places - 1) BY CamerasAssumption
      <3> QED BY <3>1 DEF Moves, Turns
    <2> QED BY <2>1, <2>4, <2>5
  <1>3. CASE AddCamera
    <2>1. currentCameraIndex # -1
      <3>1. cameraControllersList # <<>> BY DEF NothingPolled
      <3>2. Len(cameraControllersList) \in Nat BY DEF TypeOK
      <3> QED BY <3>1, <3>2 DEF TypeOK
    <2> QED BY <1>2, <1>3, <2>1 DEF AddCamera
  <1>4. ASSUME UNCHANGED <<listVars, viewVars>> PROVE UNCHANGED <<cameraPtr, viewVars>>
    BY <1>4 DEF listVars
  <1>5. CASE MouseButton BY <1>2, <1>4, <1>5 DEF MouseButton
  <1>6. CASE Scroll BY <1>2, <1>4, <1>6 DEF Scroll
  <1>7. ASSUME NEW k \in Keys, KeyPressed(k) \/ KeyReleased(k) PROVE UNCHANGED <<cameraPtr, viewVars>>
    BY <1>4, <1>7 DEF KeyPressed, KeyReleased
  <1>8. CASE UNCHANGED vars BY <1>2, <1>4, <1>8 DEF vars
  <1> QED BY <1>1, <1>2, <1>3, <1>5, <1>6, <1>7, <1>8 DEF Next

\* ViewFollowsInput: but for its own input, a camera is where the camera before was
\* and turned as that was, or as itself was, if it is a first-person camera.
THEOREM ViewCorrect == Spec => ViewFollowsInput
  <1>1. Inv /\ [Next]_vars =>
            [cameraPtr # None =>
                LET resumed == IF KindOf[cameraPtr'] = "first" THEN cameraPtr' ELSE cameraPtr
                IN  /\ \E by \in Moves(cameraPtr') :
                            position'[cameraPtr'] = (position[cameraPtr] + by) % Places
                    /\ \E by \in Turns(cameraPtr') :
                            direction'[cameraPtr'] = (direction[resumed] + by) % Places]_vars
    BY ViewStep DEF Resumed
  <1> QED BY <1>1, Invariance, PTL DEF Spec, ViewFollowsInput
=============================================================================
