# A TLA+ model of the homemade OpenGL engine

The repository is a small 3D engine (`src/src/Engine`) and one application that
uses it (`src/src/App`). What is worth modelling is not the drawing but what
surrounds it: objects are updated by worker threads in phases of a frame, and
they talk to each other through a message bus whose messages have an owner and a
lifetime, and objects that draw share one OpenGL context whose state outlives
every call. The modules here model those parts, TLC checks them on small
instances, and TLAPS proves the main properties for all instances.

Line numbers refer to `src/src/...`.

## 1. Inventory

| Component | State | Operations | Interacts with |
|---|---|---|---|
| **CPU pipeline** `Engine/CpuPipeline/ProcessableQueue.cpp`, `Task.h`, `IProcessable.*` | list of processables, queue of tasks, phase, two mutexes, condition variable, atomic `threadsWaiting` | `pushProcessable`, `preprocess`, `process`, `processNext`, `render`, `ifFinished`; the worker cycle | called by `Engine::run`; calls `preprocess/process/render` of every registered object, from several threads |
| **Frame loop** `Engine/Engine.cpp:401-476` | the window's close flag | publish, preprocess, process, drain, render, swap, poll | queue, bus, shader manager |
| **MessageBus, IMessanger** `Engine/MessageBus/` | list of messangers, four dictionaries, lists of messages and subscribers, pending messages | register, send, emit, subscribe, unsubscribe, getMessages, publish | called by constructors, by `process()` on any thread, and by the frame loop |
| **EntityManager, GuiEntry, GuiProperty** `App/Renderables/GuiEntityManager/` | tree of entries, own list of pending messages with a mutex | process (messages become entries and properties), render (the tree is displayed, a button makes a message) | bus, both sides; properties hold references into other objects |
| **CameraManager and controllers** `App/CameraControllers/` | list of cameras, current index; per camera position, angles, draw mode | addCamera, preprocess, enable, updatePerFrame | input manager, engine's camera pointer, global polygon mode and cursor mode |
| **InputManager, InputState** `App/CameraControllers/` | state of registered keys, mouse buttons, scroll | process_input, callbacks, queries | GLFW, cameras |
| **SingleMeshLodTerrain, QuadTerrainNode** `App/Renderables/LodTerrain/` | the quad tree | process (update: split and merge), render | camera position, bus |
| **ShaderManager, Shader, lights** `Engine/Shaders`, `Engine/Lights` | shaders by name, lights and their count | registerShader, addPointLight, updatePerFrame, use, uniforms | frame loop, drawing objects |
| **Engine start-up** `Engine.cpp:10-157, 305-324`, `App/main.cpp` | pointers to the parts | the constructor's phases, registration | everything |
| **Logger** `Engine/Logger/Logger.h` | one `FILE*`, flags | init, print | main thread and `process()` |
| **Mesh terrains, noise** `App/Renderables/Terrain` | vertices, normals, indices, buffers | Apply, noise sliders, render | shared programs, sliders |
| **Sphere, Skybox, Framebuffer, Heightmap** `App/Renderables` | OpenGL objects | construction, preprocess, render | the OpenGL context |
| **BaseGui, TestEntity, Mesh, Vao, Vbo** | plots, OpenGL names | drawing | ImGui, OpenGL |
| **SafeTaskQueue, Renderable** | - | - | not in `Engine.vcxproj`: dead code |

There are no tests, and the repository's README is a title; what the program
promises stands in its comments and in the order of its calls.

What is hard, and what makes each part correct:

* *CPU pipeline.* Workers and the main thread share the queue. `ifFinished()`
  reads the queue without its mutex and then an atomic counter; a worker that
  has been woken still counts as waiting; the condition variable has no
  predicate; `refreshQueue()` and the loop that performs the tasks are separate
  critical sections. Correct means: the phases of a frame never overlap, every
  processable is performed exactly once in each, no frame hangs.
* *MessageBus.* Readers hold raw pointers that `publish()` deletes; one emitted
  message goes into several lists; messangers are addressed by name, id or
  pointer and resolved late. Correct means: nothing read is freed, nothing is
  freed twice, nothing leaks, messages arrive in order at whom they name.
* *EntityManager.* A tree built from messages that arrive in the order of
  constructors, shown by another phase; entries are replaced and deleted; a
  notification takes two frames. Correct means: a registered property is shown,
  a pressed button reaches its object, no entry in use is deleted.
* *Camera and input.* Key states are one frame old when the toggle key is
  tested. Correct means: a press acts once, the engine's camera is the
  current one, a new camera goes on from where the last one was, draw mode and polygon
  mode agree.
* *Quad tree.* Repeated splits and merges. Correct means: leaves tile the
  terrain, children exist exactly below inner nodes, nothing leaks, and the
  levels of touching leaves fit together.
* *Logger.* One `FILE*` without a mutex. Correct means: two threads never print
  at once.
* *Drawing.* Culling, depth function, tests, active texture unit, bound
  framebuffer, uniforms: each is set by one object and seen by the next. Correct
  means: what an object draws does not depend on who drew before it.
* *Mesh terrains.* Index arithmetic in nested loops, normals with special cases
  at the borders, buffers sent at different moments by different terrains.
  Correct means: the triangles form a surface that is not culled from above,
  the normals point up, what is drawn is current.

`PROJECT.json` lists every hazard at its line with the properties that cover it.

## 2. Plan

In the order of importance; all are done.

1. `ProcessableQueue`, with the abstract `PhaseBarrier` it implements, its TLC
   instances and its proofs.
2. `MessageBus`, its instances and proofs.
3. Proofs of the inductive invariants of both.
4. `EntityManager`: entries, properties and the notify round trip, composed with
   `MessageBus`.
5. `CameraInput`: key state machine, toggle, draw mode, scroll; its proofs.
6. `QuadTerrain`: splits and merges on an integer grid.
7. `Logger`, and `EngineFrame`, which composes queue, bus and logger, so that the
   assumption of `MessageBus` (publish only between process phases) is discharged
   by a refinement instead of by argument; its proofs.
8. `GridMesh`: the index arithmetic and the normals of the mesh terrains.
9. `Scene`: the OpenGL context between the objects that draw; its proofs.
10. Proofs of the bus's type and order, and that `EntityManager` keeps to its contract.
11. Proofs of `QuadTerrain`, of the surface in `Scene`, and of the type, the tree and
    the notifications of `EntityManager`.

Every invariant and action property that a run checks is now stated by a theorem;
liveness is left to TLC (section 6).

## 3. Modules

### ProcessableQueue

One module for the queue and its threads, since neither means anything alone.
Variables keep the code's names; `stage` is the method of the queue the main
thread is in (`PREPROCESS`, `PROCESS`, the drain loop of `run()`, `RENDER`), `pc`
is each thread's place, `task` what it is performing.

| Code | Actions |
|---|---|
| `startWorkerCycle` 69-104 | `EnterWait` (lock, `++threadsWaiting`), `Wait`, `Resume` (reacquire and unlock), `StopWaiting` (`--threadsWaiting`, outside the mutex), `TakeTask`, `FinishTask`; `SpuriousWakeup` |
| `ifFinished` 218-221 | `ReadEmpty`, then `ReadThreadsWaiting` |
| `preprocess` 132-157, `render` 179-204 | `Refresh`, `LockQueue`, `PerformFront` / `PopFront`, `UnlockQueue` |
| `process` 159-177 | `LockCv`, `Refresh`, `UnlockCv`, `NotifyAll` |
| `processNext` 206-216 and the loop of `Engine::run` 437-442 | `ProcessNext`, `FinishNext`, `NotFinished` |
| `pushProcessable` 119-130 | `PushProcessable` (before the loop: `main.cpp:70-79`) |
| `Engine::run` 401-424 | `EnterLoop`, `Publish` |

Grain of atomicity: a critical section that only pops or pushes is one step.
Performing a task is two, so that tasks overlap. The sections of `preprocess()`
and `render()` keep the mutex while tasks run, so `queueMutex` is a variable.
`tasksQueue.empty()` without the mutex is formally a data race; the build loads
the deque's size, which a concurrent pop has or has not changed, and the model
interleaves one read with the pop. `SpinsOnEmptyQueue` shows that in the three
spin loops nobody can be popping at all.

`task` is `NoTask` before a task and after it; workers start before the first
processable is registered. `phase` is uninitialised in the code, so `Init` leaves
it open.

### PhaseBarrier

The abstract promise, without mutexes: a set of pending tasks, filled when a
phase is entered and only when everything of the previous one is over; each
pending task is performed by some thread, once. `ProcessableQueue!ImplementsBarrier`
is the refinement: `pending` is what is in the queue, less the front task that
main performs before it pops it; `running` is `task`. It does not say which
thread performs a task: the code's comments do, and the code does not keep them
(section 5).

### MessageBus

A call of the bus is a step, since it runs under the bus's mutex;
`emitMessage()` takes the mutex once per subscriber and is split. `heap` records
for each message allocated its sender, its recipient field and how often it was
deleted. `processing` is where the `process()` of each messanger is; a reader's
calls `getMessages()` once (`GetMessages`), uses the pointers it got and drops them
when it returns (`EndProcess`). `PublishDue` is the contract
with the frame loop: `publish()` runs when every `process()` of the frame has
returned, and each runs once per frame. `EngineFrame` leaves both guards out
(`PublishMessages`, `StartProcess`) and shows that the queue keeps them.
Names are resolved at `publish()`, so `Messangers` registered late are modelled too.
Contents of messages are left out.

### EntityManager

The manager with the objects that register at it. It uses the actions of
`MessageBus` through `Bus == INSTANCE MessageBus` as conjuncts of its own and
adds what the messages say (`content`), which of its messages a `process()` has
not handled (`unread`), the tree, and the render phase.

| Code | Actions |
|---|---|
| constructors called by `main.cpp:66-76` | `Construct`, `SendNext` |
| `Engine::run` 415-445 | `Publish`, `StartRender` |
| `EntityManager::process` 61-83 | `BeginProcess`, `SendPending` (one message of `sendPendingMessages`), `GetMessages`, `Handle` (one message: `addEntity`, `addEntityProperty`; for other messangers `SingleMeshLodTerrain::process` 139-149), `EndProcess` |
| `EntityManager::render` 85-100, `display()` | `Press` (a button makes a message, `addMessage`), `EndRender` |
| `GuiEntry` 77-166 | operators `CreateBranch`, `FindEntry`, `AddChild`, `Displayed` |

A path is the sequence of names, so splitting strings at `/` is left out; the
tree is a function from paths to the property there, if any. `unread` is a set of positions handled in ascending order. `render`
may still run when the next `publish()` does, since a worker can hold a
render task (run `queue_render`), but not when the next `process()` does, which
`PhasesSeparated` establishes. `collected` is cleared in the step that reads the
messages: only `render()` adds to it, and `StillWhileDisplayed` shows that it
does not run then. The constructors run in any order; `main()` has one order, and
the manager is constructed last there.

`Script` is what each constructor sends: nothing, or the object's entity below the root
and then properties of that entity. That is what the code's callers do
(`SingleMeshLodTerrain.cpp:14-26`), and `ScriptsAssumption` says so, with the one thing
more that they rely on: objects that register, and the manager, have a name of their own.

### CameraInput

`CameraManager`, its cameras and `InputManager`. GLFW's events come between
frames (`KeyPressed`, `KeyReleased`, `MouseButton`, `Scroll`); a frame's
`preprocess()` is one step, because it runs in the main thread and nothing it touches is
changed by others.

| Code | Actions and operators |
|---|---|
| `CameraManager::addCamera` 27-36, cameras' constructors | `AddCamera` |
| `CameraManager::preprocess` 38-65 | `Preprocess`, of `ToggleTested`, `NextIndex`, `EnableCamera`, `StartPosition`, `StartDirection` |
| `updatePerFrame()` of the cameras | `UpdateView` with `Moves`, `Turns` and `Orbits`, `ProcessInput`, `ToggleDrawMode` |
| `InputManager::process_input` 53-88 | `ProcessInput`, `NextState`, `GetKey`, `KeyRead` |

`GLFW_STICKY_KEYS` is on (`Engine.cpp:108`): a key released before it is read
is reported as pressed once. `position`, `direction` and a first-person camera's
`angles` are numbers modulo `Places` instead of vectors: input adds to them, a
switch copies position and direction, and a first-person camera
overwrites the copied direction from its own angles
(`FirstPersonCameraController.cpp:68`), so it looks again where it looked when it was
left. An overview camera with the right button down goes round the point it looks
at (`OverviewCameraController.cpp:100-133`); where that leads depends on angles that
`enable()` computes, and is left open: `Orbits` allows every place.

`due` is a history variable: the presses of T and P that neither acted nor were lost.
Every press is in it. One is lost if it is made before the release of the last one was read:
`process_input()` then takes the key for one held (`InputManager.cpp:72-79`).
`ActsOncePerPress` allows this loss and no other, `PressActs` excepts such a press.
`MaxDown` bounds the keys and mouse buttons that are down at once.

### QuadTerrain

A node is the square it covers. `Update` is `QuadTerrainNode::update` 70-113 as
a recursive function from a node to the flags of the nodes below it; `Deleted` is
the destructor; `Process` compares the trees before and after to know what was
allocated and freed. The properties are about the leaves. `render()` draws those of
them that are in the field of view (`QuadTerrainNode.h:49-68`, 122), and the tessellation
shader (`TerrainLod.tesc`) subdivides their edges; neither is modelled. The program's sizes are 5000 halved at most nine times,
which floats represent exactly, so they are integers in a unit that is small
enough; `Sizes` are those that occur, and `TerrainAssumption` says that they are halves
of each other down to the smallest patch. The distance is compared squared, which leaves
out its rounding at the very boundary of `intersects()`. `Single` is a node as its
constructor makes it, `Joined` puts the trees of the children together.

### Logger and EngineFrame

`Logger` is the member `logFile` between `fopen()` and `fclose()` of any thread.
`EngineFrame` extends `ProcessableQueue`, whose actions it conjoins with those of
`Bus == INSTANCE MessageBus` and `Log == INSTANCE Logger`:

| Code | Actions |
|---|---|
| constructors and `registerProcessable` in `main.cpp:65-82` | `Construct` (the messanger registers at the bus), `RegisterProcessable`; no object is constructed before the previous one is registered |
| `Engine::run` 413-421 | `Loop`, `PublishBus` |
| `Task::perform` of a `process()` | `Take` pops the task and begins the `process()` of the object it belongs to, `Read`, `Send`, `Finish` |
| `SingleMeshLodTerrain::process` 139-149, `checkOglErrors` 275-300 | `BeginPrint`, `EndPrint` |
| everything else of the queue | `QueueStep`, `WakeUp` |

Which `process()` runs is decided by the task that is popped, and nothing else: no
guard of the bus restrains the queue or the other way round, so a queue that
performed a task twice, or published too early, would do so here and violate
`BusContract`. A thread may print any number of lines.

### GridMesh and Scene

`GridMesh` has the loops that the four mesh terrains repeat. Coordinates are
integers: a height is any integer instead of any float, the spacings are
positive integers, so that signs of normals and orientations are those of the
exact arithmetic. Lists of indices are sets of triangles; `Index` relates them to
places in the arrays.

`Scene` is the main thread with one OpenGL context, `gl`: the program in use, the
vertex array, the framebuffer, enabled tests, depth function, culled face, active
unit, textures bound per unit, what has been cleared in this frame, and per
program whose material it has and whether it was lit. OpenGL's own rules (a
uniform goes to the program in use, a texture to the active unit) are the
operators `Use`, `SetMaterial`, `BindTexture`, `Clear`.

| Code | Actions and operators |
|---|---|
| `setDefaultOglParameters` `Engine.cpp:107-124` | `InitialContext` |
| `main.cpp:34-63`, `registerShader` | `RegisterShader` |
| `main.cpp:72-79`, constructors, `terrainInit` | `Construct`, `Constructed`, `TerrainInit`, `Mesh`, `Sent` |
| `SimpleMeshTerrainManager::preprocess` 59-105 | `Preprocess`: `Apply`, `UpdateSimplexNoise` |
| `Framebuffer::preprocess` 73-88 | `Preprocess`: `CaptureFrame` |
| `glClear` and `updatePerFrame` `Engine.cpp:432-435` | `UpdatePerFrame` |
| `render()` of the objects | `Render`, of `SphereDraw`, `LodTerrainDraw`, `SkyboxDraw`, `FramebufferDraw`, `MeshTerrainDraw` and `AfterDraw` |

A handler is one step, for `preprocess()` and `render()` do not overlap on the main thread.
(That a worker may steal a render, run `queue_render`, is outside this
module: without a context its calls change nothing that is modelled.)
`main()` constructs `SimpleMeshTerrainManager` and `Framebuffer` in lines that are
commented out (74, 78); here every object may be registered or not. The objects draw
in any order, although the queue has one, so that no property depends on it, but
for Framebuffer, which comes last since it shows what the others have drawn.

### MC modules

`MCProcessableQueue`, `MCMessageBus`, `MCEntityManager`, `MCCameraInput`,
`MCQuadTerrain`, `MCEngineFrame` and `MCScene` name the elements of the instances.

### Proof modules

`ProcessableQueueProofs`, `MessageBusProofs`, `MessageBusOrderProofs`, `EntityManagerProofs`,
`CameraInputProofs`, `EngineFrameProofs`, `SceneProofs` and `QuadTerrainProofs`, see
section 6.

## 4. Runs that pass

| Run | Instance | Shows |
|---|---|---|
| `queue` | 2 workers, up to 3 processables, spurious wake-ups | `TypeOK`; `PhasesSeparated`: phases never overlap; `SpinsOnEmptyQueue`; `PopsWhatItPerformed`; `ImplementsBarrier`: each registered processable once per phase; `FrameEnds`, `EveryTaskPerformed` |
| `bus` | 2 messangers of one name, a name nobody has, 2 messages | `TypeOK`; `HeldAreLive`: no reader holds a deleted message; `DeletedOnce`; `ListsInOrder`; `PublishDelivers`: the messanger registered last gets the messages sent by name; `PublishedIsRead` |
| `entities` | the application's 3 messangers and 3 properties, any order of construction, 3 presses | `TypeOK`; `RegisteredIsShown`: the tree shown is what was registered; `NotifiedInOrder`: presses are neither lost, repeated nor reordered; `StillWhileDisplayed`; `PressIsReceived` |
| `camera` | first-person and overview camera, one movement key, both mouse buttons, two of these down at once, 2 places | `TypeOK`; `ActsOncePerPress`: a press acts at most once, and nothing acts without one; `ViewFollowsInput`: a switch keeps the position and, but for a first-person camera, the direction; `PressActs` |
| `terrain` | size 16, smallest patch 2, 121 camera positions | `TypeOK`; `LeavesTile`: the leaves cover the terrain without overlaps; `NoNodeLeaks`; `FollowsCamera`: the tree has no memory; `FinestAtCamera`; `LevelsMeet` |
| `frame` | 2 workers, 2 messangers that both send, one of which reads and prints, 1 message, 2 `FILE` objects | `ProcessIsPerformed`: what the bus thinks of a `process()` agrees with its task; `HeldAreLive`; `LogFileOwned`: threads never meet in the logger; `BusContract`: the program implements `MessageBus`; `MessageIsRead` |
| `scene` | all objects and types of terrain, 2 or 3 points per line, three fields of heights, 3 terrains one after the other | `TypeOK`; `DrawnAsMeant`, `TexturesInPlace`, `MaterialsKept`: no draw call suffers from another object's (but a terrain of type RANDOM next to a `Sphere` may have the material of either: they share a program; `main()` has the terrain commented out); `MeshIsCurrent`; `MeshIsSurface`; `NormalsPointUp` |

Bounds. Two workers are what the program has (`Engine.cpp:156`,
`MaxWorkerThreads`); with three processables every worker and the main thread can
perform a task at once, and with fewer there are frames with an idle worker and
with an empty queue. The queue's state is finite without further bounds. On the
bus, a messanger may write to itself, so two messangers suffice for a message
with two recipients and a list with two senders, and they differ by id although
they share a name; two messages are needed for
order and for one message being deleted while another is read. `MaxMessages`
bounds allocation only. Five messages build the application's tree; the three more of `entities` let a
press be collected while an earlier one is on its way and a third after both. For
the camera, two places and directions tell a camera that moved or turned from one at rest, two cameras
a switch from none (`camera_draw` has the application's three), and two keys or buttons
down at once let one be held, or tapped again, while another acts. A terrain of four
levels has a leaf of each level
next to the other levels; the positions include some from which everything merges.
The state of the terrain depends on the last position only, which is what
`FollowsCamera` says, so all pairs of positions are explored.

In `frame`, two workers and the main thread are more threads than objects, so that both
objects are performed at once while the third thread finds the queue empty; the reader
prints in whichever thread performs it. One message is enough for a message to be read while
`publish()` is due; larger instances are left to the proofs, which cover the safety
properties. In `scene`, a grid of three points has a vertex of every kind: inside, at
each border, in each corner; a grid of two has corners only. The fields are a flat one,
a slope that is steep for the spacing and one with a pit in the middle; a second and a third terrain show that what belongs to the previous one
is not drawn.

Deadlock is checked in the passing runs but `camera`, where Escape ends the
program. A program whose window was closed does
not deadlock there, since workers may always wake spuriously; the violation runs
exclude spurious wake-ups, to show the threads' own races, and allow the stop.

Fairness. `FairSpec` of the queue assumes that each thread that can step does,
that tasks end, and that spurious wake-ups do not recur for ever (a
worker woken for ever could keep `threadsWaiting` below its target). Nothing is
assumed about who gets a mutex; weak fairness per thread is what a preemptive
scheduler gives, and the spin loops retry. `FairSpec` of the bus assumes the frame
loop and the calls of `process()` go on, which `FrameEnds` and
`EveryTaskPerformed` justify; `bus_emit` assumes it too, so that what it shows is no
message that is merely late. So does the fairness of `EntityManager`, which adds
`render()`, and that of `CameraInput`, which is weak fairness of `preprocess()`; no
user has to press or release anything. `FairFrameSpec` of `EngineFrame` is the queue's
assumption on each thread, plus strong fairness where a thread may print first: a
`process()` that prints is not ready to return while it prints, so `Finish` is
enabled again and again instead of always, and strong fairness says that the number of
lines is finite; the same holds of the constructors and of the loop, which the main
thread's prints interrupt. `Scene` has no liveness and no fairness.

## 5. Runs that fail: what the comments say and the code does not do

| Run | Statement | What happens |
|---|---|---|
| `queue_render` | `IProcessable.h:42`, render "performed in main thread" | a worker takes a render task between `refreshQueue()` and the lock; it has no OpenGL context |
| `queue_notify` | `ProcessableQueue.cpp:174`, "Notify all threads about the event" | a worker that was still counted as waiting misses the notification and sleeps beside a full queue |
| `bus_emit` | `MessageBus.h:51`, "Emit message to all messanger subscribers" | `messangerToIndexDict` is never written: `publish()` resolves no recipient of an emission, and what a messanger emits gets into no subscriber's list |
| `camera_draw` | `CameraController.h:56`, "enable is being called every time the camera is enabled, so it should prepare environment for the camera to be used" | `enable()` does not restore the polygon mode that belongs to the camera's `draw_mode` |
| `bus_leak` | `IMessanger.h:20`, "message will be deleted by MessageBus after sending" | a message sent to a name nobody has is pending before `publish()`, and in no list and not deleted after it |

The gap of `queue_render` is in `preprocess()` as well, which `IProcessable.h:28`
calls "NOT PARALLEL". It needs a worker that is late: it was notified, did not decrement
`threadsWaiting` in time, and main went through a whole process phase alone. For the
same reason `render()` does not "execute and finish Render phase"
(`ProcessableQueue.h:65`): it returns while that worker still performs.

Two more disagreements are visible in a single step and have no run. `subscribe()`
(`MessageBus.cpp:251`), "Subscribe messanger to target messanger"
(`MessageBus.h:54`), makes the target a subscriber of the caller; `Subscribe` is
modelled as the code does it. And `calculate_angles()`, which is there "to avoid weird jump at
the start" (`OverviewCameraController.cpp:19`), passes the arguments of `atan2` (31) the other way
round than `updatePerFrame()` uses the angle (127-129), so that the overview camera does jump
when the right button is pressed; the model leaves open where to.

## 6. Proofs

All theorems hold for any finite set of workers, any set of processables or
messangers, and any bound, under the named assumptions `ThreadsAssumption`,
`MessangersAssumption`, `EntitiesAssumption`, `ScriptsAssumption`, `CamerasAssumption`,
`TerrainAssumption`, `FrameAssumption`, `SpacingAssumption` and `SceneAssumption`.

*Queue.* `TypeCorrect`, `CounterCorrect`, `PhasesCorrect`, `SpinsCorrect`,
`PopsCorrect`, `RefreshCorrect` and `Refinement`. None of the properties is
inductive. The invariant `Inv` adds to the type: which places each thread can be
in with which mutex and task (`ThreadState`, `LockState`); what the queue may hold
at each place of the main thread, which is nothing before a refresh and tasks of
one phase, one per processable, after it (`StageState`, `QueueState`); and the core of the argument
(`IdleState`): once main has seen the queue empty and then all workers counted,
no worker performs a task, and from there until the next refresh none can get
one, because the queue stays empty. `AllCounted` turns the counter's value into
a statement on every worker by the cardinality of a subset, `CountedStep` follows
the counter through a step. `BarrierStep` maps each step to a step of the
barrier or a stutter.

*Bus.* `HeldLive` and `DeletesOnce`. `BusInv` states that every message is in at
most one place: pending or in one list at one position (`Unique`), live there
(`Live`), and what a reader holds is still in its list (`HeldListed`).
Emitted messages are outside this since pointers resolve to nobody: this is the
reason why double deletion does not happen today, and the mutant that fills
`messangerToIndexDict` breaks `DeletedOnce`.

`MessageBusOrderProofs` adds `TypeCorrect`, `OrderCorrect` and `DeliversCorrect`. Its
invariant `OrderInv` says that `nameToIndexDict` holds the index of the last messanger
of each name, that the numbers of the deliverable messages ascend in the pending
list and hence in the lists made from it, and that a list's messages name its owner:
for that, `PendingOnce` is needed, since `publish()` writes the field once per entry.

*Entities.* `StillCorrect`, `BusKept`, `EntitiesHoldLive`, `EntitiesTyped`,
`NotifiedCorrect`, `NeverLost` and `RegisteredCorrect`. `StillCorrect` needs only `Inv`:
somebody has messages to handle only while he reads, and while the tree is displayed
no `process()` has begun and not ended. `BusKept` says that the manager and its entities
implement `MessageBus`; by it, what is proved of the bus in a module of its own holds
here too (`Proved`, an instance of `MessageBusOrderProofs`, and the lemmas `Same...` that it
and `Bus` are one), and the rest of the proofs use it as `BusFacts`.

The notifications and the tree share one view of a message: it waits for `publish()`
(`Waiting`), a messanger is to read it in this frame (`ToRead`), or it is past (`IsPast`).
`Effects` reduces every step to what it does to these stages. The invariant has five parts:

- `EntityType`, the types;
- `StartInv`: no frame begins before every constructor has sent all it sends, none of
  these messages waits then, and all are read before the tree is displayed;
- `PressInv`: the manager's list holds the last presses, and each press before those is the
  value of one message, in the order of the presses;
- `StageInv`: a waiting message is newer than all that do not wait, and one to be read by
  a messanger is newer than those past for it, so stages keep the order of sending;
- `ReceivedInv`: a messanger that its name leads to has received the values of its past
  messages and nothing else, in ascending order.

None of the last three is inductive alone: that a value is larger than those
received before needs that the message is newer than the past ones (`StageInv`) and that newer
messages have larger values (`PressInv`). `NotifiedInOrder` follows, and so does
`NothingIsLost`: a press whose object can be found is still collected, on its way, or
received. It is the part of `PressIsReceived` that is not liveness.

`EntitiesTyped` includes that the tree has no child without its parent, which holds for any
registrations: `addChild()` removes what was below the entry it replaces
(`ChildAdded`). `RegisteredCorrect` adds two more parts: `ScriptInv`, that the messages of the
constructors are what they have sent of their scripts and that the first of each object is its
entity, and `ShownInv`, that the tree is made of the registrations the manager has handled. The
core is `HandledInOrder`: when the manager handles a registration, the handled ones
are exactly those sent before it. So an entity never replaces a subtree of its name,
and a property always finds its entity.

*Quad tree.* `TreeTypeCorrect`, `NeverLeaks`, `AlwaysFollows`, `AlwaysTiles`, `AlwaysFinest` and
`AlwaysMeet`, for any sizes and any path of the camera. What `update()` and the destructor
compute cannot be proved by the library's induction, whose theorems take an operator;
the proofs take a least counterexample instead (`LeastNode`, `GreatestNode`), which exists since
children are smaller than their parents. `Reach` are the nodes that the inner nodes of a set
lead to from the root; `UpdateIsFlags` says that `Update` turns any tree into that of `Near`, the
nodes in whose range the camera is, whatever the tree was. So the inductive invariant
`TreeInv` is short: the type, the heap, and that the tree is the one for the last position.
`HeapFollows` counts what is allocated and deleted when one tree becomes the other.
The geometry is in `NodesNest` (two squares are nested or apart, because sizes are
multiples of each other) and `RangesNest`: if the camera is in the range of a node, it is
in that of the node's parent, and of the parents of what the node touches; that is
where the factor five of `intersects()` is used, and with a smaller one `LevelsMeet` fails.

*Camera.* `TypeCorrect`, `EnabledCorrect`, `PendingCorrect`, `ActsCorrect` and
`ViewCorrect`. The inductive invariant is the conjunction of the type, of
`CameraIsEnabled`, of `PendingPresses`, of the fact that nothing was polled
before a camera was added, and of `LooksByAngles`: a first-person camera's direction is that of
its angles, also while another camera is in use, so it resumes what it had. `PendingPresses` is the core:
a press that was not read, or of T not tested, is due, so that a
toggle, which happens in the state "just pressed", always finds one, and what is due was not
read since.

*Frame.* `ProcessCorrect`, `ContractKept`, `HeldCorrect` and `LogCorrect`. Every step
of the program is a step of the queue or leaves it alone, so the queue's invariant
holds here too; `LinkInv` adds what ties the two components together:
`ProcessIsPerformed`, that each messanger has one task per phase, and that a thread
which prints is the main thread outside the PROCESS phase or performs the one `process()`
that prints. From it, `publish()` finds all processes done (by `IdleState` of the
queue), and `Take` finds the process it begins due, which are the two guards
`MessageBus` assumes: every step is a step of `Bus!Spec`. `HeldAreLive` follows from
the theorem `HeldLive` of `MessageBusProofs`, which is applied to `Bus` with its
constants as they are there, the assumption of `MessageBus` being a consequence of
`FrameAssumption`.

*Scene.* `TypeCorrect`, `DrawnCorrect`, `TexturesCorrect`, `MaterialCorrect`,
`MeshCurrent`, `SurfaceCorrect` and `NormalsCorrect`, for any sizes, heights and number of
terrains;
`TrianglesInGrid` and `IndexCorrect` on the mesh itself. The invariant `SceneInv`
says what holds of the context between two handlers: culling and depth function as the
defaults have them (`Faces`), where drawing goes and which tests are on in each part
of the frame, if there is a Framebuffer and if not (`Target`), that Skybox's texture is
at unit 0 because unit 0 alone is active until the loop begins (`Skies`), and that the
material and the buffers are those of the terrain. One lemma per object says what its
`render()` sets and what it leaves, and `Drawn` puts them together. `NormalUp` rests on
`TermsUp`: the height of the cross product of two edges of the grid is the area of
their shadow, whatever the heights, so each triangle contributes a positive term, and
only the last corner, which has none, needs the special case. For `MeshIsSurface`, each
directed edge determines the triangle it belongs to, so that there are three times as
many edges as triangles, and the opposite edge is found by its kind: horizontal,
vertical or diagonal.

Only model-checked: liveness (`FrameEnds`, `EveryTaskPerformed`, `PublishedIsRead`,
`PressIsReceived`, `PressActs`, `MessageIsRead`), since the prover reaches neither fairness
nor `ENABLED`. Every other property of the passing runs is a theorem. What the
violation runs refute is not proved of anything.

## 7. Not modelled

* *Vendored code.* More than 95% of the lines under `src/` are Tracy, ImGui and other
  libraries, copied into the repository; the engine and the application have about
  8500. The libraries are no part of this system's logic and are modelled only by
  what the engine relies on (sticky keys, the rules of the OpenGL context).
* *Computation on floats*: how far input moves and turns a camera, its matrices, the
  field of view that `render()` of the quad tree tests, noise, the compute shader of the
  height map, the sphere's geometry. A height is any number in `GridMesh`.
* *Pure I/O*: ImGui's widgets but for buttons and sliders that change state, files,
  images, shader sources (the tessellation of the quad tree's leaves among them), compiling
  shaders.
* *Point lights.* `initializeLights()` creates none, `addPointLight()` has no caller
  and would not change `actualPointLightsNumber`, so `updatePointLights()` never enters
  its loop, where a light's index is turned into one character
  (`ShaderManager.cpp:154`), and the number sent in the constructor goes to no shader, since
  none is registered then (12-16).
* *Erosion* of `SimplexTerrainChunk` (73-418): the call in `update()` is commented out.
  (`calculate_index()` may reach the last line of the grid, whose neighbours are outside
  the array, if `sectorSizeX > pointsPerSectorLine`, which the sliders allow.)
* *A failed start* (`Engine.cpp:317-320`): the constructor logs and returns, `main()`
  goes on, and its next call reads members that were never set. There is no defined behaviour to
  check.
* *Leaks of OpenGL names*: `Vao` and `Vbo` have no destructor, and only `FlatTerrain`
  deletes its buffers. Nothing in the code depends on it.
* *BaseGui and TestEntity*: two plots in a window, and a loop that only takes time.
* *`SafeTaskQueue`, `Renderable`*: not in `Engine.vcxproj`.
