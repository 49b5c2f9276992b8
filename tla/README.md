# SphereSim in TLA+

SphereSim simulates the movement of spheres. A *server* keeps one simulation
per client and integrates it in a thread of its own; *clients* (a viewer, a
tester, a grapher, a benchmark) send actions and receive replies, frames and
variables over two publish/subscribe sockets. This directory models the parts
of it in which the order of events, the state behind them or a boundary decides
whether the program is right, checks them with TLC and proves the central
facts with TLAPS.

    tlc -config work_queue.cfg MCWorkQueue      # any run of the tables below
    tlapm WorkQueueProofs.tla                   # the proofs of a module

## 1. The system

```
 client process                        server process
 +----------------------------+        +---------------------------------------+
 | ActionSender   FrameBuffer |  SUB   | ActionServer  (registration, 5 s check)|
 |  sendAction ---------------+------->|   ActionReceiver   one per client     |
 |  processReply <------------+--------|     SimulatedSystem  (variables)      |
 |  SimulatedSystem (copy)    |  PUB   |     SphereCalculator                  |
 +----------------------------+        |       WorkQueue  <-> SimulationWorker |
   viewer, tester, grapher,            |       (mutex)         (own QThread)   |
   benchmark, SystemCreator            +---------------------------------------+
```

| Component | State | Operations | Interacts with | Module |
|---|---|---|---|---|
| `WorkQueue` (Server) | list of items, `queueEmpty`, `canWork`, `simulationSteps`, `continuousSimulationRunning`, `isSimulating` | `pushItem`, `pushSimulationSteps`, `stopSimulation`, `reset`, `stop`, `sendFrameData`, `popItem` | main thread pushes, worker pops; mutex and wait condition; signal `simulating(bool)` | `WorkQueue` |
| `SimulationWorker` | `running`, `hasFinished` | `work` (loop), `handleAction` | calls `SphereCalculator`; posts replies to the main thread | `WorkQueue` |
| `ActionServer` | map of receivers, two timers | `receiveRequest`, `send`, `sendHeartbeat`, `disconnectionCheck`, `tearDown` | transport; creates and destroys receivers | `Session` |
| `ActionReceiver` | `clientAccepted`, `receivedRequests` | `processRequest`, `sendReply`, `sendFrame`, `sendVariable`, `simulating` | queue, variables, server | `Session`, `SimulationControl` |
| `ActionSender` (client) | `connectedFlag`, `readyToRun`, `receivedServerReply`, `lastServerReplyData`, `frameCounter` | `sendAction`, `sendReplyAction`, `processReply`, one method per action | transport, frame buffer, its copy of the variables | `RequestReply`, `Session`, `SimulationControl` |
| `SimulatedSystem`, `Object` | 25 typed variables | `set`, `sendVariable`, `sendAllVariables`, `receiveVariable`; `setData`, `getData` | one copy in each process; signals `variableToSend`, `variableUpdated` | `WireFormat`, `DerivedValues`, `SimulationControl` |
| `DataTransmit`, layouts of messages | none | write and read numbers, vectors, spheres | both sides, each with its own list of fields | `WireFormat` |
| `SphereCalculator`: sphere store | vectors of spheres and positions, cell arrays | add, remove, update | worker; `tearDown` from the main thread | `RequestReply`, `IntegrationStep` |
| integrator | Butcher tableau, `stepCounter`, `calculationCounter` | one step for all spheres, division of a step | cells, variables | `IntegrationStep`, `Tableaux` |
| values computed from variables | `sphereSphereE`, `sphereWallE`, `butcherTableau` | `variableUpdated` | main thread computes, worker reads | `DerivedValues` |
| collision cells | box, `sphereIndicesInCells`, `cellIndicesOfSpheres` | `updateSphereBox`, `updateSphereCellLists` | forces and energies | `CollisionCells` |
| gravity cells | tree of 64 leaves and the cells above them, lists of near and far cells | `buildGravityCells`, `rebuildGravityCellPairs`, `updateSphereGravityCellLists`, `updateGravityCellData` | forces and energies | `CellPairs`, `GravityCells` |
| `FrameBuffer` (client) | ring of frames, four indices, level | push/pop of elements and frames, change of size | `ActionSender` writes, viewer reads | `FrameBuffer`, `FrameStream` |
| frame streaming | `frameCounter` of either side | `prepareFrameData`, `processReply`, `updateElementsPerFrame` | worker, socket, ring | `FrameStream` |
| viewer (`GLWidget`) | `animating`, `animationTimer` | `startAnimation`, `stopAnimation`, `timerUpdate`, `paintGL` | empties the ring | `FrameStream` |
| `MessageTransmitter` | socket, 10 ms timer | `send`, `readData` | both sides | channels of the modules |
| tester, grapher, benchmark, `SystemCreator` | widgets, counters | scripts over `ActionSender` | client side | environment |

**What is hard here.** Two threads share the queue and its flags through one
mutex but the worker waits with `if` instead of `while`; a signal of the queue
is a direct call in one thread and a posted call in the other; both processes
keep a copy of every variable and poll it; values are recomputed in one thread
from variables another one stores, without a lock; the client waits for replies
in a nested event loop; publish/subscribe sockets lose what is sent before the
subscription; the server forgets silent clients; the ring of frames changes its
size while it is in use; a lost message leaves no gap that the client would
notice; client and server list the fields of every message separately and are
built with different floating types; a step is divided recursively inside a parallel loop;
objects are destroyed while their thread still runs, and after it has said that
it is done but before it has told everyone.

What makes each component correct:

- *queue and worker*: no lost wake-up, every request served once and in order,
  no request starved by steps or frames, a worker that never runs dry, a
  destructor that ends (which it does but for one race, section 5);
- *simulation control*: no step lost or counted twice, the two copies of
  `simulating` agree when nothing is under way, the loops that poll for the
  beginning and the end of a simulation end (only the second one always does),
  and not before the steps are done;
- *frame buffer*: the reader never sees the frame being filled, frames leave in
  order, the level that is told is the level;
- *frame streaming*: a lost sphere damages its own frame only, and a running
  animation ends with the newest frame;
- *messages*: both sides agree on the layout of each, no read overruns its
  variable;
- *sessions*: a live client stays registered and is accepted, a dead one is
  forgotten, and requests meet the simulation the client has set up;
- *request/reply*: a reply answers the request it is taken for, and both sides
  know the same number of spheres;
- *shared variables*: the copies agree, and what is computed from variables
  belongs to them;
- *cells*: every pair of spheres acts on each other exactly once, whether it is
  near or far, and no overlap is missed (a build that wraps negative numbers
  misses those of a sphere that starts below the box);
- *integrator*: forces of a step see one instant, the parts of a divided step
  tile it, and a method has the order its name promises.

## 2. Modules

| Module | What it is |
|---|---|
| `WorkQueue`, `MCWorkQueue` | the queue, the worker's loop, the destructor |
| `RequestQueue` | abstract specification: a FIFO of requests beside a stream of steps and frames |
| `SimulationControl` | client, two channels, server main thread, worker; composes `WorkQueue` (INSTANCE) |
| `FrameBuffer` | the ring of frames |
| `BoundedFrames` | abstract specification: a bounded queue of whole frames |
| `FrameStream` | extends `FrameBuffer` by the worker that sends frames, a channel that loses some, and the viewer |
| `WireFormat` | the fields of every message, as the two sides write and read them; the types of variables |
| `Session` | registration, heartbeats, the disconnection check |
| `RequestReply` | requests that wait in a nested event loop; the number of spheres |
| `DerivedValues`, `MCDerivedValues` | settings on their way to the values a step calculates with; extends `Tableaux` |
| `CellPairs` | the recursion that divides the gravity cells into near and far ones |
| `GravityCells`, `MCGravityCells` | extends `CellPairs` by the spheres, the sums of the cells, forces and energies |
| `CollisionCells`, `MCCollisionCells` | the grid that finds colliding pairs |
| `IntegrationStep` | one step of all spheres on several threads |
| `Tableaux` | operators: the five Runge-Kutta methods and their order conditions |
| `WorkQueueProofs`, `SimulationControlProofs`, `FrameBufferProofs`, `SessionProofs`, `MessageProofs`, `GravityCellsProofs`, `CollisionCellsProofs`, `StepProofs` | theorems (section 4) |

### 2.1 `WorkQueue`

The mutex makes every method of `WorkQueue` atomic, so one method is one
action; `popItem` gives the mutex up while it waits and is therefore `Sleep`
(up to the wait) and `TakeItem`, `TakeStep` or `Fail` (after it). A woken worker
(`worker = "signalled"`) still has to get the mutex, and the main thread can
run in between. The variables of the model have the names of the fields;
`worker` and `main` are the program counters of the two threads, `current` is
the item in the worker's hands, `stopPosted` the posted call of
`SimulationWorker::stop`, which the worker's loop delivers by
`processEvents()` after an item.
What a handler computes is left out; what it does to the queue is not:
`HandleUpdate` is a handler that asks for a frame, `HandleSwitch` one that
changes `frameSending`, `HandleOther` the others.

The end of the two threads is spelt out statement by statement. The worker leaves
its loop (`worker = "finished"`: `hasFinished` is set) and then emits `finished()`
(`EmitFinished`). The destructor's first loop ends as soon as `hasFinished` is
set, and the worker is deleted (`DeleteWorker`), possibly before it has emitted;
`thread` follows the `QThread` from there: `quit()` is posted to the main thread
(`QuitThread`), the thread's event loop ends (`EndThread`), and the deletion of the
thread ends the destructor's second loop (`DestroyThread`). A signal of a deleted
object is undefined behaviour: nobody is told (`"lost"`) or the process is gone
(`"crashed"`). `DestructorEnds` excepts these two; `DestructorReturns` does not, and
`destructor_hangs` violates it.

`RequestQueue` says what the clients rely on: requests leave in the order in
which they came, each exactly once, and nothing else is ever answered.
`ImplementsRequestQueue` maps the list to what clients see of it (`Visible`), the
list without frames.

### 2.2 `SimulationControl`

Adds the client and the wire. A client call is one action because the client is
single-threaded: the action sends the request and, if its own copy of
`simulating` changes, the update of the variable. `ServerReceive` is
`processRequest` together with what the queue's direct signal does in the same
call; `Pop`, `HandleStep`, ... are the worker; `posted` is the queue of calls
that the worker has posted to the main thread. The queue is
`INSTANCE WorkQueue`, so the guards and flags are those of section 2.1.
A client that starts a simulation first waits until its copy of `simulating` is TRUE
(`StartIsSeen`), then stops the simulation and waits until it is FALSE
(`PollingSucceeds`), as the tester does. The first wait need not end: `start_unseen`
has a FALSE of the sleeping worker overtaken by the start, so that the client
believes FALSE while the simulation runs, and never stops it. `PollingEnds` is
about the second loop and says nothing of a client that is left in the first.
`StepsAreConserved` is stated as long as no continuous simulation was started:
after that the number of steps is not determined by what was asked for.

### 2.3 `FrameBuffer`

One action per method. The ring is a function on `0 .. BufferSize - 1`, a frame a
function from element numbers; `percentageLevel` and `greatLevel` are the
values of the last signals. `BoundedFrames` is a queue of whole frames that drops
the oldest one when it is full and keeps the last one for the painter; the
refinement mapping cuts the ring at `readIndex`. The module is checked as part
of `FrameStream`.

`FrameStream` puts the ring where the program has it. `PrepareFrame` is the
worker's `prepareFrameData`: one message per sphere, all with the number of the
frame. `processReply` is `BeginFrame` (the counter has grown: `pushFrame`)
followed by `ReceiveSphere` (`pushElement`), or the latter alone; a sphere too
many is ignored, as `pushElement` does. `ReceiveSphereCount` is the slot
`variableUpdated`, which resizes the ring. `paintGL` takes one element after
the other (`BeginPainting`, `PaintSphere`, `EndPainting`); `main` keeps the
client's handlers from interleaving with each other, since they share one
thread. The timer is a single shot that `TimerUpdate` arms again while
`animating`; `Expose` is a picture the window system asks for. `Lose` drops one
frame message, `damaged` remembers whose. The number of spheres is not lost, as
`RequestReply` assumes too.

`LossStaysInItsFrame` lets a frame that has lost a sphere be wrong in any way, and
says that no other one is; `ImplementsBoundedFrames`, `ReaderStaysBehindWriter`
and `LevelIsCurrent` are the properties of the ring, now for the calls the
program makes.

### 2.4 `Session`

One action per handler: `ReceiveRequest` with `ProcessRequest` (creation of a
receiver, `clientAccepted`), the client's `ProcessReply`, its heartbeat timer,
the server's check receiver by receiver (`CheckReceiver`), and the destruction,
during which events are processed: between `CheckReceiver` and `FinishDelete`
the receiver is still in the map and takes messages that are lost with it.
Time is counted in half seconds. The sockets are polled every 10 ms, so `Tick`
waits for the channels to be empty; timers fire up to `Late` ticks late; Qt's
periodic timers are approximated by the time since they fired last. `Lose`
drops a message of a kind in `Lossy`, at most `MaxLost` in a row.

### 2.5 `RequestReply`

`waiting` is the stack of calls of `sendReplyAction`: `Call` pushes one,
`ProcessReply` stores a reply for whoever looks first, `Return` pops the
innermost call when the flag is set. `Slots` are the requests a slot sends while
a call waits. `Handle` is the worker: it changes the spheres, and emits the
changed variable and the reply in the order of the code. No message is lost
here; what a lost message does to a waiting call (it waits for ever) is a
hazard in `PROJECT.json`.

### 2.6 `DerivedValues`

A setting goes through the queue to the worker, which stores it and posts
`variableUpdated` to the main thread; there the values are recomputed memory
access by memory access (`todo` is what is left of the call, `operands` what it
has read), beside a worker that stores the next setting or calculates a step. A
computed modulus is the tuple of values it was computed from, a tableau the
methods its two halves are of.

### 2.7 `CellPairs` and `GravityCells`

`CellPairs` is the recursion as a set of pending calls: the order of the calls
does not matter to the lists. Whether a cell is far is a constant relation
chosen in `Init` from `FarTests`: the lists are right for every geometry, every
`maximumTheta` and every rounding. `Below` maps a cell to its leaves; its
assumption (two children divide a cell's leaves) is all that is used of the
numbering, and `MCGravityCells` compares it with the loop of the code that
climbs the tree.

`GravityCells` adds what happens in every step and every request for the total
energy: spheres enter arbitrary leaves, cells are summed up from the leaves
(skipping cells without mass), and each sphere feels the spheres of near cells
one by one and far cells as wholes. A sum is modelled by how often each sphere
is part of it.

### 2.8 `CollisionCells`

One axis instead of three (the cells of a sphere are the product of its ranges
along the axes, and two such products meet exactly if the ranges meet on every
axis). Lengths are integers and the quotient is exact. The conversion of a
negative quotient to `unsigned short` is undefined in C++ and chosen from
`Conversions`: it wraps or becomes 0. A sphere reaches below
the box because the box leaves out the radius of sphere 0, or moves fast enough;
when it does so by a whole cell in a build that wraps (`StartsBelow`), its cells begin at
the last one. `OverlapsAreCandidates` excepts the pairs of such a sphere, and only
them: a wrapped sphere hides no overlap of two others. `OverlapsAreAlwaysCandidates` has
no exception, is violated in `first_sphere_outside`, and is proved for builds that do not
wrap.

### 2.9 `IntegrationStep`

A position, a speed and an acceleration are replaced by the time or interval they
stand for. The recursion over divided parts is a stack per sphere; the two
parallel loops interleave at the accesses of one sphere to the others. Whether
an error is too large is left open, so every pattern of division occurs. A part
that is divided keeps what its rejected trial has read (`dSpeed`): the local
variable of that name outlives the two halves, and the acceleration that is stored
last is that of the trial before them (`EndDivided`), not of the speed they have
reached. `AccIsOfTheFirstTrial` says what comes of it: the acceleration is the mean of the
first trial of the whole step, which has read other spheres only as they were at its
beginning, whatever the threads do.
Between steps the worker changes flags, adds, removes and moves spheres, reads
energies and counters.

### 2.10 `Tableaux`

The coefficients as the source has them, as fractions in a prime field, without
a variable of its own: `Built` is the loops of the constructor of
`ButcherTableau`, `Complains` its checksum. `IsOfOrder` evaluates the order
conditions (one per rooted tree) for both weight rows: the method has the order
its name gives, the embedded one the order below it and not the same, every
coefficient is used by some stage, and the check of the constructor does not
complain. This is the order of the tableau: steps evaluate all stages with the same
`timeDiff` and never read `c`, so spheres that act on each other are not integrated
at it. `DerivedValues` asks for it of the tableau that steps find once every
signal is handled (`OrdersAsNamed`), for methods that exist, that do not, and
whose number is cut to eight bits.

### 2.11 `WireFormat`

A message is a sequence of bytes, each labelled with the field it belongs to, the
field with the type it was written as: a reader that takes other bytes than its
partner wrote, or takes them as another type, obtains `Misread`. `RequestFields`
and `ReplyFields` are what the writers say, `HandlerFields` and `AnswerFields`
what the readers on the other side expect; they are translated from different
files and compared by running them. The headers are written by `Request` and
`Reply`, and cut off at the offsets that the code has (8, 2, 10, 12). `heard`
is how the last message was understood.

`scalar` is the floating type each side was built with. There is one variable of
each type, in the order of their numbers (`AllVariables`), which is the order in which
all of them are sent; a value is a number, of which the odd ones do not fit in a `float`.
A `Vector3` consists of the build's floating type but travels as doubles.
`Set`, `SendAllVariables`, `ReceiveVariable` are the methods of
`SimulatedSystem`, with `Object`'s order of comparing first and converting
afterwards. In `CopiesAgree` only clients set variables (and the server the number
of spheres), as in the program. Two variables are set by both sides and are the
subjects of other modules: `simulating` (`SimulationControl`) and
`integratorMethod` (`DerivedValues`).

## 3. Runs

The twelve runs of `PROJECT.json`; `worker_fails` and `nested_request` end with a
counterexample, the others pass.

| Run | Bounds | What it shows |
|---|---|---|
| `work_queue` | 3 kinds of requests, at most 3 items when one is pushed, steps up to 4, counter modulo 4 | no lost wake-up, refinement of `RequestQueue`, requests served, both loops of the destructor end unless the worker is deleted before it has emitted `finished()` |
| `worker_fails` | with start and stop, modulo 8 | the worker can throw (finding) |
| `control` | 3 calls of "steps", "start" (with its "stop") and "pop" | steps conserved, copies agree, the loop that waits for the end of a simulation ends |
| `frame_stream` | ring of 4, 6 frames, up to 2 spheres, 3 changes of their number, 1 lost message | refinement of `BoundedFrames`, level, reader behind writer, losses stay in their frames, the picture catches up |
| `wire_format` | all 19 actions, 6 variables, 3 values, all pairs of float and double, 2 events after the first sending of all variables | both sides agree on every message, reads stay in bounds, copies agree |
| `session` | 2 clients, up to 2 heartbeats lost in a row, timers half a second late | a live client stays and connects, a dead one is forgotten, requests meet their simulation |
| `request_reply` | 5 calls, slots that send updates | replies go to their calls, everyone agrees on the number of spheres |
| `nested_request` | 4 calls, slots that send requests | a slot takes the outer call's reply (finding) |
| `derived_values` | 3 settings, 7 numbers of methods, 2 fields, 1 step | computed values follow the variables, tableaux have the order of their names, moduli arrive, and methods if the client names none that does not exist |
| `gravity_cells` | tree of 4 leaves, every outcome of the comparisons, 3 spheres in any leaves, one without mass | lists partition the leaves and fit, every sphere is felt once, in forces and energies |
| `collision_cells` | 3 spheres, 4 cells, 4 positions, 2 radii, moves and bends, both conversions below zero | overlaps share a cell, except those of a sphere that starts in a wrapped cell; each acts once |
| `integration_step` | 1 or 3 spheres, 2 threads, parts divided up to twice, 2 steps, three sets of flags | parts tile the step, the acceleration is that of the first trial, forces see one instant, a step ends |

*Why the bounds are enough.* The flags of the queue tell only "empty" from "not
empty" and "none" from "some", so three items and a handful of steps reach every
combination, including the wrap of the counter (its modulus is a constant: 4 or
8 stand for 2^32). Three client calls are one call before, one during and one
after a simulation. A ring of four frames has an empty, a partly filled and a
full state; six frames overrun it and wrap around its end, two spheres make a
frame that can lose its first, its last or all, and three changes of their
number are one up, one down and one to none or back. One lost message is
enough for a damaged frame, and the property is about the others. Two messages
under way before the next frame is sent are a frame and its successor. Two clients are what the
check's walk over the map can confuse, and
their IDs leave a gap for the place a new one is inserted; time is bounded
by the periods themselves. Five calls are two nested pairs and one more. A tree
of four leaves has two levels below the root; what it does not reach is proved
for every tree (section 4). Three spheres and two threads leave one sphere
waiting while two run; two divisions are a division of a divided part. Two events of
`wire_format` are a setting and one that depends on it (the same value again, or
another), or a request beside a frame; what a message contains depends on
nothing older. A false
equation between coefficients would have to hold modulo both primes, 1009 and
2003, to pass.

*Deadlock* is switched off where the system may stop: after a client's calls are
used up, after the destructor has finished, after the worker has thrown, when
all lists are built and all forces calculated.

### Fairness

- the worker thread is scheduled (`WF` of its next step); its wait on a condition
  is not an enabled action until it is woken;
- the event loops of server and client run: `WF` of what handles a message or a
  posted call that is waiting, of the polling loops (they spin on
  `processEvents()`), of what a destructor does;
- timers fire and time passes (`Session`);
- the threads of a parallel loop run (`IntegrationStep`);
- client calls are never assumed to happen, nor is the loss of a message; only the
  `stopSimulation` that follows in the same script is, once the simulation has been
  seen to run;
- in `Session` the deletion of a receiver is assumed to end (`FinishDelete`), which
  `DestructorEnds` establishes but for the race of `destructor_hangs`.
- Strong fairness is used in `FrameStream` only, for `TimerUpdate` and the three
  slots that take a message: all are served by the event loop of one thread,
  which in each of its rounds serves every source that is ready (the 10 ms timer
  drains the socket until it is empty), so that neither exposes nor the animation
  nor the messages can keep the others out, although each disables the others
  while its handler runs.

## 4. Proofs

Every theorem is about all values of the constants that the module's named
assumption allows; a further hypothesis is written with the theorem. The
inductive invariants of frames, integration, collisions, derived values and messages
(`StreamInv`, `StepInv`, `GridInv`, `ValuesInv`, `WireInv`) were checked with TLC on the bounds of section 3 before they were proved.

| Module | What is proved | Beyond the assumption of the module |
|---|---|---|
| `WorkQueueProofs` | types, `NoLostWakeup`, the flag `isSimulating`, refinement of `RequestQueue`; without stops the worker never fails | the last: only starts, no wrap of the counter |
| `SimulationControlProofs` | types, `QuietMeansNotSimulating`, `StepsAreConserved`; the server's queue implements `WorkQueue` | conservation: what is asked for fits the 16 bits of the model's counter and the step counter |
| `FrameBufferProofs` | types, `ReaderStaysBehindWriter`, `LevelIsCurrent`, refinement of `BoundedFrames`, all of them also for the calls of `FrameStream`; `StreamTypeOK`, `LossStaysInItsFrame` | the ring holds the stream's images; for losses, it starts with no elements |
| `SessionProofs` | types, `RunningClientStays`, `RequestsMeetTheirSystem`, `ReadyMeansReady` | `PeriodsFit`; the last two `OnlyBeatsAreLost` |
| `MessageProofs` | of `RequestReply`: types, `ReplyAnswersItsCall`, `EveryoneAgreesOnCount`; of `WireFormat`: `MessagesAreUnderstood`, `ReadsStayInBounds`, `CopiesAgree` | of `RequestReply`, but for types: `NoNestedCalls`; `ReadsStayInBounds`: `StringsFit` |
| `GravityCellsProofs` | types, `ListsCoverOnce`, `ListsFit`, a leaf is its own near cell, `EverySphereFeltOnce` | none |
| `CollisionCellsProofs` | types, `EachActsOnce`, `OverlapsAreCandidates`, `OverlapsAreAlwaysCandidates` | the last: numbers below zero become 0 |
| `StepProofs` | of `IntegrationStep`: types, `PartsTileTheStep`, `AccIsOfTheFirstTrial`, `ForcesSeeOneInstant`, `OthersMoveAsAtBegin`, `PopReportsNewCalculations`; of `DerivedValues`: types, `DerivedFollows`, `SettingsAgree`, `OrdersAsNamed` | `OthersMoveAsAtBegin`: steps are not divided; `PopReportsNewCalculations`: there is always a sphere; the last: the five tableaux have their orders |

### 4.1 The hypotheses

None of them is there for the prover; each names a limit of the program.

- `NoNestedCalls`: no slot that runs while a call waits sends a request that waits
  itself. `nested_request` is a counterexample without it.
- `PeriodsFit == (MaxLost + 1) * (BeatPeriod + Late) < CheckPeriod`: the longest
  silence of a client that runs is shorter than the period of the check.
  `OnlyBeatsAreLost`: no registration and no update is lost. `outage` violates the
  first and shows what becomes of `ReadyMeansReady`; with a lost update the
  simulation is not the one the client has set up.
- `StepsConservedCorrect` bounds what is asked for: each request by `most`, and
  `MaxCalls * most` by the counter of the queue (modulo 2^16 in `SimulationControl`,
  since TLC calculates with 32 bits) and by the bound of the step counter.
  `steps_wrap` shows a counter that wraps.
- `RingSuitsStream`: the constants of the ring contain the images and numbers of
  spheres of the stream, as the program's ring does by its type.
  `InitialCounts = {0}`: `ActionSender` constructs its ring for no elements.
- `StringsFit`: the one string that is sent, the version of the server, fits the buffer
  of a receiver together with 15 bytes of headers. The code writes a `QByteArray` of any
  length and receives at most `BufferLength` bytes.
- `"wraps" \notin Conversions` (`SaturatingMissesNone`): the build saturates.
  `first_sphere_outside` reaches below the box and wraps.
- `MaxDivision = 0` (`UndividedCorrect`) and `0 \notin Counts` (`PopCorrect`): `speed_race` divides a
  step, `stale_counter` removes the last sphere.
- `NeverFailsWithoutStop`: only starts; `worker_fails` stops.
- `OrdersFollow` assumes `TableauIsOfOrder[method]` of each of the five methods: a
  statement without variables, which TLC evaluates (in the fields of `Primes`) when it
  checks `OrdersAsNamed`. What is proved is that the tableau steps find is whole and the
  one that is named.
- `GreatLevelCorrect` (listeners of great changes of the level are never off by more
  than one frame): the ring never changes its size; `frame_resize_level` changes it.

### 4.2 The arguments

*Queue.* `NoLostWakeup` is not inductive: to know that a sleeping worker has
nothing to do one has to know that `canWork` equals what `updateStatus` computes,
that `queueEmpty` is false whenever a request is in the list, and that the worker
only sleeps with `canWork` FALSE (`IInv`). For the refinement, what clients see of
the list is a recursive function (`Visible`); the lemmas about it (an element
added at the end, one removed at the front, nothing to see in an empty list) are
proved at the least place where they would fail.

*Simulation control.* `QueueIsAWorkQueue` shows that the system's steps are steps of
the queue, so `IInv` comes along. `QuietInv` adds what is under way: if the worker
sleeps and the server's flag is TRUE, a FALSE is posted; and if the client will
believe TRUE once it has read its channel, the server's flag is TRUE or the
client's own update is still on its way. `ConservedInv` adds up the steps in the
client's channel, the queue, the worker's hands, the counter, the posted replies
and the other channel (`Balance`).

*Frames.* The mapping cuts the ring at `readIndex`; a push at a full ring is the
abstract queue dropping its oldest frame. The indices are modular, so the lemmas
are about `NextIndex`, `CountBetween` and the slots between two indices. In the
stream every step is a step of the ring or leaves it alone, and what is proved
of the ring is used unchanged. For a loss `StreamInv` looks at the channel: since
a resize the ring is either `Untouched`, or `BeingFilled` with the frame
`frameCounter`, whose missing images are in the channel in order, before
everything newer, unless one of them was lost and the frame is `damaged`.

*Sessions.* `SilenceInv`: the time since a receiver was looked at is at most what
the lost beats, the beat under way and the timer add up to. `MeetInv` adds the
order of one channel: before every request there are the client's variables, in
the channel or in the receiver already.

*Requests.* `CallInv`: the single call that waits is not sent yet, under way,
answered in the channel or answered in the flag (four cases that exclude each
other), and the counts of the three places follow the case.

*Messages.* `EncodeFacts` and `ReadEncoded` say of any list of fields that what is read of
its bytes as their types is what was written, with the bytes behind it left over,
if no float is followed by anything (`FloatsLast`); for every action, reply and type of a variable
`AskFacts`, `AcknowledgementFacts` and `UpdateFacts` apply them to the layouts of the
two sides. `MessagesAreUnderstood` is not inductive, since the type of an answer is
told by `waitsFor` alone: `OneCall` says that exactly one request or reply of the call
that waits is under way, and none without one. For `CopiesAgree` the last update of a
variable that is under way has the client's value, and without one the server has it
(`Arrives`); the number of spheres goes both ways, and the client's update of it says 1
and precedes every request that can change the server's (`Opening`, `CountsOpen`,
`CountsFollow`). `Held` is needed because `set` compares what was given and converts
what is kept: a value that does not change must be one the client can hold.

*Gravity.* The lists of a leaf *together with the calls that are pending for it*
hold every leaf once (`Inv`); when nothing is pending the lists do so alone.
Disjoint non-empty cells are at most as many as leaves, by choosing a leaf in
each (`ListsFit`). The sum of a cell counts the spheres of its leaves, since two
children divide them (`SumsCount`); so a sphere feels another in the one listed
cell that holds its leaf, and itself not at all, its own leaf being near.

*Collisions.* `GridInv`: the box, the cells and the lists are those of the spheres
as they are. A cell number is an order-preserving function of the place
(`QuotientGrows`, `ScaledGrows`, `LimitedGrows`), the lower end of a sphere is below
the upper end of one it overlaps, and two ranges that start before the other ends
meet: for a sphere that does not start in a wrapped cell the range is an interval in
that order. Candidates are symmetric, so each acts as often as it is acted upon.

*Integration.* `StepInv` describes the stack of parts of a sphere (`Tiled`): every
part has the length of its depth and ends where the part below it is due next, the
lowest is the whole step, and the sphere's time is that of the topmost. Two halves
make up the part they come from by the lengths of the parts (`Units`, a recursive
function). Positions are replaced in the second parallel loop only, which begins
when all spheres have left the first. The lowest part's trial is the first one, with
`timeDiff` 0, so it reads speeds of the beginning whatever the others do; the stack keeps
it until the last `EndDivided` stores it.

*Derived values.* `ValuesInv` says of each computed value that it is current, or that
what the call under way has read for it so far is, or that a signal is posted which
has it computed again: a setting that overtakes a call has always posted its signal
first. The call is described by the accesses that are left of it (`Remaining`); that of
the tableau ends with the installation of the method the variable names, or, when the
method does not exist, of `Fallback`, which `set()` has called again (`Builds`, `Ends`).
Of each variable, the last setting in the channel, else the last in the queue, else
the server's value is the client's (`Arrives`).

### 4.3 What is only model-checked

- Liveness, which the prover cannot reach: `RequestServed`, `DestructorEnds`,
  `PollingEnds`, `EveryCallReturns`, `StepEnds`, `SettingsArrive`,
  `PainterCatchesUp`, `RunningClientConnects`, `GoneClientIsForgotten`.
- `Tableaux`: whether 142 coefficients satisfy the order conditions is a calculation.

Every safety invariant and every action property of the passing runs is stated by a
theorem; the two findings and the configurations of section 5 are TLC's.

## 5. Findings

Two runs refute what the code or its comments state:

- `worker_fails`: `popItem` waits with `if`; a worker woken by a start that is
  stopped before it has the mutex throws "WorkQueue failed.", and nobody catches.
- `nested_request`: a slot that sends a request during a waiting call gets the
  reply of the waiting call; the 5 ms timer of the grapher
  (`SimulationGrapher.cpp:33`) runs such a slot.

Further configurations, kept beside the runs, have TLC show what a property's
limits are; each checks one statement and is used the same way.

| Configuration | Module | Outcome | What it shows |
|---|---|---|---|
| `frame_stranded` | `MCWorkQueue` | violated | `popItem` puts a frame in front of the list and sets no flag; after a stop it stays there (`WorkQueue.hpp:67`) |
| `steps_wrap` | `MCWorkQueue` | violated | granting steps can leave fewer outstanding: the counter wraps (`WorkQueue.hpp:108`) |
| `freed_arrays` | `MCWorkQueue` | violated | `tearDown` frees the arrays of the gravity cells while a step that reads them is under way (`SphereCalculator.cpp:1156`) |
| `destructor_hangs` | `MCWorkQueue` | violated | the worker is deleted after it has set `hasFinished` and before it has emitted `finished()`: the second loop of the destructor waits for ever (`SphereCalculator.cpp:161`) |
| `start_unseen` | `SimulationControl` | violated | a FALSE posted before the start is delivered after it: the client waits for a TRUE that has passed, and never stops the simulation (`ServerTester.cpp:258`) |
| `flag_lags` | `SimulationControl` | violated | a posted FALSE is applied after a newer, direct TRUE: the flag is FALSE while steps are due (`Actions.hpp:31`) |
| `polling_ends_early` | `SimulationControl` | violated | a FALSE sent before the request reached the server ends the polling loop (`ServerTester.cpp:257`) |
| `frame_resize_level` | `FrameBuffer` | violated | a change of size empties the ring and tells nobody (`FrameBuffer.hpp:63`) |
| `frame_mixed` | `FrameStream` | violated | a frame that has lost a sphere ends with what the ring's memory held before, a sphere of the frame painted or dropped one turn of the ring ago; with `MaxLost = 0` it holds |
| `accepted_once` | `Session` | violated | if the one `clientAccepted` is lost, no later heartbeat is answered by another |
| `outage` | `Session` | violated | after an outage of one period the client works with a simulation that has none of its variables (`ActionSender.hpp:72`) |
| `list_full` | `MCCollisionCells` | violated | a full list throws for an element it already has (`TwoDimArray.hpp:147`) |
| `first_sphere_outside` | `MCCollisionCells` | violated | the radius of sphere 0 is not in the box; reaching below it, the sphere is entered into the last cell only, and overlaps are missed (`OverlapsAreAlwaysCandidates`) |
| `pair_energy` | `MCCollisionCells` | violated | the energy of two overlapping spheres is added once for each of them |
| `speed_race` | `IntegrationStep` | violated | in a divided step others are extrapolated with speeds of the beginning or of the end of the step, as threads happen to run |
| `stale_counter` | `IntegrationStep` | violated | without spheres the calculation counter is not reset and is reported later |
| `method_truncated` | `MCDerivedValues` | violated | the method's number is cut to eight bits: 256 selects the first method and stays in the variable |
| `copies_cross` | `MCDerivedValues` | violated | the server replaces an unknown method while the client sets another: the two settings cross, and the copies stay different ("Variables which are synchronized between client and server.", `Actions.hpp:15`) |
| `one_method_per_step` | `MCDerivedValues` | violated | a tableau assigned during a step: its stages are of one method, their sum of another |

Observations without a configuration: `buildGravityCells` doubles an inner
cell along `floor(log2(index)) % 3` while its children differ along another axis,
so inner boxes do not contain their children (the lists stay right, section 2.7;
the error of an approximation does not stay bounded by `maximumTheta`); and the
energy of near cells ignores the periodic images that the force takes;
`updateTargetTemperature` has no caller, although `Actions.hpp:59` says that the
temperature is "achieved by adjusting kinetic energy"; an accepted client's
`sendAllVariables` overwrites the server's `serverVersion` and
`serverFloatingType` with its own; a value that a client's `float` cannot hold is
sent again each time it is set;
after a re-registration (`outage`) the server numbers its frames from zero, and
the client begins no new frame until the numbers exceed those it has seen.

In `Session`, with punctual timers three lost heartbeats in a row are
survived, with timers late by half a second two are.

## 6. Not modelled

The physics of forces and energies is floating-point arithmetic, and so is the
geometry of `buildGravityCells`. Console output, version and dimension headers
hold no state that an order of events touches. The viewer's widgets, the control
of its frame rate and its OpenGL code, the system creator, the checks of the
tester, grapher and benchmark use the interfaces modelled here, and are the
environment of the models (the grapher's timer is what `nested_request` is about). `tearDown` of the whole server
(debug builds) deletes every receiver as the disconnection check deletes one. A
lost request or reply makes a client's call wait for ever, by the text of its
loop: modelling it would show nothing else.

## 7. Plan

1. *(done)* queue and worker, simulation control, frame buffer, with proofs.
2. *(done)* `Session`: registration, heartbeats and the check, with lost
   messages and time.
3. *(done)* `RequestReply`: the nested event loop, the number of spheres.
4. *(done)* `CellPairs` with its proof, and `GravityCells` over it.
5. *(done)* `CollisionCells`, `DerivedValues`, `IntegrationStep`, `Tableaux`.
6. *(done)* `FrameStream`, the composition of the ring with its writer, its reader
   and a lossy channel; `WireFormat`; the order conditions as a property of what
   steps find.
7. *(done)* Proofs: types and safety of all modules, the refinements of
   `RequestQueue`, `BoundedFrames` and, by `SimulationControl`, of `WorkQueue`.
8. Left: liveness, which stays with TLC; and the geometry of `buildGravityCells`, which
   `CellPairs` leaves open.
