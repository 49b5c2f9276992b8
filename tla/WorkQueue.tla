----------------------------- MODULE WorkQueue ------------------------------
(***************************************************************************)
(* The work queue of one simulation and the two threads that share it      *)
(* (Server/src/WorkQueue.cpp, Server/src/SimulationWorker.cpp and the      *)
(* destructor of Server/src/SphereCalculator.cpp).                         *)
(*                                                                         *)
(* The main thread appends client requests and grants integration steps;   *)
(* the worker thread pops one piece of work after the other and sleeps on  *)
(* a QWaitCondition when the flag canWork says that there is none.  Every  *)
(* method of the queue holds its mutex from the first to the last line, so *)
(* one method is one action, except popItem, which releases the mutex      *)
(* while it waits: Sleep is its first half, and Take... or Fail the rest,  *)
(* which begins only when the woken worker has the mutex again.            *)
(*                                                                         *)
(* A queued item is a client request (a member of Requests), the request   *)
(* for one frame (FrameItem) or the end of the worker (StopItem).          *)
(*                                                                         *)
(* The end of the two threads is a protocol of its own: the worker sets    *)
(* hasFinished and then emits finished(), the destructor waits in a first  *)
(* loop for hasFinished and deletes the worker, and in a second one for    *)
(* the QThread, which quits when finished() reaches it through the event   *)
(* queue of the main thread and is deleted when it has ended.              *)
(***************************************************************************)
EXTENDS Integers, Sequences

CONSTANTS
  Requests,          \* client requests that become items of the queue
  UpdatingRequests,  \* those whose handler calls sendFrameData()
  SwitchRequests,    \* those that update the variable frameSending
  FrameItem,         \* workQueue/prepareFrameData
  StopItem,          \* workQueue/stopWorker
  StepItem,          \* workQueue/calculateStep
  NoItem,            \* the worker holds no item
  StepCounts,        \* step counts clients ask for (calculateSomeSteps)
  StepModulus,       \* 2^32: simulationSteps is an unsigned int
  Commands,          \* which of "start", "stop" and "tearDown" are issued
  MaxItems,          \* bound: items in the queue when a client adds one
  MaxSteps           \* bound: steps outstanding after a grant, before wrapping

ASSUME WorkQueueAssumption ==
  /\ UpdatingRequests \subseteq Requests
  /\ SwitchRequests \subseteq Requests
  /\ FrameItem \notin Requests
  /\ StopItem \notin Requests \union {FrameItem}
  /\ StepItem \notin Requests \union {FrameItem, StopItem}
  /\ NoItem \notin Requests \union {FrameItem, StopItem, StepItem}
  /\ StepCounts \subseteq Nat \ {0}
  /\ StepModulus \in Nat \ {0}
  /\ Commands \subseteq {"start", "stop", "tearDown"}
  /\ MaxItems \in Nat
  /\ MaxSteps \in Nat

VARIABLES
  items,             \* the list of queued items
  queueEmpty,        \* "Flag for work queue emptyness."
  canWork,           \* "Flag showing if there is work to do."
  simulationSteps,   \* steps still to be simulated
  continuous,        \* continuousSimulationRunning
  isSimulating,      \* "Flag showing if the worker is simulating."
  frameSending,      \* the simulation variable behind sendFramesRegularly
  worker,            \* where the worker thread is
  current,           \* the item popItem() returned to it
  stopPosted,        \* SimulationWorker::stop is posted to its event queue
  main,              \* where the main thread is: serving or destroying
  thread             \* what has become of the QThread of the worker

queueVars == <<items, queueEmpty, canWork, simulationSteps, continuous>>
vars == <<items, queueEmpty, canWork, simulationSteps, continuous,
          isSimulating, frameSending, worker, current, stopPosted, main, thread>>

QueuedItems == Requests \union {FrameItem, StopItem}

WorkerStates ==
  {"popping",    \* about to call popItem()
   "waiting",    \* inside workCondition.wait(), not yet woken
   "signalled",  \* woken, has to lock the mutex again
   "handling",   \* in handleAction()
   "failed",     \* threw std::runtime_error: the process is gone
   "finished",   \* left the loop of work() and set hasFinished
   "returned"}   \* left work(), behind emit finished()

MainStates ==
  {"serving",    \* the event loop of the server
   "tornDown",   \* in ~SphereCalculator, after tearDown()
   "stopping",   \* has posted SimulationWorker::stop
   "spinning",   \* busy-waits for getHasFinished()
   "deleted",    \* worker and queue are deleted; processes events until
                 \* isSimulationThreadDestroyed
   "destroyed"}  \* has left ~SphereCalculator

ThreadStates ==
  {"running",     \* nobody has told it to quit
   "quitPosted",  \* finished() was emitted, QThread::quit() is posted
   "quitting",    \* quit() was called
   "ended",       \* its event loop has ended, deleteLater() is posted
   "lost",        \* finished() was emitted by a deleted worker: to nobody
   "crashed"}     \* or the deleted worker took the process with it

TypeOK ==
  /\ items \in Seq(QueuedItems)
  /\ queueEmpty \in BOOLEAN
  /\ canWork \in BOOLEAN
  /\ simulationSteps \in 0 .. StepModulus - 1
  /\ continuous \in BOOLEAN
  /\ isSimulating \in BOOLEAN
  /\ frameSending \in BOOLEAN
  /\ worker \in WorkerStates
  /\ current \in QueuedItems \union {StepItem, NoItem}
  /\ stopPosted \in BOOLEAN
  /\ main \in MainStates
  /\ thread \in ThreadStates

Init ==
  /\ items = <<>>
  /\ queueEmpty = TRUE
  /\ canWork = FALSE
  /\ simulationSteps = 0
  /\ continuous = FALSE
  /\ isSimulating = FALSE
  /\ frameSending = FALSE
  /\ worker = "popping"
  /\ current = NoItem
  /\ stopPosted = FALSE
  /\ main = "serving"
  /\ thread = "running"

-----------------------------------------------------------------------------
\* No integration step is due.
Idle == simulationSteps = 0 /\ ~continuous

UpdateStatusForgetsSteps == canWork' = (~queueEmpty' \/ continuous')

\* updateStatus(), evaluated on the values the fields have after the step.
UpdateStatus == canWork' = (~queueEmpty' \/ simulationSteps' > 0 \/ continuous')

\* workCondition.wakeOne(): a no-op unless the worker waits.
WakeOne == worker' = IF worker = "waiting" THEN "signalled" ELSE worker

-----------------------------------------------------------------------------
\* The main thread.  The process is gone once the worker has thrown.

QueueItemInFront(item) ==
  /\ items' = <<item>> \o items
  /\ queueEmpty' = FALSE
  /\ UNCHANGED <<simulationSteps, continuous>>
  /\ UpdateStatus

\* pushItem(WorkQueueItem&): what it does to the fields ...
QueueItem(item) ==
  /\ items' = Append(items, item)
  /\ queueEmpty' = FALSE
  /\ UNCHANGED <<simulationSteps, continuous>>
  /\ UpdateStatus

PushItemForgetsWake(item) == QueueItem(item) /\ UNCHANGED worker

\* ... and the wake-up.
PushItem(item) ==
  /\ QueueItem(item)
  /\ IF canWork' THEN WakeOne ELSE UNCHANGED worker

\* ActionReceiver::processRequest() queues a request and wakes the worker.
PushRequest(r) ==
  /\ main = "serving" /\ worker # "failed"
  /\ Len(items) < MaxItems
  /\ PushItem(r)
  /\ UNCHANGED <<isSimulating, frameSending, current, stopPosted, main, thread>>

\* pushSimulationSteps(steps) with steps > 0.
PushSimulationSteps(n) ==
  /\ main = "serving" /\ worker # "failed"
  /\ simulationSteps + n <= MaxSteps
  /\ simulationSteps' = (simulationSteps + n) % StepModulus
  /\ UNCHANGED <<items, queueEmpty, continuous>>
  /\ UpdateStatus
  /\ isSimulating' = TRUE
  /\ WakeOne
  /\ UNCHANGED <<frameSending, current, stopPosted, main, thread>>

\* pushSimulationSteps(0): startSimulation.
StartContinuous ==
  /\ main = "serving" /\ worker # "failed"
  /\ "start" \in Commands
  /\ simulationSteps' = 0
  /\ continuous' = TRUE
  /\ UNCHANGED <<items, queueEmpty>>
  /\ UpdateStatus
  /\ isSimulating' = TRUE
  /\ WakeOne
  /\ UNCHANGED <<frameSending, current, stopPosted, main, thread>>

StopSimulation ==
  /\ main = "serving" /\ worker # "failed"
  /\ "stop" \in Commands
  /\ continuous' = FALSE
  /\ simulationSteps' = 0
  /\ UNCHANGED <<items, queueEmpty>>
  /\ UpdateStatus
  /\ UNCHANGED <<isSimulating, frameSending, worker, current, stopPosted, main, thread>>

\* tearDown() calls reset(); only ~SphereCalculator calls tearDown().
Reset ==
  /\ main = "serving" /\ worker # "failed"
  /\ "tearDown" \in Commands
  /\ continuous' = FALSE
  /\ simulationSteps' = 0
  /\ items' = <<>>
  /\ queueEmpty' = TRUE
  /\ isSimulating' = FALSE
  /\ UpdateStatus
  /\ main' = "tornDown"
  /\ UNCHANGED <<frameSending, worker, current, stopPosted, thread>>

\* emit requestingWorkerStop(): first the queued call to the worker object.
PostWorkerStop ==
  /\ main = "tornDown" /\ worker # "failed"
  /\ stopPosted' = TRUE
  /\ main' = "stopping"
  /\ UNCHANGED <<queueVars, isSimulating, frameSending, worker, current, thread>>

\* emit requestingWorkerStop(): then the direct call to WorkQueue::stop().
PushStopItem ==
  /\ main = "stopping" /\ worker # "failed"
  /\ PushItem(StopItem)
  /\ main' = "spinning"
  /\ UNCHANGED <<isSimulating, frameSending, current, stopPosted, thread>>

\* The destructor's busy loop ends when hasFinished is set: the worker may not
\* have emitted finished() yet.
DeleteWorker ==
  /\ main = "spinning"
  /\ worker \in {"finished", "returned"}
  /\ main' = "deleted"
  /\ UNCHANGED <<queueVars, isSimulating, frameSending, worker, current,
                 stopPosted, thread>>

endVars == <<queueVars, isSimulating, frameSending, current, stopPosted>>

\* The destructor's second loop processes events; the first one is
\* QThread::quit(), connected to finished() of the worker, ...
QuitThread ==
  /\ main = "deleted"
  /\ thread = "quitPosted"
  /\ thread' = "quitting"
  /\ UNCHANGED <<endVars, worker, main>>

\* ... the last one deletes the thread, connected to its own finished(), and so
\* raises isSimulationThreadDestroyed, which ends the loop.
DestroyThread ==
  /\ main = "deleted"
  /\ thread = "ended"
  /\ main' = "destroyed"
  /\ UNCHANGED <<endVars, worker, thread>>

-----------------------------------------------------------------------------
\* The worker thread.

\* popItem() up to workCondition.wait().
Sleep ==
  /\ worker = "popping"
  /\ ~canWork
  /\ isSimulating' = (isSimulating /\ ~Idle)
  /\ worker' = "waiting"
  /\ UNCHANGED <<queueVars, frameSending, current, stopPosted, main, thread>>

\* popItem() holds the mutex and goes on to take an item.  It does not look at
\* canWork again after it has waited.
HasMutex == (worker = "popping" /\ canWork) \/ worker = "signalled"

\* The first lines of popItem(), which are behind a worker that has waited.
LowerIsSimulating ==
  isSimulating' = (isSimulating /\ ~(worker = "popping" /\ Idle))

RefreshAlways == queueEmpty' = TRUE /\ UpdateStatus

\* The last lines of popItem(): the flags are refreshed for an empty list only.
RefreshWhenEmpty ==
  IF items' = <<>>
  THEN queueEmpty' = TRUE /\ UpdateStatus
  ELSE UNCHANGED <<queueEmpty, canWork>>

\* popItem() returns the first queued item; queued items come before steps.
TakeItem ==
  /\ HasMutex
  /\ items # <<>>
  /\ current' = Head(items)
  /\ items' = Tail(items)
  /\ UNCHANGED <<simulationSteps, continuous>>
  /\ RefreshWhenEmpty
  /\ LowerIsSimulating
  /\ worker' = "handling"
  /\ UNCHANGED <<frameSending, stopPosted, main, thread>>

TakeStepCountsBelowZero(frameDue) ==
  /\ HasMutex
  /\ items = <<>>
  /\ ~Idle
  /\ frameDue => frameSending
  /\ current' = StepItem
  /\ simulationSteps' = simulationSteps - 1
  /\ items' = IF frameDue THEN <<FrameItem>> ELSE <<>>
  /\ UNCHANGED continuous
  /\ RefreshWhenEmpty
  /\ LowerIsSimulating
  /\ worker' = "handling"
  /\ UNCHANGED <<frameSending, stopPosted, main, thread>>

\* popItem() returns one integration step.  frameDue: frames are sent and the
\* animation timer has expired, so a frame is put in front of the queue.
TakeStep(frameDue) ==
  /\ HasMutex
  /\ items = <<>>
  /\ ~Idle
  /\ frameDue => frameSending
  /\ current' = StepItem
  /\ simulationSteps' = IF simulationSteps > 0 THEN simulationSteps - 1 ELSE 0
  /\ items' = IF frameDue THEN <<FrameItem>> ELSE <<>>
  /\ UNCHANGED continuous
  /\ RefreshWhenEmpty
  /\ LowerIsSimulating
  /\ worker' = "handling"
  /\ UNCHANGED <<frameSending, stopPosted, main, thread>>

\* popItem() finds neither an item nor a step and throws.
Fail ==
  /\ HasMutex
  /\ items = <<>>
  /\ Idle
  /\ worker' = "failed"
  /\ LowerIsSimulating
  /\ UNCHANGED <<queueVars, frameSending, current, stopPosted, main, thread>>

\* After handleAction() the loop of work() runs the posted calls and goes on
\* unless running has become FALSE; then hasFinished is set.
NextRound == worker' = IF current = StopItem \/ stopPosted
                       THEN "finished" ELSE "popping"

\* updateSphere and updateAllSpheres: sendFrameData() queues a frame when frames
\* are being sent (the worker is not waiting, so its wakeOne is a no-op).
HandleUpdate ==
  /\ worker = "handling"
  /\ current \in UpdatingRequests
  /\ IF frameSending THEN QueueItem(FrameItem) ELSE UNCHANGED queueVars
  /\ current' = NoItem
  /\ NextRound
  /\ UNCHANGED <<isSimulating, frameSending, stopPosted, main, thread>>

\* updateVariable(frameSending): the worker stores the value it was sent.
HandleSwitch ==
  /\ worker = "handling"
  /\ current \in SwitchRequests
  /\ frameSending' \in BOOLEAN
  /\ current' = NoItem
  /\ NextRound
  /\ UNCHANGED <<queueVars, isSimulating, stopPosted, main, thread>>

\* Any other item leaves the queue and its flags alone.
HandleOther ==
  /\ worker = "handling"
  /\ current \notin UpdatingRequests \union SwitchRequests
  /\ current' = NoItem
  /\ NextRound
  /\ UNCHANGED <<queueVars, isSimulating, frameSending, stopPosted, main, thread>>

\* emit finished().  If the worker has been deleted since it set hasFinished, the
\* behaviour is undefined: no connection is found, or the process crashes.
EmitFinished ==
  /\ worker = "finished"
  /\ worker' = "returned"
  /\ IF main = "deleted" THEN thread' \in {"lost", "crashed"}
                         ELSE thread' = "quitPosted"
  /\ UNCHANGED <<endVars, main>>

\* The event loop of the thread ends: QThread emits a finished() of its own.
EndThread ==
  /\ thread = "quitting"
  /\ thread' = "ended"
  /\ UNCHANGED <<endVars, worker, main>>

-----------------------------------------------------------------------------
MainNext ==
  \/ \E r \in Requests : PushRequest(r)
  \/ \E n \in StepCounts : PushSimulationSteps(n)
  \/ StartContinuous
  \/ StopSimulation
  \/ Reset
  \/ PostWorkerStop
  \/ PushStopItem
  \/ DeleteWorker
  \/ QuitThread
  \/ DestroyThread

WorkerNext ==
  \/ Sleep
  \/ TakeItem
  \/ \E frameDue \in BOOLEAN : TakeStep(frameDue)
  \/ Fail
  \/ HandleUpdate
  \/ HandleSwitch
  \/ HandleOther
  \/ EmitFinished
  \/ EndThread

Next == MainNext \/ WorkerNext

Spec == Init /\ [][Next]_vars

\* The operating system runs the worker thread, and a destructor that has begun
\* runs to its end; nothing obliges clients to ask for anything.
Fairness ==
  /\ WF_vars(WorkerNext)
  /\ WF_vars(PostWorkerStop \/ PushStopItem \/ DeleteWorker
               \/ QuitThread \/ DestroyThread)

FairSpec == Spec /\ Fairness

-----------------------------------------------------------------------------
(* Safety *)

\* queueEmpty (WorkQueue.hpp:64) is kept by pushItem, popItem and reset.  When it
\* says "not empty" there is an item, and when it says "empty" no client request
\* is in the list: at most the one frame that popItem() itself put in front.
QueueEmptyIsAboutRequests ==
  /\ ~queueEmpty => items # <<>>
  /\ queueEmpty => items \in {<<>>, <<FrameItem>>}

\* canWork (WorkQueue.hpp:67) is what the worker looks at before it sleeps or
\* takes something: TRUE means that there is something to take, FALSE that
\* neither a step nor a client request is outstanding.
CanWorkIsSound ==
  /\ canWork => items # <<>> \/ ~Idle
  /\ ~canWork => queueEmpty /\ Idle

\* The worker goes to sleep only under the mutex, when canWork is FALSE.
SleepsWithoutWork == worker = "waiting" => ~canWork

\* The inductive invariant: together these exclude a lost wake-up.
IInv == QueueEmptyIsAboutRequests /\ CanWorkIsSound /\ SleepsWithoutWork

\* No wake-up is lost: while the worker waits on the condition and nobody has
\* woken it, no step and no client request is outstanding, whatever the order
\* in which the two threads took the mutex (pushItem, pushSimulationSteps and
\* stopSimulation against popItem).
NoLostWakeup ==
  worker = "waiting" => Idle /\ items \in {<<>>, <<FrameItem>>}

\* The field isSimulating (WorkQueue.hpp:79) is right: it is TRUE while steps
\* are due, and FALSE when the worker waits.
IsSimulatingIsRight ==
  /\ ~Idle => isSimulating
  /\ worker = "waiting" => ~isSimulating

\* popItem() throws "WorkQueue failed." (WorkQueue.cpp:131) when it was let
\* through although there is nothing to do; nobody catches the exception.
WorkerNeverFails == worker # "failed"

\* tearDown() deletes the arrays of the gravity cells right after reset(), in the
\* main thread: no step that reads them may be under way then, nor begin.
ArraysOutliveSteps ==
  main # "serving" => ~(worker = "handling" /\ current = StepItem)

\* WorkQueue.hpp:67 calls canWork the "Flag showing if there is work to do.": an
\* item in the list is work to do.
ItemsAreWork == items # <<>> => canWork

\* WorkQueue.hpp:108 says of pushSimulationSteps() "Increase simulation steps".
StepsIncrease ==
  [][\A n \in StepCounts :
       PushSimulationSteps(n) => simulationSteps' > simulationSteps]_vars

-----------------------------------------------------------------------------
(* Refinement *)

\* The frames the server adds on its own are invisible to clients: what is left
\* of a list without them.
Visible(list) ==
  LET upTo[n \in 0 .. Len(list)] ==
        IF n = 0 THEN <<>>
        ELSE IF list[n] = FrameItem THEN upTo[n - 1]
        ELSE Append(upTo[n - 1], list[n])
  IN  upTo[Len(list)]

RQ == INSTANCE RequestQueue WITH
        Items <- Requests \union {StopItem},
        pending <- Visible(items),
        allowance <- simulationSteps,
        unlimited <- continuous,
        serving <- IF current = FrameItem THEN NoItem ELSE current

\* Clients see a queue that serves each request once and in order, and steps
\* only when no request waits (pushItem, popItem, stopSimulation, reset).
ImplementsRequestQueue == RQ!Spec

-----------------------------------------------------------------------------
(* Liveness, under Fairness *)

Queued(r) == \E i \in DOMAIN items : items[i] = r

\* Every queued request is taken by the worker, also while a continuous
\* simulation runs and frames are sent, unless the simulation is torn down or
\* the worker throws.
RequestServed ==
  \A r \in Requests :
    Queued(r) ~> (current = r \/ main # "serving" \/ worker = "failed")

\* The destructor has deleted the worker between its assignment to hasFinished
\* and its emission of finished().
DeletedUnderTheWorker == thread \in {"lost", "crashed"}

\* Both loops of ~SphereCalculator end, wherever the worker was when the queue was
\* reset, unless the worker throws or is deleted before it has emitted finished().
DestructorEnds ==
  main = "tornDown" ~>
    (main = "destroyed" \/ worker = "failed" \/ DeletedUnderTheWorker)

\* The same without the last exception, which the code does not exclude: nobody
\* tells the thread to quit and the second loop (SphereCalculator.cpp:161) waits
\* for a thread that has nothing more to do.
DestructorReturns ==
  main = "tornDown" ~> (main = "destroyed" \/ worker = "failed")
=============================================================================
