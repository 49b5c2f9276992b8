--------------------------- MODULE WorkQueueProofs --------------------------
(***************************************************************************)
(* Theorems about WorkQueue for every set of requests, every width of the  *)
(* step counter and every bound.                                           *)
(***************************************************************************)
EXTENDS WorkQueue, SequenceTheorems, WellFoundedInduction, TLAPS

(* Type correctness *)

\* updateStatus() leaves a Boolean in canWork.
LEMMA StatusTyped == UpdateStatus => canWork' \in BOOLEAN
BY Zenon DEF UpdateStatus

\* The step counter of an unsigned int stays in its range when it wraps.
LEMMA WrapInRange ==
  ASSUME NEW k \in Nat
  PROVE  k % StepModulus \in 0 .. StepModulus - 1
BY WorkQueueAssumption

\* pushItem() keeps the types of the fields it writes.
LEMMA QueueItemTyped ==
  ASSUME TypeOK, NEW item \in QueuedItems, QueueItem(item)
  PROVE  /\ items' \in Seq(QueuedItems)
         /\ queueEmpty' \in BOOLEAN
         /\ canWork' \in BOOLEAN
         /\ simulationSteps' \in 0 .. StepModulus - 1
         /\ continuous' \in BOOLEAN
<1>1. items' \in Seq(QueuedItems)
  BY SMT DEF TypeOK, QueueItem
<1>2. canWork' \in BOOLEAN
  BY StatusTyped DEF QueueItem
<1>3. /\ queueEmpty' \in BOOLEAN
      /\ simulationSteps' \in 0 .. StepModulus - 1
      /\ continuous' \in BOOLEAN
  BY Zenon DEF TypeOK, QueueItem
<1> QED
  BY <1>1, <1>2, <1>3

\* Every step of either thread keeps the types: the list holds queued items
\* only and the step counter stays within the width of an unsigned int.
THEOREM TypeCorrect == Spec => []TypeOK
<1>1. Init => TypeOK
  <2> SUFFICES ASSUME Init PROVE TypeOK
    OBVIOUS
  <2>1. items \in Seq(QueuedItems) /\ simulationSteps \in 0 .. StepModulus - 1
    BY WorkQueueAssumption DEF Init
  <2> QED
    BY <2>1 DEF Init, TypeOK, WorkerStates, MainStates, ThreadStates
<1>2. TypeOK /\ [Next]_vars => TypeOK'
  <2> SUFFICES ASSUME TypeOK, [Next]_vars PROVE TypeOK'
    OBVIOUS
  <2> USE WorkQueueAssumption
  <2>1. ASSUME NEW r \in Requests, PushRequest(r) PROVE TypeOK'
    BY <2>1, QueueItemTyped
       DEF PushRequest, PushItem, WakeOne, TypeOK, QueuedItems, WorkerStates
  <2>2. ASSUME NEW n \in StepCounts, PushSimulationSteps(n) PROVE TypeOK'
    <3>1. simulationSteps + n \in Nat
      BY DEF TypeOK
    <3>2. simulationSteps' \in 0 .. StepModulus - 1
      BY <2>2, <3>1, WrapInRange DEF PushSimulationSteps
    <3> QED
      BY <2>2, <3>2, StatusTyped
         DEF PushSimulationSteps, WakeOne, TypeOK, WorkerStates
  <2>3. CASE StartContinuous
    BY <2>3, StatusTyped DEF StartContinuous, WakeOne, TypeOK, WorkerStates
  <2>4. CASE StopSimulation
    <3>1. simulationSteps' \in 0 .. StepModulus - 1
      BY <2>4 DEF StopSimulation
    <3> QED
      BY <2>4, <3>1, StatusTyped DEF StopSimulation, TypeOK
  <2>5. CASE Reset
    <3>1. items' \in Seq(QueuedItems) /\ simulationSteps' \in 0 .. StepModulus - 1
      BY <2>5 DEF Reset
    <3> QED
      BY <2>5, <3>1, StatusTyped DEF Reset, TypeOK, MainStates
  <2>6. CASE PostWorkerStop
    BY <2>6 DEF PostWorkerStop, queueVars, TypeOK, MainStates
  <2>7. CASE PushStopItem
    BY <2>7, QueueItemTyped
       DEF PushStopItem, PushItem, WakeOne, TypeOK, QueuedItems, WorkerStates,
           MainStates
  <2>8. CASE DeleteWorker
    BY <2>8 DEF DeleteWorker, queueVars, TypeOK, MainStates
  <2>9. CASE Sleep
    BY <2>9 DEF Sleep, queueVars, TypeOK, WorkerStates
  <2>10. CASE TakeItem
    <3>1. current' \in QueuedItems /\ items' \in Seq(QueuedItems)
      BY <2>10 DEF TakeItem, TypeOK
    <3>2. queueEmpty' \in BOOLEAN /\ canWork' \in BOOLEAN
      BY <2>10, StatusTyped DEF TakeItem, RefreshWhenEmpty, TypeOK
    <3> QED
      BY <2>10, <3>1, <3>2 DEF TakeItem, LowerIsSimulating, TypeOK, WorkerStates
  <2>11. ASSUME NEW due \in BOOLEAN, TakeStep(due) PROVE TypeOK'
    <3>1. <<>> \in Seq(QueuedItems) /\ <<FrameItem>> \in Seq(QueuedItems)
      BY DEF QueuedItems
    <3>2. items' \in Seq(QueuedItems)
      BY <2>11, <3>1 DEF TakeStep
    <3>3. queueEmpty' \in BOOLEAN /\ canWork' \in BOOLEAN
      BY <2>11, StatusTyped DEF TakeStep, RefreshWhenEmpty, TypeOK
    <3>4. simulationSteps' \in 0 .. StepModulus - 1
      BY <2>11 DEF TakeStep, TypeOK
    <3> QED
      BY <2>11, <3>2, <3>3, <3>4
         DEF TakeStep, LowerIsSimulating, TypeOK, WorkerStates
  <2>12. CASE Fail
    BY <2>12 DEF Fail, LowerIsSimulating, queueVars, TypeOK, WorkerStates
  <2>13. CASE HandleUpdate
    <3>1. FrameItem \in QueuedItems
      BY DEF QueuedItems
    <3>2. /\ items' \in Seq(QueuedItems)
          /\ queueEmpty' \in BOOLEAN
          /\ canWork' \in BOOLEAN
          /\ simulationSteps' \in 0 .. StepModulus - 1
          /\ continuous' \in BOOLEAN
      BY <2>13, <3>1, QueueItemTyped DEF HandleUpdate, TypeOK, queueVars
    <3> QED
      BY <2>13, <3>2 DEF HandleUpdate, NextRound, TypeOK, WorkerStates
  <2>14. CASE HandleSwitch
    BY <2>14 DEF HandleSwitch, NextRound, queueVars, TypeOK, WorkerStates
  <2>15. CASE HandleOther
    BY <2>15 DEF HandleOther, NextRound, queueVars, TypeOK, WorkerStates
  <2>16. CASE UNCHANGED vars
    BY <2>16 DEF vars, TypeOK
  <2>17. CASE QuitThread \/ DestroyThread \/ EmitFinished \/ EndThread
    BY <2>17 DEF QuitThread, DestroyThread, EmitFinished, EndThread, endVars, queueVars,
                 TypeOK, MainStates, WorkerStates, ThreadStates
  <2> QED
    BY <2>1, <2>2, <2>3, <2>4, <2>5, <2>6, <2>7, <2>8, <2>9, <2>10, <2>11,
       <2>12, <2>13, <2>14, <2>15, <2>16, <2>17 DEF Next, MainNext, WorkerNext
<1>3. QED
  BY <1>1, <1>2, PTL DEF Spec

-----------------------------------------------------------------------------
(* The flags of the queue and the sleeping worker *)

\* What pushItem() does to the flags.
LEMMA QueueItemFlags ==
  ASSUME TypeOK, NEW item \in QueuedItems, QueueItem(item)
  PROVE  items' # <<>> /\ ~queueEmpty' /\ canWork'
<1>1. items' # <<>>
  BY SMT DEF TypeOK, QueueItem
<1>2. ~queueEmpty' /\ canWork'
  BY Zenon DEF QueueItem, UpdateStatus
<1> QED
  BY <1>1, <1>2

\* A single item leaves an empty tail.
LEMMA TailOfOne ==
  ASSUME NEW s \in Seq(QueuedItems), s # <<>>, Tail(s) # <<>>, NEW e
  PROVE  s # <<e>>
<1>1. SUFFICES ASSUME s = <<e>> PROVE FALSE
  OBVIOUS
<1>2. Len(<<e>>) = 1
  OBVIOUS
<1>3. Len(Tail(s)) = 0 /\ Tail(s) \in Seq(QueuedItems)
  BY <1>1, <1>2, HeadTailProperties
<1>4. QED
  BY <1>3, EmptySeq

\* The flags mean what they should and the worker sleeps only when canWork is
\* FALSE: no interleaving of the mutex holders invalidates this.
THEOREM FlagsCorrect == Spec => []IInv
<1>1. Init => IInv
  BY DEF Init, IInv, QueueEmptyIsAboutRequests, CanWorkIsSound,
         SleepsWithoutWork, Idle
<1>2. TypeOK /\ TypeOK' /\ IInv /\ [Next]_vars => IInv'
  <2> SUFFICES ASSUME TypeOK, TypeOK', IInv, [Next]_vars PROVE IInv'
    OBVIOUS
  <2> USE DEF IInv, QueueEmptyIsAboutRequests, CanWorkIsSound,
              SleepsWithoutWork, Idle
  <2>1. ASSUME NEW r \in Requests, PushRequest(r) PROVE IInv'
    BY <2>1, QueueItemFlags DEF PushRequest, PushItem, WakeOne, QueuedItems
  <2>2. ASSUME NEW n \in StepCounts, PushSimulationSteps(n) PROVE IInv'
    BY <2>2 DEF PushSimulationSteps, UpdateStatus, WakeOne, TypeOK
  <2>3. CASE StartContinuous
    BY <2>3 DEF StartContinuous, UpdateStatus, WakeOne, TypeOK
  <2>4. CASE StopSimulation
    BY <2>4 DEF StopSimulation, UpdateStatus, TypeOK
  <2>5. CASE Reset
    BY <2>5 DEF Reset, UpdateStatus, TypeOK
  <2>6. CASE PostWorkerStop
    BY <2>6 DEF PostWorkerStop, queueVars
  <2>7. CASE PushStopItem
    BY <2>7, QueueItemFlags DEF PushStopItem, PushItem, WakeOne, QueuedItems
  <2>8. CASE DeleteWorker
    BY <2>8 DEF DeleteWorker, queueVars
  <2>9. CASE Sleep
    BY <2>9 DEF Sleep, queueVars
  <2>10. CASE TakeItem
    BY <2>10, TailOfOne DEF TakeItem, RefreshWhenEmpty, UpdateStatus, TypeOK
  <2>11. ASSUME NEW due \in BOOLEAN, TakeStep(due) PROVE IInv'
    BY <2>11 DEF TakeStep, RefreshWhenEmpty, UpdateStatus, TypeOK
  <2>12. CASE Fail
    BY <2>12 DEF Fail, queueVars
  <2>13. CASE HandleUpdate
    BY <2>13, QueueItemFlags DEF HandleUpdate, NextRound, QueuedItems, queueVars
  <2>14. CASE HandleSwitch
    BY <2>14 DEF HandleSwitch, NextRound, queueVars
  <2>15. CASE HandleOther
    BY <2>15 DEF HandleOther, NextRound, queueVars
  <2>16. CASE UNCHANGED vars
    BY <2>16 DEF vars
  <2>17. CASE QuitThread \/ DestroyThread \/ EmitFinished \/ EndThread
    BY <2>17 DEF QuitThread, DestroyThread, EmitFinished, EndThread, endVars, queueVars
  <2> QED
    BY <2>1, <2>2, <2>3, <2>4, <2>5, <2>6, <2>7, <2>8, <2>9, <2>10, <2>11,
       <2>12, <2>13, <2>14, <2>15, <2>16, <2>17 DEF Next, MainNext, WorkerNext
<1>3. QED
  BY <1>1, <1>2, TypeCorrect, PTL DEF Spec

\* No wake-up is lost, for any number of clients' requests and steps.
THEOREM NoWakeupLost == Spec => []NoLostWakeup
<1>1. IInv => NoLostWakeup
  BY DEF IInv, NoLostWakeup, SleepsWithoutWork, CanWorkIsSound,
         QueueEmptyIsAboutRequests
<1>2. QED
  BY <1>1, FlagsCorrect, PTL

-----------------------------------------------------------------------------
(* The field isSimulating *)

\* isSimulating is TRUE while steps are due and FALSE when the worker waits.
THEOREM IsSimulatingCorrect == Spec => []IsSimulatingIsRight
<1>1. Init => IsSimulatingIsRight
  BY DEF Init, IsSimulatingIsRight, Idle
<1>2. TypeOK /\ TypeOK' /\ IInv /\ IsSimulatingIsRight /\ [Next]_vars
        => IsSimulatingIsRight'
  <2> SUFFICES ASSUME TypeOK, TypeOK', IInv, IsSimulatingIsRight, [Next]_vars
               PROVE  IsSimulatingIsRight'
    OBVIOUS
  <2> USE DEF IsSimulatingIsRight, Idle
  <2>1. ASSUME NEW r \in Requests, PushRequest(r) PROVE IsSimulatingIsRight'
    BY <2>1 DEF PushRequest, PushItem, QueueItem, WakeOne
  <2>2. ASSUME NEW n \in StepCounts, PushSimulationSteps(n)
        PROVE  IsSimulatingIsRight'
    BY <2>2 DEF PushSimulationSteps, WakeOne
  <2>3. CASE StartContinuous
    BY <2>3 DEF StartContinuous, WakeOne
  <2>4. CASE StopSimulation
    BY <2>4 DEF StopSimulation
  <2>5. CASE Reset
    BY <2>5 DEF Reset
  <2>6. CASE PostWorkerStop
    BY <2>6 DEF PostWorkerStop, queueVars
  <2>7. CASE PushStopItem
    BY <2>7 DEF PushStopItem, PushItem, QueueItem, WakeOne
  <2>8. CASE DeleteWorker
    BY <2>8 DEF DeleteWorker, queueVars
  <2>9. CASE Sleep
    BY <2>9 DEF Sleep, queueVars, IInv, CanWorkIsSound
  <2>10. CASE TakeItem
    BY <2>10 DEF TakeItem, LowerIsSimulating
  <2>11. ASSUME NEW due \in BOOLEAN, TakeStep(due) PROVE IsSimulatingIsRight'
    BY <2>11 DEF TakeStep, LowerIsSimulating, TypeOK
  <2>12. CASE Fail
    BY <2>12 DEF Fail, queueVars
  <2>13. CASE HandleUpdate
    BY <2>13 DEF HandleUpdate, QueueItem, NextRound, queueVars
  <2>14. CASE HandleSwitch
    BY <2>14 DEF HandleSwitch, NextRound, queueVars
  <2>15. CASE HandleOther
    BY <2>15 DEF HandleOther, NextRound, queueVars
  <2>16. CASE UNCHANGED vars
    BY <2>16 DEF vars
  <2>17. CASE QuitThread \/ DestroyThread \/ EmitFinished \/ EndThread
    BY <2>17 DEF QuitThread, DestroyThread, EmitFinished, EndThread, endVars, queueVars
  <2> QED
    BY <2>1, <2>2, <2>3, <2>4, <2>5, <2>6, <2>7, <2>8, <2>9, <2>10, <2>11,
       <2>12, <2>13, <2>14, <2>15, <2>16, <2>17 DEF Next, MainNext, WorkerNext
<1>3. QED
  BY <1>1, <1>2, TypeCorrect, FlagsCorrect, PTL DEF Spec

-----------------------------------------------------------------------------
(* When popItem() cannot throw *)

\* A worker that was woken finds something when it gets the mutex back.
WokenForWork ==
  /\ main = "serving"
  /\ worker # "failed"
  /\ worker = "signalled" => items # <<>> \/ ~Idle

\* Without stopSimulation(), without tear-down and while the outstanding steps
\* fit the counter, popItem() never throws.  Each of the three premises is
\* needed: stopSimulation(), reset() and the wrap-around are the steps that can
\* take the work away between wakeOne() and the return of wait().
THEOREM NeverFailsWithoutStop ==
  ASSUME Commands \subseteq {"start"}, MaxSteps < StepModulus
  PROVE  Spec => []WorkerNeverFails
<1> USE WorkQueueAssumption
<1>1. Init => WokenForWork
  BY DEF Init, WokenForWork
<1>2. TypeOK /\ TypeOK' /\ IInv /\ WokenForWork /\ [Next]_vars => WokenForWork'
  <2> SUFFICES ASSUME TypeOK, TypeOK', IInv, WokenForWork, [Next]_vars
               PROVE  WokenForWork'
    OBVIOUS
  <2> USE DEF WokenForWork, Idle
  <2>1. ASSUME NEW r \in Requests, PushRequest(r) PROVE WokenForWork'
    BY <2>1, QueueItemFlags DEF PushRequest, PushItem, WakeOne, QueuedItems
  <2>2. ASSUME NEW n \in StepCounts, PushSimulationSteps(n) PROVE WokenForWork'
    <3>1. /\ simulationSteps \in Nat
          /\ n \in Nat \ {0}
          /\ simulationSteps + n < StepModulus
      BY <2>2 DEF PushSimulationSteps, TypeOK
    <3>2. simulationSteps' = simulationSteps + n
      BY <2>2, <3>1 DEF PushSimulationSteps
    <3> QED
      BY <2>2, <3>1, <3>2 DEF PushSimulationSteps, WakeOne
  <2>3. CASE StartContinuous
    BY <2>3 DEF StartContinuous, WakeOne
  <2>4. CASE StopSimulation
    BY <2>4 DEF StopSimulation
  <2>5. CASE Reset
    BY <2>5 DEF Reset
  <2>6. CASE PostWorkerStop
    BY <2>6 DEF PostWorkerStop
  <2>7. CASE PushStopItem
    BY <2>7 DEF PushStopItem
  <2>8. CASE DeleteWorker
    BY <2>8 DEF DeleteWorker
  <2>9. CASE Sleep
    BY <2>9 DEF Sleep
  <2>10. CASE TakeItem
    BY <2>10 DEF TakeItem
  <2>11. ASSUME NEW due \in BOOLEAN, TakeStep(due) PROVE WokenForWork'
    BY <2>11 DEF TakeStep
  <2>12. CASE Fail
    BY <2>12 DEF Fail, HasMutex, IInv, CanWorkIsSound
  <2>13. CASE HandleUpdate
    BY <2>13 DEF HandleUpdate, NextRound
  <2>14. CASE HandleSwitch
    BY <2>14 DEF HandleSwitch, NextRound
  <2>15. CASE HandleOther
    BY <2>15 DEF HandleOther, NextRound
  <2>16. CASE UNCHANGED vars
    BY <2>16 DEF vars
  <2>17. CASE QuitThread \/ DestroyThread \/ EmitFinished \/ EndThread
    BY <2>17 DEF QuitThread, DestroyThread, EmitFinished, EndThread, endVars, queueVars
  <2> QED
    BY <2>1, <2>2, <2>3, <2>4, <2>5, <2>6, <2>7, <2>8, <2>9, <2>10, <2>11,
       <2>12, <2>13, <2>14, <2>15, <2>16, <2>17 DEF Next, MainNext, WorkerNext
<1>3. WokenForWork => WorkerNeverFails
  BY DEF WokenForWork, WorkerNeverFails
<1>4. QED
  BY <1>1, <1>2, <1>3, TypeCorrect, FlagsCorrect, PTL DEF Spec

-----------------------------------------------------------------------------
(* What clients see of the list *)

Shown == Requests \union {StopItem}

\* The visible items among the first ones of a list, one after the other.
Showing(seen, list, n) ==
  /\ seen \in [0 .. n -> Seq(Shown)]
  /\ seen[0] = <<>>
  /\ \A k \in 1 .. n :
       seen[k] = IF list[k] = FrameItem THEN seen[k - 1] ELSE Append(seen[k - 1], list[k])

\* An item that is queued is seen or is a frame.
LEMMA SeenOrFrame ==
  /\ QueuedItems = Shown \union {FrameItem}
  /\ FrameItem \notin Shown
BY WorkQueueAssumption DEF QueuedItems, Shown

\* Every set of numbers that is not empty has a first one.
LEMMA FirstNumber ==
  ASSUME NEW S \in SUBSET Nat, S # {}
  PROVE  \E k \in S : \A j \in S : k <= j
<1> DEFINE before == OpToRel(<, Nat)
<1>1. IsWellFoundedOn(before, Nat)
  BY NatLessThanWellFounded
<1>2. \A y \in Nat, x \in Nat : y < x => <<y, x>> \in before
  BY DEF OpToRel
<1> HIDE DEF before
<1>3. S \subseteq Nat
  OBVIOUS
<1>4. PICK k \in S : \A j \in S : ~(<<j, k>> \in before)
  BY <1>1, <1>3, WFMin
<1>5. \A j \in S : j \in Nat /\ k \in Nat /\ ~(j < k)
  BY <1>2, <1>3, <1>4
<1> QED
  BY <1>5

\* There are such lists.
LEMMA ShowingExists ==
  ASSUME NEW n \in Nat, NEW list, \A k \in 1 .. n : list[k] \in QueuedItems
  PROVE  \E seen : Showing(seen, list, n)
<1> DEFINE Missing == {k \in 0 .. n : \A seen : ~Showing(seen, list, k)}
<1>1. Missing = {}
  <2> SUFFICES ASSUME Missing # {} PROVE FALSE
    OBVIOUS
  <2>1. Missing \in SUBSET Nat
    OBVIOUS
  <2>2. PICK k \in Missing : \A j \in Missing : k <= j
    BY <2>1, FirstNumber
  <2>3. k \in 0 .. n /\ \A seen : ~Showing(seen, list, k)
    OBVIOUS
  <2>4. CASE k = 0
    <3>1. <<>> \in Seq(Shown)
      OBVIOUS
    <3>2. Showing([j \in 0 .. 0 |-> <<>>], list, 0)
      BY <3>1 DEF Showing
    <3> QED
      BY <2>3, <2>4, <3>2
  <2>5. CASE k # 0
    <3>1. k - 1 \in 0 .. n /\ ~(k <= k - 1) /\ k \in 1 .. n
      BY <2>3, <2>5
    <3>2. k - 1 \notin Missing
      BY <2>2, <3>1
    <3>3. PICK seen : Showing(seen, list, k - 1)
      BY <3>1, <3>2
    <3> DEFINE last == IF list[k] = FrameItem THEN seen[k - 1]
                                              ELSE Append(seen[k - 1], list[k])
               more == [j \in 0 .. k |-> IF j = k THEN last ELSE seen[j]]
    <3>4. last \in Seq(Shown)
      <4>1. seen[k - 1] \in Seq(Shown)
        BY <3>1, <3>3 DEF Showing
      <4>2. list[k] \in QueuedItems
        BY <3>1
      <4> QED
        BY <4>1, <4>2, SeenOrFrame, AppendProperties
    <3> HIDE DEF last
    <3>5. \A j \in 0 .. k : more[j] = IF j = k THEN last ELSE seen[j]
      OBVIOUS
    <3>6. /\ seen[0] = <<>>
          /\ \A j \in 0 .. k - 1 : seen[j] \in Seq(Shown)
          /\ \A j \in 1 .. k - 1 :
               seen[j] = IF list[j] = FrameItem THEN seen[j - 1] ELSE Append(seen[j - 1], list[j])
      BY <3>1, <3>3 DEF Showing
    <3>7. more \in [0 .. k -> Seq(Shown)]
      BY <3>1, <3>4, <3>6
    <3> HIDE DEF more
    <3>8. more[0] = <<>>
      BY <3>1, <3>5, <3>6
    <3>9. ASSUME NEW j \in 1 .. k
          PROVE  more[j] = IF list[j] = FrameItem THEN more[j - 1]
                                                  ELSE Append(more[j - 1], list[j])
      <4>1. j \in 0 .. k /\ j - 1 \in 0 .. k /\ j - 1 # k
        BY <3>1
      <4>2. more[j - 1] = seen[j - 1]
        BY <3>5, <4>1
      <4>3. CASE j = k
        BY <3>5, <4>1, <4>2, <4>3 DEF last
      <4>4. CASE j # k
        <5>1. j \in 1 .. k - 1
          BY <3>1, <4>4
        <5> QED
          BY <3>5, <3>6, <4>1, <4>2, <4>4, <5>1
      <4> QED
        BY <4>3, <4>4
    <3>10. Showing(more, list, k)
      BY <3>7, <3>8, <3>9 DEF Showing
    <3> QED
      BY <2>3, <3>10
  <2> QED
    BY <2>4, <2>5
<1> QED
  BY <1>1

\* The recursion of Visible follows them.
LEMMA VisibleIsLast ==
  ASSUME NEW list \in Seq(QueuedItems)
  PROVE  \E seen : Showing(seen, list, Len(list)) /\ Visible(list) = seen[Len(list)]
<1> DEFINE n == Len(list)
           Grow(f) == [k \in 0 .. n |-> IF k = 0 THEN <<>>
                                        ELSE IF list[k] = FrameItem THEN f[k - 1]
                                        ELSE Append(f[k - 1], list[k])]
           upTo == CHOOSE f : f = Grow(f)
<1>1. n \in Nat /\ \A k \in 1 .. n : list[k] \in QueuedItems
  BY LenProperties
<1>2. Visible(list) = upTo[n]
  BY DEF Visible
<1> HIDE DEF n
<1>3. PICK seen : Showing(seen, list, n)
  BY <1>1, ShowingExists
<1>4. seen = Grow(seen)
  <2>1. seen = [k \in 0 .. n |-> seen[k]]
    BY <1>3 DEF Showing
  <2>2. ASSUME NEW k \in 0 .. n PROVE seen[k] = Grow(seen)[k]
    <3>1. k = 0 \/ (k # 0 /\ k \in 1 .. n)
      BY <1>1
    <3>2. CASE k = 0
      BY <1>3, <3>2 DEF Showing
    <3>3. CASE k # 0 /\ k \in 1 .. n
      BY <1>3, <3>3 DEF Showing
    <3> QED
      BY <3>1, <3>2, <3>3
  <2> DEFINE grown == Grow(seen)
  <2>3. grown = [k \in 0 .. n |-> grown[k]]
    OBVIOUS
  <2> HIDE DEF grown
  <2> QED
    BY <2>1, <2>2, <2>3 DEF grown
<1>5. upTo = Grow(upTo)
  BY <1>4
<1> HIDE DEF upTo
<1>6. \A k \in 0 .. n : upTo[k] = IF k = 0 THEN <<>>
                                  ELSE IF list[k] = FrameItem THEN upTo[k - 1]
                                  ELSE Append(upTo[k - 1], list[k])
  BY <1>5
<1>7. upTo[0] = <<>>
  <2>1. 0 \in 0 .. n
    BY <1>1
  <2> QED
    BY <1>6, <2>1, Zenon
<1>8. \A k \in 1 .. n :
        upTo[k] = IF list[k] = FrameItem THEN upTo[k - 1] ELSE Append(upTo[k - 1], list[k])
  <2> SUFFICES ASSUME NEW k \in 1 .. n
               PROVE  upTo[k] = IF list[k] = FrameItem THEN upTo[k - 1]
                                ELSE Append(upTo[k - 1], list[k])
    OBVIOUS
  <2>1. k \in 0 .. n /\ k # 0
    BY <1>1
  <2> QED
    BY <1>6, <2>1
<1> DEFINE Bad == {k \in 0 .. n : upTo[k] \notin Seq(Shown)}
<1>9. Bad = {}
  <2> SUFFICES ASSUME Bad # {} PROVE FALSE
    OBVIOUS
  <2>1. Bad \in SUBSET Nat
    OBVIOUS
  <2>2. PICK k \in Bad : \A j \in Bad : k <= j
    BY <2>1, FirstNumber
  <2>3. <<>> \in Seq(Shown)
    OBVIOUS
  <2>4. k \in 0 .. n /\ upTo[k] \notin Seq(Shown)
    OBVIOUS
  <2>5. k # 0
    BY <1>7, <2>3, <2>4
  <2>6. k \in 1 .. n /\ k - 1 \in 0 .. n /\ ~(k <= k - 1)
    BY <1>1, <2>4, <2>5
  <2>7. upTo[k - 1] \in Seq(Shown)
    BY <2>2, <2>6
  <2>8. list[k] \in QueuedItems
    BY <1>1, <2>6
  <2>9. CASE list[k] = FrameItem
    BY <1>8, <2>4, <2>6, <2>7, <2>9
  <2>10. CASE list[k] # FrameItem
    <3>1. list[k] \in Shown
      BY <2>8, <2>10, SeenOrFrame
    <3>2. Append(upTo[k - 1], list[k]) \in Seq(Shown)
      BY <2>7, <3>1, AppendProperties
    <3> QED
      BY <1>8, <2>4, <2>6, <2>10, <3>2
  <2> QED
    BY <2>9, <2>10
<1>10. upTo \in [0 .. n -> Seq(Shown)]
  <2>1. upTo = [k \in 0 .. n |-> upTo[k]]
    BY <1>5
  <2> QED
    BY <1>9, <2>1
<1> QED
  BY <1>2, <1>7, <1>8, <1>10 DEF Showing, n

\* Two lists that begin alike show the same there.
LEMMA ShowingAgree ==
  ASSUME NEW n \in Nat, NEW m \in Nat, n <= m, NEW f, NEW g, NEW F, NEW G,
         Showing(F, f, n), Showing(G, g, m), \A k \in 1 .. n : f[k] = g[k]
  PROVE  F[n] = G[n]
<1> DEFINE Bad == {k \in 0 .. n : F[k] # G[k]}
<1>1. Bad = {}
  <2> SUFFICES ASSUME Bad # {} PROVE FALSE
    OBVIOUS
  <2>1. Bad \in SUBSET Nat
    OBVIOUS
  <2>2. PICK k \in Bad : \A j \in Bad : k <= j
    BY <2>1, FirstNumber
  <2>3. /\ k \in 0 .. n /\ F[k] # G[k] /\ F[0] = <<>> /\ G[0] = <<>>
    BY DEF Showing
  <2>4. k # 0
    BY <2>3
  <2>5. k \in 1 .. n /\ k - 1 \in 0 .. n /\ ~(k <= k - 1) /\ k \in 1 .. m
    BY <2>3, <2>4
  <2>6. F[k - 1] = G[k - 1]
    BY <2>2, <2>5
  <2>7. /\ F[k] = IF f[k] = FrameItem THEN F[k - 1] ELSE Append(F[k - 1], f[k])
        /\ G[k] = IF g[k] = FrameItem THEN G[k - 1] ELSE Append(G[k - 1], g[k])
        /\ f[k] = g[k]
    BY <2>5 DEF Showing
  <2> QED
    BY <2>6, <2>7
<1> QED
  BY <1>1

\* An item more at the end of the list.
LEMMA VisibleAppended ==
  ASSUME NEW list \in Seq(QueuedItems), NEW item \in QueuedItems
  PROVE  /\ Visible(list) \in Seq(Shown)
         /\ Visible(Append(list, item)) = IF item = FrameItem THEN Visible(list)
                                          ELSE Append(Visible(list), item)
<1> DEFINE n == Len(list)
           more == Append(list, item)
<1>1. n \in Nat
  BY LenProperties
<1>2. /\ more \in Seq(QueuedItems) /\ Len(more) = n + 1 /\ more[n + 1] = item
      /\ \A k \in 1 .. n : more[k] = list[k]
  BY AppendProperties
<1> HIDE DEF more, n
<1>3. PICK F : Showing(F, list, n) /\ Visible(list) = F[n]
  BY VisibleIsLast DEF n
<1>4. PICK G : Showing(G, more, n + 1) /\ Visible(more) = G[n + 1]
  BY <1>2, VisibleIsLast
<1>5. F[n] = G[n]
  BY <1>1, <1>2, <1>3, <1>4, ShowingAgree
<1>6. F[n] \in Seq(Shown)
  BY <1>1, <1>3 DEF Showing
<1>7. n + 1 \in 1 .. n + 1 /\ (n + 1) - 1 = n
  BY <1>1
<1>8. G[n + 1] = IF more[n + 1] = FrameItem THEN G[n] ELSE Append(G[n], more[n + 1])
  BY <1>4, <1>7 DEF Showing
<1> QED
  BY <1>2, <1>3, <1>4, <1>5, <1>6, <1>8 DEF more

\* An empty list and one that holds a frame show nothing.
LEMMA VisibleShort == Visible(<<>>) = <<>> /\ Visible(<<FrameItem>>) = <<>>
<1>1. Visible(<<>>) = <<>>
  <2>1. <<>> \in Seq(QueuedItems) /\ Len(<<>>) = 0
    OBVIOUS
  <2> QED
    BY <2>1, VisibleIsLast DEF Showing
<1>2. <<>> \in Seq(QueuedItems) /\ FrameItem \in QueuedItems /\ Append(<<>>, FrameItem) = <<FrameItem>>
  BY DEF QueuedItems
<1>3. Visible(Append(<<>>, FrameItem)) = Visible(<<>>)
  BY <1>2, VisibleAppended
<1> QED
  BY <1>1, <1>2, <1>3

\* Something put in front of a list, and something else behind it.
LEMMA FrontAndBack ==
  ASSUME NEW S, NEW e \in S, NEW s \in Seq(S), NEW x \in S
  PROVE  Append(<<e>> \o s, x) = <<e>> \o Append(s, x)
OBVIOUS

\* The first item of the list: a frame, or the first that is seen.
LEMMA VisibleRemoved ==
  ASSUME NEW list \in Seq(QueuedItems), list # <<>>
  PROVE  Visible(list) = IF Head(list) = FrameItem THEN Visible(Tail(list))
                         ELSE <<Head(list)>> \o Visible(Tail(list))
<1> DEFINE rest == Tail(list)
           e == Head(list)
<1>1. PICK n \in Nat : Len(list) = n + 1
  <2>1. Len(list) \in Nat \ {0}
    BY LenProperties, EmptySeq
  <2>2. Len(list) - 1 \in Nat /\ Len(list) = (Len(list) - 1) + 1
    BY <2>1
  <2> QED
    BY <2>2
<1>2. /\ rest \in Seq(QueuedItems) /\ Len(rest) = n /\ e = list[1] /\ e \in QueuedItems
      /\ \A k \in 1 .. n : rest[k] = list[k + 1] /\ rest[k] \in QueuedItems
  <2>1. /\ rest \in Seq(QueuedItems) /\ Len(rest) = Len(list) - 1 /\ e \in QueuedItems
        /\ \A k \in 1 .. Len(rest) : rest[k] = list[k + 1]
    BY HeadTailProperties
  <2>2. Len(rest) = n
    BY <1>1, <2>1
  <2>3. \A k \in 1 .. n : rest[k] \in QueuedItems
    BY <2>1, <2>2, LenProperties
  <2>4. e = list[1]
    OBVIOUS
  <2> QED
    BY <2>1, <2>2, <2>3, <2>4
<1> HIDE DEF rest, e
<1>3. PICK G : Showing(G, rest, n) /\ Visible(rest) = G[n]
  BY <1>2, VisibleIsLast
<1>4. PICK F : Showing(F, list, n + 1) /\ Visible(list) = F[n + 1]
  BY <1>1, VisibleIsLast
<1> DEFINE Front(s) == IF e = FrameItem THEN s ELSE <<e>> \o s
           Bad == {k \in 0 .. n : F[k + 1] # Front(G[k])}
<1>5. F[1] = Front(G[0])
  <2>1. 1 \in 1 .. n + 1 /\ 1 - 1 = 0
    OBVIOUS
  <2>2. F[0] = <<>> /\ G[0] = <<>>
        /\ F[1] = IF list[1] = FrameItem THEN F[0] ELSE Append(F[0], list[1])
    BY <1>3, <1>4, <2>1 DEF Showing
  <2>3. Append(<<>>, e) = <<e>> \o <<>>
    OBVIOUS
  <2> QED
    BY <1>2, <2>2, <2>3
<1>6. Bad = {}
  <2> SUFFICES ASSUME Bad # {} PROVE FALSE
    OBVIOUS
  <2>1. Bad \in SUBSET Nat
    OBVIOUS
  <2>2. PICK k \in Bad : \A j \in Bad : k <= j
    BY <2>1, FirstNumber
  <2>3. k \in 0 .. n /\ F[k + 1] # Front(G[k])
    OBVIOUS
  <2>4. k # 0
    BY <1>5, <2>3
  <2>5. /\ k \in 1 .. n /\ k - 1 \in 0 .. n /\ ~(k <= k - 1)
        /\ k + 1 \in 1 .. n + 1 /\ (k - 1) + 1 = k /\ (k + 1) - 1 = k
    BY <2>3, <2>4
  <2>6. F[k] = Front(G[k - 1])
    <3>1. k - 1 \notin Bad
      BY <2>2, <2>5
    <3> QED
      BY <2>5, <3>1
  <2> HIDE DEF Bad
  <2> DEFINE x == rest[k]
  <2>7. /\ F[k + 1] = IF x = FrameItem THEN F[k] ELSE Append(F[k], x)
        /\ G[k] = IF x = FrameItem THEN G[k - 1] ELSE Append(G[k - 1], x)
        /\ G[k - 1] \in Seq(Shown) /\ x \in QueuedItems
    BY <1>2, <1>3, <1>4, <2>5 DEF Showing
  <2> HIDE DEF x
  <2>8. CASE x = FrameItem \/ e = FrameItem
    BY <2>3, <2>6, <2>7, <2>8
  <2>9. CASE x # FrameItem /\ e # FrameItem
    <3>1. x \in Shown /\ e \in Shown
      BY <1>2, <2>7, <2>9, SeenOrFrame
    <3>2. Append(<<e>> \o G[k - 1], x) = <<e>> \o Append(G[k - 1], x)
      BY <2>7, <3>1, FrontAndBack
    <3> QED
      BY <2>3, <2>6, <2>7, <2>9, <3>2
  <2> QED
    BY <2>8, <2>9
<1>7. F[n + 1] = Front(G[n])
  BY <1>6
<1> QED
  BY <1>3, <1>4, <1>7 DEF rest, e

-----------------------------------------------------------------------------
(* The queue that clients see *)

\* The worker holds an item only while it handles it.
HoldsWhileHandling == worker \notin {"handling", "failed"} => current = NoItem

\* It is an invariant: popItem() returns an item and handleAction() is done with it.
LEMMA HoldsInvariant == Spec => []HoldsWhileHandling
<1>1. Init => HoldsWhileHandling
  BY DEF Init, HoldsWhileHandling
<1>2. HoldsWhileHandling /\ [Next]_vars => HoldsWhileHandling'
  <2> SUFFICES ASSUME HoldsWhileHandling, [Next]_vars PROVE HoldsWhileHandling'
    OBVIOUS
  <2> USE DEF HoldsWhileHandling
  <2>1. CASE MainNext \/ UNCHANGED vars
    BY <2>1 DEF MainNext, PushRequest, PushSimulationSteps, StartContinuous, StopSimulation,
                Reset, PostWorkerStop, PushStopItem, DeleteWorker, QuitThread, DestroyThread,
                endVars, PushItem, WakeOne, vars
  <2>2. CASE WorkerNext
    BY <2>2 DEF WorkerNext, Sleep, TakeItem, TakeStep, Fail, HandleUpdate, HandleSwitch,
                HandleOther, NextRound, EmitFinished, EndThread, endVars
  <2> QED
    BY <2>1, <2>2 DEF Next
<1> QED
  BY <1>1, <1>2, PTL DEF Spec

\* pushItem() of something that clients see submits it, of a frame it is a stutter.
LEMMA QueueItemSubmits ==
  ASSUME TypeOK, NEW item \in QueuedItems, QueueItem(item)
  PROVE  /\ Visible(items') = IF item = FrameItem THEN Visible(items)
                              ELSE Append(Visible(items), item)
         /\ UNCHANGED <<simulationSteps, continuous>>
BY VisibleAppended DEF TypeOK, QueueItem

\* Every step of the two threads is a step of the queue that clients see, or they
\* see nothing of it.
LEMMA QueueRefines ==
  ASSUME TypeOK, HoldsWhileHandling, [Next]_vars
  PROVE  [RQ!Next]_(RQ!vars)
<1> USE WorkQueueAssumption
<1>1. ASSUME NEW r \in Requests, PushRequest(r) PROVE RQ!Next
  <2>1. /\ r # FrameItem /\ r \in QueuedItems /\ QueueItem(r) /\ UNCHANGED current
    BY <1>1 DEF PushRequest, PushItem, QueuedItems
  <2>2. RQ!Submit(r)
    BY <2>1, QueueItemSubmits DEF RQ!Submit
  <2> QED
    BY <2>2 DEF RQ!Next
<1>2. ASSUME NEW n \in StepCounts, PushSimulationSteps(n) PROVE RQ!Next
  <2>1. RQ!Allow(n)
    BY <1>2 DEF PushSimulationSteps, RQ!Allow
  <2> QED
    BY <2>1 DEF RQ!Next
<1>3. CASE StartContinuous
  BY <1>3 DEF StartContinuous, RQ!RunUnlimited, RQ!Next
<1>4. CASE StopSimulation
  BY <1>4 DEF StopSimulation, RQ!Halt, RQ!Next
<1>5. CASE Reset
  BY <1>5, VisibleShort DEF Reset, RQ!Discard, RQ!Next
<1>6. CASE PushStopItem
  <2>1. /\ StopItem # FrameItem /\ StopItem \in QueuedItems /\ QueueItem(StopItem)
        /\ UNCHANGED current
    BY <1>6 DEF PushStopItem, PushItem, QueuedItems
  <2>2. RQ!Submit(StopItem)
    BY <2>1, QueueItemSubmits DEF RQ!Submit
  <2> QED
    BY <2>2 DEF RQ!Next
<1>7. CASE PostWorkerStop \/ DeleteWorker \/ Sleep \/ Fail \/ UNCHANGED vars
  BY <1>7 DEF PostWorkerStop, DeleteWorker, Sleep, Fail, queueVars, vars, RQ!vars
<1>8. CASE TakeItem
  <2>1. current = NoItem
    BY <1>8 DEF TakeItem, HasMutex, HoldsWhileHandling
  <2>2. /\ items \in Seq(QueuedItems) /\ items # <<>> /\ current' = Head(items)
        /\ items' = Tail(items) /\ UNCHANGED <<simulationSteps, continuous>>
        /\ Head(items) \in QueuedItems /\ Tail(items) \in Seq(QueuedItems)
    BY <1>8, HeadTailProperties DEF TakeItem, TypeOK
  <2>3. CASE Head(items) = FrameItem
    BY <2>1, <2>2, <2>3, VisibleRemoved DEF RQ!vars
  <2>4. CASE Head(items) # FrameItem
    <3>1. Visible(items) = <<Head(items)>> \o Visible(items') /\ Visible(items') \in Seq(Shown)
      BY <2>2, <2>4, VisibleRemoved, VisibleAppended
    <3>2. Head(items) \in Shown
      BY <2>2, <2>4, SeenOrFrame
    <3>3. /\ Visible(items) # <<>> /\ Head(Visible(items)) = Head(items)
          /\ Tail(Visible(items)) = Visible(items')
      BY <3>1, <3>2
    <3>4. RQ!Serve
      BY <2>1, <2>2, <2>4, <3>3 DEF RQ!Serve
    <3> QED
      BY <3>4 DEF RQ!Next
  <2> QED
    BY <2>3, <2>4
<1>9. ASSUME NEW due \in BOOLEAN, TakeStep(due) PROVE RQ!Next
  <2>1. current = NoItem
    BY <1>9 DEF TakeStep, HasMutex, HoldsWhileHandling
  <2>2. Visible(items) = <<>> /\ Visible(items') = <<>>
    BY <1>9, VisibleShort DEF TakeStep
  <2>3. RQ!Step
    BY <1>9, <2>1, <2>2 DEF TakeStep, Idle, RQ!Step, TypeOK
  <2> QED
    BY <2>3 DEF RQ!Next
<1>10. CASE HandleUpdate
  <2>1. Visible(items') = Visible(items) /\ UNCHANGED <<simulationSteps, continuous>>
    BY <1>10, QueueItemSubmits DEF HandleUpdate, QueuedItems, queueVars
  <2>2. RQ!Finish
    BY <1>10, <2>1 DEF HandleUpdate, RQ!Finish
  <2> QED
    BY <2>2 DEF RQ!Next
<1>11. CASE HandleSwitch
  BY <1>11 DEF HandleSwitch, queueVars, RQ!Finish, RQ!Next
<1>12. CASE HandleOther
  BY <1>12 DEF HandleOther, queueVars, RQ!Finish, RQ!Next, RQ!vars
<1>13. CASE QuitThread \/ DestroyThread \/ EmitFinished \/ EndThread
  BY <1>13 DEF QuitThread, DestroyThread, EmitFinished, EndThread, endVars, queueVars, RQ!vars
<1> QED
  BY <1>1, <1>2, <1>3, <1>4, <1>5, <1>6, <1>7, <1>8, <1>9, <1>10, <1>11, <1>12, <1>13
     DEF Next, MainNext, WorkerNext

\* Clients see a queue that serves each request once and in order, and steps only
\* when no request waits: whatever frames the server adds and however its two
\* threads take the mutex (pushItem, popItem, stopSimulation, reset).
THEOREM RequestQueueCorrect == Spec => ImplementsRequestQueue
<1>1. Init => RQ!Init
  BY VisibleShort, WorkQueueAssumption DEF Init, RQ!Init
<1> QED
  BY <1>1, TypeCorrect, HoldsInvariant, QueueRefines, PTL
     DEF Spec, ImplementsRequestQueue, RQ!Spec
=============================================================================
