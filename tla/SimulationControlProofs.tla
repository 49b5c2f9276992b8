------------------------ MODULE SimulationControlProofs ----------------------
(***************************************************************************)
(* Theorems about SimulationControl for every number of calls of the       *)
(* client and every step count it asks for.                                *)
(*                                                                         *)
(* The server's work queue is that of WorkQueue: every step of the whole   *)
(* system is a step of the queue or leaves it alone. What the queue        *)
(* promises then carries the two properties of the whole.                  *)
(*                                                                         *)
(* QuietInv says where the news that lowers the flag is when the worker    *)
(* has gone to sleep and a copy is still TRUE. ConservedInv counts every   *)
(* step that was asked for at one place: in a message, in the queue's      *)
(* counter, or among those done. Sums over sequences are recursive         *)
(* functions; what is needed of them is proved by looking at the first     *)
(* place where it would fail.                                              *)
(***************************************************************************)
EXTENDS SimulationControl, SequenceTheorems, WellFoundedInduction, TLAPS

-----------------------------------------------------------------------------
(* The work queue *)

Queued == {"updateVariable", "popStepCounter"}

\* What the two threads do to the queue in this system.
QueueStep ==
  \/ \E r \in Queued : Q!PushRequest(r)
  \/ \E n \in StepCounts : Q!PushSimulationSteps(n)
  \/ Q!StartContinuous
  \/ Q!StopSimulation
  \/ Q!Sleep
  \/ Q!TakeItem
  \/ Q!TakeStep(FALSE)
  \/ Q!Fail
  \/ Q!HandleOther

\* Beside the flags of the queue: what the worker holds.
QueueInv ==
  /\ Q!TypeOK
  /\ Q!IInv
  /\ worker # "handling" /\ worker # "failed" => current = "none"

\* The width of the step counter.
LEMMA Width == 2 ^ 16 \in Nat \ {0}
OBVIOUS

\* updateStatus() leaves a Boolean in canWork.
LEMMA StatusTyped == Q!UpdateStatus => canWork' \in BOOLEAN
BY Zenon DEF Q!UpdateStatus

\* The step counter stays in its range when it wraps.
LEMMA WrapInRange ==
  ASSUME NEW k \in Nat
  PROVE  k % 2 ^ 16 \in 0 .. 2 ^ 16 - 1
<1>1. \A w \in Nat \ {0} : k % w \in 0 .. w - 1
  OBVIOUS
<1> QED
  BY <1>1, Width

\* What the queue's actions do to the types.
LEMMA QueueTyped ==
  ASSUME Q!TypeOK, QueueStep
  PROVE  Q!TypeOK'
<1> USE SimulationControlAssumption, Width DEF Q!QueuedItems, Q!WorkerStates, Q!ThreadStates
<1>1. ASSUME NEW r \in Queued, Q!PushRequest(r) PROVE Q!TypeOK'
  <2>1. items' \in Seq(Q!QueuedItems)
    BY <1>1 DEF Q!TypeOK, Q!PushRequest, Q!PushItem, Q!QueueItem, Queued
  <2>2. canWork' \in BOOLEAN
    BY <1>1, StatusTyped DEF Q!PushRequest, Q!PushItem, Q!QueueItem
  <2>3. worker' \in Q!WorkerStates
    BY <1>1 DEF Q!TypeOK, Q!PushRequest, Q!PushItem, Q!WakeOne
  <2>4. queueEmpty' = FALSE /\ UNCHANGED <<simulationSteps, continuous, isSimulating,
                                           frameSending, current, stopPosted, main>>
    BY <1>1 DEF Q!PushRequest, Q!PushItem, Q!QueueItem
  <2> QED
    BY <2>1, <2>2, <2>3, <2>4 DEF Q!TypeOK
<1>2. ASSUME NEW n \in StepCounts, Q!PushSimulationSteps(n) PROVE Q!TypeOK'
  <2>1. simulationSteps + n \in Nat
    BY DEF Q!TypeOK
  <2>2. simulationSteps' \in 0 .. 2 ^ 16 - 1
    BY <1>2, <2>1, WrapInRange DEF Q!PushSimulationSteps
  <2> QED
    BY <1>2, <2>2, StatusTyped DEF Q!PushSimulationSteps, Q!WakeOne, Q!TypeOK
<1>3. CASE Q!StartContinuous
  <2>1. simulationSteps' \in 0 .. 2 ^ 16 - 1
    BY <1>3 DEF Q!StartContinuous
  <2>2. canWork' \in BOOLEAN /\ worker' \in Q!WorkerStates
    BY <1>3, StatusTyped DEF Q!StartContinuous, Q!WakeOne, Q!TypeOK
  <2>3. continuous' = TRUE /\ isSimulating' = TRUE
        /\ UNCHANGED <<items, queueEmpty, frameSending, current, stopPosted, main>>
    BY <1>3 DEF Q!StartContinuous
  <2>4. /\ items' \in Seq(Q!QueuedItems) /\ queueEmpty' \in BOOLEAN
        /\ frameSending' \in BOOLEAN /\ stopPosted' \in BOOLEAN
        /\ current' \in Q!QueuedItems \union {"calculateStep", "none"}
        /\ main' \in Q!MainStates
    BY <2>3 DEF Q!TypeOK
  <2> QED
    BY <2>1, <2>2, <2>3, <2>4, Zenon DEF Q!TypeOK
<1>4. CASE Q!StopSimulation
  <2>1. simulationSteps' \in 0 .. 2 ^ 16 - 1
    BY <1>4 DEF Q!StopSimulation
  <2>2. canWork' \in BOOLEAN /\ continuous' \in BOOLEAN
    BY <1>4, StatusTyped DEF Q!StopSimulation
  <2>3. UNCHANGED <<items, queueEmpty, isSimulating, frameSending, worker, current,
                    stopPosted, main>>
    BY <1>4 DEF Q!StopSimulation
  <2> QED
    BY <2>1, <2>2, <2>3 DEF Q!TypeOK
<1>5. CASE Q!Sleep
  BY <1>5 DEF Q!Sleep, Q!queueVars, Q!TypeOK
<1>6. CASE Q!TakeItem
  <2>1. current' \in Q!QueuedItems /\ items' \in Seq(Q!QueuedItems)
    BY <1>6, HeadTailProperties DEF Q!TakeItem, Q!TypeOK
  <2>2. queueEmpty' \in BOOLEAN /\ canWork' \in BOOLEAN
    BY <1>6, StatusTyped DEF Q!TakeItem, Q!RefreshWhenEmpty, Q!TypeOK
  <2> QED
    BY <1>6, <2>1, <2>2 DEF Q!TakeItem, Q!LowerIsSimulating, Q!TypeOK
<1>7. CASE Q!TakeStep(FALSE)
  <2>1. queueEmpty' \in BOOLEAN /\ canWork' \in BOOLEAN
    BY <1>7, StatusTyped DEF Q!TakeStep, Q!RefreshWhenEmpty, Q!TypeOK
  <2>2. simulationSteps' \in 0 .. 2 ^ 16 - 1 /\ items' \in Seq(Q!QueuedItems)
    BY <1>7 DEF Q!TakeStep, Q!TypeOK
  <2> QED
    BY <1>7, <2>1, <2>2 DEF Q!TakeStep, Q!LowerIsSimulating, Q!TypeOK
<1>8. CASE Q!Fail
  BY <1>8 DEF Q!Fail, Q!LowerIsSimulating, Q!queueVars, Q!TypeOK
<1>9. CASE Q!HandleOther
  BY <1>9 DEF Q!HandleOther, Q!NextRound, Q!queueVars, Q!TypeOK
<1> QED
  BY <1>1, <1>2, <1>3, <1>4, <1>5, <1>6, <1>7, <1>8, <1>9 DEF QueueStep

\* No item is left in the list when the one taken was the only one.
LEMMA TailOfOne ==
  ASSUME NEW S, NEW s \in Seq(S), s # <<>>, Tail(s) # <<>>, NEW e
  PROVE  s # <<e>>
<1> SUFFICES ASSUME s = <<e>> PROVE FALSE
  OBVIOUS
<1>1. Len(s) = 1
  OBVIOUS
<1>2. Len(Tail(s)) = 0 /\ Tail(s) \in Seq(S)
  BY <1>1, HeadTailProperties
<1> QED
  BY <1>2, EmptySeq

\* What the queue's actions do to its flags.
LEMMA QueueKept ==
  ASSUME QueueInv, QueueStep
  PROVE  QueueInv'
<1>0. Q!TypeOK /\ Q!TypeOK' /\ Q!IInv
  BY QueueTyped DEF QueueInv
<1> SUFFICES Q!IInv' /\ (worker' # "handling" /\ worker' # "failed" => current' = "none")
  BY <1>0 DEF QueueInv
<1> USE SimulationControlAssumption, Width
    DEF Q!IInv, Q!QueueEmptyIsAboutRequests, Q!CanWorkIsSound, Q!SleepsWithoutWork, Q!Idle,
        QueueInv
<1>1. ASSUME NEW r \in Queued, Q!PushRequest(r)
      PROVE Q!IInv' /\ (worker' # "handling" /\ worker' # "failed" => current' = "none")
  <2>1. items' # <<>>
    BY <1>0, <1>1, AppendProperties, EmptySeq
       DEF Q!PushRequest, Q!PushItem, Q!QueueItem, Q!TypeOK, Q!QueuedItems, Queued
  <2>2. ~queueEmpty' /\ canWork'
    BY <1>1, Zenon DEF Q!PushRequest, Q!PushItem, Q!QueueItem, Q!UpdateStatus
  <2> QED
    BY <1>1, <2>1, <2>2 DEF Q!PushRequest, Q!PushItem, Q!WakeOne
<1>2. ASSUME NEW n \in StepCounts, Q!PushSimulationSteps(n)
      PROVE Q!IInv' /\ (worker' # "handling" /\ worker' # "failed" => current' = "none")
  BY <1>0, <1>2 DEF Q!PushSimulationSteps, Q!UpdateStatus, Q!WakeOne, Q!TypeOK
<1>3. CASE Q!StartContinuous
  BY <1>0, <1>3 DEF Q!StartContinuous, Q!UpdateStatus, Q!WakeOne, Q!TypeOK
<1>4. CASE Q!StopSimulation
  BY <1>0, <1>4 DEF Q!StopSimulation, Q!UpdateStatus, Q!TypeOK
<1>5. CASE Q!Sleep
  BY <1>5 DEF Q!Sleep, Q!queueVars
<1>6. CASE Q!TakeItem
  BY <1>0, <1>6, TailOfOne DEF Q!TakeItem, Q!RefreshWhenEmpty, Q!UpdateStatus, Q!TypeOK
<1>7. CASE Q!TakeStep(FALSE)
  BY <1>0, <1>7 DEF Q!TakeStep, Q!RefreshWhenEmpty, Q!UpdateStatus, Q!TypeOK
<1>8. CASE Q!Fail
  BY <1>8 DEF Q!Fail, Q!queueVars
<1>9. CASE Q!HandleOther
  BY <1>9 DEF Q!HandleOther, Q!NextRound, Q!queueVars
<1> QED
  BY <1>1, <1>2, <1>3, <1>4, <1>5, <1>6, <1>7, <1>8, <1>9 DEF QueueStep

-----------------------------------------------------------------------------
(* Type correctness *)

Reports == {Reply(n) : n \in Nat}

\* What is posted to the main thread, and what it sends to the client.
Posts == {Flag(FALSE)} \union Reports
Answers == {Flag(TRUE), Flag(FALSE)} \union Reports

\* The channels hold what their ends understand.
Channels ==
  /\ toServer \in Seq(Requests)
  /\ posted \in Seq(Posts)
  /\ toClient \in Seq(Answers)

OtherTypes ==
  /\ serverSimulating \in BOOLEAN
  /\ stepCounter \in 0 .. MaxCounted
  /\ client \in {"ready", "starting", "running", "polling", "awaiting"}
  /\ clientSimulating \in BOOLEAN
  /\ calls \in 0 .. MaxCalls
  /\ started \in BOOLEAN
  /\ requested \in Nat /\ collected \in Nat

TypeInv == QueueInv /\ Channels /\ OtherTypes

\* A message is a flag or a reply, never both.
LEMMA FlagOrReply ==
  /\ \A b \in BOOLEAN : ~IsReply(Flag(b)) /\ Flag(b).simulating = b
  /\ \A m \in Reports : IsReply(m) /\ m.count \in Nat
  /\ Flag(TRUE) # Flag(FALSE)
BY DEF IsReply, Flag, Reply, Reports

\* A request is known by its name.
LEMMA KnownRequest ==
  ASSUME NEW m \in Requests
  PROVE  /\ m.op = "calculateSomeSteps" => m.steps \in StepCounts
         /\ m.op # "calculateSomeSteps" =>
              m.op \in {"startSimulation", "stopSimulation"} \union Queued
BY DEF Requests, Steps, Op, Queued

\* Every step of the system does to the queue what QueueStep says, or nothing.
LEMMA NextIsQueueStep ==
  ASSUME TypeInv, [Next]_vars
  PROVE  QueueStep \/ UNCHANGED queueVars
<1>1. CASE ServerReceive
  <2> DEFINE m == Head(toServer)
  <2>1. m \in Requests
    BY <1>1, HeadTailProperties DEF ServerReceive, TypeInv, Channels
  <2>2. \/ m.op = "calculateSomeSteps" /\ Q!PushSimulationSteps(m.steps)
        \/ Q!StartContinuous \/ Q!StopSimulation
        \/ m.op \in Queued /\ Q!PushRequest(m.op)
    BY <1>1 DEF ServerReceive, Queued
  <2> QED
    BY <2>1, <2>2, KnownRequest DEF QueueStep
<1>2. CASE WorkerNext
  BY <1>2 DEF WorkerNext, Pop, HandleUpdateVariable, HandlePopStepCounter, HandleStep, QueueStep
<1>3. CASE ~ServerReceive /\ ~WorkerNext
  BY <1>3 DEF Next, CalculateSomeSteps, StartSimulation, StopSimulation, PollingSucceeds, StartIsSeen,
              PopStepCounter, ClientReceive, DeliverPosted, vars
<1> QED
  BY <1>1, <1>2, <1>3

\* So the queue keeps its invariant.
LEMMA QueueInvKept ==
  ASSUME TypeInv, [Next]_vars
  PROVE  QueueInv'
<1>1. CASE QueueStep
  BY <1>1, QueueKept DEF TypeInv
<1>2. CASE UNCHANGED queueVars
  BY <1>2 DEF TypeInv, queueVars, QueueInv, Q!TypeOK, Q!IInv, Q!QueueEmptyIsAboutRequests,
              Q!CanWorkIsSound, Q!SleepsWithoutWork, Q!Idle
<1> QED
  BY <1>1, <1>2, NextIsQueueStep

\* The elements of a sequence.
LEMMA InSequence ==
  ASSUME NEW S, NEW s \in Seq(S)
  PROVE  \A m \in ToSet(s) : m \in S
BY LenProperties DEF ToSet

\* These are the types.
LEMMA TypesHold ==
  ASSUME TypeInv
  PROVE  TypeOK
<1>1. \A m \in ToSet(posted) : m \in Posts
  BY InSequence DEF TypeInv, Channels
<1>2. \A m \in ToSet(toClient) : m \in Answers
  BY InSequence DEF TypeInv, Channels
<1>3. \A m \in Posts : m = Flag(FALSE) \/ IsReply(m)
  BY FlagOrReply DEF Posts
<1>4. \A m \in Answers : m \in {Flag(TRUE), Flag(FALSE)} \/ IsReply(m)
  BY FlagOrReply DEF Answers
<1> QED
  BY <1>1, <1>2, <1>3, <1>4 DEF TypeInv, TypeOK, QueueInv, Channels, OtherTypes

\* What the client sends when it asks for a simulation.
LEMMA AskTyped ==
  ASSUME Channels, NEW r \in Requests, AskToSimulate(r)
  PROVE  /\ toServer' \in Seq(Requests)
         /\ toServer' = IF clientSimulating THEN Append(toServer, r)
                        ELSE Append(Append(toServer, r), Op("updateVariable"))
<1>1. Op("updateVariable") \in Requests
  BY DEF Requests
<1>2. toServer \o <<r>> = Append(toServer, r) /\ Append(toServer, r) \in Seq(Requests)
  BY DEF Channels
<1>3. \A s \in Seq(Requests) : s \o <<>> = s
  OBVIOUS
<1>4. \A s \in Seq(Requests) : s \o <<Op("updateVariable")>> = Append(s, Op("updateVariable"))
  BY <1>1
<1> QED
  BY <1>1, <1>2, <1>3, <1>4 DEF AskToSimulate, Channels

\* What is sent when a flag changes.
LEMMA SetTyped ==
  ASSUME Channels, serverSimulating \in BOOLEAN, NEW b \in BOOLEAN, SetSimulating(b)
  PROVE  /\ toClient' \in Seq(Answers) /\ serverSimulating' \in BOOLEAN
         /\ serverSimulating' = b
         /\ \/ serverSimulating = b /\ toClient' = toClient
            \/ serverSimulating # b /\ toClient' = Append(toClient, Flag(b))
<1>1. Flag(b) \in Answers
  BY DEF Answers
<1>2. Append(toClient, Flag(b)) \in Seq(Answers) /\ toClient \in Seq(Answers)
  BY <1>1 DEF Channels
<1>3. \/ serverSimulating = b /\ toClient' = toClient
      \/ serverSimulating # b /\ toClient' = Append(toClient, Flag(b))
  BY Zenon DEF SetSimulating
<1> QED
  BY <1>2, <1>3 DEF SetSimulating

\* Every step keeps the types.
LEMMA TypeStep ==
  ASSUME TypeInv, [Next]_vars
  PROVE  TypeInv'
<1>0. QueueInv' /\ Channels /\ OtherTypes
  BY QueueInvKept DEF TypeInv
<1> SUFFICES Channels' /\ OtherTypes'
  BY <1>0 DEF TypeInv
<1> USE SimulationControlAssumption
<1>1. ASSUME NEW n \in StepCounts, CalculateSomeSteps(n) PROVE Channels' /\ OtherTypes'
  <2>1. Steps(n) \in Requests
    BY DEF Requests
  <2>2. toServer' \in Seq(Requests)
    BY <1>0, <1>1, <2>1, AskTyped DEF CalculateSomeSteps, Channels
  <2>3. calls' \in 0 .. MaxCalls /\ requested' \in Nat
    BY <1>0, <1>1 DEF CalculateSomeSteps, MayCall, OtherTypes
  <2> QED
    BY <1>0, <1>1, <2>2, <2>3
       DEF CalculateSomeSteps, AskToSimulate, serverVars, Channels, OtherTypes
<1>2. CASE StartSimulation
  <2>1. Op("startSimulation") \in Requests
    BY DEF Requests
  <2>2. toServer' \in Seq(Requests)
    BY <1>0, <1>2, <2>1, AskTyped DEF StartSimulation, Channels
  <2>3. calls' \in 0 .. MaxCalls
    BY <1>0, <1>2 DEF StartSimulation, MayCall, OtherTypes
  <2> QED
    BY <1>0, <1>2, <2>2, <2>3
       DEF StartSimulation, AskToSimulate, serverVars, Channels, OtherTypes
<1>3. CASE StopSimulation
  <2>1. toServer' \in Seq(Requests)
    BY <1>0, <1>3 DEF StopSimulation, Channels, Requests
  <2> QED
    BY <1>0, <1>3, <2>1 DEF StopSimulation, serverVars, Channels, OtherTypes
<1>4. CASE PollingSucceeds \/ StartIsSeen
  BY <1>0, <1>4 DEF PollingSucceeds, StartIsSeen, serverVars, Channels, OtherTypes
<1>5. CASE PopStepCounter
  <2>1. toServer' \in Seq(Requests)
    BY <1>0, <1>5 DEF PopStepCounter, Channels, Requests
  <2>2. calls' \in 0 .. MaxCalls
    BY <1>0, <1>5 DEF PopStepCounter, MayCall, OtherTypes
  <2> QED
    BY <1>0, <1>5, <2>1, <2>2 DEF PopStepCounter, serverVars, Channels, OtherTypes
<1>6. CASE ClientReceive
  <2> DEFINE m == Head(toClient)
  <2>1. m \in Answers
        /\ toClient' \in Seq(Answers)
    BY <1>0, <1>6, HeadTailProperties DEF ClientReceive, Channels
  <2>2. clientSimulating' \in BOOLEAN
    <3>1. CASE IsReply(m)
      BY <1>0, <1>6, <3>1 DEF ClientReceive, OtherTypes
    <3>2. CASE ~IsReply(m)
      <4>1. \E b \in BOOLEAN : m = Flag(b)
        BY <2>1, <3>2, FlagOrReply DEF Answers
      <4> QED
        BY <1>6, <3>2, <4>1, FlagOrReply DEF ClientReceive, ClientStores
    <3> QED
      BY <3>1, <3>2
  <2>3. collected' \in Nat /\ client' \in {"ready", "starting", "running", "polling", "awaiting"}
    <3>1. IsReply(m) => m.count \in Nat
      BY <2>1, FlagOrReply DEF Answers
    <3> QED
      BY <1>0, <1>6, <3>1 DEF ClientReceive, OtherTypes
  <2> QED
    BY <1>0, <1>6, <2>1, <2>2, <2>3 DEF ClientReceive, serverVars, Channels, OtherTypes
<1>7. CASE ServerReceive
  <2>1. toServer' \in Seq(Requests)
    BY <1>0, <1>7, HeadTailProperties DEF ServerReceive, Channels
  <2>2. toClient' \in Seq(Answers) /\ serverSimulating' \in BOOLEAN
    <3>1. SetSimulating(TRUE) \/ UNCHANGED <<serverSimulating, toClient>>
      BY <1>7 DEF ServerReceive
    <3> QED
      BY <1>0, <3>1, SetTyped DEF Channels, OtherTypes
  <2> QED
    BY <1>0, <1>7, <2>1, <2>2 DEF ServerReceive, clientVars, Channels, OtherTypes
<1>8. CASE DeliverPosted
  <2> DEFINE m == Head(posted)
  <2>1. m \in Posts
        /\ posted' \in Seq(Posts)
    BY <1>0, <1>8, HeadTailProperties DEF DeliverPosted, Channels
  <2>2. toClient' \in Seq(Answers) /\ serverSimulating' \in BOOLEAN
    <3>1. CASE m \in Reports
      <4>1. m \in Answers /\ IsReply(m)
        BY <3>1, FlagOrReply DEF Answers
      <4>2. toClient' = Append(toClient, m) /\ serverSimulating' = serverSimulating
        BY <1>8, <4>1 DEF DeliverPosted
      <4> HIDE DEF m
      <4> QED
        BY <1>0, <4>1, <4>2 DEF Channels, OtherTypes
    <3>2. CASE m = Flag(FALSE)
      <4>1. SetSimulating(FALSE)
        BY <1>8, <3>2, FlagOrReply DEF DeliverPosted
      <4> QED
        BY <1>0, <4>1, SetTyped DEF OtherTypes
    <3> QED
      BY <2>1, <3>1, <3>2 DEF Posts
  <2> QED
    BY <1>0, <1>8, <2>1, <2>2 DEF DeliverPosted, clientVars, Channels, OtherTypes
<1>9. CASE Pop
  <2>1. posted' \in Seq(Posts)
    <3>1. Append(posted, Flag(FALSE)) \in Seq(Posts)
      BY <1>0 DEF Channels, Posts
    <3> QED
      BY <1>0, <1>9, <3>1 DEF Pop, PostsSimulating, Channels
  <2> QED
    BY <1>0, <1>9, <2>1 DEF Pop, clientVars, Channels, OtherTypes
<1>10. CASE HandleUpdateVariable
  BY <1>0, <1>10 DEF HandleUpdateVariable, clientVars, Channels, OtherTypes
<1>11. CASE HandlePopStepCounter
  <2>1. stepCounter \in Nat
    BY <1>0 DEF OtherTypes
  <2>2. Reply(stepCounter) \in Posts
    BY <2>1 DEF Posts, Reports
  <2>3. posted' \in Seq(Posts)
    BY <1>0, <1>11, <2>2 DEF HandlePopStepCounter, Channels
  <2> QED
    BY <1>0, <1>11, <2>3, SimulationControlAssumption
       DEF HandlePopStepCounter, clientVars, Channels, OtherTypes
<1>12. CASE HandleStep
  BY <1>0, <1>12 DEF HandleStep, clientVars, Channels, OtherTypes
<1>13. CASE UNCHANGED vars
  BY <1>0, <1>13 DEF vars, serverVars, clientVars, Channels, OtherTypes
<1> QED
  BY <1>1, <1>2, <1>3, <1>4, <1>5, <1>6, <1>7, <1>8, <1>9, <1>10, <1>11, <1>12, <1>13
     DEF Next, WorkerNext

\* The types and the flags of the queue are an invariant of the system.
LEMMA TypeInvariant == Spec => []TypeInv
<1>1. Init => TypeInv
  <2> SUFFICES ASSUME Init PROVE TypeInv
    OBVIOUS
  <2>1. Q!TypeOK
    <3>1. items \in Seq(Q!QueuedItems) /\ simulationSteps \in 0 .. 2 ^ 16 - 1
      BY Width DEF Init, Q!Init
    <3> QED
      BY <3>1 DEF Init, Q!Init, Q!TypeOK, Q!WorkerStates, Q!MainStates, Q!ThreadStates
  <2>2. QueueInv
    BY <2>1 DEF Init, Q!Init, QueueInv, Q!IInv, Q!QueueEmptyIsAboutRequests,
                Q!CanWorkIsSound, Q!SleepsWithoutWork, Q!Idle
  <2>3. Channels /\ OtherTypes
    <3>1. <<>> \in Seq(Requests) /\ <<>> \in Seq(Posts) /\ <<>> \in Seq(Answers)
      OBVIOUS
    <3> QED
      <4>1. Channels
        BY <3>1 DEF Init, Channels
      <4>2. OtherTypes
        <5>1. 0 \in 0 .. MaxCounted /\ 0 \in 0 .. MaxCalls /\ 0 \in Nat
          BY SimulationControlAssumption
        <5>2. /\ serverSimulating = FALSE /\ clientSimulating = FALSE /\ started = FALSE
              /\ stepCounter = 0 /\ calls = 0 /\ requested = 0 /\ collected = 0
              /\ client = "ready"
          BY DEF Init
        <5> QED
          BY <5>1, <5>2, Zenon DEF OtherTypes
      <4> QED
        BY <4>1, <4>2
  <2> QED
    BY <2>2, <2>3 DEF TypeInv
<1> QED
  BY <1>1, TypeStep, PTL DEF Spec

\* Every variable of the client, the server and the network keeps its type: no
\* request, reply or flag gets into a channel whose end does not know it
\* (ActionSender, ActionReceiver, WorkQueue).
THEOREM TypeCorrect == Spec => []TypeOK
<1>1. TypeInv => TypeOK
  BY TypesHold
<1> QED
  BY <1>1, TypeInvariant, PTL

\* The work queue of the system is a WorkQueue: whatever the client asks for, no
\* step of the server does to the queue what the methods of the queue do not
\* (ActionReceiver::processRequest, SimulationWorker::work).
THEOREM QueueIsAWorkQueue == Spec => Q!Spec
<1>1. Init => Q!Init
  BY DEF Init
<1>2. TypeInv /\ [Next]_vars => [Q!Next]_(Q!vars)
  <2>1. QueueStep => Q!Next
    BY DEF QueueStep, Q!Next, Q!MainNext, Q!WorkerNext, Queued
  <2>2. UNCHANGED queueVars => UNCHANGED Q!vars
    BY DEF queueVars, Q!vars
  <2> QED
    BY <2>1, <2>2, NextIsQueueStep
<1> QED
  BY <1>1, <1>2, TypeInvariant, PTL DEF Spec, Q!Spec

-----------------------------------------------------------------------------
(* When nothing is under way nobody believes that a simulation runs *)

\* What a client will believe when it has received these messages, the last flag
\* of them if there is one.
Believes(flag, msgs) ==
  \/ flag /\ \A i \in DOMAIN msgs : IsReply(msgs[i])
  \/ \E i \in DOMAIN msgs :
       msgs[i] = Flag(TRUE) /\ \A j \in DOMAIN msgs : j > i => IsReply(msgs[j])

WillBelieve == Believes(clientSimulating, toClient)

\* The client's own TRUE is on its way to the server.
UpdateUnderWay ==
  \/ \E i \in DOMAIN toServer : toServer[i].op = "updateVariable"
  \/ \E i \in DOMAIN items : items[i] = "updateVariable"
  \/ current = "updateVariable"

\* A sleeping worker has posted the FALSE that the server has not stored yet.
LoweringUnderWay ==
  worker = "waiting" /\ serverSimulating => \E i \in DOMAIN posted : posted[i] = Flag(FALSE)

\* The client will believe no more than the server has or is about to be told.
ServerKnows == WillBelieve => serverSimulating \/ UpdateUnderWay

\* The inductive invariant.
QuietInv == TypeInv /\ LoweringUnderWay /\ ServerKnows

\* An element more, at the end.
LEMMA Appended ==
  ASSUME NEW S, NEW s \in Seq(S), NEW e \in S
  PROVE  /\ Len(s) \in Nat
         /\ DOMAIN s = 1 .. Len(s)
         /\ DOMAIN Append(s, e) = 1 .. Len(s) + 1
         /\ Append(s, e)[Len(s) + 1] = e
         /\ \A i \in 1 .. Len(s) : Append(s, e)[i] = s[i]
<1>1. Len(s) \in Nat /\ DOMAIN s = 1 .. Len(s)
  BY LenProperties
<1>2. /\ Append(s, e) \in Seq(S) /\ Len(Append(s, e)) = Len(s) + 1
      /\ Append(s, e)[Len(s) + 1] = e
      /\ \A i \in 1 .. Len(s) : Append(s, e)[i] = s[i]
  BY AppendProperties
<1>3. DOMAIN Append(s, e) = 1 .. Len(s) + 1
  BY <1>2, LenProperties
<1> QED
  BY <1>1, <1>2, <1>3

\* One element less, at the front.
LEMMA Removed ==
  ASSUME NEW S, NEW s \in Seq(S), s # <<>>
  PROVE  /\ Head(s) \in S
         /\ Len(s) \in Nat \ {0}
         /\ DOMAIN s = 1 .. Len(s)
         /\ DOMAIN Tail(s) = 1 .. Len(s) - 1
         /\ Head(s) = s[1]
         /\ \A i \in 1 .. Len(s) - 1 : Tail(s)[i] = s[i + 1]
<1>1. Len(s) \in Nat \ {0} /\ DOMAIN s = 1 .. Len(s) /\ Head(s) = s[1]
  BY LenProperties, EmptySeq
<1>2. /\ Tail(s) \in Seq(S) /\ Head(s) \in S /\ Len(Tail(s)) = Len(s) - 1
      /\ \A i \in 1 .. Len(s) - 1 : Tail(s)[i] = s[i + 1]
  BY HeadTailProperties
<1>3. DOMAIN Tail(s) = 1 .. Len(s) - 1
  BY <1>2, LenProperties
<1> QED
  BY <1>1, <1>2, <1>3

\* What an appended message changes of the client's belief.
LEMMA BeliefAppended ==
  ASSUME NEW msgs \in Seq(Answers), NEW m \in Answers, NEW flag \in BOOLEAN,
         Believes(flag, Append(msgs, m))
  PROVE  /\ IsReply(m) => Believes(flag, msgs)
         /\ m # Flag(FALSE)
<1> DEFINE more == Append(msgs, m)
<1>0. PICK n \in Nat : n = Len(msgs)
  BY LenProperties
<1>1. /\ DOMAIN msgs = 1 .. n /\ DOMAIN more = 1 .. n + 1
      /\ more[n + 1] = m /\ \A i \in 1 .. n : more[i] = msgs[i]
  BY <1>0, Appended
<1>2. n + 1 \in DOMAIN more /\ \A i \in DOMAIN more : i \in 1 .. n \/ i = n + 1
  BY <1>1
<1>3. m \in {Flag(TRUE), Flag(FALSE)} => ~IsReply(m)
  BY FlagOrReply
<1>4. Believes(flag, more)
  OBVIOUS
<1> HIDE DEF more
<1>5. CASE flag /\ \A i \in DOMAIN more : IsReply(more[i])
  <2>1. IsReply(more[n + 1]) /\ \A i \in DOMAIN msgs : IsReply(more[i])
    BY <1>1, <1>2, <1>5
  <2> QED
    BY <1>1, <1>3, <1>5, <2>1 DEF Believes
<1>6. ASSUME NEW i \in DOMAIN more, more[i] = Flag(TRUE),
             \A j \in DOMAIN more : j > i => IsReply(more[j])
      PROVE  m # Flag(FALSE) /\ (IsReply(m) => Believes(flag, msgs))
  <2>1. CASE i = n + 1
    BY <1>1, <1>3, <1>6, <2>1, FlagOrReply
  <2>2. CASE i \in 1 .. n
    <3>1. n + 1 > i
      BY <2>2
    <3>2. IsReply(more[n + 1])
      BY <1>2, <1>6, <3>1
    <3>3. msgs[i] = Flag(TRUE) /\ \A j \in DOMAIN msgs : j > i => IsReply(msgs[j])
      <4>1. \A j \in DOMAIN msgs : j \in DOMAIN more /\ more[j] = msgs[j]
        BY <1>1
      <4>2. i \in DOMAIN msgs
        BY <1>1, <2>2
      <4> QED
        BY <1>6, <4>1, <4>2
    <3> QED
      BY <1>1, <1>3, <2>2, <3>2, <3>3 DEF Believes
  <2> QED
    BY <1>2, <2>1, <2>2
<1> QED
  BY <1>4, <1>5, <1>6 DEF Believes, more

\* Receiving a message changes nothing of what the client will believe.
LEMMA BeliefReceived ==
  ASSUME NEW msgs \in Seq(Answers), msgs # <<>>, NEW flag \in BOOLEAN,
         Believes(IF IsReply(Head(msgs)) THEN flag ELSE Head(msgs).simulating, Tail(msgs))
  PROVE  Believes(flag, msgs)
<1> DEFINE rest == Tail(msgs)
           m == Head(msgs)
<1>0. PICK n \in Nat : n = Len(msgs)
  BY LenProperties
<1>1. /\ DOMAIN msgs = 1 .. n /\ DOMAIN rest = 1 .. n - 1
      /\ 1 \in DOMAIN msgs /\ msgs[1] = m /\ m \in Answers
      /\ \A i \in 1 .. n - 1 : rest[i] = msgs[i + 1]
  BY <1>0, Removed
<1>2. Believes(IF IsReply(m) THEN flag ELSE m.simulating, rest)
  OBVIOUS
<1> HIDE DEF rest, m
<1>3. \A j \in DOMAIN msgs : j > 1 =>
        j - 1 \in DOMAIN rest /\ (j - 1) + 1 = j /\ rest[j - 1] = msgs[j]
  BY <1>1
<1>4. CASE \A i \in DOMAIN rest : IsReply(rest[i])
  <2>1. \A j \in DOMAIN msgs : j > 1 => IsReply(msgs[j])
    BY <1>3, <1>4
  <2>2. IF IsReply(m) THEN flag ELSE m.simulating
    <3>1. \A i \in DOMAIN rest : rest[i] # Flag(TRUE)
      BY <1>4, FlagOrReply
    <3> QED
      BY <1>2, <3>1, Zenon DEF Believes
  <2>3. CASE IsReply(m)
    <3>1. \A j \in DOMAIN msgs : IsReply(msgs[j])
      BY <1>1, <2>1, <2>3
    <3> QED
      BY <2>2, <2>3, <3>1 DEF Believes
  <2>4. CASE ~IsReply(m)
    <3>1. m \in {Flag(TRUE), Flag(FALSE)}
      BY <1>1, <2>4, FlagOrReply DEF Answers
    <3>2. m.simulating
      BY <2>2, <2>4
    <3>3. m # Flag(FALSE)
      <4> SUFFICES ASSUME m = Flag(FALSE) PROVE FALSE
        OBVIOUS
      <4>1. m.simulating = FALSE
        BY FlagOrReply
      <4> QED
        BY <3>2, <4>1
    <3> QED
      BY <1>1, <2>1, <3>1, <3>3 DEF Believes
  <2> QED
    BY <2>3, <2>4
<1>5. ASSUME NEW i \in DOMAIN rest, rest[i] = Flag(TRUE),
             \A j \in DOMAIN rest : j > i => IsReply(rest[j])
      PROVE  Believes(flag, msgs)
  <2>1. i + 1 \in DOMAIN msgs /\ msgs[i + 1] = Flag(TRUE)
    <3>1. i \in 1 .. n - 1 /\ i + 1 \in 1 .. n
      BY <1>0, <1>1
    <3> QED
      BY <1>1, <1>5, <3>1
  <2>2. ASSUME NEW j \in DOMAIN msgs, j > i + 1 PROVE IsReply(msgs[j])
    <3>1. j > 1 /\ j - 1 > i
      BY <1>1, <2>2
    <3> QED
      BY <1>3, <1>5, <3>1
  <2> QED
    BY <2>1, <2>2 DEF Believes
<1> QED
  BY <1>2, <1>4, <1>5, Zenon DEF Believes

\* How the client's update travels: it stays under way until the worker handles it.
LEMMA UpdateMoves ==
  ASSUME TypeInv, UpdateUnderWay, [Next]_vars, ~HandleUpdateVariable
  PROVE  UpdateUnderWay'
<1>0. /\ toServer \in Seq(Requests) /\ items \in Seq(Q!QueuedItems)
      /\ worker # "handling" /\ worker # "failed" => current = "none"
  BY DEF TypeInv, Channels, QueueInv, Q!TypeOK
<1>1. ASSUME NEW i \in DOMAIN toServer, toServer[i].op = "updateVariable"
      PROVE  UpdateUnderWay'
  <2>1. CASE UNCHANGED toServer
    BY <1>1, <2>1 DEF UpdateUnderWay
  <2>2. ASSUME NEW m \in Requests, toServer' = Append(toServer, m) PROVE UpdateUnderWay'
    <3>1. i \in DOMAIN toServer' /\ toServer'[i] = toServer[i]
      BY <1>0, <1>1, <2>2, Appended
    <3> QED
      BY <1>1, <3>1 DEF UpdateUnderWay
  <2>3. ASSUME NEW m \in Requests, toServer' = Append(Append(toServer, m), Op("updateVariable"))
        PROVE  UpdateUnderWay'
    <3> DEFINE s == Append(toServer, m)
    <3>1. s \in Seq(Requests) /\ Op("updateVariable") \in Requests
      BY <1>0, AppendProperties DEF Requests
    <3>2. Len(s) + 1 \in DOMAIN toServer' /\ toServer'[Len(s) + 1] = Op("updateVariable")
      BY <2>3, <3>1, Appended
    <3>3. Op("updateVariable").op = "updateVariable"
      BY DEF Op
    <3> QED
      BY <3>2, <3>3 DEF UpdateUnderWay
  <2>4. CASE ServerReceive
    <3> DEFINE m == Head(toServer)
    <3>1. /\ m \in Requests /\ m = toServer[1] /\ DOMAIN toServer = 1 .. Len(toServer)
          /\ DOMAIN toServer' = 1 .. Len(toServer) - 1 /\ Len(toServer) \in Nat
          /\ \A k \in 1 .. Len(toServer) - 1 : toServer'[k] = toServer[k + 1]
      BY <1>0, <2>4, Removed DEF ServerReceive
    <3>2. CASE i = 1
      <4>1. Q!PushRequest("updateVariable")
        BY <1>1, <2>4, <3>1, <3>2 DEF ServerReceive
      <4>2. items' = Append(items, "updateVariable") /\ "updateVariable" \in Q!QueuedItems
        BY <4>1 DEF Q!PushRequest, Q!PushItem, Q!QueueItem, Q!QueuedItems
      <4>3. Len(items) + 1 \in DOMAIN items' /\ items'[Len(items) + 1] = "updateVariable"
        BY <1>0, <4>2, Appended
      <4> QED
        BY <4>3 DEF UpdateUnderWay
    <3>3. CASE i # 1
      <4>1. i - 1 \in DOMAIN toServer' /\ (i - 1) + 1 = i
        BY <1>1, <3>1, <3>3
      <4>2. toServer'[i - 1] = toServer[i]
        BY <3>1, <4>1
      <4> QED
        BY <1>1, <4>1, <4>2 DEF UpdateUnderWay
    <3> QED
      BY <3>2, <3>3
  <2>5. CASE ~ServerReceive /\ ~UNCHANGED toServer
    <3>1. \/ \E n \in StepCounts : CalculateSomeSteps(n)
          \/ StartSimulation \/ StopSimulation \/ PopStepCounter
      BY <2>5 DEF Next, WorkerNext, Pop, HandleUpdateVariable, HandlePopStepCounter, HandleStep,
                  PollingSucceeds, StartIsSeen, ClientReceive, DeliverPosted, vars
    <3>2. ASSUME NEW r \in Requests, AskToSimulate(r) PROVE UpdateUnderWay'
      BY <2>2, <2>3, <3>2, AskTyped DEF TypeInv
    <3>3. /\ Op("startSimulation") \in Requests /\ Op("stopSimulation") \in Requests
          /\ Op("popStepCounter") \in Requests
          /\ \A n \in StepCounts : Steps(n) \in Requests
      BY DEF Requests
    <3> QED
      BY <2>2, <2>5, <3>1, <3>2, <3>3
         DEF CalculateSomeSteps, StartSimulation, StopSimulation, PopStepCounter
  <2> QED
    BY <2>1, <2>4, <2>5
<1>2. ASSUME NEW i \in DOMAIN items, items[i] = "updateVariable"
      PROVE  UpdateUnderWay'
  <2>1. CASE UNCHANGED items
    BY <1>2, <2>1 DEF UpdateUnderWay
  <2>2. ASSUME NEW r \in Queued, Q!PushRequest(r) PROVE UpdateUnderWay'
    <3>1. items' = Append(items, r) /\ r \in Q!QueuedItems
      BY <2>2 DEF Q!PushRequest, Q!PushItem, Q!QueueItem, Q!QueuedItems, Queued
    <3>2. i \in DOMAIN items' /\ items'[i] = items[i]
      BY <1>0, <1>2, <3>1, Appended
    <3> QED
      BY <1>2, <3>2 DEF UpdateUnderWay
  <2>3. CASE Q!TakeItem
    <3>1. items # <<>> /\ current' = Head(items) /\ items' = Tail(items)
      BY <2>3 DEF Q!TakeItem
    <3>2. /\ current' = items[1] /\ DOMAIN items = 1 .. Len(items)
          /\ DOMAIN items' = 1 .. Len(items) - 1 /\ Len(items) \in Nat
          /\ \A k \in 1 .. Len(items) - 1 : items'[k] = items[k + 1]
      BY <1>0, <3>1, Removed
    <3>3. CASE i = 1
      BY <1>2, <3>2, <3>3 DEF UpdateUnderWay
    <3>4. CASE i # 1
      <4>1. i - 1 \in DOMAIN items' /\ (i - 1) + 1 = i
        BY <1>2, <3>2, <3>4
      <4>2. items'[i - 1] = items[i]
        BY <3>2, <4>1
      <4> QED
        BY <1>2, <4>1, <4>2 DEF UpdateUnderWay
    <3> QED
      BY <3>3, <3>4
  <2>4. CASE Q!TakeStep(FALSE)
    <3>1. items = <<>>
      BY <2>4 DEF Q!TakeStep
    <3>2. DOMAIN items = {}
      BY <3>1
    <3> QED
      BY <1>2, <3>2
  <2>5. QueueStep \/ UNCHANGED items
    BY NextIsQueueStep DEF queueVars
  <2> QED
    BY <2>1, <2>2, <2>3, <2>4, <2>5
       DEF QueueStep, Q!PushSimulationSteps, Q!StartContinuous, Q!StopSimulation, Q!Sleep,
           Q!Fail, Q!HandleOther, Q!queueVars
<1>3. CASE current = "updateVariable"
  <2>1. worker = "handling" \/ worker = "failed"
    BY <1>0, <1>3
  <2>2. ~Pop /\ ~HandlePopStepCounter /\ ~HandleStep
    BY <1>3, <2>1 DEF Pop, HandlePopStepCounter, HandleStep, Q!Sleep, Q!TakeItem, Q!TakeStep,
                      Q!Fail, Q!HasMutex
  <2>3. UNCHANGED current
    BY <2>2 DEF Next, WorkerNext, CalculateSomeSteps, StartSimulation, StopSimulation,
                PollingSucceeds, StartIsSeen, PopStepCounter, ClientReceive, ServerReceive, DeliverPosted,
                Q!PushRequest, Q!PushSimulationSteps, Q!StartContinuous, Q!StopSimulation,
                vars, queueVars
  <2> QED
    BY <1>3, <2>3 DEF UpdateUnderWay
<1> QED
  BY <1>1, <1>2, <1>3 DEF UpdateUnderWay

\* Every step keeps the invariant.
LEMMA QuietStep ==
  ASSUME QuietInv, [Next]_vars
  PROVE  QuietInv'
<1>0. /\ TypeInv /\ TypeInv' /\ Channels /\ OtherTypes /\ LoweringUnderWay /\ ServerKnows
      /\ posted \in Seq(Posts) /\ toClient \in Seq(Answers)
      /\ serverSimulating \in BOOLEAN /\ clientSimulating \in BOOLEAN
  BY TypeStep DEF QuietInv, TypeInv, Channels, OtherTypes
<1>1. LoweringUnderWay'
  <2>1. CASE UNCHANGED <<worker, serverSimulating, posted>>
    BY <1>0, <2>1 DEF LoweringUnderWay
  <2>2. CASE worker' # "waiting"
    BY <2>2 DEF LoweringUnderWay
  <2>3. CASE Pop
    <3>1. CASE Q!Sleep
      <4>1. Q!Idle /\ worker = "popping"
        BY <1>0, <3>1 DEF TypeInv, QueueInv, Q!IInv, Q!CanWorkIsSound, Q!Sleep
      <4>2. PICK down \in Posts : down = Flag(FALSE)
        BY DEF Posts
      <4>3. posted' = Append(posted, down)
        BY <2>3, <4>1, <4>2 DEF Pop, PostsSimulating
      <4>4. Len(posted) + 1 \in DOMAIN posted' /\ posted'[Len(posted) + 1] = down
        BY <1>0, <4>3, Appended
      <4> QED
        BY <4>2, <4>4 DEF LoweringUnderWay
    <3>2. CASE ~Q!Sleep
      BY <2>2, <2>3, <3>2 DEF Pop, Q!TakeItem, Q!TakeStep, Q!Fail
    <3> QED
      BY <3>1, <3>2
  <2>4. CASE HandleUpdateVariable \/ HandlePopStepCounter \/ HandleStep
    BY <2>2, <2>4 DEF HandleUpdateVariable, HandlePopStepCounter, HandleStep, Q!HandleOther,
                      Q!NextRound
  <2>5. CASE ServerReceive
    <3>1. CASE UNCHANGED <<serverSimulating, worker>>
      BY <2>1, <2>5, <3>1 DEF ServerReceive
    <3>2. CASE Q!WakeOne
      BY <2>2, <3>2 DEF Q!WakeOne
    <3>3. (UNCHANGED serverSimulating /\ Q!StopSimulation)
          \/ Q!WakeOne
          \/ (UNCHANGED serverSimulating /\ \E r \in Queued : Q!PushRequest(r))
      BY <2>5 DEF ServerReceive, Q!PushSimulationSteps, Q!StartContinuous, Queued
    <3> QED
      BY <3>1, <3>2, <3>3 DEF Q!StopSimulation, Q!PushRequest, Q!PushItem
  <2>6. CASE DeliverPosted
    <3> DEFINE m == Head(posted)
    <3>1. /\ m \in Posts /\ m = posted[1] /\ DOMAIN posted = 1 .. Len(posted)
          /\ DOMAIN posted' = 1 .. Len(posted) - 1 /\ Len(posted) \in Nat
          /\ \A k \in 1 .. Len(posted) - 1 : posted'[k] = posted[k + 1]
      BY <1>0, <2>6, Removed DEF DeliverPosted
    <3>2. CASE m = Flag(FALSE)
      <4>1. ~IsReply(m) /\ m.simulating = FALSE
        BY <3>2, FlagOrReply
      <4>2. serverSimulating' = FALSE
        BY <2>6, <4>1 DEF DeliverPosted, SetSimulating
      <4> QED
        BY <4>2 DEF LoweringUnderWay
    <3>3. CASE m # Flag(FALSE)
      <4>1. IsReply(m)
        BY <3>1, <3>3, FlagOrReply DEF Posts
      <4>2. serverSimulating' = serverSimulating /\ worker' = worker
        BY <2>6, <4>1 DEF DeliverPosted, queueVars
      <4>3. ASSUME NEW i \in DOMAIN posted, posted[i] = Flag(FALSE)
            PROVE  i - 1 \in DOMAIN posted' /\ posted'[i - 1] = Flag(FALSE)
        <5>1. i # 1
          BY <3>1, <3>3, <4>3
        <5>2. i - 1 \in 1 .. Len(posted) - 1 /\ (i - 1) + 1 = i
          BY <3>1, <5>1
        <5>3. posted'[i - 1] = posted[i]
          BY <3>1, <5>2
        <5> QED
          BY <3>1, <4>3, <5>2, <5>3
      <4> QED
        BY <1>0, <4>2, <4>3 DEF LoweringUnderWay
    <3> QED
      BY <3>2, <3>3
  <2> QED
    BY <2>1, <2>3, <2>4, <2>5, <2>6
       DEF Next, WorkerNext, CalculateSomeSteps, StartSimulation, StopSimulation,
           PollingSucceeds, StartIsSeen, PopStepCounter, ClientReceive, vars, queueVars, serverVars
<1>2. ServerKnows'
  <2>1. CASE HandleUpdateVariable
    BY <2>1 DEF HandleUpdateVariable, ServerKnows
  <2>2. CASE ~HandleUpdateVariable
    <3>1. UpdateUnderWay => UpdateUnderWay'
      BY <1>0, <2>2, UpdateMoves
    <3>2. CASE UNCHANGED <<toClient, clientSimulating, serverSimulating>>
      BY <1>0, <3>1, <3>2 DEF ServerKnows, WillBelieve
    <3>3. ASSUME NEW r \in Requests, AskToSimulate(r), UNCHANGED <<toClient, serverSimulating>>
          PROVE  ServerKnows'
      <4>1. CASE clientSimulating
        <5>1. clientSimulating' = clientSimulating
          BY <3>3, <4>1 DEF AskToSimulate
        <5> QED
          BY <3>2, <3>3, <5>1
      <4>2. CASE ~clientSimulating
        <5> DEFINE s == Append(toServer, r)
        <5>1. toServer' = Append(s, Op("updateVariable"))
          BY <1>0, <3>3, <4>2, AskTyped
        <5>2. s \in Seq(Requests) /\ Op("updateVariable") \in Requests
          BY <1>0, AppendProperties DEF Requests, Channels
        <5> HIDE DEF s
        <5>3. Len(s) + 1 \in DOMAIN toServer' /\ toServer'[Len(s) + 1] = Op("updateVariable")
          BY <5>1, <5>2, Appended
        <5>4. Op("updateVariable").op = "updateVariable"
          BY DEF Op
        <5> QED
          BY <5>3, <5>4 DEF UpdateUnderWay, ServerKnows
      <4> QED
        BY <4>1, <4>2
    <3>4. CASE ClientReceive
      <4> DEFINE m == Head(toClient)
      <4>1. /\ toClient # <<>> /\ toClient' = Tail(toClient)
            /\ UNCHANGED serverSimulating
        BY <3>4 DEF ClientReceive, serverVars
      <4>2. clientSimulating' = IF IsReply(m) THEN clientSimulating ELSE m.simulating
        BY <3>4 DEF ClientReceive, ClientStores
      <4>3. WillBelieve' => WillBelieve
        BY <1>0, <4>1, <4>2, BeliefReceived DEF WillBelieve
      <4> QED
        BY <1>0, <3>1, <4>1, <4>3 DEF ServerKnows
    <3>5. CASE SetSimulating(TRUE)
      BY <3>5 DEF SetSimulating, ServerKnows
    <3>6. CASE DeliverPosted
      <4> DEFINE m == Head(posted)
      <4>1. m \in Posts /\ UNCHANGED clientSimulating
        BY <1>0, <3>6, Removed DEF DeliverPosted, clientVars
      <4>2. CASE IsReply(m)
        <5>1. toClient' = Append(toClient, m) /\ UNCHANGED serverSimulating /\ m \in Answers
          BY <3>6, <4>1, <4>2, FlagOrReply DEF DeliverPosted, Posts, Answers
        <5>2. WillBelieve' => WillBelieve
          BY <1>0, <4>1, <4>2, <5>1, BeliefAppended, ZenonT(40) DEF WillBelieve
        <5> QED
          BY <1>0, <3>1, <5>1, <5>2 DEF ServerKnows
      <4>3. CASE ~IsReply(m)
        <5>1. m = Flag(FALSE) /\ SetSimulating(FALSE)
          BY <3>6, <4>1, <4>3, FlagOrReply DEF DeliverPosted, Posts
        <5>2. CASE serverSimulating = FALSE
          <6>1. UNCHANGED <<toClient, clientSimulating, serverSimulating>>
            BY <1>0, <4>1, <5>1, <5>2, SetTyped
          <6> QED
            BY <3>2, <6>1
        <5>3. CASE serverSimulating # FALSE
          <6>1. PICK down \in Answers : down = Flag(FALSE)
            BY DEF Answers
          <6>2. toClient' = Append(toClient, down)
            BY <1>0, <5>1, <5>3, <6>1, SetTyped
          <6>3. ~Believes(clientSimulating, Append(toClient, down))
            BY <1>0, <6>1, BeliefAppended
          <6>4. ~WillBelieve'
            BY <4>1, <6>2, <6>3 DEF WillBelieve
          <6> QED
            BY <6>4 DEF ServerKnows
        <5> QED
          BY <5>2, <5>3
      <4> QED
        BY <4>2, <4>3
    <3>7. \/ UNCHANGED <<toClient, clientSimulating, serverSimulating>>
          \/ \E r \in Requests : AskToSimulate(r) /\ UNCHANGED <<toClient, serverSimulating>>
          \/ ClientReceive \/ SetSimulating(TRUE) \/ DeliverPosted
      <4>1. Op("startSimulation") \in Requests /\ \A n \in StepCounts : Steps(n) \in Requests
        BY DEF Requests
      <4>2. ASSUME NEW n \in StepCounts, CalculateSomeSteps(n)
            PROVE  \E r \in Requests : AskToSimulate(r) /\ UNCHANGED <<toClient, serverSimulating>>
        BY <4>1, <4>2 DEF CalculateSomeSteps, serverVars
      <4>3. CASE StartSimulation
        BY <4>1, <4>3 DEF StartSimulation, serverVars
      <4>4. CASE ServerReceive
        BY <4>4 DEF ServerReceive, clientVars
      <4>5. CASE \/ StopSimulation \/ StartIsSeen \/ PollingSucceeds \/ PopStepCounter \/ Pop
                 \/ HandlePopStepCounter \/ HandleStep \/ UNCHANGED vars
        BY <4>5 DEF StopSimulation, PollingSucceeds, StartIsSeen, PopStepCounter, Pop, HandlePopStepCounter,
                    HandleStep, vars, serverVars, clientVars
      <4> QED
        BY <2>2, <4>2, <4>3, <4>4, <4>5 DEF Next, WorkerNext
    <3> QED
      BY <3>2, <3>3, <3>4, <3>5, <3>6, <3>7
  <2> QED
    BY <2>1, <2>2
<1> QED
  BY <1>0, <1>1, <1>2 DEF QuietInv

\* It is an invariant of the system.
LEMMA QuietInvariant == Spec => []QuietInv
<1>1. Init /\ TypeInv => QuietInv
  <2> SUFFICES ASSUME Init, TypeInv PROVE QuietInv
    OBVIOUS
  <2>1. toClient = <<>> /\ clientSimulating = FALSE /\ serverSimulating = FALSE
    BY DEF Init
  <2>2. DOMAIN toClient = {}
    BY <2>1
  <2>3. ~WillBelieve
    BY <2>1, <2>2 DEF WillBelieve, Believes
  <2> QED
    BY <2>1, <2>3 DEF QuietInv, LoweringUnderWay, ServerKnows
<1> QED
  BY <1>1, TypeInvariant, QuietStep, PTL DEF Spec

\* When nothing is under way any more nobody believes that a simulation runs, so
\* no polling loop of a client waits for a message that was never sent: whatever
\* the client calls, and however its calls, the worker's signals and the two
\* copies of the flag overtake each other (popItem, ActionReceiver::simulating,
\* SimulatedSystem::set, willBeSimulating).
THEOREM QuietCorrect == Spec => []QuietMeansNotSimulating
<1>1. QuietInv => QuietMeansNotSimulating
  <2> SUFFICES ASSUME QuietInv, worker = "waiting", posted = <<>>
               PROVE  /\ ~serverSimulating
                      /\ toServer = <<>> /\ toClient = <<>> => ~clientSimulating
    BY DEF QuietMeansNotSimulating
  <2>1. ~serverSimulating
    <3>1. DOMAIN posted = {}
      OBVIOUS
    <3> QED
      BY <3>1 DEF QuietInv, LoweringUnderWay
  <2>2. ASSUME toServer = <<>>, toClient = <<>> PROVE ~clientSimulating
    <3>1. DOMAIN toServer = {} /\ DOMAIN toClient = {}
      BY <2>2
    <3>2. current = "none" /\ ~canWork /\ queueEmpty /\ items \in {<<>>, <<"prepareFrameData">>}
      BY DEF QuietInv, TypeInv, QueueInv, Q!IInv, Q!SleepsWithoutWork, Q!CanWorkIsSound,
             Q!QueueEmptyIsAboutRequests
    <3>3. \A i \in DOMAIN items : items[i] # "updateVariable"
      BY <3>2
    <3>4. ~UpdateUnderWay
      BY <3>1, <3>2, <3>3 DEF UpdateUnderWay
    <3>5. ~WillBelieve
      BY <2>1, <3>4 DEF QuietInv, ServerKnows
    <3> QED
      BY <3>1, <3>5 DEF WillBelieve, Believes
  <2> QED
    BY <2>1, <2>2
<1> QED
  BY <1>1, QuietInvariant, PTL

-----------------------------------------------------------------------------
(* Sums *)

\* Every set of numbers that is not empty has a first one.
LEMMA FirstNumber ==
  ASSUME NEW S \in SUBSET Nat, S # {}
  PROVE  \E k \in S : \A j \in S : k <= j
<1> DEFINE before == OpToRel(<, Nat)
<1>1. IsWellFoundedOn(before, Nat)
  BY NatLessThanWellFounded
<1>2. \A y \in Nat, x \in Nat : y < x => <<y, x>> \in before
  BY DEF OpToRel
<1> HIDE DEF before
<1>3. S \subseteq Nat
  OBVIOUS
<1>4. PICK k \in S : \A j \in S : ~(<<j, k>> \in before)
  BY <1>1, <1>3, WFMin
<1>5. \A j \in S : j \in Nat /\ k \in Nat /\ ~(j < k)
  BY <1>2, <1>3, <1>4
<1> QED
  BY <1>5

\* The sums of the first numbers of a list, one after the other.
Running(sums, numbers, n) ==
  /\ sums \in [0 .. n -> Nat]
  /\ sums[0] = 0
  /\ \A k \in 1 .. n : sums[k] = sums[k - 1] + numbers[k]

\* There are such sums.
LEMMA SumsExist ==
  ASSUME NEW n \in Nat, NEW numbers, \A k \in 1 .. n : numbers[k] \in Nat
  PROVE  \E sums : Running(sums, numbers, n)
<1> DEFINE Missing == {k \in 0 .. n : \A sums : ~Running(sums, numbers, k)}
<1>1. Missing = {}
  <2> SUFFICES ASSUME Missing # {} PROVE FALSE
    OBVIOUS
  <2>1. Missing \in SUBSET Nat
    OBVIOUS
  <2>2. PICK k \in Missing : \A j \in Missing : k <= j
    BY <2>1, FirstNumber
  <2>3. k \in 0 .. n /\ \A sums : ~Running(sums, numbers, k)
    OBVIOUS
  <2>4. CASE k = 0
    <3>1. Running([j \in 0 .. 0 |-> 0], numbers, 0)
      BY DEF Running
    <3> QED
      BY <2>3, <2>4, <3>1
  <2>5. CASE k # 0
    <3>1. k - 1 \in 0 .. n /\ ~(k <= k - 1) /\ k \in 1 .. n
      BY <2>3, <2>5
    <3>2. k - 1 \notin Missing
      BY <2>2, <3>1
    <3>3. PICK sums : Running(sums, numbers, k - 1)
      BY <3>1, <3>2
    <3> DEFINE more == [j \in 0 .. k |-> IF j = k THEN sums[k - 1] + numbers[k] ELSE sums[j]]
    <3>4. \A j \in 0 .. k : more[j] = IF j = k THEN sums[k - 1] + numbers[k] ELSE sums[j]
      OBVIOUS
    <3>5. /\ sums[0] = 0
          /\ \A j \in 0 .. k - 1 : sums[j] \in Nat
          /\ \A j \in 1 .. k - 1 : sums[j] = sums[j - 1] + numbers[j]
      BY <3>1, <3>3 DEF Running
    <3>6. more \in [0 .. k -> Nat]
      <4>1. sums[k - 1] + numbers[k] \in Nat
        BY <3>1, <3>5
      <4> QED
        BY <3>1, <3>5, <4>1
    <3> HIDE DEF more
    <3>7. more[0] = 0 /\ \A j \in 1 .. k : more[j] = more[j - 1] + numbers[j]
      BY <3>1, <3>4, <3>5
    <3>8. Running(more, numbers, k)
      BY <3>6, <3>7 DEF Running
    <3> QED
      BY <2>3, <3>8
  <2> QED
    BY <2>4, <2>5
<1> QED
  BY <1>1

\* The recursion of SumOfFirst follows them.
LEMMA SumIsLast ==
  ASSUME NEW n \in Nat, NEW numbers, \A k \in 1 .. n : numbers[k] \in Nat
  PROVE  \E sums : Running(sums, numbers, n) /\ SumOfFirst(numbers, n) = sums[n]
<1> DEFINE Next1(f) == [k \in 0 .. n |-> IF k = 0 THEN 0 ELSE f[k - 1] + numbers[k]]
           upTo == CHOOSE f : f = Next1(f)
<1>1. PICK sums : Running(sums, numbers, n)
  BY SumsExist
<1>2. sums = Next1(sums)
  BY <1>1 DEF Running
<1>3. upTo = Next1(upTo)
  BY <1>2
<1>4. SumOfFirst(numbers, n) = upTo[n]
  BY DEF SumOfFirst
<1> HIDE DEF upTo
<1>5. /\ upTo[0] = 0
      /\ \A k \in 1 .. n : upTo[k] = upTo[k - 1] + numbers[k]
  BY <1>3
<1> DEFINE Bad == {k \in 0 .. n : upTo[k] \notin Nat}
<1>6. Bad = {}
  <2> SUFFICES ASSUME Bad # {} PROVE FALSE
    OBVIOUS
  <2>1. Bad \in SUBSET Nat
    OBVIOUS
  <2>2. PICK k \in Bad : \A j \in Bad : k <= j
    BY <2>1, FirstNumber
  <2>3. k # 0 /\ k \in 1 .. n /\ k - 1 \in 0 .. n /\ ~(k <= k - 1)
    BY <1>5
  <2>4. upTo[k - 1] \in Nat
    BY <2>2, <2>3
  <2> QED
    BY <1>5, <2>3, <2>4
<1>7. upTo \in [0 .. n -> Nat]
  BY <1>3, <1>6
<1> QED
  BY <1>4, <1>5, <1>7 DEF Running

\* Two lists that begin alike have the same sums there.
LEMMA SumsAgree ==
  ASSUME NEW n \in Nat, NEW m \in Nat, n <= m, NEW f, NEW g, NEW F, NEW G,
         Running(F, f, n), Running(G, g, m), \A k \in 1 .. n : f[k] = g[k]
  PROVE  F[n] = G[n]
<1> DEFINE Bad == {k \in 0 .. n : F[k] # G[k]}
<1>1. Bad = {}
  <2> SUFFICES ASSUME Bad # {} PROVE FALSE
    OBVIOUS
  <2>1. Bad \in SUBSET Nat
    OBVIOUS
  <2>2. PICK k \in Bad : \A j \in Bad : k <= j
    BY <2>1, FirstNumber
  <2>3. k # 0 /\ k \in 1 .. n /\ k - 1 \in 0 .. n /\ ~(k <= k - 1) /\ k \in 1 .. m
    BY DEF Running
  <2>4. F[k - 1] = G[k - 1]
    BY <2>2, <2>3
  <2>5. F[k] = F[k - 1] + f[k] /\ G[k] = G[k - 1] + g[k] /\ f[k] = g[k]
    BY <2>3 DEF Running
  <2> QED
    BY <2>4, <2>5
<1> QED
  BY <1>1

\* One number more at the end adds it.
LEMMA SumAppended ==
  ASSUME NEW n \in Nat, NEW f, NEW g, \A k \in 1 .. n : f[k] \in Nat /\ g[k] = f[k],
         g[n + 1] \in Nat
  PROVE  /\ SumOfFirst(f, n) \in Nat
         /\ SumOfFirst(g, n + 1) = SumOfFirst(f, n) + g[n + 1]
<1>1. PICK F : Running(F, f, n) /\ SumOfFirst(f, n) = F[n]
  BY SumIsLast
<1>2. \A k \in 1 .. n + 1 : g[k] \in Nat
  <2> SUFFICES ASSUME NEW k \in 1 .. n + 1 PROVE g[k] \in Nat
    OBVIOUS
  <2>1. k \in 1 .. n \/ k = n + 1
    OBVIOUS
  <2> QED
    BY <2>1
<1>3. PICK G : Running(G, g, n + 1) /\ SumOfFirst(g, n + 1) = G[n + 1]
  BY <1>2, SumIsLast
<1>4. F[n] = G[n]
  BY <1>1, <1>3, SumsAgree
<1>5. F[n] \in Nat
  BY <1>1 DEF Running
<1>6. n + 1 \in 1 .. n + 1 /\ (n + 1) - 1 = n
  OBVIOUS
<1>7. G[n + 1] = G[n] + g[n + 1]
  BY <1>3, <1>6 DEF Running
<1> QED
  BY <1>1, <1>3, <1>4, <1>5, <1>7

\* The first number and the sum of the others.
LEMMA SumRemoved ==
  ASSUME NEW n \in Nat, NEW f, NEW g, \A k \in 1 .. n : g[k] \in Nat /\ g[k] = f[k + 1],
         f[1] \in Nat
  PROVE  /\ SumOfFirst(g, n) \in Nat
         /\ SumOfFirst(f, n + 1) = f[1] + SumOfFirst(g, n)
<1>1. PICK G : Running(G, g, n) /\ SumOfFirst(g, n) = G[n]
  BY SumIsLast
<1>2. \A k \in 1 .. n + 1 : f[k] \in Nat
  <2> SUFFICES ASSUME NEW k \in 1 .. n + 1 PROVE f[k] \in Nat
    OBVIOUS
  <2>1. k = 1 \/ (k - 1 \in 1 .. n /\ (k - 1) + 1 = k)
    OBVIOUS
  <2> QED
    BY <2>1
<1>3. PICK F : Running(F, f, n + 1) /\ SumOfFirst(f, n + 1) = F[n + 1]
  BY <1>2, SumIsLast
<1> DEFINE Bad == {k \in 0 .. n : F[k + 1] # f[1] + G[k]}
<1>4. F[0] = 0 /\ G[0] = 0 /\ F[1] = f[1]
  <2>1. 1 \in 1 .. n + 1 /\ 1 - 1 = 0
    OBVIOUS
  <2> QED
    BY <1>1, <1>3, <2>1 DEF Running
<1>5. Bad = {}
  <2> SUFFICES ASSUME Bad # {} PROVE FALSE
    OBVIOUS
  <2>1. Bad \in SUBSET Nat
    OBVIOUS
  <2>2. PICK k \in Bad : \A j \in Bad : k <= j
    BY <2>1, FirstNumber
  <2>3. k # 0
    BY <1>4
  <2>4. /\ k \in 1 .. n /\ k - 1 \in 0 .. n /\ ~(k <= k - 1)
        /\ k + 1 \in 1 .. n + 1 /\ (k - 1) + 1 = k /\ (k + 1) - 1 = k
    BY <2>3
  <2>5. F[k] = f[1] + G[k - 1]
    BY <2>2, <2>4
  <2>6. F[k + 1] = F[k] + f[k + 1] /\ G[k] = G[k - 1] + g[k]
    BY <1>1, <1>3, <2>4 DEF Running
  <2>7. g[k] = f[k + 1] /\ g[k] \in Nat /\ G[k - 1] \in Nat
    BY <1>1, <2>4 DEF Running
  <2> QED
    BY <2>2, <2>5, <2>6, <2>7
<1>6. F[n + 1] = f[1] + G[n] /\ G[n] \in Nat
  BY <1>1, <1>5 DEF Running
<1> QED
  BY <1>1, <1>3, <1>6

\* What the messages say: numbers.
LEMMA NumbersIn ==
  /\ \A m \in Requests : StepsOf(m) \in Nat
  /\ \A m \in Answers : CountOf(m) \in Nat
<1>1. ASSUME NEW m \in Requests PROVE StepsOf(m) \in Nat
  BY KnownRequest, SimulationControlAssumption DEF StepsOf
<1>2. ASSUME NEW m \in Answers PROVE CountOf(m) \in Nat
  BY FlagOrReply DEF CountOf, Answers
<1> QED
  BY <1>1, <1>2

\* The steps in a channel when a request is put into it and when it leaves.
LEMMA StepsMove ==
  ASSUME NEW s \in Seq(Requests)
  PROVE  /\ StepsIn(s) \in Nat
         /\ \A m \in Requests : StepsIn(Append(s, m)) = StepsIn(s) + StepsOf(m)
         /\ s # <<>> => StepsIn(s) = StepsOf(Head(s)) + StepsIn(Tail(s))
<1> DEFINE f == [i \in DOMAIN s |-> StepsOf(s[i])]
<1>1. Len(s) \in Nat /\ DOMAIN s = 1 .. Len(s) /\ \A i \in 1 .. Len(s) : s[i] \in Requests
  BY LenProperties
<1>2. \A i \in 1 .. Len(s) : f[i] = StepsOf(s[i]) /\ f[i] \in Nat
  BY <1>1, NumbersIn
<1>3. StepsIn(s) = SumOfFirst(f, Len(s))
  BY DEF StepsIn
<1> HIDE DEF f
<1>4. StepsIn(s) \in Nat
  BY <1>1, <1>2, <1>3, SumIsLast DEF Running
<1>5. ASSUME NEW m \in Requests PROVE StepsIn(Append(s, m)) = StepsIn(s) + StepsOf(m)
  <2> DEFINE t == Append(s, m)
             g == [i \in DOMAIN t |-> StepsOf(t[i])]
  <2>1. /\ DOMAIN t = 1 .. Len(s) + 1 /\ t[Len(s) + 1] = m /\ Len(t) = Len(s) + 1
        /\ \A i \in 1 .. Len(s) : t[i] = s[i]
    BY Appended, AppendProperties
  <2> HIDE DEF t
  <2>2. g[Len(s) + 1] = StepsOf(m) /\ \A i \in 1 .. Len(s) : g[i] = f[i]
    BY <1>1, <1>2, <2>1
  <2>3. StepsIn(t) = SumOfFirst(g, Len(s) + 1)
    BY <2>1 DEF StepsIn
  <2> HIDE DEF g
  <2>4. g[Len(s) + 1] \in Nat
    BY <2>2, NumbersIn
  <2>5. SumOfFirst(g, Len(s) + 1) = SumOfFirst(f, Len(s)) + g[Len(s) + 1]
    BY <1>1, <1>2, <2>2, <2>4, SumAppended
  <2> QED
    BY <1>3, <2>2, <2>3, <2>5 DEF t
<1>6. ASSUME s # <<>> PROVE StepsIn(s) = StepsOf(Head(s)) + StepsIn(Tail(s))
  <2> DEFINE t == Tail(s)
             g == [i \in DOMAIN t |-> StepsOf(t[i])]
  <2>1. PICK n \in Nat : Len(s) = n + 1
    <3>1. Len(s) \in Nat \ {0}
      BY <1>6, Removed
    <3>2. Len(s) - 1 \in Nat /\ Len(s) = (Len(s) - 1) + 1
      BY <3>1
    <3> QED
      BY <3>2
  <2>2. /\ Head(s) = s[1] /\ DOMAIN t = 1 .. n /\ Len(t) = n
        /\ \A i \in 1 .. n : t[i] = s[i + 1]
    <3>1. /\ Head(s) = s[1] /\ DOMAIN t = 1 .. Len(s) - 1
          /\ \A i \in 1 .. Len(s) - 1 : t[i] = s[i + 1]
      BY <1>6, Removed
    <3>2. Len(t) = Len(s) - 1
      BY <1>6, HeadTailProperties
    <3> QED
      BY <2>1, <3>1, <3>2
  <2> HIDE DEF t
  <2>3. 1 \in 1 .. Len(s) /\ \A i \in 1 .. n : i + 1 \in 1 .. Len(s)
    BY <2>1
  <2>4. f[1] = StepsOf(Head(s)) /\ f[1] \in Nat
    BY <1>2, <2>2, <2>3
  <2>5. \A i \in 1 .. n : g[i] \in Nat /\ g[i] = f[i + 1]
    BY <1>2, <2>2, <2>3
  <2>6. StepsIn(t) = SumOfFirst(g, n)
    BY <2>2 DEF StepsIn
  <2> HIDE DEF g
  <2>7. SumOfFirst(f, n + 1) = f[1] + SumOfFirst(g, n)
    BY <2>4, <2>5, SumRemoved
  <2> QED
    BY <1>3, <2>1, <2>4, <2>6, <2>7 DEF t
<1> QED
  BY <1>4, <1>5, <1>6
\* The counts in a channel when an answer is put into it and when it leaves.
LEMMA CountsMove ==
  ASSUME NEW s \in Seq(Answers)
  PROVE  /\ CountsIn(s) \in Nat
         /\ \A m \in Answers : CountsIn(Append(s, m)) = CountsIn(s) + CountOf(m)
         /\ s # <<>> => CountsIn(s) = CountOf(Head(s)) + CountsIn(Tail(s))
<1> DEFINE f == [i \in DOMAIN s |-> CountOf(s[i])]
<1>1. Len(s) \in Nat /\ DOMAIN s = 1 .. Len(s) /\ \A i \in 1 .. Len(s) : s[i] \in Answers
  BY LenProperties
<1>2. \A i \in 1 .. Len(s) : f[i] = CountOf(s[i]) /\ f[i] \in Nat
  BY <1>1, NumbersIn
<1>3. CountsIn(s) = SumOfFirst(f, Len(s))
  BY DEF CountsIn
<1> HIDE DEF f
<1>4. CountsIn(s) \in Nat
  BY <1>1, <1>2, <1>3, SumIsLast DEF Running
<1>5. ASSUME NEW m \in Answers PROVE CountsIn(Append(s, m)) = CountsIn(s) + CountOf(m)
  <2> DEFINE t == Append(s, m)
             g == [i \in DOMAIN t |-> CountOf(t[i])]
  <2>1. /\ DOMAIN t = 1 .. Len(s) + 1 /\ t[Len(s) + 1] = m /\ Len(t) = Len(s) + 1
        /\ \A i \in 1 .. Len(s) : t[i] = s[i]
    BY Appended, AppendProperties
  <2> HIDE DEF t
  <2>2. g[Len(s) + 1] = CountOf(m) /\ \A i \in 1 .. Len(s) : g[i] = f[i]
    BY <1>1, <1>2, <2>1
  <2>3. CountsIn(t) = SumOfFirst(g, Len(s) + 1)
    BY <2>1 DEF CountsIn
  <2> HIDE DEF g
  <2>4. g[Len(s) + 1] \in Nat
    BY <2>2, NumbersIn
  <2>5. SumOfFirst(g, Len(s) + 1) = SumOfFirst(f, Len(s)) + g[Len(s) + 1]
    BY <1>1, <1>2, <2>2, <2>4, SumAppended
  <2> QED
    BY <1>3, <2>2, <2>3, <2>5 DEF t
<1>6. ASSUME s # <<>> PROVE CountsIn(s) = CountOf(Head(s)) + CountsIn(Tail(s))
  <2> DEFINE t == Tail(s)
             g == [i \in DOMAIN t |-> CountOf(t[i])]
  <2>1. PICK n \in Nat : Len(s) = n + 1
    <3>1. Len(s) \in Nat \ {0}
      BY <1>6, Removed
    <3>2. Len(s) - 1 \in Nat /\ Len(s) = (Len(s) - 1) + 1
      BY <3>1
    <3> QED
      BY <3>2
  <2>2. /\ Head(s) = s[1] /\ DOMAIN t = 1 .. n /\ Len(t) = n
        /\ \A i \in 1 .. n : t[i] = s[i + 1]
    <3>1. /\ Head(s) = s[1] /\ DOMAIN t = 1 .. Len(s) - 1
          /\ \A i \in 1 .. Len(s) - 1 : t[i] = s[i + 1]
      BY <1>6, Removed
    <3>2. Len(t) = Len(s) - 1
      BY <1>6, HeadTailProperties
    <3> QED
      BY <2>1, <3>1, <3>2
  <2> HIDE DEF t
  <2>3. 1 \in 1 .. Len(s) /\ \A i \in 1 .. n : i + 1 \in 1 .. Len(s)
    BY <2>1
  <2>4. f[1] = CountOf(Head(s)) /\ f[1] \in Nat
    BY <1>2, <2>2, <2>3
  <2>5. \A i \in 1 .. n : g[i] \in Nat /\ g[i] = f[i + 1]
    BY <1>2, <2>2, <2>3
  <2>6. CountsIn(t) = SumOfFirst(g, n)
    BY <2>2 DEF CountsIn
  <2> HIDE DEF g
  <2>7. SumOfFirst(f, n + 1) = f[1] + SumOfFirst(g, n)
    BY <2>4, <2>5, SumRemoved
  <2> QED
    BY <1>3, <2>1, <2>4, <2>6, <2>7 DEF t
<1> QED
  BY <1>4, <1>5, <1>6

-----------------------------------------------------------------------------
(* No step is lost, invented or reported twice *)

\* What a client sends that has not started a continuous simulation.
Plain == {Steps(n) : n \in StepCounts} \union {Op(name) : name \in Queued}

Balance ==
  requested = collected + CountsIn(toClient) + CountsIn(posted) + stepCounter + Outstanding

\* The inductive invariant, for a client that asks for at most this many steps at
\* a time: what it has asked for is bounded, so that no counter wraps or saturates.
ConservedInv(most) ==
  ~started =>
    /\ toServer \in Seq(Plain)
    /\ ~continuous
    /\ client \notin {"starting", "running"}
    /\ requested <= calls * most
    /\ Balance

\* What the messages add to the balance.
LEMMA Worth ==
  /\ \A n \in StepCounts : StepsOf(Steps(n)) = n
  /\ \A name \in Queued : StepsOf(Op(name)) = 0
  /\ \A b \in BOOLEAN : CountOf(Flag(b)) = 0
  /\ \A n \in Nat : CountOf(Reply(n)) = n
BY DEF StepsOf, Steps, Op, Queued, CountOf, Flag, Reply, IsReply

\* A channel that is empty adds nothing.
LEMMA NothingInEmpty == StepsIn(<<>>) = 0 /\ CountsIn(<<>>) = 0
<1>1. Len(<<>>) = 0
  OBVIOUS
<1>2. \A f : SumOfFirst(f, 0) = 0
  <2> SUFFICES ASSUME NEW f PROVE SumOfFirst(f, 0) = 0
    OBVIOUS
  <2>1. \A k \in 1 .. 0 : f[k] \in Nat
    OBVIOUS
  <2> QED
    BY <2>1, SumIsLast DEF Running
<1> QED
  BY <1>1, <1>2 DEF StepsIn, CountsIn

\* The parts of the balance are numbers.
LEMMA PartsTyped ==
  ASSUME TypeInv
  PROVE  /\ requested \in Nat /\ collected \in Nat /\ calls \in 0 .. MaxCalls
         /\ CountsIn(toClient) \in Nat /\ CountsIn(posted) \in Nat
         /\ stepCounter \in 0 .. MaxCounted /\ StepsIn(toServer) \in Nat
         /\ simulationSteps \in Nat
         /\ posted \in Seq(Answers) /\ toClient \in Seq(Answers) /\ toServer \in Seq(Requests)
<1>1. posted \in Seq(Answers) /\ toClient \in Seq(Answers) /\ toServer \in Seq(Requests)
  <2>1. Posts \subseteq Answers
    BY DEF Posts, Answers
  <2>2. \A S, T : S \subseteq T => Seq(S) \subseteq Seq(T)
    OBVIOUS
  <2> QED
    BY <2>1, <2>2 DEF TypeInv, Channels
<1>2. simulationSteps \in Nat
  BY Width DEF TypeInv, QueueInv, Q!TypeOK
<1> QED
  BY <1>1, <1>2, StepsMove, CountsMove DEF TypeInv, OtherTypes

\* One call more allows for as many steps more.
LEMMA OneCallMore ==
  ASSUME NEW k \in Nat, NEW most \in Nat, NEW asked \in Nat, asked <= k * most,
         NEW n \in 0 .. most
  PROVE  asked + n <= (k + 1) * most
<1>1. (k + 1) * most = k * most + most /\ k * most \in Nat
  OBVIOUS
<1> QED
  BY <1>1

\* Fewer calls ask for no more steps.
LEMMA FewerCalls ==
  ASSUME NEW k \in Nat, NEW m \in Nat, k <= m, NEW most \in Nat
  PROVE  k * most <= m * most /\ k * most \in Nat /\ m * most \in Nat
<1>1. PICK d \in Nat : m = k + d
  <2>1. m - k \in Nat /\ m = k + (m - k)
    OBVIOUS
  <2> QED
    BY <2>1
<1>2. (k + d) * most = k * most + d * most /\ k * most \in Nat /\ d * most \in Nat
  OBVIOUS
<1> QED
  BY <1>1, <1>2

\* What a request of a plain client is.
LEMMA PlainFacts ==
  /\ Plain \subseteq Requests
  /\ \A m \in Plain : \/ m.op = "calculateSomeSteps" /\ m.steps \in StepCounts /\ StepsOf(m) = m.steps
                      \/ m.op \in Queued /\ StepsOf(m) = 0
<1>1. Plain \subseteq Requests
  BY DEF Plain, Requests, Queued
<1> QED
  BY <1>1 DEF Plain, Steps, Op, Queued, StepsOf

\* A flag that is sent or posted adds nothing.
LEMMA FlagAdds ==
  ASSUME NEW s \in Seq(Answers), NEW b \in BOOLEAN
  PROVE  CountsIn(Append(s, Flag(b))) = CountsIn(s)
<1>1. Flag(b) \in Answers
  BY DEF Answers
<1>2. CountsIn(Append(s, Flag(b))) = CountsIn(s) + CountOf(Flag(b))
  BY <1>1, CountsMove
<1> QED
  BY <1>2, Worth, CountsMove

\* The worker's step of the queue: an integration step that was due is being
\* integrated, or nothing changes.
LEMMA PopBalance ==
  ASSUME TypeInv, ~continuous, Pop
  PROVE  /\ simulationSteps' + (IF current' = "calculateStep" THEN 1 ELSE 0)
              = simulationSteps + (IF current = "calculateStep" THEN 1 ELSE 0)
         /\ CountsIn(posted') = CountsIn(posted)
         /\ ~continuous'
<1>1. CountsIn(posted') = CountsIn(posted)
  BY PartsTyped, FlagAdds DEF Pop, PostsSimulating
<1>2. CASE Q!Sleep \/ Q!Fail
  BY <1>1, <1>2 DEF Q!Sleep, Q!Fail, Q!queueVars
<1>3. ASSUME Q!HasMutex PROVE current # "calculateStep"
  BY <1>3 DEF Q!HasMutex, TypeInv, QueueInv
<1>4. CASE Q!TakeItem
  <2>1. current' \in Q!QueuedItems
    BY <1>4, HeadTailProperties DEF Q!TakeItem, TypeInv, QueueInv, Q!TypeOK
  <2>2. current' # "calculateStep"
    BY <2>1 DEF Q!QueuedItems
  <2> QED
    BY <1>1, <1>3, <1>4, <2>2 DEF Q!TakeItem
<1>5. CASE Q!TakeStep(FALSE)
  BY <1>1, <1>3, <1>5, PartsTyped DEF Q!TakeStep, Q!Idle
<1> QED
  BY <1>2, <1>4, <1>5 DEF Pop

\* Every step keeps the balance.
LEMMA ConservedStep ==
  ASSUME NEW most \in Nat, \A n \in StepCounts : n <= most,
         MaxCalls * most < 2 ^ 16, MaxCalls * most <= MaxCounted,
         TypeInv, ConservedInv(most), [Next]_vars
  PROVE  ConservedInv(most)'
<1> SUFFICES ASSUME ~started'
             PROVE  /\ toServer' \in Seq(Plain)
                    /\ ~continuous'
                    /\ client' \notin {"starting", "running"}
                    /\ requested' <= calls' * most
                    /\ Balance'
  BY DEF ConservedInv
<1> USE SimulationControlAssumption
<1>1. ~started /\ ~StartSimulation
  <2>1. ~StartSimulation
    BY DEF StartSimulation
  <2>2. WorkerNext => UNCHANGED started
    BY DEF WorkerNext, Pop, HandleUpdateVariable, HandlePopStepCounter, HandleStep, clientVars
  <2>3. ServerReceive \/ DeliverPosted => UNCHANGED started
    BY DEF ServerReceive, DeliverPosted, clientVars
  <2>4. UNCHANGED started
    BY <2>1, <2>2, <2>3 DEF Next, CalculateSomeSteps, StopSimulation, PollingSucceeds, StartIsSeen,
                            PopStepCounter, ClientReceive, vars, clientVars
  <2> QED
    BY <2>1, <2>4
<1>2. /\ toServer \in Seq(Plain) /\ ~continuous /\ client \notin {"starting", "running"}
      /\ requested <= calls * most /\ Balance
  BY <1>1 DEF ConservedInv
<1> DEFINE bound == calls * most
           said == CountsIn(toClient)
           due == CountsIn(posted)
           asked == StepsIn(toServer)
           now == IF current = "calculateStep" THEN 1 ELSE 0
<1>3. /\ requested \in Nat /\ collected \in Nat /\ calls \in Nat /\ calls <= MaxCalls
      /\ said \in Nat /\ due \in Nat /\ asked \in Nat /\ now \in 0 .. 1
      /\ stepCounter \in Nat /\ stepCounter <= MaxCounted /\ simulationSteps \in Nat
  BY PartsTyped
<1>4. requested = collected + said + due + stepCounter + (asked + simulationSteps + now)
  BY <1>2 DEF Balance, Outstanding
<1>5. bound \in Nat /\ bound <= MaxCalls * most /\ MaxCalls * most \in Nat /\ requested <= bound
  BY <1>2, <1>3, FewerCalls
<1>6. requested < 2 ^ 16 /\ requested <= MaxCounted /\ 2 ^ 16 \in Nat
  <2> HIDE DEF bound
  <2> DEFINE top == MaxCalls * most
             width == 2 ^ 16
  <2>1. top < width /\ top <= MaxCounted /\ top \in Nat /\ width \in Nat
        /\ bound \in Nat /\ bound <= top /\ requested <= bound
    BY <1>5, Width
  <2> HIDE DEF top, width
  <2>2. requested < width /\ requested <= MaxCounted
    BY <1>3, <2>1
  <2> QED
    BY <2>1, <2>2 DEF width
\* To show the balance it is enough to show what it says of the parts.
<1>7. ASSUME requested' = collected' + CountsIn(toClient') + CountsIn(posted') + stepCounter'
                            + (StepsIn(toServer') + simulationSteps'
                                 + (IF current' = "calculateStep" THEN 1 ELSE 0))
      PROVE  Balance'
  BY <1>7 DEF Balance, Outstanding
<1>8. \A m \in Plain : Append(toServer, m) \in Seq(Plain)
                       /\ StepsIn(Append(toServer, m)) = asked + StepsOf(m)
  BY <1>2, PartsTyped, StepsMove, PlainFacts
<1>9. ASSUME NEW n \in StepCounts, CalculateSomeSteps(n)
      PROVE  /\ toServer' \in Seq(Plain) /\ ~continuous' /\ client' \notin {"starting", "running"}
             /\ requested' <= calls' * most /\ Balance'
  <2>1. Steps(n) \in Plain /\ Op("updateVariable") \in Plain
    BY DEF Plain, Queued
  <2>2. /\ StepsOf(Steps(n)) = n /\ StepsOf(Op("updateVariable")) = 0
    BY Worth DEF Queued
  <2>3. toServer' = IF clientSimulating THEN Append(toServer, Steps(n))
                    ELSE Append(Append(toServer, Steps(n)), Op("updateVariable"))
    BY <1>9, <2>1, AskTyped, PlainFacts DEF CalculateSomeSteps, TypeInv
  <2>4. toServer' \in Seq(Plain) /\ StepsIn(toServer') = asked + n
    <3> DEFINE s == Append(toServer, Steps(n))
    <3>1. s \in Seq(Plain) /\ StepsIn(s) = asked + n
      BY <1>8, <2>1, <2>2
    <3>2. s \in Seq(Requests)
      BY <2>1, AppendProperties, PartsTyped, PlainFacts
    <3> HIDE DEF s
    <3>3. StepsIn(Append(s, Op("updateVariable"))) = StepsIn(s) + 0
      BY <2>1, <2>2, <3>2, StepsMove, PlainFacts
    <3>4. Append(s, Op("updateVariable")) \in Seq(Plain)
      BY <2>1, <3>1, AppendProperties
    <3>5. toServer' = s \/ toServer' = Append(s, Op("updateVariable"))
      BY <2>3 DEF s
    <3>6. StepsIn(s) \in Nat
      BY <3>2, StepsMove
    <3>7. StepsIn(Append(s, Op("updateVariable"))) = asked + n
      BY <3>1, <3>3, <3>6
    <3>8. CASE toServer' = s
      BY <3>1, <3>8
    <3>9. CASE toServer' = Append(s, Op("updateVariable"))
      BY <3>4, <3>7, <3>9
    <3> QED
      BY <3>5, <3>8, <3>9
  <2>5. requested' = requested + n /\ calls' = calls + 1 /\ n \in 0 .. most /\ n \in Nat
    BY <1>9 DEF CalculateSomeSteps, MayCall
  <2>6. requested' <= calls' * most
    BY <1>2, <1>3, <2>5, OneCallMore
  <2>7. /\ UNCHANGED <<collected, toClient, posted, stepCounter, simulationSteps, current,
                       continuous>>
        /\ client' = "polling"
    BY <1>9 DEF CalculateSomeSteps, queueVars, serverVars
  <2>8. requested' = collected + said + due + stepCounter
                       + ((asked + n) + simulationSteps + now)
    <3> HIDE DEF bound, said, due, asked, now
    <3> QED
      BY <1>3, <1>4, <2>5
  <2>9. Balance'
    BY <1>7, <2>4, <2>7, <2>8
  <2> QED
    BY <1>2, <2>4, <2>6, <2>7, <2>9
<1>10. CASE PopStepCounter
  <2>1. Op("popStepCounter") \in Plain /\ StepsOf(Op("popStepCounter")) = 0
    BY Worth DEF Plain, Queued
  <2>2. toServer' \in Seq(Plain) /\ StepsIn(toServer') = asked
    BY <1>3, <1>8, <1>10, <2>1 DEF PopStepCounter
  <2>3. /\ UNCHANGED <<requested, collected, toClient, posted, stepCounter, simulationSteps,
                       current, continuous>>
        /\ client' = "awaiting" /\ calls' = calls + 1
    BY <1>10 DEF PopStepCounter, MayCall, queueVars, serverVars
  <2>4. requested' <= calls' * most
    <3>1. requested + 0 <= (calls + 1) * most
      BY <1>2, <1>3, OneCallMore
    <3> QED
      BY <1>3, <2>3, <3>1
  <2>5. Balance'
    BY <1>4, <1>7, <2>2, <2>3
  <2> QED
    BY <1>2, <2>2, <2>3, <2>4, <2>5
<1>11. CASE StopSimulation \/ StartIsSeen \/ PollingSucceeds \/ UNCHANGED vars
  <2>1. UNCHANGED <<toServer, calls, requested, collected, toClient, posted, stepCounter,
                    simulationSteps, current, continuous>> /\ client' \notin {"starting", "running"}
    BY <1>2, <1>11 DEF StopSimulation, PollingSucceeds, StartIsSeen, vars, queueVars, serverVars, clientVars
  <2>2. Balance'
    BY <1>4, <1>7, <2>1
  <2> QED
    BY <1>2, <2>1, <2>2
<1>12. CASE ClientReceive
  <2> DEFINE m == Head(toClient)
  <2>1. /\ m \in Answers /\ toClient' = Tail(toClient)
        /\ said = CountOf(m) + CountsIn(toClient') /\ CountsIn(toClient') \in Nat
        /\ CountOf(m) \in Nat
    <3>1. toClient # <<>> /\ toClient' = Tail(toClient) /\ toClient \in Seq(Answers)
      BY <1>12, PartsTyped DEF ClientReceive
    <3>2. m \in Answers /\ Tail(toClient) \in Seq(Answers)
      BY <3>1, HeadTailProperties
    <3> QED
      BY <3>1, <3>2, CountsMove, NumbersIn
  <2>2. collected' = collected + CountOf(m) /\ client' \notin {"starting", "running"}
    BY <1>2, <1>3, <1>12 DEF ClientReceive, CountOf
  <2>3. UNCHANGED <<toServer, calls, requested, posted, stepCounter, simulationSteps, current,
                    continuous>>
    BY <1>12 DEF ClientReceive, queueVars, serverVars
  <2>4. Balance'
    <3>1. requested = collected' + CountsIn(toClient') + due + stepCounter
                        + (asked + simulationSteps + now)
      <4> HIDE DEF m, said, due, asked, now
      <4> QED
        BY <1>3, <1>4, <2>1, <2>2
    <3> QED
      BY <1>7, <2>3, <3>1
  <2> QED
    BY <1>2, <2>2, <2>3, <2>4
<1>13. CASE ServerReceive
  <2> DEFINE m == Head(toServer)
  <2>1. /\ m \in Plain /\ toServer' = Tail(toServer) /\ toServer' \in Seq(Plain)
        /\ asked = StepsOf(m) + StepsIn(toServer') /\ StepsIn(toServer') \in Nat
        /\ StepsOf(m) \in Nat
    <3>1. toServer # <<>> /\ toServer' = Tail(toServer)
      BY <1>13 DEF ServerReceive
    <3>2. m \in Plain /\ Tail(toServer) \in Seq(Plain)
      BY <1>2, <3>1, HeadTailProperties
    <3>3. m \in Requests /\ Tail(toServer) \in Seq(Requests) /\ toServer \in Seq(Requests)
      BY <3>1, <3>2, HeadTailProperties, PlainFacts, PartsTyped
    <3> QED
      BY <3>1, <3>2, <3>3, StepsMove, NumbersIn
  <2>2. UNCHANGED <<calls, requested, collected, posted, stepCounter, client>>
    BY <1>13 DEF ServerReceive, clientVars
  <2>3. /\ UNCHANGED <<current, continuous>>
        /\ CountsIn(toClient') = said
        /\ simulationSteps' = simulationSteps + StepsOf(m)
    <3>1. CASE m.op = "calculateSomeSteps"
      <4>1. /\ Q!PushSimulationSteps(m.steps) /\ SetSimulating(TRUE)
            /\ m.steps \in StepCounts /\ StepsOf(m) = m.steps
        BY <1>13, <2>1, <3>1, PlainFacts DEF ServerReceive, Queued
      <4>2. toClient' = toClient \/ toClient' = Append(toClient, Flag(TRUE))
        BY <4>1 DEF SetSimulating
      <4>3. CountsIn(toClient') = said
        BY <4>2, FlagAdds, PartsTyped
      <4>4. simulationSteps + m.steps \in Nat /\ simulationSteps + m.steps < 2 ^ 16
        <5>1. simulationSteps + m.steps <= requested
          <6>1. PICK rest \in Nat : m.steps \in Nat /\ asked = m.steps + rest
            BY <2>1, <4>1
          <6> HIDE DEF m, said, due, asked, now
          <6> QED
            BY <1>3, <1>4, <6>1
        <5>2. m.steps \in Nat
          BY <4>1
        <5> HIDE DEF m
        <5> DEFINE width == 2 ^ 16
        <5>3. requested < width /\ width \in Nat
          BY <1>6
        <5> HIDE DEF width
        <5>4. simulationSteps + m.steps \in Nat /\ simulationSteps + m.steps < width
          BY <1>3, <5>1, <5>2, <5>3
        <5> QED
          BY <5>4 DEF width
      <4>5. simulationSteps' = (simulationSteps + m.steps) % 2 ^ 16
            /\ UNCHANGED <<current, continuous>>
        BY <4>1 DEF Q!PushSimulationSteps
      <4>6. \A w \in Nat \ {0}, k \in Nat : k < w => k % w = k
        OBVIOUS
      <4>7. simulationSteps' = simulationSteps + m.steps
        BY <4>4, <4>5, <4>6, Width
      <4> QED
        BY <4>1, <4>3, <4>5, <4>7
    <3>2. CASE m.op # "calculateSomeSteps"
      <4>1. m.op \in Queued /\ StepsOf(m) = 0
        BY <2>1, <3>2, PlainFacts
      <4>2. Q!PushRequest(m.op) /\ UNCHANGED toClient
        BY <1>13, <4>1 DEF ServerReceive, Queued
      <4>3. UNCHANGED <<current, continuous, simulationSteps>>
        BY <4>2 DEF Q!PushRequest, Q!PushItem, Q!QueueItem
      <4> QED
        BY <1>3, <4>1, <4>2, <4>3
    <3> QED
      BY <3>1, <3>2
  <2>4. Balance'
    <3>1. requested = collected + said + due + stepCounter
                        + (StepsIn(toServer') + simulationSteps' + now)
      <4> HIDE DEF m, said, due, asked, now
      <4> QED
        BY <1>3, <1>4, <2>1, <2>3
    <3> QED
      BY <1>7, <2>2, <2>3, <3>1
  <2> QED
    BY <1>2, <2>1, <2>2, <2>3, <2>4
<1>14. CASE DeliverPosted
  <2> DEFINE m == Head(posted)
  <2>1. /\ m \in Posts /\ m \in Answers /\ posted' = Tail(posted)
        /\ due = CountOf(m) + CountsIn(posted') /\ CountsIn(posted') \in Nat
        /\ CountOf(m) \in Nat
    <3>1. posted # <<>> /\ posted' = Tail(posted) /\ posted \in Seq(Posts)
          /\ posted \in Seq(Answers)
      BY <1>14, PartsTyped DEF DeliverPosted, TypeInv, Channels
    <3>2. m \in Posts /\ m \in Answers /\ Tail(posted) \in Seq(Answers)
      BY <3>1, HeadTailProperties DEF Posts, Answers
    <3> QED
      BY <3>1, <3>2, CountsMove, NumbersIn
  <2>2. CountsIn(toClient') = said + CountOf(m)
    <3>1. CASE IsReply(m)
      <4>1. toClient' = Append(toClient, m)
        BY <1>14, <3>1 DEF DeliverPosted
      <4> QED
        BY <2>1, <4>1, CountsMove, PartsTyped
    <3>2. CASE ~IsReply(m)
      <4>1. m = Flag(FALSE) /\ SetSimulating(FALSE)
        BY <1>14, <2>1, <3>2, FlagOrReply DEF DeliverPosted, Posts
      <4>2. toClient' = toClient \/ toClient' = Append(toClient, Flag(FALSE))
        BY <4>1 DEF SetSimulating
      <4>3. CountsIn(toClient') = said
        BY <4>2, FlagAdds, PartsTyped
      <4>4. CountOf(m) = 0
        BY <3>2 DEF CountOf
      <4> QED
        BY <1>3, <4>3, <4>4
    <3> QED
      BY <3>1, <3>2
  <2>3. UNCHANGED <<toServer, calls, requested, collected, client, stepCounter, simulationSteps,
                    current, continuous>>
    BY <1>14 DEF DeliverPosted, queueVars, clientVars
  <2>4. Balance'
    <3>1. requested = collected + CountsIn(toClient') + CountsIn(posted') + stepCounter
                        + (asked + simulationSteps + now)
      <4> HIDE DEF m, said, due, asked, now
      <4> QED
        BY <1>3, <1>4, <2>1, <2>2
    <3> QED
      BY <1>7, <2>3, <3>1
  <2> QED
    BY <1>2, <2>3, <2>4
<1>15. CASE WorkerNext
  <2>1. UNCHANGED <<toServer, toClient, calls, requested, collected, client>>
    BY <1>15 DEF WorkerNext, Pop, HandleUpdateVariable, HandlePopStepCounter, HandleStep,
                 clientVars
  <2> DEFINE posts == CountsIn(posted')
             then == IF current' = "calculateStep" THEN 1 ELSE 0
  <2>2. /\ ~continuous'
        /\ posts + stepCounter' + (simulationSteps' + then)
             = due + stepCounter + (simulationSteps + now)
        /\ posts \in Nat /\ stepCounter' \in Nat /\ simulationSteps' \in Nat /\ then \in 0 .. 1
    <3>0. posts \in Nat /\ stepCounter' \in Nat /\ simulationSteps' \in Nat /\ then \in 0 .. 1
      <4>1. TypeInv'
        BY TypeStep
      <4>2. posted' \in Seq(Posts) /\ stepCounter' \in 0 .. MaxCounted
            /\ simulationSteps' \in Nat
        BY <4>1, Width DEF TypeInv, Channels, OtherTypes, QueueInv, Q!TypeOK
      <4>3. posted' \in Seq(Answers)
        BY <4>2, SeqMonotonic DEF Posts, Answers
      <4> QED
        BY <4>2, <4>3, CountsMove
    <3>1. CASE Pop
      <4>1. simulationSteps' + then = simulationSteps + now /\ posts = due /\ ~continuous'
        BY <1>2, <3>1, PopBalance
      <4>2. stepCounter' = stepCounter
        BY <3>1 DEF Pop
      <4> HIDE DEF due, now, posts, then
      <4> QED
        BY <1>3, <3>0, <4>1, <4>2
    <3>2. CASE HandleUpdateVariable
      <4>1. /\ now = 0 /\ then = 0 /\ posts = due
            /\ UNCHANGED <<continuous, simulationSteps, stepCounter>>
        BY <3>2 DEF HandleUpdateVariable, Q!HandleOther, Q!queueVars
      <4> HIDE DEF due, now, posts, then
      <4> QED
        BY <1>2, <1>3, <3>0, <4>1
    <3>3. CASE HandlePopStepCounter
      <4>1. /\ now = 0 /\ then = 0 /\ UNCHANGED <<continuous, simulationSteps>>
            /\ stepCounter' = 0 /\ posted' = Append(posted, Reply(stepCounter))
        BY <3>3 DEF HandlePopStepCounter, Q!HandleOther, Q!queueVars
      <4>2. Reply(stepCounter) \in Answers /\ CountOf(Reply(stepCounter)) = stepCounter
        BY <1>3, Worth DEF Answers, Reports
      <4>3. posts = due + stepCounter
        BY <4>1, <4>2, CountsMove, PartsTyped
      <4> HIDE DEF due, now, posts, then
      <4> QED
        BY <1>2, <1>3, <3>0, <4>1, <4>3
    <3>4. CASE HandleStep
      <4>1. /\ now = 1 /\ then = 0 /\ posts = due
            /\ UNCHANGED <<continuous, simulationSteps>>
            /\ stepCounter' = IF stepCounter < MaxCounted THEN stepCounter + 1 ELSE stepCounter
        BY <3>4 DEF HandleStep, Q!HandleOther, Q!queueVars
      <4> HIDE DEF due, now, posts, then, said, asked
      <4>2. stepCounter < requested
        BY <1>3, <1>4, <4>1
      <4>3. stepCounter' = stepCounter + 1
        BY <1>3, <1>6, <4>1, <4>2
      <4> QED
        BY <1>2, <1>3, <3>0, <4>1, <4>3
    <3> QED
      BY <1>15, <3>1, <3>2, <3>3, <3>4 DEF WorkerNext
  <2>3. Balance'
    <3>1. requested = collected + said + posts + stepCounter' + (asked + simulationSteps' + then)
      <4> DEFINE before == due + stepCounter + (simulationSteps + now)
                 after == posts + stepCounter' + (simulationSteps' + then)
      <4> HIDE DEF due, now, posts, then, said, asked
      <4>1. requested = collected + said + asked + before
        BY <1>3, <1>4
      <4>2. collected + said + posts + stepCounter' + (asked + simulationSteps' + then)
              = collected + said + asked + after
        BY <1>3, <2>2
      <4> QED
        BY <2>2, <4>1, <4>2
    <3> QED
      BY <1>7, <2>1, <3>1
  <2> QED
    BY <1>2, <2>1, <2>2, <2>3
<1> QED
  BY <1>1, <1>9, <1>10, <1>11, <1>12, <1>13, <1>14, <1>15 DEF Next

\* No step is lost, invented or reported twice: what a client asked for is what it
\* was told, what is being told, what is counted and what is to come, whatever the
\* order of its calls and however often the counter is read (calculateSomeSteps,
\* popItem, popStepCounter).  The premises say what the width of the counters must
\* be: room for all the steps that the client may ask for.
THEOREM StepsConservedCorrect ==
  ASSUME NEW most \in Nat, \A n \in StepCounts : n <= most,
         MaxCalls * most < 2 ^ 16, MaxCalls * most <= MaxCounted
  PROVE  Spec => []StepsAreConserved
<1>1. Init => ConservedInv(most)
  <2> SUFFICES ASSUME Init PROVE ConservedInv(most)
    OBVIOUS
  <2>1. /\ toServer = <<>> /\ continuous = FALSE /\ client = "ready" /\ requested = 0
        /\ calls = 0 /\ toClient = <<>> /\ posted = <<>> /\ collected = 0 /\ stepCounter = 0
        /\ simulationSteps = 0 /\ current = "none"
    BY DEF Init, Q!Init
  <2>2. Balance
    BY <2>1, NothingInEmpty DEF Balance, Outstanding
  <2>3. 0 * most = 0 /\ <<>> \in Seq(Plain)
    OBVIOUS
  <2> QED
    BY <2>1, <2>2, <2>3 DEF ConservedInv
<1>2. TypeInv /\ ConservedInv(most) /\ [Next]_vars => ConservedInv(most)'
  BY ConservedStep
<1>3. ConservedInv(most) => StepsAreConserved
  BY DEF ConservedInv, Balance, StepsAreConserved
<1> QED
  BY <1>1, <1>2, <1>3, TypeInvariant, PTL DEF Spec
=============================================================================
