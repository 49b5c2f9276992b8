-------------------------- MODULE SimulationControl -------------------------
(***************************************************************************)
(* How a client starts, stops and waits for a simulation: the client       *)
(* (Clients/ClientLib/src/ActionSender.cpp), the main thread of the server *)
(* (ActionReceiver, SimulatedSystem) and the worker with its work queue    *)
(* (WorkQueue.tla), connected by two message channels.                     *)
(*                                                                         *)
(* Both sides keep a copy of the variable "simulating".  The client raises *)
(* its own copy when it asks for steps and then polls it until it is       *)
(* FALSE; after a start it first polls it until it is TRUE.  The server's  *)
(* copy has two writers: the main thread, for the signal simulating(bool)  *)
(* of the work queue, and the worker, when it handles the update the       *)
(* client sent.  The signal is a direct call when the main thread emits it *)
(* (pushSimulationSteps) and a posted event when the worker does           *)
(* (popItem).                                                              *)
(*                                                                         *)
(* The channels are those of a connection that stays up: they keep the     *)
(* order and lose nothing.  Tear-down and frames are left to WorkQueue.    *)
(***************************************************************************)
EXTENDS Integers, Sequences, SequencesExt

CONSTANTS
  ClientCalls,   \* which of "steps", "start", "pop" the client calls
  StepCounts,    \* step counts it asks for
  MaxCalls,      \* bound: calls of the client
  MaxCounted     \* bound: the server's step counter saturates here

ASSUME SimulationControlAssumption ==
  /\ ClientCalls \subseteq {"steps", "start", "pop"}
  /\ StepCounts \subseteq Nat \ {0}
  /\ MaxCalls \in Nat
  /\ MaxCounted \in Nat

VARIABLES
  \* the work queue, its two threads
  items, queueEmpty, canWork, simulationSteps, continuous, isSimulating,
  worker, current, frameSending, stopPosted, main,
  \* the server
  serverSimulating,  \* SimulationVariables::simulating in the server
  posted,            \* calls posted to the main thread's event queue
  stepCounter,       \* steps integrated since the last popStepCounter
  \* the network
  toServer, toClient,
  \* the client
  client,            \* what the client program does
  clientSimulating,  \* SimulationVariables::simulating in the client
  calls,             \* calls made so far
  started,           \* it has started a continuous simulation
  requested,         \* sum of the step counts it asked for
  collected          \* sum of the step counts popStepCounter returned

queueVars == <<items, queueEmpty, canWork, simulationSteps, continuous,
               isSimulating, worker, current, frameSending, stopPosted, main>>
serverVars == <<serverSimulating, posted, stepCounter>>
clientVars == <<client, clientSimulating, calls, started, requested, collected>>
vars == <<queueVars, serverVars, toServer, toClient, clientVars>>

\* The steps the client can ask for never reach the width of the counter here, and
\* the thread of the worker runs as long as the connection.
Q == INSTANCE WorkQueue WITH
       Requests <- {"updateVariable", "popStepCounter"},
       UpdatingRequests <- {}, SwitchRequests <- {},
       FrameItem <- "prepareFrameData", StopItem <- "stopWorker",
       StepItem <- "calculateStep", NoItem <- "none",
       StepModulus <- 2 ^ 16, Commands <- {"start", "stop"},
       MaxItems <- 2 * MaxCalls, MaxSteps <- 2 ^ 16, thread <- "running"

Steps(n) == [op |-> "calculateSomeSteps", steps |-> n]
Op(name) == [op |-> name]
Requests == {Steps(n) : n \in StepCounts} \union
            {Op(name) : name \in {"startSimulation", "stopSimulation",
                                  "updateVariable", "popStepCounter"}}

Flag(b) == [op |-> "sendVariable", simulating |-> b]
Reply(n) == [op |-> "acknowledge", count |-> n]
IsReply(m) == m.op = "acknowledge"

TypeOK ==
  /\ Q!TypeOK
  /\ serverSimulating \in BOOLEAN
  /\ \A m \in ToSet(posted) : m = Flag(FALSE) \/ IsReply(m)
  /\ stepCounter \in 0 .. MaxCounted
  /\ toServer \in Seq(Requests)
  /\ \A m \in ToSet(toClient) : m \in {Flag(TRUE), Flag(FALSE)} \/ IsReply(m)
  /\ client \in {"ready", "starting", "running", "polling", "awaiting"}
  /\ clientSimulating \in BOOLEAN
  /\ calls \in 0 .. MaxCalls
  /\ started \in BOOLEAN
  /\ {requested, collected} \subseteq Nat

Init ==
  /\ Q!Init
  /\ serverSimulating = FALSE
  /\ posted = <<>>
  /\ stepCounter = 0
  /\ toServer = <<>>
  /\ toClient = <<>>
  /\ client = "ready"
  /\ clientSimulating = FALSE
  /\ calls = 0
  /\ started = FALSE
  /\ requested = 0
  /\ collected = 0

-----------------------------------------------------------------------------
(* The client *)

MayCall(name) ==
  /\ client = "ready"
  /\ name \in ClientCalls
  /\ calls < MaxCalls
  /\ calls' = calls + 1

\* sendAction(request), then willBeSimulating(): SimulatedSystem::set() sends
\* the variable to the server only when it changes.
AskToSimulate(request) ==
  /\ toServer' = (toServer \o <<request>>)
                   \o (IF clientSimulating THEN <<>> ELSE <<Op("updateVariable")>>)
  /\ clientSimulating' = TRUE

\* calculateStep() and calculateSomeSteps(n), then the polling loop.
CalculateSomeSteps(n) ==
  /\ MayCall("steps")
  /\ AskToSimulate(Steps(n))
  /\ requested' = requested + n
  /\ client' = "polling"
  /\ UNCHANGED <<queueVars, serverVars, toClient, started, collected>>

\* startSimulation(), then the loop that waits for the simulation to run.
StartSimulation ==
  /\ MayCall("start")
  /\ AskToSimulate(Op("startSimulation"))
  /\ client' = "starting"
  /\ started' = TRUE
  /\ UNCHANGED <<queueVars, serverVars, toClient, requested, collected>>

\* do processEvents(); while (simulatedSystem->get<bool>(simulating) == false);
StartIsSeen ==
  /\ client = "starting"
  /\ clientSimulating
  /\ client' = "running"
  /\ UNCHANGED <<queueVars, serverVars, toServer, toClient, clientSimulating,
                 calls, started, requested, collected>>

\* stopSimulation(), then the polling loop.
StopSimulation ==
  /\ client = "running"
  /\ toServer' = Append(toServer, Op("stopSimulation"))
  /\ client' = "polling"
  /\ UNCHANGED <<queueVars, serverVars, toClient, clientSimulating, calls,
                 started, requested, collected>>

\* do processEvents(); while (simulatedSystem->get<bool>(simulating));
PollingSucceeds ==
  /\ client = "polling"
  /\ ~clientSimulating
  /\ client' = "ready"
  /\ UNCHANGED <<queueVars, serverVars, toServer, toClient, clientSimulating,
                 calls, started, requested, collected>>

\* popStepCounter(): sendReplyAction() waits for the reply.
PopStepCounter ==
  /\ MayCall("pop")
  /\ toServer' = Append(toServer, Op("popStepCounter"))
  /\ client' = "awaiting"
  /\ UNCHANGED <<queueVars, serverVars, toClient, clientSimulating, started,
                 requested, collected>>

ClientIgnoresFalse(b) == clientSimulating' = (clientSimulating \/ b)

\* SimulatedSystem::receiveVariable() in the client; nothing is sent back.
ClientStores(b) == clientSimulating' = b

\* processReply(): the client always runs an event loop.
ClientReceive ==
  /\ toClient # <<>>
  /\ toClient' = Tail(toClient)
  /\ LET m == Head(toClient)
     IN  IF IsReply(m)
         THEN /\ collected' = collected + m.count
              /\ client' = IF client = "awaiting" THEN "ready" ELSE client
              /\ UNCHANGED clientSimulating
         ELSE /\ ClientStores(m.simulating)
              /\ UNCHANGED <<collected, client>>
  /\ UNCHANGED <<queueVars, serverVars, toServer, calls, started, requested>>

-----------------------------------------------------------------------------
(* The main thread of the server; nothing happens once the worker has thrown *)

\* ActionReceiver::simulating(b): SimulatedSystem::set() sends what changes.
SetSimulating(b) ==
  /\ serverSimulating' = b
  /\ toClient' = IF serverSimulating = b THEN toClient
                                         ELSE Append(toClient, Flag(b))

\* ActionReceiver::processRequest() for one message.
ServerReceive ==
  /\ worker # "failed"
  /\ toServer # <<>>
  /\ toServer' = Tail(toServer)
  /\ LET m == Head(toServer)
     IN  \/ /\ m.op = "calculateSomeSteps"
            /\ Q!PushSimulationSteps(m.steps)
            /\ SetSimulating(TRUE)
         \/ /\ m.op = "startSimulation"
            /\ Q!StartContinuous
            /\ SetSimulating(TRUE)
         \/ /\ m.op = "stopSimulation"
            /\ Q!StopSimulation
            /\ UNCHANGED <<serverSimulating, toClient>>
         \/ /\ m.op \in {"updateVariable", "popStepCounter"}
            /\ Q!PushRequest(m.op)
            /\ UNCHANGED <<serverSimulating, toClient>>
  /\ UNCHANGED <<posted, stepCounter, clientVars>>

\* The event loop runs the oldest posted call: simulating(FALSE) or sendReply().
DeliverPosted ==
  /\ worker # "failed"
  /\ posted # <<>>
  /\ posted' = Tail(posted)
  /\ IF IsReply(Head(posted))
     THEN /\ toClient' = Append(toClient, Head(posted))
          /\ UNCHANGED serverSimulating
     ELSE SetSimulating(Head(posted).simulating)
  /\ UNCHANGED <<queueVars, stepCounter, toServer, clientVars>>

-----------------------------------------------------------------------------
(* The worker thread *)

PostsOnlyWhenLowered ==
  posted' = IF worker = "popping" /\ Q!Idle /\ isSimulating /\ items # <<>>
            THEN Append(posted, Flag(FALSE))
            ELSE posted

PostsWhatItFinds ==
  posted' = IF worker = "popping" /\ Q!Idle
            THEN Append(posted, Flag(isSimulating)) ELSE posted

\* The first lines of popItem(): emit simulating(false) when no step is due.
PostsSimulating ==
  posted' = IF worker = "popping" /\ Q!Idle THEN Append(posted, Flag(FALSE))
                                            ELSE posted

\* popItem() sleeps, returns something or throws.
Pop ==
  /\ \/ Q!Sleep
     \/ Q!TakeItem
     \/ Q!TakeStep(FALSE)
     \/ Q!Fail
  /\ PostsSimulating
  /\ UNCHANGED <<serverSimulating, stepCounter, toServer, toClient, clientVars>>

\* updateVariable(simulating): the worker stores TRUE and sends nothing.
HandleUpdateVariable ==
  /\ current = "updateVariable"
  /\ Q!HandleOther
  /\ serverSimulating' = TRUE
  /\ UNCHANGED <<posted, stepCounter, toServer, toClient, clientVars>>

PopStepCounterForgetsReset ==
  /\ current = "popStepCounter"
  /\ Q!HandleOther
  /\ posted' = Append(posted, Reply(stepCounter))
  /\ UNCHANGED <<stepCounter, serverSimulating, toServer, toClient, clientVars>>

\* popStepCounter: the reply goes through the main thread.
HandlePopStepCounter ==
  /\ current = "popStepCounter"
  /\ Q!HandleOther
  /\ posted' = Append(posted, Reply(stepCounter))
  /\ stepCounter' = 0
  /\ UNCHANGED <<serverSimulating, toServer, toClient, clientVars>>

\* integrateRungeKuttaStep() counts the step.
HandleStep ==
  /\ current = "calculateStep"
  /\ Q!HandleOther
  /\ stepCounter' = IF stepCounter < MaxCounted THEN stepCounter + 1
                                                ELSE stepCounter
  /\ UNCHANGED <<serverSimulating, posted, toServer, toClient, clientVars>>

-----------------------------------------------------------------------------
WorkerNext ==
  \/ Pop
  \/ HandleUpdateVariable
  \/ HandlePopStepCounter
  \/ HandleStep

Next ==
  \/ \E n \in StepCounts : CalculateSomeSteps(n)
  \/ StartSimulation
  \/ StartIsSeen
  \/ StopSimulation
  \/ PollingSucceeds
  \/ PopStepCounter
  \/ ClientReceive
  \/ ServerReceive
  \/ DeliverPosted
  \/ WorkerNext

Spec == Init /\ [][Next]_vars

\* Both event loops and the worker thread run, and so does the client's program: a
\* polling loop ends when it finds what it waits for, and a simulation that was
\* seen running is stopped; but nothing obliges a client to call anything.
Fairness ==
  /\ WF_vars(WorkerNext)
  /\ WF_vars(ServerReceive)
  /\ WF_vars(DeliverPosted)
  /\ WF_vars(ClientReceive)
  /\ WF_vars(StartIsSeen)
  /\ WF_vars(PollingSucceeds)
  /\ WF_vars(StopSimulation)

FairSpec == Spec /\ Fairness

-----------------------------------------------------------------------------
(* Safety *)

\* When nothing is under way any more, nobody believes that a simulation runs:
\* with the worker asleep and no call posted the server's copy is FALSE, and
\* with both channels empty so is the client's.  This is what keeps the polling
\* loops of the clients from waiting for a message that was never sent.
QuietMeansNotSimulating ==
  worker = "waiting" /\ posted = <<>> =>
    /\ ~serverSimulating
    /\ toServer = <<>> /\ toClient = <<>> => ~clientSimulating

\* The sum of the first n of these numbers.
SumOfFirst(numbers, n) ==
  LET upTo[k \in 0 .. n] == IF k = 0 THEN 0 ELSE upTo[k - 1] + numbers[k]
  IN  upTo[n]

StepsOf(m) == IF m.op = "calculateSomeSteps" THEN m.steps ELSE 0
CountOf(m) == IF IsReply(m) THEN m.count ELSE 0
StepsIn(msgs) == SumOfFirst([i \in DOMAIN msgs |-> StepsOf(msgs[i])], Len(msgs))
CountsIn(msgs) == SumOfFirst([i \in DOMAIN msgs |-> CountOf(msgs[i])], Len(msgs))

\* Steps asked for that have not been integrated yet.
Outstanding ==
  StepsIn(toServer) + simulationSteps + (IF current = "calculateStep" THEN 1 ELSE 0)

\* No step is lost, invented or reported twice: what the client asked for is
\* what it was told, what is being told, what is counted and what is to come
\* (calculateSomeSteps, popItem, popStepCounter), unless the client also started
\* a continuous simulation, of which nobody knows the number of steps.
StepsAreConserved ==
  ~started =>
    requested = collected + CountsIn(toClient) + CountsIn(posted)
                  + stepCounter + Outstanding

\* Actions.hpp:31 calls simulating the "Flag if a simulation is currently
\* running.": in the server, while steps are due.
FlagTellsRunning == ~Q!Idle => serverSimulating

\* Actions.hpp:31, in the client: a polling loop that has ended leaves no step
\* that the client asked for undone (ServerTester.cpp:295-300 measures the
\* energy after such a loop).
PollingWaitsForSteps == client \in {"ready", "awaiting"} => Outstanding = 0

(* Liveness, under Fairness *)

\* The loop in which a client waits for the end of its steps, or of the simulation
\* it has stopped, ends, unless the worker throws.
PollingEnds == client = "polling" ~> (client = "ready" \/ worker = "failed")

\* The loop in which a client waits for its simulation to begin
\* (ServerTester.cpp:258) ends too.  The code does not guarantee it: a FALSE that
\* the worker has posted before the start is delivered after the TRUE of the start,
\* and no message follows.  A client that waits there never stops the simulation,
\* so PollingEnds says nothing of it.
StartingEnds == client = "starting" ~> (client = "running" \/ worker = "failed")
=============================================================================
