---------------------------- MODULE RequestReply ----------------------------
(***************************************************************************)
(* Requests that wait for a reply, and the number of spheres as both sides *)
(* know it (ActionSender::sendReplyAction and its callers, processReply,   *)
(* SimulationWorker::handleSpheresUpdatingAction, the sphere store of      *)
(* SphereCalculator).                                                      *)
(*                                                                         *)
(* A request carries no number.  sendReplyAction() sends it, processes     *)
(* events until some reply has come, and returns that reply.  While it     *)
(* processes events a slot of the client may run, and such a slot may call *)
(* sendReplyAction() again: waiting is the stack of these calls.           *)
(*                                                                         *)
(* The worker answers the requests in their order; what it emits (changed  *)
(* variables, replies) is posted to one thread and sent over one socket,   *)
(* so replies is one queue.  No message is lost here.                      *)
(***************************************************************************)
EXTENDS Integers, Sequences

CONSTANTS
  Ops,        \* the actions the client calls
  Slots,      \* those that slots call while another call waits
  MaxCalls    \* bound on the calls

CountOps == {"addSphere", "removeLastSphere", "addSomeSpheres", "removeSomeLastSpheres"}
ReplyOps == CountOps \union {"getTotalEnergy"}
AllOps == ReplyOps \union {"updateSphere"}

\* The count passed to addSomeSpheres and removeSomeLastSpheres.
Some == 2

\* Whatever the bytes of a reply that is no number of spheres are read as.
NoCount == -1

ASSUME RequestReplyAssumption ==
  /\ Ops \subseteq AllOps
  /\ Slots \subseteq Ops
  /\ MaxCalls \in Nat

VARIABLES
  calls,               \* calls made so far; they are numbered
  waiting,             \* the calls that wait for a reply, the innermost last
  requests,            \* requests on their way and in the work queue
  spheres,             \* spheres.size()
  sphereCount,         \* the server's variable sphereCount
  replies,             \* replies and variables on their way to the client
  receivedServerReply,
  lastServerReplyData, \* what was received last: the call it answers and its value
  clientCount,         \* the client's variable sphereCount
  elementsPerFrame,    \* elements per frame of the client's frame buffer
  returned             \* the last call that has returned, and with what

clientVars == <<calls, waiting, receivedServerReply, lastServerReplyData,
                clientCount, elementsPerFrame, returned>>
serverVars == <<spheres, sphereCount>>
vars == <<clientVars, serverVars, requests, replies>>

Counts == 0 .. Some * MaxCalls
Values == Counts \union {NoCount}
CallNumbers == 0 .. MaxCalls
Calls == [op : AllOps, number : CallNumbers]
NoCall == [op |-> "updateSphere", number |-> 0]
Data == [number : CallNumbers, value : Values]
Replies == [kind : {"reply"}, number : CallNumbers, value : Values]
             \union [kind : {"variable"}, value : Counts]

TypeOK ==
  /\ calls \in CallNumbers
  /\ waiting \in Seq(Calls)
  /\ requests \in Seq(Calls)
  /\ {spheres, sphereCount, clientCount} \subseteq Counts
  /\ replies \in Seq(Replies)
  /\ receivedServerReply \in BOOLEAN
  /\ lastServerReplyData \in Data
  /\ elementsPerFrame \in Values
  /\ returned \in [call : Calls, data : Data, count : Counts]

Init ==
  /\ calls = 0
  /\ waiting = <<>>
  /\ requests = <<>>
  /\ spheres = 0
  /\ sphereCount = 0
  /\ replies = <<>>
  /\ receivedServerReply = FALSE
  /\ lastServerReplyData = [number |-> 0, value |-> 0]
  /\ clientCount = 0
  /\ elementsPerFrame = 0
  /\ returned = [call |-> NoCall, data |-> [number |-> 0, value |-> 0], count |-> 0]

-----------------------------------------------------------------------------
(* The client. *)

\* sendAction(), and the beginning of sendReplyAction() for the actions that
\* have a reply.
Call(op) ==
  /\ calls < MaxCalls
  /\ op \in IF waiting = <<>> THEN Ops ELSE Slots
  /\ calls' = calls + 1
  /\ LET call == [op |-> op, number |-> calls + 1]
     IN  /\ requests' = Append(requests, call)
         /\ waiting' = IF op \in ReplyOps THEN Append(waiting, call) ELSE waiting
  /\ UNCHANGED <<serverVars, replies, receivedServerReply, lastServerReplyData,
                 clientCount, elementsPerFrame, returned>>

\* variableUpdated() is called only if the value has changed.
ReceiveCount(value) ==
  /\ clientCount' = value
  /\ elementsPerFrame' = IF value # clientCount THEN value ELSE elementsPerFrame
  /\ UNCHANGED <<receivedServerReply, lastServerReplyData>>

\* processReply(), called from the event loop.
ProcessReply ==
  /\ replies # <<>>
  /\ replies' = Tail(replies)
  /\ LET message == Head(replies)
     IN  \/ /\ message.kind = "variable"
            /\ ReceiveCount(message.value)
         \/ /\ message.kind = "reply"
            /\ lastServerReplyData' = [number |-> message.number, value |-> message.value]
            /\ receivedServerReply' = TRUE
            /\ UNCHANGED <<clientCount, elementsPerFrame>>
  /\ UNCHANGED <<calls, waiting, requests, returned, serverVars>>

ReturnKeepsFlag ==
  /\ waiting # <<>>
  /\ receivedServerReply
  /\ LET call == waiting[Len(waiting)]
     IN  /\ waiting' = SubSeq(waiting, 1, Len(waiting) - 1)
         /\ returned' = [call |-> call, data |-> lastServerReplyData, count |-> clientCount]
         /\ elementsPerFrame' = IF call.op \in CountOps THEN lastServerReplyData.value
                                                        ELSE elementsPerFrame
  /\ UNCHANGED <<calls, requests, replies, serverVars, receivedServerReply,
                 lastServerReplyData, clientCount>>

\* The loop of the innermost sendReplyAction() ends; its caller tells the frame
\* buffer the number of spheres it has been given (updateSphereCount).
Return ==
  /\ waiting # <<>>
  /\ receivedServerReply
  /\ receivedServerReply' = FALSE
  /\ LET call == waiting[Len(waiting)]
     IN  /\ waiting' = SubSeq(waiting, 1, Len(waiting) - 1)
         /\ returned' = [call |-> call, data |-> lastServerReplyData, count |-> clientCount]
         /\ elementsPerFrame' = IF call.op \in CountOps THEN lastServerReplyData.value
                                                        ELSE elementsPerFrame
  /\ UNCHANGED <<calls, requests, replies, serverVars, lastServerReplyData, clientCount>>

-----------------------------------------------------------------------------
(* The worker. *)

SizesBelowZero(op) ==
  CASE op = "addSphere" -> <<spheres + 1>>
    [] op = "addSomeSpheres" -> [i \in 1 .. Some |-> spheres + i]
    [] op = "removeLastSphere" -> <<spheres - 1>>
    [] op = "removeSomeLastSpheres" -> [i \in 1 .. Some |-> spheres - i]
    [] OTHER -> <<>>

\* The sizes spheres goes through: each step of add and remove is told on its
\* own, unless there is nothing to remove.
Sizes(op) ==
  CASE op = "addSphere" -> <<spheres + 1>>
    [] op = "addSomeSpheres" -> [i \in 1 .. Some |-> spheres + i]
    [] op = "removeLastSphere" /\ spheres > 0 -> <<spheres - 1>>
    [] op = "removeSomeLastSpheres" ->
         [i \in 1 .. (IF spheres < Some THEN spheres ELSE Some) |-> spheres - i]
    [] OTHER -> <<>>

\* getAndUpdateSphereCount(): set() sends the variable because it has changed.
Told(sizes) == [i \in 1 .. Len(sizes) |-> [kind |-> "variable", value |-> sizes[i]]]

AnswerIfAny(call, count) ==
  IF call.op \in ReplyOps /\ count > 0
  THEN <<[kind |-> "reply", number |-> call.number,
          value |-> IF call.op \in CountOps THEN count ELSE NoCount]>>
  ELSE <<>>

Answer(call, count) ==
  IF call.op \in ReplyOps
  THEN <<[kind |-> "reply", number |-> call.number,
          value |-> IF call.op \in CountOps THEN count ELSE NoCount]>>
  ELSE <<>>

EmittedReplyFirst(call, sizes, count) == Answer(call, count) \o Told(sizes)

\* What the worker emits for a request, in this order.
Emitted(call, sizes, count) == Told(sizes) \o Answer(call, count)

\* One request is taken and handled.
Handle ==
  /\ requests # <<>>
  /\ requests' = Tail(requests)
  /\ LET call == Head(requests)
         sizes == Sizes(call.op)
         count == IF sizes = <<>> THEN spheres ELSE sizes[Len(sizes)]
     IN  /\ spheres' = count
         /\ sphereCount' = count
         /\ replies' = replies \o Emitted(call, sizes, count)
  /\ UNCHANGED clientVars

Next ==
  \/ \E op \in AllOps : Call(op)
  \/ ProcessReply
  \/ Return
  \/ Handle

Spec == Init /\ [][Next]_vars

\* The worker runs, the client's event loop runs, and a loop that finds its flag
\* set is left.  No call has to be made.
FairSpec == Spec /\ WF_vars(ProcessReply) /\ WF_vars(Return) /\ WF_vars(Handle)

-----------------------------------------------------------------------------
\* "Send an action request to the server and return server reply."
\* (sendReplyAction, ActionSender.hpp): a call returns the reply to its own
\* request.
ReplyAnswersItsCall == returned.data.number = returned.call.number

\* Every call that waits returns (sendReplyAction).
EveryCallReturns == waiting # <<>> ~> waiting = <<>>

CountKnownOnReturn ==
  returned.call.op \in CountOps => returned.count = returned.data.value

Settled ==
  requests = <<>> /\ replies = <<>> /\ waiting = <<>> =>
    /\ sphereCount = spheres
    /\ clientCount = spheres
    /\ elementsPerFrame = spheres

\* The number of spheres travels as a variable and as a reply.  When an action
\* that changes it returns, the client's variable already has the number that is
\* returned, as the Tester expects; and when nothing is under way, the server's
\* variable, the client's copy and the frames of the client's buffer have the
\* number of spheres there really are (getAndUpdateSphereCount, variableUpdated,
\* updateSphereCount).
EveryoneAgreesOnCount == CountKnownOnReturn /\ Settled
=============================================================================
