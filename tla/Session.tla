------------------------------ MODULE Session -------------------------------
(***************************************************************************)
(* How a client becomes known to the server, stays known and is forgotten  *)
(* (ActionServer, ActionReceiver::processRequest, the registration part of *)
(* ActionSender).                                                          *)
(*                                                                         *)
(* A client sends a heartbeat every second.  Its first message creates an  *)
(* ActionReceiver, its first heartbeat is answered by clientAccepted, and  *)
(* only then does the client send its variables and begin to work.  Every  *)
(* five seconds the server deletes the receivers that were silent since    *)
(* the last check; the destructor processes events, so messages can still  *)
(* arrive for a receiver that is being deleted.                            *)
(*                                                                         *)
(* Time is counted in half seconds.  The sockets are polled every 10 ms, so*)
(* no message stays in a channel while time passes; a message may be lost, *)
(* because a publisher drops what nobody is connected to receive.          *)
(***************************************************************************)
EXTENDS Integers, Sequences

CONSTANTS
  Clients,      \* client IDs: the keys, in order, of the map of receivers
  BeatPeriod,   \* period of the client's heartbeat timer
  CheckPeriod,  \* period of the server's disconnection timer
  Late,         \* how late a timer may fire
  Lossy,        \* the kinds of messages that can be lost
  MaxLost       \* messages of one client that are lost in a row

Kinds == {"heartbeat", "variables", "request", "clientAccepted"}

ASSUME SessionAssumption ==
  /\ Clients \subseteq Nat
  /\ {BeatPeriod, CheckPeriod} \subseteq Nat \ {0}
  /\ {Late, MaxLost} \subseteq Nat
  /\ Lossy \subseteq Kinds

VARIABLES
  process,    \* "new", "running" or "gone": the client process
  connected,  \* connectedFlag and readyToRun, which are set together
  toServer,   \* messages on the way to the server
  toClient,   \* messages on the way to the client
  receiver,   \* "none", "open" or "closing": the entry of actionReceivers
  accepted,   \* clientAccepted of the receiver
  received,   \* receivedRequests of the receiver
  configured, \* the receiver's system has got the variables of the client
  served,     \* what the last request of the client has met
  lost,       \* messages lost since the server has received one
  asked,      \* the client has sent a request in this half second
  sinceBeat,  \* time since the client's timer fired
  sinceCheck, \* time since disconnectionTimer fired
  visited     \* IDs the running check is done with: those up to this one

clientVars == <<process, connected, asked, sinceBeat>>
receiverVars == <<receiver, accepted, received, configured, served>>
vars == <<clientVars, toServer, toClient, receiverVars, lost, sinceCheck, visited>>

\* No check is running.
Idle == -1

TypeOK ==
  /\ process \in [Clients -> {"new", "running", "gone"}]
  /\ {connected, asked} \subseteq [Clients -> BOOLEAN]
  /\ \A c \in Clients :
       /\ toServer[c] \in Seq(Kinds \ {"clientAccepted"})
       /\ toClient[c] \in Seq({"clientAccepted"})
  /\ receiver \in [Clients -> {"none", "open", "closing"}]
  /\ {accepted, received, configured} \subseteq [Clients -> BOOLEAN]
  /\ served \in [Clients -> {"nothing", "configured", "empty", "deleted"}]
  /\ lost \in [Clients -> 0 .. MaxLost]
  /\ sinceBeat \in [Clients -> 0 .. BeatPeriod + Late]
  /\ sinceCheck \in 0 .. CheckPeriod + Late
  /\ visited \in Clients \union {Idle, 0}

Init ==
  /\ process = [c \in Clients |-> "new"]
  /\ connected = [c \in Clients |-> FALSE]
  /\ asked = [c \in Clients |-> FALSE]
  /\ toServer = [c \in Clients |-> <<>>]
  /\ toClient = [c \in Clients |-> <<>>]
  /\ receiver = [c \in Clients |-> "none"]
  /\ accepted = [c \in Clients |-> FALSE]
  /\ received = [c \in Clients |-> FALSE]
  /\ configured = [c \in Clients |-> FALSE]
  /\ served = [c \in Clients |-> "nothing"]
  /\ lost = [c \in Clients |-> 0]
  /\ sinceBeat = [c \in Clients |-> 0]
  /\ sinceCheck = 0
  /\ visited = Idle

-----------------------------------------------------------------------------
(* The client. *)

\* The constructor of ActionSender starts the timer.
Start(c) ==
  /\ process[c] = "new"
  /\ process' = [process EXCEPT ![c] = "running"]
  /\ UNCHANGED <<connected, asked, sinceBeat, toServer, toClient, receiverVars, lost,
                 sinceCheck, visited>>

Quit(c) ==
  /\ process[c] = "running"
  /\ process' = [process EXCEPT ![c] = "gone"]
  /\ connected' = [connected EXCEPT ![c] = FALSE]
  /\ asked' = [asked EXCEPT ![c] = FALSE]
  /\ toClient' = [toClient EXCEPT ![c] = <<>>]
  /\ sinceBeat' = [sinceBeat EXCEPT ![c] = 0]
  /\ UNCHANGED <<toServer, receiverVars, lost, sinceCheck, visited>>

Heartbeat(c) ==
  /\ process[c] = "running"
  /\ sinceBeat[c] >= BeatPeriod
  /\ sinceBeat' = [sinceBeat EXCEPT ![c] = 0]
  /\ toServer' = [toServer EXCEPT ![c] = Append(@, "heartbeat")]
  /\ UNCHANGED <<process, connected, asked, toClient, receiverVars, lost,
                 sinceCheck, visited>>

\* Any action of a client that is ready, at most one in half a second.
Request(c) ==
  /\ connected[c]
  /\ ~asked[c]
  /\ asked' = [asked EXCEPT ![c] = TRUE]
  /\ toServer' = [toServer EXCEPT ![c] = Append(@, "request")]
  /\ UNCHANGED <<process, connected, sinceBeat, toClient, receiverVars, lost, sinceCheck, visited>>

ConnectWithoutVariables(c) ==
  /\ toClient[c] # <<>>
  /\ toClient' = [toClient EXCEPT ![c] = Tail(@)]
  /\ connected' = [connected EXCEPT ![c] = TRUE]
  /\ UNCHANGED <<process, asked, sinceBeat, toServer, receiverVars, lost,
                 sinceCheck, visited>>

IgnoreAccepted(c) ==
  /\ toClient[c] # <<>>
  /\ toClient' = [toClient EXCEPT ![c] = Tail(@)]
  /\ UNCHANGED <<clientVars, toServer, receiverVars, lost, sinceCheck, visited>>

\* processReply() of clientAccepted: only the first one counts.
ProcessReply(c) ==
  /\ toClient[c] # <<>>
  /\ toClient' = [toClient EXCEPT ![c] = Tail(@)]
  /\ connected' = [connected EXCEPT ![c] = TRUE]
  /\ toServer' = [toServer EXCEPT ![c] =
                    IF connected[c] THEN @ ELSE Append(@, "variables")]
  /\ UNCHANGED <<process, asked, sinceBeat, receiverVars, lost, sinceCheck, visited>>

-----------------------------------------------------------------------------
(* The server.  Its main thread takes a message between two events, or while  *)
(* the destructor of a receiver waits for the receiver's thread.              *)

TakesMessages == visited = Idle \/ \E c \in Clients : receiver[c] = "closing"

\* What a request finds: the receiver's system with or without variables, or a
\* receiver whose work queue is already gone.
Finds(c) ==
  IF receiver[c] = "closing" THEN "deleted"
  ELSE IF configured[c] THEN "configured" ELSE "empty"

EchoTheKind(c, kind) ==
  /\ received' = [received EXCEPT ![c] = TRUE]
  /\ IF kind = "heartbeat" /\ ~accepted[c]
     THEN /\ accepted' = [accepted EXCEPT ![c] = TRUE]
          /\ toClient' = [toClient EXCEPT ![c] =
                            IF process[c] = "running" THEN Append(@, kind) ELSE @]
          /\ UNCHANGED <<configured, served>>
     ELSE /\ configured' = [configured EXCEPT ![c] =
                              @ \/ (kind = "variables" /\ receiver[c] # "closing")]
          /\ served' = [served EXCEPT ![c] = IF kind = "request" THEN Finds(c) ELSE @]
          /\ UNCHANGED <<accepted, toClient>>

MarkOnlyRequests(c, kind) ==
  /\ received' = [received EXCEPT ![c] = @ \/ kind # "heartbeat" \/ ~accepted[c]]
  /\ IF kind = "heartbeat" /\ ~accepted[c]
     THEN /\ accepted' = [accepted EXCEPT ![c] = TRUE]
          /\ toClient' = [toClient EXCEPT ![c] =
                            IF process[c] = "running" THEN Append(@, "clientAccepted") ELSE @]
          /\ UNCHANGED <<configured, served>>
     ELSE /\ configured' = [configured EXCEPT ![c] =
                              @ \/ (kind = "variables" /\ receiver[c] # "closing")]
          /\ served' = [served EXCEPT ![c] = IF kind = "request" THEN Finds(c) ELSE @]
          /\ UNCHANGED <<accepted, toClient>>

\* ActionReceiver::processRequest(): the first heartbeat is answered, everything
\* else goes into the work queue.
ProcessRequest(c, kind) ==
  /\ received' = [received EXCEPT ![c] = TRUE]
  /\ IF kind = "heartbeat" /\ ~accepted[c]
     THEN /\ accepted' = [accepted EXCEPT ![c] = TRUE]
          /\ toClient' = [toClient EXCEPT ![c] =
                            IF process[c] = "running" THEN Append(@, "clientAccepted") ELSE @]
          /\ UNCHANGED <<configured, served>>
     ELSE /\ configured' = [configured EXCEPT ![c] =
                              @ \/ (kind = "variables" /\ receiver[c] # "closing")]
          /\ served' = [served EXCEPT ![c] = IF kind = "request" THEN Finds(c) ELSE @]
          /\ UNCHANGED <<accepted, toClient>>

\* ActionServer::receiveRequest(): an unknown ID registers.
ReceiveRequest(c) ==
  /\ TakesMessages
  /\ toServer[c] # <<>>
  /\ toServer' = [toServer EXCEPT ![c] = Tail(@)]
  /\ lost' = [lost EXCEPT ![c] = 0]
  /\ receiver' = [receiver EXCEPT ![c] = IF @ = "none" THEN "open" ELSE @]
  /\ ProcessRequest(c, Head(toServer[c]))
  /\ UNCHANGED <<clientVars, sinceCheck, visited>>

\* disconnectionTimer fires.
BeginCheck ==
  /\ visited = Idle
  /\ sinceCheck >= CheckPeriod
  /\ sinceCheck' = 0
  /\ visited' = 0
  /\ UNCHANGED <<clientVars, toServer, toClient, receiverVars, lost>>

\* The receivers the loop has still to look at, in the order of their IDs.
Unvisited == {c \in Clients : c > visited /\ receiver[c] # "none"}

KeepReceivedFlag(c) ==
  /\ visited # Idle
  /\ \A d \in Clients : receiver[d] # "closing"
  /\ c \in Unvisited
  /\ \A d \in Unvisited : c <= d
  /\ IF received[c]
     THEN visited' = c /\ UNCHANGED receiver
     ELSE receiver' = [receiver EXCEPT ![c] = "closing"] /\ UNCHANGED visited
  /\ UNCHANGED <<clientVars, toServer, toClient, received, accepted, configured,
                 served, lost, sinceCheck>>

\* disconnectionCheck() looks at one receiver; hasReceivedRequests() resets the
\* flag it returns.
CheckReceiver(c) ==
  /\ visited # Idle
  /\ \A d \in Clients : receiver[d] # "closing"
  /\ c \in Unvisited
  /\ \A d \in Unvisited : c <= d
  /\ received' = [received EXCEPT ![c] = FALSE]
  /\ IF received[c]
     THEN visited' = c /\ UNCHANGED receiver
     ELSE receiver' = [receiver EXCEPT ![c] = "closing"] /\ UNCHANGED visited
  /\ UNCHANGED <<clientVars, toServer, toClient, accepted, configured, served,
                 lost, sinceCheck>>

\* The destructor has finished and the entry is erased, whatever has arrived in
\* the meantime.
FinishDelete(c) ==
  /\ receiver[c] = "closing"
  /\ receiver' = [receiver EXCEPT ![c] = "none"]
  /\ accepted' = [accepted EXCEPT ![c] = FALSE]
  /\ received' = [received EXCEPT ![c] = FALSE]
  /\ configured' = [configured EXCEPT ![c] = FALSE]
  /\ visited' = c
  /\ UNCHANGED <<clientVars, toServer, toClient, served, lost, sinceCheck>>

EndCheck ==
  /\ visited # Idle
  /\ Unvisited = {}
  /\ visited' = Idle
  /\ UNCHANGED <<clientVars, toServer, toClient, receiverVars, lost, sinceCheck>>

-----------------------------------------------------------------------------
(* Time and the network. *)

\* Time passes when every message has arrived and no timer is overdue.
Tick ==
  /\ visited = Idle
  /\ \A c \in Clients : /\ toServer[c] = <<>> /\ toClient[c] = <<>>
                        /\ sinceBeat[c] < BeatPeriod + Late
  /\ sinceCheck < CheckPeriod + Late
  /\ sinceCheck' = sinceCheck + 1
  /\ sinceBeat' = [c \in Clients |-> IF process[c] = "running" THEN sinceBeat[c] + 1 ELSE 0]
  /\ asked' = [c \in Clients |-> FALSE]
  /\ UNCHANGED <<process, connected, toServer, toClient, receiverVars, lost, visited>>

Lose(c) ==
  /\ lost[c] < MaxLost
  /\ lost' = [lost EXCEPT ![c] = @ + 1]
  /\ \/ /\ toServer[c] # <<>> /\ Head(toServer[c]) \in Lossy
        /\ toServer' = [toServer EXCEPT ![c] = Tail(@)]
        /\ UNCHANGED toClient
     \/ /\ toClient[c] # <<>> /\ Head(toClient[c]) \in Lossy
        /\ toClient' = [toClient EXCEPT ![c] = Tail(@)]
        /\ UNCHANGED toServer
  /\ UNCHANGED <<clientVars, receiverVars, sinceCheck, visited>>

Next ==
  \/ Tick \/ BeginCheck \/ EndCheck
  \/ \E c \in Clients :
       \/ Start(c) \/ Quit(c) \/ Heartbeat(c) \/ Request(c) \/ ProcessReply(c)
       \/ ReceiveRequest(c) \/ CheckReceiver(c) \/ FinishDelete(c) \/ Lose(c)

Spec == Init /\ [][Next]_vars

\* Time passes and the event loops of both processes run; a client need not be
\* started, need not send requests, and no message has to get lost.  FinishDelete
\* assumes that the destructor of a receiver ends: WorkQueue shows that it does,
\* unless it deletes its worker before that has emitted finished().
FairSpec ==
  /\ Spec
  /\ WF_vars(Tick) /\ WF_vars(BeginCheck) /\ WF_vars(EndCheck)
  /\ \A c \in Clients :
       /\ WF_vars(Heartbeat(c)) /\ WF_vars(ProcessReply(c))
       /\ WF_vars(ReceiveRequest(c)) /\ WF_vars(CheckReceiver(c))
       /\ WF_vars(FinishDelete(c))

-----------------------------------------------------------------------------
\* A client that runs is not forgotten while enough of its heartbeats arrive: no
\* check finds a receiver silent, wherever the check falls between the beats
\* (disconnectionCheck, hasReceivedRequests).
RunningClientStays ==
  [][\A c \in Clients : receiver[c] = "open" /\ process[c] = "running"
                          => receiver'[c] = "open"]_vars

\* The receiver of a client that has ended is deleted, and its thread with it
\* (disconnectionCheck).
GoneClientIsForgotten ==
  \A c \in Clients : process[c] = "gone" ~> receiver[c] = "none"

\* A client that keeps running is accepted in the end (processRequest,
\* processReply).
RunningClientConnects ==
  \A c \in Clients : process[c] = "running" ~> (connected[c] \/ process[c] = "gone")

\* No request of a client meets a simulation without the client's variables or a
\* receiver that is being deleted: clientAccepted precedes the variables and
\* these precede the first request, in the order of one channel.
RequestsMeetTheirSystem ==
  \A c \in Clients : served[c] \in {"nothing", "configured"}

\* "Server and client are connected and ready." (readyToRun, ActionSender.hpp):
\* the receiver of a client that is ready has the client's variables.
ReadyMeansReady ==
  \A c \in Clients :
    connected[c] /\ toServer[c] = <<>> /\ receiver[c] = "open" => configured[c]
=============================================================================
