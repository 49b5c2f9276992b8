---------------------------- MODULE SessionProofs ----------------------------
(***************************************************************************)
(* Theorems about Session for every set of clients, every period of the    *)
(* timers and every number of lost messages.                               *)
(*                                                                         *)
(* A client that runs is kept because of an inequality: the time since its *)
(* receiver was looked at is at most what the lost heartbeats, the one     *)
(* under way and the running period of the timer add up to. It needs the   *)
(* periods to fit each other (PeriodsFit), and that is all it needs.       *)
(*                                                                         *)
(* That requests meet the simulation of their client follows from it and   *)
(* from the order of one channel, if only heartbeats are lost              *)
(* (OnlyBeatsAreLost): MeetInv says where the client's variables are, in   *)
(* the channel before every request, or in its receiver.                   *)
(***************************************************************************)
EXTENDS Session, SequenceTheorems, TLAPS

(* Type correctness *)

ToServer == Kinds \ {"clientAccepted"}

\* A channel of every client.
TypeInv ==
  /\ TypeOK
  /\ toServer \in [Clients -> Seq(ToServer)]
  /\ toClient \in [Clients -> Seq({"clientAccepted"})]

\* An element more, at the end.
LEMMA Appended ==
  ASSUME NEW S, NEW s \in Seq(S), NEW e \in S
  PROVE  /\ Append(s, e) \in Seq(S)
         /\ Len(s) \in Nat
         /\ DOMAIN s = 1 .. Len(s)
         /\ DOMAIN Append(s, e) = 1 .. Len(s) + 1
         /\ Append(s, e) # <<>>
         /\ Append(s, e)[Len(s) + 1] = e
         /\ \A i \in 1 .. Len(s) : Append(s, e)[i] = s[i]
<1>1. Len(s) \in Nat /\ DOMAIN s = 1 .. Len(s)
  BY LenProperties
<1>2. /\ Append(s, e) \in Seq(S) /\ Len(Append(s, e)) = Len(s) + 1
      /\ Append(s, e)[Len(s) + 1] = e
      /\ \A i \in 1 .. Len(s) : Append(s, e)[i] = s[i]
  BY AppendProperties
<1>3. DOMAIN Append(s, e) = 1 .. Len(s) + 1
  BY <1>2, LenProperties
<1>4. Append(s, e) # <<>>
  BY <1>1, <1>2, EmptySeq
<1> QED
  BY <1>1, <1>2, <1>3, <1>4

\* One element less, at the front.
LEMMA Removed ==
  ASSUME NEW S, NEW s \in Seq(S), s # <<>>
  PROVE  /\ Tail(s) \in Seq(S) /\ Head(s) \in S
         /\ Len(s) \in Nat \ {0}
         /\ DOMAIN s = 1 .. Len(s)
         /\ DOMAIN Tail(s) = 1 .. Len(s) - 1
         /\ Head(s) = s[1]
         /\ \A i \in 1 .. Len(s) - 1 : Tail(s)[i] = s[i + 1]
<1>1. Len(s) \in Nat \ {0} /\ DOMAIN s = 1 .. Len(s) /\ Head(s) = s[1]
  BY LenProperties, EmptySeq
<1>2. /\ Tail(s) \in Seq(S) /\ Head(s) \in S /\ Len(Tail(s)) = Len(s) - 1
      /\ \A i \in 1 .. Len(s) - 1 : Tail(s)[i] = s[i + 1]
  BY HeadTailProperties
<1>3. DOMAIN Tail(s) = 1 .. Len(s) - 1
  BY <1>2, LenProperties
<1> QED
  BY <1>1, <1>2, <1>3

\* A request changes the records of its client only, within their types.
LEMMA ProcessTyped ==
  ASSUME TypeInv, NEW c \in Clients, NEW kind \in ToServer, ProcessRequest(c, kind)
  PROVE  /\ received' \in [Clients -> BOOLEAN]
         /\ accepted' \in [Clients -> BOOLEAN]
         /\ configured' \in [Clients -> BOOLEAN]
         /\ served' \in [Clients -> {"nothing", "configured", "empty", "deleted"}]
         /\ toClient' \in [Clients -> Seq({"clientAccepted"})]
<1>1. received' \in [Clients -> BOOLEAN]
  BY DEF ProcessRequest, TypeInv, TypeOK
<1>2. CASE kind = "heartbeat" /\ ~accepted[c]
  <2>1. Append(toClient[c], "clientAccepted") \in Seq({"clientAccepted"})
    BY Appended DEF TypeInv
  <2>2. toClient' \in [Clients -> Seq({"clientAccepted"})]
    BY <1>2, <2>1 DEF ProcessRequest, TypeInv
  <2> QED
    BY <1>1, <1>2, <2>2, ZenonT(40) DEF ProcessRequest, TypeInv, TypeOK
<1>3. CASE ~(kind = "heartbeat" /\ ~accepted[c])
  <2>1. Finds(c) \in {"nothing", "configured", "empty", "deleted"}
    BY DEF Finds
  <2>2. served' \in [Clients -> {"nothing", "configured", "empty", "deleted"}]
    BY <1>3, <2>1 DEF ProcessRequest, TypeInv, TypeOK
  <2>3. configured' \in [Clients -> BOOLEAN]
    BY <1>3, Zenon DEF ProcessRequest, TypeInv, TypeOK
  <2> QED
    BY <1>1, <1>3, <2>2, <2>3 DEF ProcessRequest, TypeInv, TypeOK
<1> QED
  BY <1>2, <1>3

\* Every step keeps the types.
LEMMA TypeStep ==
  ASSUME TypeInv, [Next]_vars
  PROVE  TypeInv'
<1> USE SessionAssumption DEF TypeInv
<1>1. CASE Tick
  <2>1. sinceCheck' \in 0 .. CheckPeriod + Late
    BY <1>1 DEF Tick, TypeOK
  <2>2. sinceBeat' \in [Clients -> 0 .. BeatPeriod + Late]
    BY <1>1 DEF Tick, TypeOK
  <2> QED
    BY <1>1, <2>1, <2>2 DEF Tick, TypeOK, receiverVars
<1>2. CASE BeginCheck
  <2>1. sinceCheck' \in 0 .. CheckPeriod + Late /\ visited' \in Clients \union {Idle, 0}
    BY <1>2 DEF BeginCheck
  <2>2. UNCHANGED <<process, connected, asked, sinceBeat, toServer, toClient, receiver,
                    accepted, received, configured, served, lost>>
    BY <1>2 DEF BeginCheck, clientVars, receiverVars
  <2> QED
    BY <2>1, <2>2 DEF TypeOK, ToServer
<1>3. CASE EndCheck
  BY <1>3 DEF EndCheck, TypeOK, clientVars, receiverVars
<1>4. ASSUME NEW c \in Clients, Start(c) PROVE TypeInv'
  BY <1>4 DEF Start, TypeOK, receiverVars
<1>5. ASSUME NEW c \in Clients, Quit(c) PROVE TypeInv'
  <2>1. toClient' \in [Clients -> Seq({"clientAccepted"})]
    BY <1>5 DEF Quit
  <2>2. /\ process' \in [Clients -> {"new", "running", "gone"}]
        /\ connected' \in [Clients -> BOOLEAN] /\ asked' \in [Clients -> BOOLEAN]
        /\ sinceBeat' \in [Clients -> 0 .. BeatPeriod + Late]
    BY <1>5, SMTT(30) DEF Quit, TypeOK
  <2>3. UNCHANGED <<toServer, receiver, accepted, received, configured, served, lost,
                    sinceCheck, visited>>
    BY <1>5 DEF Quit, receiverVars
  <2> QED
    BY <2>1, <2>2, <2>3 DEF TypeOK, ToServer
<1>6. ASSUME NEW c \in Clients, Heartbeat(c) PROVE TypeInv'
  <2>1. toServer' \in [Clients -> Seq(ToServer)]
    BY <1>6, Appended DEF Heartbeat, ToServer, Kinds
  <2>2. sinceBeat' \in [Clients -> 0 .. BeatPeriod + Late]
    BY <1>6 DEF Heartbeat, TypeOK
  <2>3. UNCHANGED <<process, connected, asked, toClient, receiver, accepted, received,
                    configured, served, lost, sinceCheck, visited>>
    BY <1>6 DEF Heartbeat, receiverVars
  <2> QED
    BY <2>1, <2>2, <2>3 DEF TypeOK, ToServer
<1>7. ASSUME NEW c \in Clients, Request(c) PROVE TypeInv'
  <2>1. toServer' \in [Clients -> Seq(ToServer)]
    BY <1>7, Appended DEF Request, ToServer, Kinds
  <2> QED
    BY <1>7, <2>1 DEF Request, TypeOK, receiverVars, ToServer
<1>8. ASSUME NEW c \in Clients, ProcessReply(c) PROVE TypeInv'
  <2>1. toServer' \in [Clients -> Seq(ToServer)]
    BY <1>8, Appended DEF ProcessReply, ToServer, Kinds
  <2>2. toClient' \in [Clients -> Seq({"clientAccepted"})]
    BY <1>8, Removed DEF ProcessReply
  <2> QED
    BY <1>8, <2>1, <2>2, ZenonT(40) DEF ProcessReply, TypeOK, receiverVars, ToServer
<1>9. ASSUME NEW c \in Clients, ReceiveRequest(c) PROVE TypeInv'
  <2>1. Head(toServer[c]) \in ToServer /\ toServer' \in [Clients -> Seq(ToServer)]
    BY <1>9, Removed DEF ReceiveRequest
  <2>2. ProcessRequest(c, Head(toServer[c]))
    BY <1>9 DEF ReceiveRequest
  <2>3. /\ received' \in [Clients -> BOOLEAN]
        /\ accepted' \in [Clients -> BOOLEAN]
        /\ configured' \in [Clients -> BOOLEAN]
        /\ served' \in [Clients -> {"nothing", "configured", "empty", "deleted"}]
        /\ toClient' \in [Clients -> Seq({"clientAccepted"})]
    BY <2>1, <2>2, ProcessTyped
  <2>4. /\ receiver' \in [Clients -> {"none", "open", "closing"}]
        /\ lost' \in [Clients -> 0 .. MaxLost]
    BY <1>9, SMTT(30) DEF ReceiveRequest, TypeOK
  <2>5. UNCHANGED <<process, connected, asked, sinceBeat, sinceCheck, visited>>
    BY <1>9 DEF ReceiveRequest, clientVars
  <2> QED
    BY <2>1, <2>3, <2>4, <2>5 DEF TypeOK, ToServer
<1>10. ASSUME NEW c \in Clients, CheckReceiver(c) PROVE TypeInv'
  BY <1>10, ZenonT(40) DEF CheckReceiver, TypeOK, clientVars
<1>11. ASSUME NEW c \in Clients, FinishDelete(c) PROVE TypeInv'
  BY <1>11, ZenonT(40) DEF FinishDelete, TypeOK, clientVars
<1>12. ASSUME NEW c \in Clients, Lose(c) PROVE TypeInv'
  <2>1. lost' \in [Clients -> 0 .. MaxLost]
    <3>1. lost[c] < MaxLost /\ lost' = [lost EXCEPT ![c] = lost[c] + 1]
      BY <1>12 DEF Lose
    <3>2. lost \in [Clients -> 0 .. MaxLost] /\ MaxLost \in Nat
      BY DEF TypeOK
    <3> HIDE DEF TypeInv
    <3>3. lost[c] + 1 \in 0 .. MaxLost
      BY <3>1, <3>2
    <3> QED
      BY <3>1, <3>2, <3>3
  <2>2. UNCHANGED <<process, connected, asked, sinceBeat, receiver, accepted, received,
                    configured, served, sinceCheck, visited>>
    BY <1>12 DEF Lose, clientVars, receiverVars
  <2>3. CASE toServer[c] # <<>> /\ toServer' = [toServer EXCEPT ![c] = Tail(@)]
             /\ UNCHANGED toClient
    <3>1. Tail(toServer[c]) \in Seq(ToServer)
      BY <2>3, Removed
    <3>2. toServer' \in [Clients -> Seq(ToServer)]
      BY <2>3, <3>1
    <3> QED
      BY <2>1, <2>2, <2>3, <3>2 DEF TypeOK, ToServer
  <2>4. CASE toClient[c] # <<>> /\ toClient' = [toClient EXCEPT ![c] = Tail(@)]
             /\ UNCHANGED toServer
    <3>1. Tail(toClient[c]) \in Seq({"clientAccepted"})
      BY <2>4, Removed
    <3>2. toClient' \in [Clients -> Seq({"clientAccepted"})]
      BY <2>4, <3>1
    <3> QED
      BY <2>1, <2>2, <2>4, <3>2 DEF TypeOK, ToServer
  <2> QED
    BY <1>12, <2>3, <2>4 DEF Lose
<1>13. CASE UNCHANGED vars
  BY <1>13 DEF vars, clientVars, receiverVars, TypeOK
<1> QED
  BY <1>1, <1>2, <1>3, <1>4, <1>5, <1>6, <1>7, <1>8, <1>9, <1>10, <1>11, <1>12, <1>13
     DEF Next

\* The types are an invariant of the system.
LEMMA TypeInvariant == Spec => []TypeInv
<1>1. Init => TypeInv
  BY SessionAssumption DEF Init, TypeInv, TypeOK
<1> QED
  BY <1>1, TypeStep, PTL DEF Spec

\* Every variable keeps its type; above all no timer is later than it may be, and
\* no channel holds what only the other side sends (processRequest,
\* processReply, disconnectionCheck).
THEOREM TypeCorrect == Spec => []TypeOK
<1>1. TypeInv => TypeOK
  BY DEF TypeInv
<1> QED
  BY <1>1, TypeInvariant, PTL

-----------------------------------------------------------------------------
(* A client that runs is kept *)

\* The longest time between two heartbeats, and between two that arrive.
Interval == BeatPeriod + Late
Patience == (MaxLost + 1) * Interval

\* The server waits longer than that, as its five seconds and the client's one
\* second do.
PeriodsFit == Patience < CheckPeriod

BeatUnderWay(c) == \E k \in DOMAIN toServer[c] : toServer[c][k] = "heartbeat"

\* At most one heartbeat is under way, and only when it has just been sent.
OneBeat(c) ==
  /\ BeatUnderWay(c) => sinceBeat[c] = 0
  /\ \A j, k \in DOMAIN toServer[c] :
       toServer[c][j] = "heartbeat" /\ toServer[c][k] = "heartbeat" => j = k

\* Something may still come from the client.
Alive(c) == process[c] = "running" \/ toServer[c] # <<>>

\* How long the server can have heard nothing of the client.
Silence(c) ==
  IF process[c] = "running"
  THEN (lost[c] + (IF BeatUnderWay(c) THEN 1 ELSE 0)) * Interval + sinceBeat[c]
  ELSE Patience

Heard(c) ==
  \/ received[c]
  \/ visited = Idle /\ sinceCheck <= Silence(c)
  \/ visited # Idle /\ c <= visited

ClientInv(c) ==
  /\ OneBeat(c)
  /\ process[c] = "new" => toServer[c] = <<>> /\ receiver[c] = "none"
  /\ process[c] # "running" => ~connected[c] /\ toClient[c] = <<>>
  /\ receiver[c] # "none" /\ Alive(c) => receiver[c] = "open" /\ Heard(c)
  /\ receiver[c] = "closing" => visited # Idle /\ visited < c

CheckInv ==
  /\ visited # Idle => sinceCheck = 0
  /\ \A c, d \in Clients : receiver[c] = "closing" /\ receiver[d] = "closing" => c = d

\* The inductive invariant.
SilenceInv == TypeInv /\ CheckInv /\ \A c \in Clients : ClientInv(c)

\* The types of the records of one client.
LEMMA Typed ==
  ASSUME TypeInv, NEW c \in Clients
  PROVE  /\ Interval \in Nat /\ MaxLost \in Nat /\ c \in Nat
         /\ lost[c] \in Nat /\ lost[c] <= MaxLost
         /\ sinceBeat[c] \in Nat /\ sinceBeat[c] <= Interval
         /\ sinceCheck \in Nat /\ visited \in Int
         /\ toServer[c] \in Seq(ToServer) /\ toClient[c] \in Seq({"clientAccepted"})
         /\ receiver[c] \in {"none", "open", "closing"}
         /\ process[c] \in {"new", "running", "gone"}
<1> USE SessionAssumption
<1>1. Interval \in Nat /\ MaxLost \in Nat /\ c \in Nat
  BY DEF Interval
<1>2. lost[c] \in 0 .. MaxLost /\ sinceBeat[c] \in 0 .. BeatPeriod + Late
  BY DEF TypeInv, TypeOK
<1>3. sinceCheck \in Nat /\ visited \in Int
  BY DEF TypeInv, TypeOK, Idle
<1>4. /\ toServer[c] \in Seq(ToServer) /\ toClient[c] \in Seq({"clientAccepted"})
      /\ receiver[c] \in {"none", "open", "closing"}
      /\ process[c] \in {"new", "running", "gone"}
  BY DEF TypeInv, TypeOK
<1> QED
  BY <1>1, <1>2, <1>3, <1>4 DEF Interval

\* Nothing is under way in an empty channel.
LEMMA NoBeat ==
  ASSUME NEW c \in Clients, toServer[c] = <<>>
  PROVE  ~BeatUnderWay(c) /\ OneBeat(c)
<1>1. DOMAIN toServer[c] = {}
  OBVIOUS
<1> QED
  BY <1>1, Zenon DEF BeatUnderWay, OneBeat

\* Of a shorter channel no more can be said than of the longer one.
LEMMA TailOneBeat ==
  ASSUME NEW c \in Clients, OneBeat(c), sinceBeat'[c] = sinceBeat[c],
         \A k \in DOMAIN toServer'[c] :
           k \in Int /\ k + 1 \in DOMAIN toServer[c] /\ toServer'[c][k] = toServer[c][k + 1]
  PROVE  OneBeat(c)' /\ (BeatUnderWay(c)' => BeatUnderWay(c))
<1>1. BeatUnderWay(c)' => BeatUnderWay(c)
  BY DEF BeatUnderWay
<1>2. ASSUME NEW j \in DOMAIN toServer'[c], NEW k \in DOMAIN toServer'[c],
             toServer'[c][j] = "heartbeat", toServer'[c][k] = "heartbeat"
      PROVE  j = k
  <2>1. j + 1 = k + 1
    BY <1>2 DEF OneBeat
  <2> QED
    BY <2>1
<1> QED
  BY <1>1, <1>2 DEF OneBeat

\* No silence is longer than the server's patience.
LEMMA SilenceBound ==
  ASSUME TypeInv, NEW c \in Clients, OneBeat(c)
  PROVE  Silence(c) \in Nat /\ Silence(c) <= Patience /\ Interval \in Nat /\ Patience \in Nat
<1>1. Interval \in Nat /\ MaxLost \in Nat
  BY SessionAssumption DEF Interval
<1>2. lost[c] \in Nat /\ lost[c] <= MaxLost /\ sinceBeat[c] \in Nat /\ sinceBeat[c] <= Interval
  BY <1>1 DEF TypeInv, TypeOK, Interval
<1>3. \A a, b \in Nat : a <= b => a * Interval \in Nat /\ a * Interval <= b * Interval
  BY <1>1
<1>4. (MaxLost + 1) * Interval = MaxLost * Interval + Interval /\ Patience \in Nat
  BY <1>1 DEF Patience
<1>5. CASE BeatUnderWay(c) /\ process[c] = "running"
  <2>1. Silence(c) = (lost[c] + 1) * Interval + 0
    BY <1>5 DEF Silence, OneBeat
  <2>2. (lost[c] + 1) * Interval \in Nat /\ (lost[c] + 1) * Interval <= (MaxLost + 1) * Interval
    BY <1>1, <1>2, <1>3
  <2> QED
    BY <2>1, <2>2, <1>1, <1>4 DEF Patience
<1>6. CASE ~BeatUnderWay(c) /\ process[c] = "running"
  <2>1. Silence(c) = (lost[c] + 0) * Interval + sinceBeat[c]
    BY <1>6 DEF Silence
  <2>2. lost[c] * Interval \in Nat /\ lost[c] * Interval <= MaxLost * Interval
    BY <1>1, <1>2, <1>3
  <2> QED
    BY <2>1, <2>2, <1>1, <1>2, <1>4 DEF Patience
<1>7. CASE process[c] # "running"
  BY <1>7, <1>1, <1>4 DEF Silence
<1> QED
  BY <1>5, <1>6, <1>7

\* What the invariant says of a client depends on nothing but its own records and
\* the server's timer.
Untouched(c) ==
  /\ process'[c] = process[c] /\ connected'[c] = connected[c]
  /\ toServer'[c] = toServer[c] /\ toClient'[c] = toClient[c]
  /\ receiver'[c] = receiver[c] /\ received'[c] = received[c]
  /\ lost'[c] = lost[c] /\ sinceBeat'[c] = sinceBeat[c]

\* A client whose records a step leaves alone keeps what the invariant says of it.
LEMMA UntouchedKept ==
  ASSUME NEW c \in Clients, ClientInv(c), Untouched(c), UNCHANGED <<sinceCheck, visited>>
  PROVE  ClientInv(c)'
BY DEF ClientInv, Untouched, OneBeat, BeatUnderWay, Alive, Heard, Silence

\* Every step keeps the invariant, if the periods fit each other.
LEMMA SilenceStep ==
  ASSUME PeriodsFit, SilenceInv, [Next]_vars
  PROVE  SilenceInv'
<1> USE SessionAssumption
<1>0. TypeInv /\ TypeInv' /\ CheckInv /\ \A c \in Clients : ClientInv(c)
  BY TypeStep DEF SilenceInv
<1> SUFFICES CheckInv' /\ \A c \in Clients : ClientInv(c)'
  BY <1>0 DEF SilenceInv
<1> USE DEF Idle
<1>1. CASE Tick
  <2>1. CheckInv'
    BY <1>1, <1>0 DEF Tick, CheckInv, receiverVars
  <2>2. ASSUME NEW c \in Clients PROVE ClientInv(c)'
    <3>1. /\ ClientInv(c) /\ visited = Idle /\ toServer[c] = <<>> /\ toServer' = toServer
          /\ UNCHANGED <<process, connected, toClient, receiver, received, lost, visited>>
          /\ sinceCheck' = sinceCheck + 1
          /\ process[c] = "running" => sinceBeat'[c] = sinceBeat[c] + 1
      BY <1>0, <1>1 DEF Tick, receiverVars
    <3>2. ~BeatUnderWay(c) /\ ~BeatUnderWay(c)' /\ OneBeat(c)'
      <4>1. DOMAIN toServer[c] = {} /\ DOMAIN toServer'[c] = {}
        BY <3>1
      <4> QED
        BY <4>1, Zenon DEF BeatUnderWay, OneBeat
    <3>3. process[c] = "running" => Silence(c)' = Silence(c) + 1
      <4>1. lost[c] \in Nat /\ sinceBeat[c] \in Nat /\ Interval \in Nat
        BY <1>0, Typed
      <4>2. (lost[c] + 0) * Interval \in Nat
        BY <4>1
      <4>3. process[c] = "running" => /\ Silence(c) = (lost[c] + 0) * Interval + sinceBeat[c]
                                     /\ Silence(c)' = (lost[c] + 0) * Interval + sinceBeat'[c]
        BY <3>1, <3>2, Zenon DEF Silence
      <4> DEFINE x == (lost[c] + 0) * Interval
      <4> HIDE DEF x
      <4>4. x \in Nat /\ \A y \in Nat : x + (y + 1) = (x + y) + 1
        BY <4>2 DEF x
      <4> SUFFICES ASSUME process[c] = "running" PROVE Silence(c)' = Silence(c) + 1
        OBVIOUS
      <4>5. Silence(c) = x + sinceBeat[c] /\ Silence(c)' = x + sinceBeat'[c]
        BY <4>3 DEF x
      <4>6. sinceBeat'[c] = sinceBeat[c] + 1
        BY <3>1
      <4> QED
        BY <4>1, <4>4, <4>5, <4>6
    <3>4. receiver[c] # "none" /\ Alive(c) => Heard(c)'
      <4>1. Silence(c) \in Nat /\ sinceCheck \in Nat
        BY <1>0, <3>1, SilenceBound, Typed DEF ClientInv
      <4>2. process[c] = "running" /\ Heard(c) => Heard(c)'
        BY <3>1, <3>3, <4>1 DEF Heard
      <4> QED
        BY <3>1, <4>2 DEF ClientInv, Alive
    <3>5. Alive(c)' <=> Alive(c)
      BY <3>1 DEF Alive
    <3> QED
      BY <3>1, <3>2, <3>4, <3>5 DEF ClientInv
  <2> QED
    BY <2>1, <2>2
<1>2. CASE BeginCheck
  <2>1. /\ visited = Idle /\ sinceCheck >= CheckPeriod /\ sinceCheck' = 0 /\ visited' = 0
        /\ UNCHANGED <<process, connected, toServer, toClient, receiver, received, lost,
                       sinceBeat>>
    BY <1>2 DEF BeginCheck, clientVars, receiverVars
  <2>2. \A c \in Clients : receiver[c] # "closing"
    BY <1>0, <2>1 DEF ClientInv
  <2>3. ASSUME NEW c \in Clients PROVE ClientInv(c)'
    <3>1. ClientInv(c) /\ Silence(c) \in Nat /\ Silence(c) <= Patience /\ Patience \in Nat
      BY <1>0, SilenceBound DEF ClientInv
    <3>2. receiver[c] # "none" /\ Alive(c) => received[c]
      BY <3>1, <2>1, <1>0 DEF ClientInv, Heard, PeriodsFit, TypeInv, TypeOK
    <3> QED
      BY <3>1, <3>2, <2>1, <2>2 DEF ClientInv, OneBeat, BeatUnderWay, Alive, Heard
  <2> QED
    BY <2>1, <2>2, <2>3 DEF CheckInv
<1>3. CASE EndCheck
  <2>1. /\ visited # Idle /\ Unvisited = {} /\ visited' = Idle
        /\ UNCHANGED <<process, connected, toServer, toClient, receiver, received, lost,
                       sinceBeat, sinceCheck>>
    BY <1>3 DEF EndCheck, clientVars, receiverVars
  <2>2. ASSUME NEW c \in Clients PROVE ClientInv(c)'
    <3>1. ClientInv(c) /\ Silence(c) \in Nat /\ sinceCheck = 0
      BY <1>0, <2>1, SilenceBound DEF ClientInv, CheckInv
    <3>2. receiver[c] # "closing"
      BY <3>1, <2>1 DEF ClientInv, Unvisited
    <3>3. Silence(c)' = Silence(c)
      BY <2>1 DEF Silence, BeatUnderWay
    <3>4. Heard(c)'
      BY <2>1, <3>1, <3>3 DEF Heard
    <3> QED
      BY <3>1, <3>2, <3>4, <2>1 DEF ClientInv, OneBeat, BeatUnderWay, Alive
  <2> QED
    BY <2>1, <2>2, <1>0 DEF CheckInv
<1>4. ASSUME NEW c \in Clients, Start(c) PROVE CheckInv' /\ \A d \in Clients : ClientInv(d)'
  <2>1. CheckInv' /\ UNCHANGED <<sinceCheck, visited>>
    BY <1>0, <1>4 DEF Start, CheckInv, receiverVars
  <2>2. \A d \in Clients \ {c} : Untouched(d)
    BY <1>4 DEF Start, Untouched, receiverVars
  <2>3. ClientInv(c)'
    BY <1>0, <1>4 DEF Start, receiverVars, ClientInv, OneBeat, BeatUnderWay, TypeInv, TypeOK
  <2> QED
    BY <1>0, <2>1, <2>2, <2>3, UntouchedKept
<1>5. ASSUME NEW c \in Clients, Quit(c) PROVE CheckInv' /\ \A d \in Clients : ClientInv(d)'
  <2>1. CheckInv' /\ UNCHANGED <<sinceCheck, visited>>
    BY <1>0, <1>5 DEF Quit, CheckInv, receiverVars
  <2>2. \A d \in Clients \ {c} : Untouched(d)
    BY <1>5 DEF Quit, Untouched, receiverVars
  <2>3. /\ process[c] = "running" /\ process'[c] = "gone" /\ ~connected'[c]
        /\ toClient'[c] = <<>> /\ sinceBeat'[c] = 0
        /\ UNCHANGED <<toServer, receiver, received, lost, sinceCheck, visited>>
    BY <1>0, <1>5 DEF Quit, receiverVars, TypeInv, TypeOK
  <2>4. ClientInv(c) /\ Silence(c) \in Nat /\ Silence(c) <= Patience /\ Patience \in Nat
    BY <1>0, SilenceBound DEF ClientInv
  <2>5. Heard(c) => Heard(c)'
    BY <2>3, <2>4, <1>0 DEF Heard, Silence, TypeInv, TypeOK
  <2>6. ClientInv(c)'
    BY <2>3, <2>4, <2>5 DEF ClientInv, OneBeat, BeatUnderWay, Alive
  <2> QED
    BY <1>0, <2>1, <2>2, <2>6, UntouchedKept
<1>6. ASSUME NEW c \in Clients, Heartbeat(c) PROVE CheckInv' /\ \A d \in Clients : ClientInv(d)'
  <2>1. CheckInv' /\ UNCHANGED <<sinceCheck, visited>>
    BY <1>0, <1>6 DEF Heartbeat, CheckInv, receiverVars
  <2>2. \A d \in Clients \ {c} : Untouched(d)
    BY <1>6 DEF Heartbeat, Untouched, receiverVars
  <2>3. /\ process[c] = "running" /\ sinceBeat[c] >= BeatPeriod /\ sinceBeat'[c] = 0
        /\ toServer'[c] = Append(toServer[c], "heartbeat")
        /\ UNCHANGED <<process, connected, toClient, receiver, received, lost,
                       sinceCheck, visited>>
    BY <1>0, <1>6 DEF Heartbeat, receiverVars, TypeInv, TypeOK
  <2>4. ClientInv(c)
    BY <1>0
  <2>5. ~BeatUnderWay(c)
    BY <2>3, <2>4 DEF ClientInv, OneBeat
  <2> DEFINE n == Len(toServer[c])
  <2>6. /\ n \in Nat /\ DOMAIN toServer[c] = 1 .. n /\ DOMAIN toServer'[c] = 1 .. n + 1
        /\ toServer'[c][n + 1] = "heartbeat"
        /\ \A k \in 1 .. n : toServer'[c][k] = toServer[c][k]
    BY <1>0, <2>3, Appended DEF TypeInv, ToServer, Kinds
  <2>7. BeatUnderWay(c)' /\ OneBeat(c)'
    BY <2>3, <2>5, <2>6 DEF BeatUnderWay, OneBeat
  <2>8. Silence(c)' >= Silence(c) /\ Silence(c) \in Nat /\ Silence(c)' \in Nat
    <3>1. Interval \in Nat /\ lost[c] \in Nat /\ sinceBeat[c] \in Nat /\ sinceBeat[c] <= Interval
      BY <1>0, Typed
    <3>2. Silence(c) = (lost[c] + 0) * Interval + sinceBeat[c]
      BY <2>3, <2>5 DEF Silence
    <3>3. Silence(c)' = (lost[c] + 1) * Interval + 0
      BY <2>3, <2>7 DEF Silence
    <3>4. (lost[c] + 1) * Interval = (lost[c] + 0) * Interval + Interval
          /\ (lost[c] + 0) * Interval \in Nat
      BY <3>1
    <3> QED
      BY <3>1, <3>2, <3>3, <3>4
  <2>9. Heard(c) => Heard(c)'
    BY <2>3, <2>8, <1>0 DEF Heard, TypeInv, TypeOK
  <2>10. ClientInv(c)'
    BY <2>3, <2>4, <2>7, <2>9 DEF ClientInv, Alive
  <2> QED
    BY <1>0, <2>1, <2>2, <2>10, UntouchedKept
<1>7. ASSUME NEW c \in Clients, Request(c) \/ ProcessReply(c)
      PROVE  CheckInv' /\ \A d \in Clients : ClientInv(d)'
  <2>1. CheckInv' /\ UNCHANGED <<sinceCheck, visited>>
    BY <1>0, <1>7 DEF Request, ProcessReply, CheckInv, receiverVars
  <2>2. \A d \in Clients \ {c} : Untouched(d)
    <3>1. CASE Request(c)
      BY <1>0, <3>1 DEF Request, Untouched, receiverVars, TypeInv
    <3>2. CASE ProcessReply(c)
      BY <1>0, <3>2 DEF ProcessReply, Untouched, receiverVars, TypeInv, TypeOK
    <3> QED
      BY <1>7, <3>1, <3>2
  <2>3. /\ connected[c] \/ toClient[c] # <<>>
        /\ UNCHANGED <<process, receiver, received, lost, sinceBeat, sinceCheck, visited>>
    BY <1>7 DEF Request, ProcessReply, receiverVars
  <2>4. ClientInv(c) /\ process[c] = "running"
    BY <1>0, <2>3 DEF ClientInv
  <2>5. PICK kind \in {"request", "variables"} :
          toServer'[c] = toServer[c] \/ toServer'[c] = Append(toServer[c], kind)
    BY <1>0, <1>7 DEF Request, ProcessReply, TypeInv
  <2>6. OneBeat(c)' /\ (BeatUnderWay(c)' <=> BeatUnderWay(c))
    <3>1. CASE toServer'[c] = toServer[c]
      BY <2>3, <2>4, <3>1 DEF ClientInv, OneBeat, BeatUnderWay
    <3>2. CASE toServer'[c] = Append(toServer[c], kind)
      <4> DEFINE n == Len(toServer[c])
      <4>1. /\ n \in Nat /\ DOMAIN toServer[c] = 1 .. n /\ DOMAIN toServer'[c] = 1 .. n + 1
            /\ toServer'[c][n + 1] = kind
            /\ \A k \in 1 .. n : toServer'[c][k] = toServer[c][k]
        BY <1>0, <3>2, Appended DEF TypeInv, ToServer, Kinds
      <4> QED
        <5>1. \A k \in DOMAIN toServer'[c] :
                toServer'[c][k] = "heartbeat" => k \in 1 .. n /\ toServer[c][k] = "heartbeat"
          BY <4>1
        <5>2. BeatUnderWay(c)' <=> BeatUnderWay(c)
          BY <4>1, <5>1, SMTT(30) DEF BeatUnderWay
        <5>3. OneBeat(c)'
          BY <2>3, <2>4, <4>1, <5>1, <5>2 DEF ClientInv, OneBeat
        <5> QED
          BY <5>2, <5>3
    <3> QED
      BY <2>5, <3>1, <3>2
  <2>7. Silence(c)' = Silence(c)
    BY <2>3, <2>6 DEF Silence
  <2>8. ClientInv(c)'
    BY <2>3, <2>4, <2>6, <2>7 DEF ClientInv, Alive, Heard
  <2> QED
    BY <1>0, <2>1, <2>2, <2>8, UntouchedKept
<1>8. ASSUME NEW c \in Clients, ReceiveRequest(c)
      PROVE  CheckInv' /\ \A d \in Clients : ClientInv(d)'
  <2>1. /\ toServer[c] # <<>> /\ toServer' = [toServer EXCEPT ![c] = Tail(@)]
        /\ lost' = [lost EXCEPT ![c] = 0]
        /\ receiver' = [receiver EXCEPT ![c] = IF @ = "none" THEN "open" ELSE @]
        /\ received' = [received EXCEPT ![c] = TRUE]
        /\ UNCHANGED <<process, connected, sinceBeat, sinceCheck, visited>>
    BY <1>8 DEF ReceiveRequest, ProcessRequest, clientVars
  <2>2. toClient' = [toClient EXCEPT ![c] =
                       IF process[c] = "running" THEN Append(@, "clientAccepted") ELSE @]
        \/ toClient' = toClient
    BY <1>8 DEF ReceiveRequest, ProcessRequest
  <2>3. ClientInv(c) /\ Alive(c) /\ receiver[c] # "closing"
    BY <1>0, <2>1 DEF ClientInv, Alive
  <2>4. receiver'[c] = "open" /\ received'[c] /\ toServer'[c] = Tail(toServer[c])
    BY <1>0, <2>1, <2>3 DEF TypeInv, TypeOK
  <2>5. \A d \in Clients \ {c} : Untouched(d)
    <3> SUFFICES ASSUME NEW d \in Clients \ {c} PROVE Untouched(d)
      OBVIOUS
    <3>1. toClient'[d] = toClient[d]
      BY <1>0, <2>2 DEF TypeInv
    <3> QED
      BY <1>0, <2>1, <3>1 DEF Untouched, TypeInv, TypeOK
  <2>6. CheckInv'
    BY <1>0, <2>1, <2>4, <2>5 DEF CheckInv, Untouched
  <2>7. OneBeat(c)'
    <3> DEFINE n == Len(toServer[c])
    <3>1. /\ n \in Nat \ {0} /\ DOMAIN toServer[c] = 1 .. n /\ DOMAIN toServer'[c] = 1 .. n - 1
          /\ \A k \in 1 .. n - 1 : toServer'[c][k] = toServer[c][k + 1]
      BY <1>0, <2>1, <2>4, Removed DEF TypeInv
    <3>2. \A k \in DOMAIN toServer'[c] :
            k \in Int /\ k + 1 \in DOMAIN toServer[c] /\ toServer'[c][k] = toServer[c][k + 1]
      BY <3>1
    <3> QED
      BY <2>1, <2>3, <3>2, TailOneBeat DEF ClientInv
  <2>8. process[c] # "new" /\ (process[c] # "running" => toClient'[c] = <<>>)
    <3>1. process[c] # "running" => toClient[c] = <<>>
      BY <2>3 DEF ClientInv
    <3> QED
      BY <1>0, <2>1, <2>2, <2>3, <3>1 DEF ClientInv, TypeInv
  <2>9. ClientInv(c)'
    BY <2>1, <2>3, <2>4, <2>7, <2>8 DEF ClientInv, Heard
  <2> QED
    BY <1>0, <2>1, <2>5, <2>6, <2>9, UntouchedKept
<1>9. ASSUME NEW c \in Clients, CheckReceiver(c)
      PROVE  CheckInv' /\ \A d \in Clients : ClientInv(d)'
  <2>1. /\ visited # Idle /\ \A d \in Clients : receiver[d] # "closing"
        /\ c > visited /\ receiver[c] # "none"
        /\ received' = [received EXCEPT ![c] = FALSE]
        /\ IF received[c]
           THEN visited' = c /\ UNCHANGED receiver
           ELSE receiver' = [receiver EXCEPT ![c] = "closing"] /\ UNCHANGED visited
        /\ UNCHANGED <<process, connected, toServer, toClient, lost, sinceBeat, sinceCheck>>
    BY <1>9 DEF CheckReceiver, clientVars, Unvisited
  <2>2. ClientInv(c) /\ c \in Nat /\ visited \in Int /\ (Alive(c) => received[c])
    BY <1>0, <2>1 DEF ClientInv, Heard, TypeInv, TypeOK
  <2>3. /\ visited' # Idle /\ visited <= visited' /\ visited' \in Int
        /\ received[c] => c <= visited'
    BY <2>1, <2>2
  <2>4. CheckInv'
    <3>1. visited' # Idle => sinceCheck' = 0
      BY <1>0, <2>1 DEF CheckInv
    <3>2. \A d \in Clients : receiver'[d] = "closing" => d = c
      BY <1>0, <2>1 DEF TypeInv, TypeOK
    <3> QED
      BY <3>1, <3>2 DEF CheckInv
  <2>5. ASSUME NEW d \in Clients, d # c PROVE ClientInv(d)'
    <3>1. ClientInv(d) /\ receiver'[d] = receiver[d] /\ received'[d] = received[d] /\ d \in Nat
      <4>1. received'[d] = received[d]
        BY <1>0, <2>1, <2>5 DEF TypeInv, TypeOK
      <4>2. receiver'[d] = receiver[d]
        BY <1>0, <2>1, <2>5, SMTT(30) DEF TypeInv, TypeOK
      <4> QED
        BY <1>0, <4>1, <4>2
    <3>2. Heard(d) => Heard(d)'
      BY <2>1, <2>2, <2>3, <3>1 DEF Heard
    <3> QED
      BY <2>1, <3>1, <3>2 DEF ClientInv, OneBeat, BeatUnderWay, Alive
  <2>6. ClientInv(c)'
    <3>1. CASE received[c]
      BY <2>1, <2>2, <2>3, <3>1 DEF ClientInv, OneBeat, BeatUnderWay, Alive, Heard
    <3>2. CASE ~received[c]
      <4>1. ~Alive(c) /\ ~Alive(c)' /\ visited' = visited
        BY <2>1, <2>2, <3>2 DEF Alive
      <4> QED
        BY <2>1, <2>2, <4>1 DEF ClientInv, OneBeat, BeatUnderWay
    <3> QED
      BY <3>1, <3>2
  <2> QED
    BY <2>4, <2>5, <2>6
<1>10. ASSUME NEW c \in Clients, FinishDelete(c)
       PROVE  CheckInv' /\ \A d \in Clients : ClientInv(d)'
  <2>1. /\ receiver[c] = "closing" /\ receiver' = [receiver EXCEPT ![c] = "none"]
        /\ received' = [received EXCEPT ![c] = FALSE] /\ visited' = c
        /\ UNCHANGED <<process, connected, toServer, toClient, lost, sinceBeat, sinceCheck>>
    BY <1>10 DEF FinishDelete, clientVars
  <2>2. visited # Idle /\ visited < c /\ c \in Nat /\ visited \in Int
    BY <1>0, <2>1 DEF ClientInv, TypeInv, TypeOK
  <2>3. CheckInv'
    BY <1>0, <2>1, <2>2 DEF CheckInv, TypeInv, TypeOK
  <2>4. ASSUME NEW d \in Clients, d # c PROVE ClientInv(d)'
    <3>1. ClientInv(d) /\ receiver'[d] = receiver[d] /\ received'[d] = received[d] /\ d \in Nat
      BY <1>0, <2>1, <2>4
    <3>2. receiver[d] # "closing"
      BY <1>0, <2>1, <2>4 DEF CheckInv
    <3>3. Heard(d) => Heard(d)'
      BY <2>1, <2>2, <3>1 DEF Heard
    <3> QED
      BY <2>1, <3>1, <3>2, <3>3 DEF ClientInv, OneBeat, BeatUnderWay, Alive
  <2>5. ClientInv(c)'
    BY <1>0, <2>1 DEF ClientInv, OneBeat, BeatUnderWay, TypeInv, TypeOK
  <2> QED
    BY <2>3, <2>4, <2>5
<1>11. ASSUME NEW c \in Clients, Lose(c) PROVE CheckInv' /\ \A d \in Clients : ClientInv(d)'
  <2>1. CheckInv' /\ UNCHANGED <<sinceCheck, visited>>
    BY <1>0, <1>11 DEF Lose, CheckInv, receiverVars
  <2>2. \A d \in Clients \ {c} : Untouched(d)
    BY <1>0, <1>11, ZenonT(40) DEF Lose, Untouched, clientVars, receiverVars, TypeInv, TypeOK
  <2>3. /\ lost'[c] = lost[c] + 1
        /\ UNCHANGED <<process, connected, receiver, received, sinceBeat, sinceCheck, visited>>
    BY <1>0, <1>11 DEF Lose, clientVars, receiverVars, TypeInv, TypeOK
  <2>4. ClientInv(c) /\ Silence(c) \in Nat /\ Interval \in Nat /\ lost[c] \in Nat
        /\ sinceBeat[c] \in Nat
    BY <1>0, SilenceBound, Typed DEF ClientInv
  <2>5. CASE toServer[c] # <<>> /\ toServer' = [toServer EXCEPT ![c] = Tail(@)]
             /\ UNCHANGED toClient
    <3> DEFINE n == Len(toServer[c])
    <3>1. toServer'[c] = Tail(toServer[c])
      BY <1>0, <2>5 DEF TypeInv
    <3>2. /\ n \in Nat \ {0} /\ DOMAIN toServer[c] = 1 .. n /\ DOMAIN toServer'[c] = 1 .. n - 1
          /\ \A k \in 1 .. n - 1 : toServer'[c][k] = toServer[c][k + 1]
      BY <1>0, <2>5, <3>1, Removed DEF TypeInv
    <3>3. \A k \in DOMAIN toServer'[c] :
            k \in Int /\ k + 1 \in DOMAIN toServer[c] /\ toServer'[c][k] = toServer[c][k + 1]
      BY <3>2
    <3>4. OneBeat(c)' /\ (BeatUnderWay(c)' => BeatUnderWay(c))
      BY <2>3, <2>4, <3>3, TailOneBeat DEF ClientInv
    <3>5. Silence(c) <= Silence(c)' /\ Silence(c)' \in Nat
      <4>1. CASE process[c] = "running"
        <5>1. /\ Silence(c)' = (lost[c] + 1 + (IF BeatUnderWay(c)' THEN 1 ELSE 0)) * Interval
                                + sinceBeat[c]
              /\ Silence(c) = (lost[c] + (IF BeatUnderWay(c) THEN 1 ELSE 0)) * Interval
                                + sinceBeat[c]
          BY <2>3, <4>1 DEF Silence
        <5>2. \A a, b \in Nat : a <= b => /\ a * Interval \in Nat /\ b * Interval \in Nat
                                          /\ a * Interval <= b * Interval
          BY <2>4
        <5> DEFINE a == lost[c] + (IF BeatUnderWay(c) THEN 1 ELSE 0)
                   b == lost[c] + 1 + (IF BeatUnderWay(c)' THEN 1 ELSE 0)
        <5>3. a \in Nat /\ b \in Nat /\ a <= b
          BY <2>4
        <5> HIDE DEF a, b
        <5>4. a * Interval \in Nat /\ b * Interval \in Nat /\ a * Interval <= b * Interval
          BY <5>2, <5>3
        <5> QED
          BY <2>4, <5>1, <5>4 DEF a, b
      <4>2. CASE process[c] # "running"
        BY <2>3, <2>4, <4>2 DEF Silence
      <4> QED
        BY <4>1, <4>2
    <3>6. Heard(c) => Heard(c)'
      BY <1>0, <2>3, <2>4, <3>5 DEF Heard, TypeInv, TypeOK
    <3>7. ClientInv(c)'
      BY <2>3, <2>4, <2>5, <3>4, <3>6 DEF ClientInv, Alive
    <3> QED
      BY <1>0, <2>1, <2>2, <3>7, UntouchedKept
  <2>6. CASE toClient[c] # <<>> /\ toClient' = [toClient EXCEPT ![c] = Tail(@)]
             /\ UNCHANGED toServer
    <3>1. process[c] = "running"
      BY <2>4, <2>6 DEF ClientInv
    <3>2. OneBeat(c)' /\ (BeatUnderWay(c)' <=> BeatUnderWay(c))
      BY <2>3, <2>4, <2>6 DEF ClientInv, OneBeat, BeatUnderWay
    <3>3. Silence(c) <= Silence(c)' /\ Silence(c)' \in Nat
      <4> DEFINE a == lost[c] + (IF BeatUnderWay(c) THEN 1 ELSE 0)
      <4>1. a \in Nat /\ lost'[c] + (IF BeatUnderWay(c)' THEN 1 ELSE 0) = a + 1
        BY <2>3, <2>4, <3>2
      <4>2. Silence(c) = a * Interval + sinceBeat[c]
            /\ Silence(c)' = (a + 1) * Interval + sinceBeat[c]
        BY <2>3, <3>1, <4>1 DEF Silence
      <4> HIDE DEF a
      <4>3. (a + 1) * Interval = a * Interval + Interval /\ a * Interval \in Nat
        BY <2>4, <4>1
      <4> QED
        BY <2>4, <4>2, <4>3
    <3>4. Heard(c) => Heard(c)'
      BY <1>0, <2>3, <2>4, <3>3 DEF Heard, TypeInv, TypeOK
    <3>5. ClientInv(c)'
      BY <2>3, <2>4, <2>6, <3>1, <3>2, <3>4 DEF ClientInv, Alive
    <3> QED
      BY <1>0, <2>1, <2>2, <3>5, UntouchedKept
  <2> QED
    BY <1>11, <2>5, <2>6 DEF Lose
<1>12. CASE UNCHANGED vars
  <2>1. CheckInv' /\ UNCHANGED <<sinceCheck, visited>> /\ \A d \in Clients : Untouched(d)
    BY <1>0, <1>12 DEF vars, clientVars, receiverVars, CheckInv, Untouched
  <2> QED
    BY <1>0, <2>1, UntouchedKept
<1> QED
  BY <1>1, <1>2, <1>3, <1>4, <1>5, <1>6, <1>7, <1>8, <1>9, <1>10, <1>11, <1>12 DEF Next

\* It is an invariant of the system.
LEMMA SilenceInvariant ==
  ASSUME PeriodsFit
  PROVE  Spec => []SilenceInv
<1>1. Init => SilenceInv
  <2> SUFFICES ASSUME Init PROVE SilenceInv
    OBVIOUS
  <2>1. TypeInv
    BY SessionAssumption DEF Init, TypeInv, TypeOK
  <2>2. \A c \in Clients : ClientInv(c)
    BY NoBeat DEF Init, ClientInv
  <2> QED
    BY <2>1, <2>2 DEF Init, SilenceInv, CheckInv, Idle
<1> QED
  BY <1>1, SilenceStep, PTL DEF Spec

\* A client that runs is not forgotten: if the periods fit each other no check
\* finds its receiver silent, wherever the check falls between the beats, how
\* many clients there are and however many messages of others are lost
\* (disconnectionCheck, hasReceivedRequests).
THEOREM RunningClientsAreKept ==
  ASSUME PeriodsFit
  PROVE  Spec => RunningClientStays
<1>1. SilenceInv /\ [Next]_vars
        => [\A c \in Clients : receiver[c] = "open" /\ process[c] = "running"
                                => receiver'[c] = "open"]_vars
  <2> SUFFICES ASSUME SilenceInv, Next, NEW c \in Clients,
                      receiver[c] = "open", process[c] = "running"
               PROVE  receiver'[c] = "open"
    OBVIOUS
  <2>1. TypeInv /\ ClientInv(c) /\ Alive(c) /\ Heard(c)
    BY DEF SilenceInv, ClientInv, Alive
  <2>2. CASE UNCHANGED receiver
    BY <2>2
  <2>3. ASSUME NEW d \in Clients, ReceiveRequest(d) PROVE receiver'[c] = "open"
    BY <2>1, <2>3 DEF ReceiveRequest, TypeInv, TypeOK
  <2>4. ASSUME NEW d \in Clients, CheckReceiver(d) PROVE receiver'[c] = "open"
    <3>1. d = c => received[c]
      BY <2>1, <2>4, SessionAssumption DEF CheckReceiver, Unvisited, Heard, TypeInv, TypeOK, Idle
    <3> QED
      BY <2>1, <2>4, <3>1 DEF CheckReceiver, TypeInv, TypeOK
  <2>5. ASSUME NEW d \in Clients, FinishDelete(d) PROVE receiver'[c] = "open"
    BY <2>1, <2>5 DEF FinishDelete, TypeInv, TypeOK
  <2>6. ASSUME NEW d \in Clients,
               Start(d) \/ Quit(d) \/ Heartbeat(d) \/ Request(d) \/ ProcessReply(d) \/ Lose(d)
        PROVE  UNCHANGED receiver
    BY <2>6 DEF Start, Quit, Heartbeat, Request, ProcessReply, Lose, receiverVars
  <2>7. Tick \/ BeginCheck \/ EndCheck => UNCHANGED receiver
    BY DEF Tick, BeginCheck, EndCheck, receiverVars
  <2> QED
    BY <2>2, <2>3, <2>4, <2>5, <2>6, <2>7 DEF Next
<1> QED
  BY <1>1, SilenceInvariant, PTL DEF Spec, RunningClientStays

-----------------------------------------------------------------------------
(* A request meets its client's variables *)

\* Only heartbeats get lost: what a client sends when it is connected arrives.
OnlyBeatsAreLost == Lossy \subseteq {"heartbeat"}

\* Message n of the channel finds the client's variables, or would if it existed.
VariablesBefore(c, n) ==
  configured[c] \/ \E j \in DOMAIN toServer[c] : j < n /\ toServer[c][j] = "variables"

OrderInv(c) ==
  /\ toClient[c] # <<>> => receiver[c] = "open"
  /\ connected[c] => receiver[c] = "open" /\ VariablesBefore(c, Len(toServer[c]) + 1)
  /\ \A k \in DOMAIN toServer[c] :
       toServer[c][k] = "request" => receiver[c] = "open" /\ VariablesBefore(c, k)
  /\ served[c] \in {"nothing", "configured"}

\* The inductive invariant; that a receiver stays as long as anything may come
\* from its client is what SilenceInv is needed for.
MeetInv == SilenceInv /\ \A c \in Clients : OrderInv(c)

\* What the order of one channel depends on.
SameOrder(c) ==
  /\ connected'[c] = connected[c] /\ toServer'[c] = toServer[c] /\ toClient'[c] = toClient[c]
  /\ receiver'[c] = receiver[c] /\ configured'[c] = configured[c] /\ served'[c] = served[c]

\* It is kept where none of that changes.
LEMMA SameOrderKept ==
  ASSUME NEW c \in Clients, OrderInv(c), SameOrder(c)
  PROVE  OrderInv(c)'
BY DEF OrderInv, SameOrder, VariablesBefore

\* A message more at the end of the channel disturbs the order only if it is a
\* request the variables do not precede.
LEMMA AppendOrder ==
  ASSUME TypeInv, NEW c \in Clients, OrderInv(c), NEW kind \in ToServer,
         toServer'[c] = Append(toServer[c], kind),
         kind = "request" => connected[c],
         receiver'[c] = receiver[c], configured'[c] = configured[c], served'[c] = served[c]
  PROVE  /\ \A k \in DOMAIN toServer'[c] :
              toServer'[c][k] = "request" => receiver'[c] = "open" /\ VariablesBefore(c, k)'
         /\ kind = "variables" \/ VariablesBefore(c, Len(toServer[c]) + 1)
              => VariablesBefore(c, Len(toServer[c]) + 1)'
<1>0. PICK n \in Nat : n = Len(toServer[c])
  BY LenProperties DEF TypeInv
<1>1. /\ n \in Nat /\ DOMAIN toServer[c] = 1 .. n /\ DOMAIN toServer'[c] = 1 .. n + 1
      /\ toServer'[c][n + 1] = kind
      /\ \A k \in 1 .. n : toServer'[c][k] = toServer[c][k]
  BY <1>0, Appended DEF TypeInv
<1>2. Len(toServer'[c]) = n + 1
  BY <1>0, AppendProperties DEF TypeInv
<1>3. \A k \in 1 .. n + 1 : VariablesBefore(c, k) => VariablesBefore(c, k)'
  BY <1>1 DEF VariablesBefore
<1>4. ASSUME NEW k \in DOMAIN toServer'[c], toServer'[c][k] = "request"
      PROVE  receiver'[c] = "open" /\ VariablesBefore(c, k)'
  <2>1. CASE k \in 1 .. n
    BY <1>1, <1>3, <1>4, <2>1 DEF OrderInv
  <2>2. CASE k = n + 1
    BY <1>0, <1>1, <1>3, <1>4, <2>2 DEF OrderInv
  <2> QED
    BY <1>1, <2>1, <2>2
<1>5. VariablesBefore(c, n + 1) => VariablesBefore(c, n + 2)'
  BY <1>1 DEF VariablesBefore
<1>6. kind = "variables" => VariablesBefore(c, n + 2)'
  BY <1>1 DEF VariablesBefore
<1>7. (n + 1) + 1 = n + 2
  BY <1>1
<1> QED
  BY <1>0, <1>2, <1>4, <1>5, <1>6, <1>7

\* Nor does the end of its first message, if that was no variables or these have
\* been put in place.
LEMMA TailOrder ==
  ASSUME TypeInv, NEW c \in Clients, OrderInv(c), toServer[c] # <<>>,
         toServer'[c] = Tail(toServer[c]),
         configured[c] => configured'[c],
         Head(toServer[c]) = "variables" => configured'[c],
         receiver'[c] = receiver[c]
  PROVE  /\ \A k \in DOMAIN toServer'[c] :
              toServer'[c][k] = "request" => receiver'[c] = "open" /\ VariablesBefore(c, k)'
         /\ VariablesBefore(c, Len(toServer[c]) + 1) => VariablesBefore(c, Len(toServer[c]) + 1)'
<1>0. PICK n \in Nat : n = Len(toServer[c])
  BY LenProperties DEF TypeInv
<1>1. /\ n \in Nat \ {0} /\ DOMAIN toServer[c] = 1 .. n /\ DOMAIN toServer'[c] = 1 .. n - 1
      /\ Head(toServer[c]) = toServer[c][1]
      /\ \A k \in 1 .. n - 1 : toServer'[c][k] = toServer[c][k + 1]
  BY <1>0, Removed DEF TypeInv
<1>2. Len(toServer'[c]) = n - 1
  BY <1>0, HeadTailProperties DEF TypeInv
<1>3. ASSUME NEW k \in 1 .. n, VariablesBefore(c, k + 1) PROVE VariablesBefore(c, k)'
  <2>1. CASE configured'[c]
    BY <2>1 DEF VariablesBefore
  <2>2. CASE ~configured'[c]
    <3>1. PICK j \in 1 .. n : j < k + 1 /\ toServer[c][j] = "variables"
      BY <1>1, <1>3, <2>2 DEF VariablesBefore
    <3>2. j # 1
      BY <1>1, <2>2, <3>1
    <3>3. j - 1 \in 1 .. n - 1 /\ j - 1 < k /\ (j - 1) + 1 = j
      BY <1>1, <3>1, <3>2
    <3>4. toServer'[c][j - 1] = "variables"
      BY <1>1, <3>1, <3>3
    <3> QED
      BY <1>1, <3>3, <3>4 DEF VariablesBefore
  <2> QED
    BY <2>1, <2>2
<1>4. ASSUME NEW k \in DOMAIN toServer'[c], toServer'[c][k] = "request"
      PROVE  receiver'[c] = "open" /\ VariablesBefore(c, k)'
  <2>1. k \in 1 .. n /\ k + 1 \in DOMAIN toServer[c] /\ toServer[c][k + 1] = "request"
    BY <1>1, <1>4
  <2> QED
    BY <1>3, <2>1 DEF OrderInv
<1>5. n \in 1 .. n /\ (n - 1) + 1 = n
  BY <1>1
<1> QED
  BY <1>0, <1>2, <1>3, <1>4, <1>5

\* Every step keeps the invariant.
LEMMA MeetStep ==
  ASSUME PeriodsFit, OnlyBeatsAreLost, MeetInv, [Next]_vars
  PROVE  MeetInv'
<1>0. /\ SilenceInv /\ SilenceInv' /\ TypeInv /\ TypeInv'
      /\ \A c \in Clients : OrderInv(c) /\ ClientInv(c) /\ ClientInv(c)'
  BY SilenceStep DEF MeetInv, SilenceInv
<1> SUFFICES ASSUME NEW c \in Clients PROVE OrderInv(c)'
  BY <1>0 DEF MeetInv
<1>1. OrderInv(c) /\ ClientInv(c)
  BY <1>0
<1>2. CASE SameOrder(c)
  BY <1>1, <1>2, SameOrderKept
<1>3. CASE Tick \/ BeginCheck \/ EndCheck \/ UNCHANGED vars
  BY <1>3, <1>2 DEF Tick, BeginCheck, EndCheck, vars, clientVars, receiverVars, SameOrder
<1>4. CASE Start(c)
  BY <1>4, <1>2 DEF Start, receiverVars, SameOrder
<1>5. CASE Quit(c)
  <2>1. /\ ~connected'[c] /\ toClient'[c] = <<>>
        /\ UNCHANGED <<toServer, receiver, configured, served>>
    BY <1>0, <1>5 DEF Quit, receiverVars, TypeInv, TypeOK
  <2> QED
    BY <1>1, <2>1 DEF OrderInv, VariablesBefore
<1>6. CASE Heartbeat(c)
  <2>1. /\ toServer'[c] = Append(toServer[c], "heartbeat")
        /\ UNCHANGED <<connected, toClient, receiver, configured, served>>
    BY <1>0, <1>6 DEF Heartbeat, receiverVars, TypeInv
  <2>2. /\ \A k \in DOMAIN toServer'[c] :
             toServer'[c][k] = "request" => receiver'[c] = "open" /\ VariablesBefore(c, k)'
        /\ VariablesBefore(c, Len(toServer[c]) + 1) => VariablesBefore(c, Len(toServer[c]) + 1)'
    BY <1>0, <1>1, <2>1, AppendOrder DEF ToServer, Kinds
  <2> QED
    BY <1>1, <2>1, <2>2 DEF OrderInv
<1>7. CASE Request(c)
  <2>1. /\ connected[c] /\ toServer'[c] = Append(toServer[c], "request")
        /\ UNCHANGED <<connected, toClient, receiver, configured, served>>
    BY <1>0, <1>7 DEF Request, receiverVars, TypeInv
  <2>2. /\ \A k \in DOMAIN toServer'[c] :
             toServer'[c][k] = "request" => receiver'[c] = "open" /\ VariablesBefore(c, k)'
        /\ VariablesBefore(c, Len(toServer[c]) + 1) => VariablesBefore(c, Len(toServer[c]) + 1)'
    BY <1>0, <1>1, <2>1, AppendOrder DEF ToServer, Kinds
  <2> QED
    BY <1>1, <2>1, <2>2 DEF OrderInv
<1>8. CASE ProcessReply(c)
  <2>1. /\ toClient[c] # <<>>
        /\ toServer'[c] = IF connected[c] THEN toServer[c] ELSE Append(toServer[c], "variables")
        /\ UNCHANGED <<receiver, configured, served>>
    BY <1>0, <1>8 DEF ProcessReply, receiverVars, TypeInv
  <2>2. receiver[c] = "open"
    BY <1>1, <2>1 DEF OrderInv
  <2>3. CASE connected[c]
    <3>1. toServer'[c] = toServer[c] /\ VariablesBefore(c, Len(toServer[c]) + 1)
      BY <1>1, <2>1, <2>3 DEF OrderInv
    <3> QED
      BY <1>1, <2>1, <2>2, <3>1 DEF OrderInv, VariablesBefore
  <2>4. CASE ~connected[c]
    <3>1. /\ \A k \in DOMAIN toServer'[c] :
               toServer'[c][k] = "request" => receiver'[c] = "open" /\ VariablesBefore(c, k)'
          /\ VariablesBefore(c, Len(toServer[c]) + 1)'
      BY <1>0, <1>1, <2>1, <2>4, AppendOrder DEF ToServer, Kinds
    <3> QED
      BY <1>1, <2>1, <2>2, <3>1 DEF OrderInv
  <2> QED
    BY <2>3, <2>4
<1>9. CASE ReceiveRequest(c)
  <2> DEFINE kind == Head(toServer[c])
  <2>1. /\ toServer[c] # <<>> /\ toServer'[c] = Tail(toServer[c])
        /\ receiver' = [receiver EXCEPT ![c] = IF @ = "none" THEN "open" ELSE @]
        /\ ProcessRequest(c, kind)
        /\ UNCHANGED connected
    BY <1>0, <1>9 DEF ReceiveRequest, clientVars, TypeInv
  <2>2. receiver[c] # "closing" /\ receiver'[c] = "open"
    BY <1>0, <1>1, <2>1 DEF ClientInv, Alive, TypeInv, TypeOK
  <2>3. /\ configured[c] => configured'[c]
        /\ kind = "variables" => configured'[c]
    <3>1. CASE kind = "heartbeat" /\ ~accepted[c]
      <4>1. configured' = configured
        BY <2>1, <3>1 DEF ProcessRequest
      <4> QED
        BY <3>1, <4>1
    <3>2. CASE ~(kind = "heartbeat" /\ ~accepted[c])
      <4>1. configured' = [configured EXCEPT ![c] =
                             @ \/ (kind = "variables" /\ receiver[c] # "closing")]
        BY <2>1, <3>2 DEF ProcessRequest
      <4>2. configured'[c] <=> configured[c] \/ (kind = "variables" /\ receiver[c] # "closing")
        BY <1>0, <4>1, Zenon DEF TypeInv, TypeOK
      <4> QED
        BY <2>2, <4>2
    <3> QED
      BY <3>1, <3>2
  <2>4. /\ toServer[c] \in Seq(ToServer)
        /\ 1 \in DOMAIN toServer[c] /\ kind = toServer[c][1]
    BY <1>0, <2>1, Removed DEF TypeInv
  <2>5. served'[c] \in {"nothing", "configured"}
    <3>1. CASE kind = "request"
      <4>1. receiver[c] = "open" /\ VariablesBefore(c, 1)
        BY <1>1, <2>4, <3>1 DEF OrderInv
      <4>2. configured[c]
        <5>1. ~ \E j \in DOMAIN toServer[c] : j < 1
          BY <2>4, LenProperties
        <5> QED
          BY <4>1, <5>1 DEF VariablesBefore
      <4>3. Finds(c) = "configured"
        BY <4>1, <4>2 DEF Finds
      <4>4. served'[c] = Finds(c)
        BY <1>0, <2>1, <3>1 DEF ProcessRequest, TypeInv, TypeOK
      <4> QED
        BY <4>3, <4>4
    <3>2. CASE kind # "request"
      <4>1. served'[c] = served[c]
        BY <1>0, <2>1, <3>2 DEF ProcessRequest, TypeInv, TypeOK
      <4> QED
        BY <1>1, <4>1 DEF OrderInv
    <3> QED
      BY <3>1, <3>2
  <2>6. CASE receiver[c] = "open"
    <3>1. /\ \A k \in DOMAIN toServer'[c] :
               toServer'[c][k] = "request" => receiver'[c] = "open" /\ VariablesBefore(c, k)'
          /\ VariablesBefore(c, Len(toServer[c]) + 1)
               => VariablesBefore(c, Len(toServer[c]) + 1)'
      BY <1>0, <1>1, <2>1, <2>2, <2>3, <2>6, TailOrder
    <3> QED
      BY <1>1, <2>1, <2>2, <2>5, <3>1 DEF OrderInv
  <2>7. CASE receiver[c] = "none"
    <3>1. ~connected[c] /\ \A k \in DOMAIN toServer[c] : toServer[c][k] # "request"
      BY <1>1, <2>7 DEF OrderInv
    <3>2. \A k \in DOMAIN toServer'[c] : toServer'[c][k] # "request"
      <4>1. PICK n \in Nat : n = Len(toServer[c])
        BY <2>4, LenProperties
      <4>2. /\ DOMAIN toServer[c] = 1 .. n /\ DOMAIN toServer'[c] = 1 .. n - 1
            /\ \A k \in 1 .. n - 1 : toServer'[c][k] = toServer[c][k + 1]
        BY <2>1, <2>4, <4>1, Removed
      <4>3. \A k \in 1 .. n - 1 : k + 1 \in 1 .. n
        BY <4>1
      <4> QED
        BY <3>1, <4>2, <4>3
    <3> QED
      BY <2>1, <2>2, <2>5, <3>1, <3>2 DEF OrderInv
  <2> QED
    BY <1>0, <2>2, <2>6, <2>7 DEF TypeInv, TypeOK
<1>10. CASE CheckReceiver(c)
  <2>1. /\ receiver[c] # "none"
        /\ IF received[c] THEN UNCHANGED receiver
                          ELSE receiver' = [receiver EXCEPT ![c] = "closing"]
        /\ c > visited /\ visited # Idle
        /\ UNCHANGED <<connected, toServer, toClient, configured, served, process>>
    BY <1>10 DEF CheckReceiver, Unvisited, clientVars
  <2>2. CASE received[c]
    BY <1>2, <2>1, <2>2 DEF SameOrder
  <2>3. CASE ~received[c]
    <3>1. ~Alive(c)
      BY <1>0, <1>1, <2>1, <2>3, SessionAssumption
         DEF ClientInv, Heard, TypeInv, TypeOK, Idle
    <3>2. ~connected[c] /\ toClient[c] = <<>> /\ toServer[c] = <<>>
      BY <1>1, <3>1 DEF ClientInv, Alive
    <3>3. DOMAIN toServer'[c] = {}
      BY <2>1, <3>2
    <3> QED
      BY <1>1, <2>1, <3>2, <3>3 DEF OrderInv
  <2> QED
    BY <2>2, <2>3
<1>11. CASE FinishDelete(c)
  <2>1. receiver[c] = "closing" /\ UNCHANGED <<connected, toServer, toClient, served>>
    BY <1>11 DEF FinishDelete, clientVars
  <2>2. /\ ~connected[c] /\ toClient[c] = <<>>
        /\ \A k \in DOMAIN toServer[c] : toServer[c][k] # "request"
    BY <1>1, <2>1 DEF OrderInv
  <2> QED
    BY <1>1, <2>1, <2>2 DEF OrderInv
<1>12. CASE Lose(c)
  <2>1. toClient[c] # <<>> => Head(toClient[c]) = "clientAccepted"
    BY <1>0, Removed DEF TypeInv
  <2>2. /\ toServer[c] # <<>> /\ Head(toServer[c]) = "heartbeat"
        /\ toServer'[c] = Tail(toServer[c])
        /\ UNCHANGED <<connected, toClient, receiver, configured, served>>
    BY <1>0, <1>12, <2>1 DEF Lose, OnlyBeatsAreLost, clientVars, receiverVars, TypeInv
  <2>3. /\ \A k \in DOMAIN toServer'[c] :
             toServer'[c][k] = "request" => receiver'[c] = "open" /\ VariablesBefore(c, k)'
        /\ VariablesBefore(c, Len(toServer[c]) + 1) => VariablesBefore(c, Len(toServer[c]) + 1)'
    BY <1>0, <1>1, <2>2, TailOrder
  <2> QED
    BY <1>1, <2>2, <2>3 DEF OrderInv
<1>13. ASSUME NEW d \in Clients, d # c,
              \/ Start(d) \/ Quit(d) \/ Heartbeat(d) \/ Request(d) \/ ProcessReply(d)
              \/ ReceiveRequest(d) \/ CheckReceiver(d) \/ FinishDelete(d) \/ Lose(d)
       PROVE  SameOrder(c)
  <2>1. CASE Start(d) \/ Quit(d) \/ Heartbeat(d) \/ Request(d) \/ ProcessReply(d)
    <3>1. CASE Start(d) \/ Heartbeat(d) \/ Request(d)
      <4>1. d # c /\ toServer \in [Clients -> Seq(ToServer)]
        BY <1>0, <1>13 DEF TypeInv
      <4>2. /\ toServer'[c] = toServer[c]
            /\ UNCHANGED <<connected, toClient, receiver, configured, served>>
        BY <3>1, <4>1 DEF Start, Heartbeat, Request, receiverVars
      <4> QED
        BY <4>2 DEF SameOrder
    <3>2. CASE Quit(d) \/ ProcessReply(d)
      <4>1. /\ d # c /\ toServer \in [Clients -> Seq(ToServer)]
            /\ toClient \in [Clients -> Seq({"clientAccepted"})]
            /\ connected \in [Clients -> BOOLEAN]
        BY <1>0, <1>13 DEF TypeInv, TypeOK
      <4>2. /\ toServer'[c] = toServer[c] /\ toClient'[c] = toClient[c]
            /\ UNCHANGED <<receiver, configured, served>>
        BY <3>2, <4>1 DEF Quit, ProcessReply, receiverVars
      <4>3. connected'[c] = connected[c]
        BY <3>2, <4>1, Zenon DEF Quit, ProcessReply
      <4> QED
        BY <4>2, <4>3 DEF SameOrder
    <3> QED
      BY <2>1, <3>1, <3>2
  <2>2. CASE ReceiveRequest(d)
    <3>1. /\ toServer'[c] = toServer[c] /\ receiver'[c] = receiver[c]
          /\ connected'[c] = connected[c] /\ ProcessRequest(d, Head(toServer[d]))
      BY <1>0, <1>13, <2>2 DEF ReceiveRequest, clientVars, TypeInv, TypeOK
    <3>2. toClient'[c] = toClient[c] /\ served'[c] = served[c]
      BY <1>0, <1>13, <3>1, ZenonT(40) DEF ProcessRequest, TypeInv, TypeOK
    <3>3. configured'[c] = configured[c]
      BY <1>0, <1>13, <3>1, ZenonT(30) DEF ProcessRequest, TypeInv, TypeOK
    <3> QED
      BY <3>1, <3>2, <3>3 DEF SameOrder
  <2>3. CASE CheckReceiver(d) \/ FinishDelete(d) \/ Lose(d)
    BY <1>0, <1>13, <2>3, SMTT(30) DEF CheckReceiver, FinishDelete, Lose, SameOrder,
                             TypeInv, TypeOK, clientVars, receiverVars
  <2> QED
    BY <1>13, <2>1, <2>2, <2>3
<1> QED
  BY <1>2, <1>3, <1>4, <1>5, <1>6, <1>7, <1>8, <1>9, <1>10, <1>11, <1>12, <1>13 DEF Next

\* It is an invariant of the system.
LEMMA MeetInvariant ==
  ASSUME PeriodsFit, OnlyBeatsAreLost
  PROVE  Spec => []MeetInv
<1>1. Init => \A c \in Clients : OrderInv(c)
  <2> SUFFICES ASSUME Init, NEW c \in Clients PROVE OrderInv(c)
    OBVIOUS
  <2>1. toServer[c] = <<>> /\ toClient[c] = <<>> /\ ~connected[c] /\ served[c] = "nothing"
    BY DEF Init
  <2>2. DOMAIN toServer[c] = {}
    BY <2>1
  <2> QED
    BY <2>1, <2>2 DEF OrderInv
<1>2. Spec => []SilenceInv
  BY SilenceInvariant
<1>3. SilenceInv /\ (\A c \in Clients : OrderInv(c)) => MeetInv
  BY DEF MeetInv
<1> QED
  BY <1>1, <1>2, <1>3, MeetStep, PTL DEF Spec

\* No request meets a system without its client's variables or a receiver that is
\* being deleted, whatever heartbeats get lost: the client sends its variables
\* first, and the receiver stays while anything of the client is under way
\* (processReply, processRequest, disconnectionCheck).
THEOREM RequestsMeetCorrect ==
  ASSUME PeriodsFit, OnlyBeatsAreLost
  PROVE  Spec => []RequestsMeetTheirSystem
<1>1. MeetInv => RequestsMeetTheirSystem
  BY DEF MeetInv, OrderInv, RequestsMeetTheirSystem
<1> QED
  BY <1>1, MeetInvariant, PTL

\* A client that is ready is known to the server with its variables, as the
\* comment on readyToRun says, as long as the periods fit each other; the run
\* outage shows what happens when too many heartbeats are lost for that.
THEOREM ReadyCorrect ==
  ASSUME PeriodsFit, OnlyBeatsAreLost
  PROVE  Spec => []ReadyMeansReady
<1>1. MeetInv => ReadyMeansReady
  <2> SUFFICES ASSUME MeetInv, NEW c \in Clients, connected[c], toServer[c] = <<>>
               PROVE  configured[c]
    BY DEF ReadyMeansReady
  <2>1. VariablesBefore(c, Len(toServer[c]) + 1)
    BY DEF MeetInv, OrderInv
  <2>2. DOMAIN toServer[c] = {}
    OBVIOUS
  <2> QED
    BY <2>1, <2>2 DEF VariablesBefore
<1> QED
  BY <1>1, MeetInvariant, PTL
=============================================================================
