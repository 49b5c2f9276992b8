----------------------------- MODULE WireFormat ------------------------------
(***************************************************************************)
(* What is in the messages between a client and its server, byte by byte   *)
(* as far as the readers count bytes: DataTransmit.cpp, the methods of     *)
(* ActionSender and their counterparts in SimulationWorker, the headers    *)
(* that ActionServer, ActionReceiver and processReply write, read and cut  *)
(* off by hand, and the variables of SimulatedSystem with their types and  *)
(* conversions (Object.cpp).                                               *)
(*                                                                         *)
(* Nothing in a message says how its fields are laid out.  Clients and     *)
(* server are built apart, and by default with different floating types:   *)
(* a SCALAR variable, a Vector3 and everything computed from them is float *)
(* in the clients and double in the server.                                *)
(*                                                                         *)
(* A field is what its writer wants to say and the type it is written as;  *)
(* the bytes of a field are numbered, so that a reader understands it only *)
(* if it takes all of them, in order, as the same type.                    *)
(***************************************************************************)
EXTENDS Integers, SequencesExt

CONSTANTS
  Numbers,      \* values of floating-point variables; the even ones fit a float
  MaxEvents     \* bound: requests, settings and frames, all together

ASSUME WireFormatAssumption ==
  /\ Numbers \subseteq Nat /\ 1 \in Numbers
  /\ MaxEvents \in Nat

VARIABLES
  scalar,     \* FLOATING_TYPE of the builds of "client" and "server"
  ready,      \* the client was accepted and has sent its variables
  events,     \* how many requests, settings and frames there were
  waitsFor,   \* the request the client waits for, or "none"
  toServer, toClient,  \* messages on their way, as bytes
  items,      \* the work queue: records of the action and the data of a request
  copies,     \* the variables, of either side
  heard       \* how the last message but a variable was understood

wireVars == <<scalar, ready, events, waitsFor, toServer, toClient, items, copies, heard>>

-----------------------------------------------------------------------------
(* Fields and bytes *)

Field(value, type) == [value |-> value, type |-> type]

Width(type) ==
  CASE type \in {"bool", "char"} -> 1
    [] type = "short" -> 2
    [] type \in {"int", "float"} -> 4
    [] type = "double" -> 8

\* readFloat() asks for eight bytes and gets what there is.
ReadWidth(type) == IF type = "float" THEN 8 ELSE Width(type)

Bytes(field) == [k \in 1 .. Width(field.type) |-> <<field, k>>]
Encode(fields) == FlattenSeq([i \in DOMAIN fields |-> Bytes(fields[i])])

Drop(bytes, n) == SubSeq(bytes, n + 1, Len(bytes))

Misread == "misread"

\* What a variable of this type holds after its bytes were overwritten by these.
Decode(bytes, type) ==
  IF bytes # <<>> /\ Head(bytes)[1].type = type /\ bytes = Bytes(Head(bytes)[1])
  THEN Head(bytes)[1].value ELSE Misread

\* One read: the values so far, the bytes left, and whether more bytes were stored
\* than the destination has.
ReadField(state, type) ==
  LET taken == IF ReadWidth(type) < Len(state.rest) THEN ReadWidth(type) ELSE Len(state.rest)
      kept == IF taken < Width(type) THEN taken ELSE Width(type)
  IN  [values |-> Append(state.values, Decode(SubSeq(state.rest, 1, kept), type)),
       rest |-> Drop(state.rest, taken),
       past |-> state.past \/ taken > Width(type)]

Read(bytes, types) ==
  LET reading[n \in 0 .. Len(types)] ==
        IF n = 0 THEN [values |-> <<>>, rest |-> bytes, past |-> FALSE]
        ELSE ReadField(reading[n - 1], types[n])
  IN  reading[Len(types)]

Types(fields) == [i \in DOMAIN fields |-> fields[i].type]
Meant(fields) == [i \in DOMAIN fields |-> fields[i].value]

\* A reader that expects these fields has read the bytes.
Hear(bytes, fields) ==
  LET result == Read(bytes, Types(fields))
  IN  [expected |-> Meant(fields), values |-> result.values,
       left |-> Len(result.rest), past |-> result.past]

-----------------------------------------------------------------------------
(* Spheres *)

VectorOfFloats(v) == [i \in 1 .. 3 |-> Field(v, "float")]

\* A Vector3 travels as three doubles, whatever it consists of.
Vector3(v) == [i \in 1 .. 3 |-> Field(v, "double")]

DoubleOf(name) == <<Field(name, "double")>>
ShortOf(name) == <<Field(name, "short")>>
IntOf(name) == <<Field(name, "int")>>

WriteBasicSphereData == DoubleOf("radius") \o Vector3("pos")
ReadBasicSphereData == DoubleOf("radius") \o Vector3("pos")

WriteAllSphereData ==
  DoubleOf("radius") \o DoubleOf("mass") \o Vector3("pos") \o Vector3("speed") \o Vector3("acc")
ReadAllWithoutMass ==
  DoubleOf("radius") \o Vector3("pos") \o Vector3("speed") \o Vector3("acc")
ReadAllSphereData ==
  DoubleOf("radius") \o DoubleOf("mass") \o Vector3("pos") \o Vector3("speed") \o Vector3("acc")

-----------------------------------------------------------------------------
(* Requests and replies *)

CountActions == {"addSphere", "removeLastSphere", "addSomeSpheres", "removeSomeLastSpheres"}
CounterActions == {"popCalculationCounter", "popStepCounter", "getLastStepCalculationTime"}
EnergyActions == {"getTotalEnergy", "getKineticEnergy"}
StepActions == {"calculateStep", "calculateSomeSteps", "startSimulation", "stopSimulation"}
UpdateActions == {"updateSphere", "updateSpherePositionsInBox", "updateAllSpheres",
                  "updateKineticEnergy"}

\* The actions whose method waits for a reply.
ReplyActions == CountActions \union CounterActions \union EnergyActions
                  \union {"getBasicSphereData", "getAllSphereData"}
Actions == ReplyActions \union StepActions \union UpdateActions

\* What the methods of ActionSender write behind the header ...
RequestFields(action) ==
  CASE action = "updateSphere" -> ShortOf("i") \o WriteAllSphereData
    [] action \in {"getBasicSphereData", "getAllSphereData"} -> ShortOf("i")
    [] action \in {"addSomeSpheres", "removeSomeLastSpheres"} -> ShortOf("sphCount")
    [] action = "updateSpherePositionsInBox" ->
         DoubleOf("randomDisplacement") \o DoubleOf("randomSpeed")
    [] action = "updateAllSpheres" -> WriteAllSphereData
    [] action = "updateKineticEnergy" -> DoubleOf("factor")
    [] action = "calculateSomeSteps" -> IntOf("steps")
    [] OTHER -> <<>>

\* ... and what the server's handlers read.
HandlerFields(action) ==
  CASE action = "updateSphere" -> ShortOf("i") \o ReadAllSphereData
    [] action \in {"getBasicSphereData", "getAllSphereData"} -> ShortOf("i")
    [] action \in {"addSomeSpheres", "removeSomeLastSpheres"} -> ShortOf("sphCount")
    [] action = "updateSpherePositionsInBox" ->
         DoubleOf("randomDisplacement") \o DoubleOf("randomSpeed")
    [] action = "updateAllSpheres" -> ReadAllSphereData
    [] action = "updateKineticEnergy" -> DoubleOf("factor")
    [] action = "calculateSomeSteps" -> IntOf("steps")
    [] OTHER -> <<>>

\* What the handlers answer ...
ReplyFields(action) ==
  CASE action \in CountActions -> ShortOf("sphereCount")
    [] action \in CounterActions -> IntOf(action)
    [] action \in EnergyActions -> DoubleOf(action)
    [] action = "getBasicSphereData" -> WriteBasicSphereData
    [] action = "getAllSphereData" -> WriteAllSphereData

\* ... and what the methods of ActionSender read from it.
AnswerFields(action) ==
  CASE action \in CountActions -> ShortOf("sphereCount")
    [] action \in CounterActions -> IntOf(action)
    [] action \in EnergyActions -> DoubleOf(action)
    [] action = "getBasicSphereData" -> ReadBasicSphereData
    [] action = "getAllSphereData" -> ReadAllSphereData

GroupOf(action) ==
  CASE action = "updateVariable" -> "basic"
    [] action \in CountActions \union UpdateActions
                    \union {"getBasicSphereData", "getAllSphereData"} -> "spheresUpdating"
    [] action \in CounterActions \union StepActions -> "calculation"
    [] action \in EnergyActions -> "information"

\* sendAction(): the simulation has the ID of the client.
Request(action, fields) ==
  Encode(IntOf("clientID") \o IntOf("clientID")
           \o <<Field(GroupOf(action), "char"), Field(action, "char")>> \o fields)

\* ActionReceiver::sendReply() and ActionServer::send().
Reply(status, fields) ==
  Encode(IntOf("clientID") \o IntOf("serverID") \o ShortOf(status) \o fields)

-----------------------------------------------------------------------------
(* Variables: one of every type *)

\* In the order of their numbers.
AllVariables ==
  <<"serverVersion", "sphereCount", "timeStep", "frameSending", "sphereE", "earthGravity">>
Variables == Range(AllVariables)

TypeOf(side, var) ==
  CASE var = "frameSending" -> "bool"
    [] var = "sphereCount" -> "int"
    [] var = "timeStep" -> "double"
    [] var = "sphereE" -> scalar[side]
    [] var = "earthGravity" -> "Vector3"
    [] var = "serverVersion" -> "string"

IsFloat(side, var) ==
  \/ TypeOf(side, var) = "float"
  \/ TypeOf(side, var) = "Vector3" /\ scalar[side] = "float"

\* What the variable of a side can hold of a value it is set to.
Converted(side, var, value) ==
  CASE TypeOf(side, var) = "bool" -> IF value = 0 THEN 0 ELSE 1
    [] IsFloat(side, var) -> value - (value % 2)
    [] OTHER -> value

\* A string is modelled by its length.
ValueFields(type, value) ==
  CASE type = "Vector3" -> Vector3(value)
    [] type = "string" -> ShortOf(value) \o [i \in 1 .. value |-> Field("letter", "char")]
    [] OTHER -> <<Field(value, type)>>

\* sendVariable(): the number of the variable and getData().
VariableFields(side, var) ==
  ShortOf(var) \o <<Field(TypeOf(side, var), "char")>>
    \o ValueFields(TypeOf(side, var), copies[side][var])

\* What setData() reads behind the letter of the type.
ReadValue(bytes, type) ==
  IF type = "string"
  THEN LET size == Read(bytes, <<"short">>)
       IN  Read(size.rest, [i \in 1 .. size.values[1] |-> "char"])
  ELSE Read(bytes, Types(ValueFields(type, 0)))

ValueOf(result, type) ==
  CASE type = "string" -> Len(result.values)
    [] OTHER -> result.values[1]

\* receiveVariable(): the type is the sender's, and set() converts to the own one.
ReceiveVariable(side, bytes) ==
  LET var == Read(bytes, <<"short">>).values[1]
      data == Drop(bytes, 2)
      type == Read(data, <<"char">>).values[1]
      result == ReadValue(Drop(data, 1), type)
  IN  /\ copies' = [copies EXCEPT ![side][var] = Converted(side, var, ValueOf(result, type))]
      /\ heard' = [expected |-> result.values, values |-> result.values,
                   left |-> Len(result.rest), past |-> result.past]

-----------------------------------------------------------------------------
\* The constructor of SimulatedSystem sets every variable to a literal.
WireInit ==
  /\ scalar \in [{"client", "server"} -> {"float", "double"}]
  /\ ready = FALSE
  /\ events = 0
  /\ waitsFor = "none"
  /\ toServer = <<>> /\ toClient = <<>>
  /\ items = <<>>
  /\ copies = [side \in {"client", "server"} |->
                 [var \in Variables |-> Converted(side, var, 1)]]
  /\ heard = Hear(<<>>, <<>>)

\* One event more, at most up to the bound.
Counted ==
  /\ events < MaxEvents
  /\ events' = events + 1

-----------------------------------------------------------------------------
(* The client *)

UpdateVariable(var) == Request("updateVariable", VariableFields("client", var))

\* sendAllVariables(), when the server has accepted the client.
SendAllVariables ==
  /\ ~ready
  /\ ready' = TRUE
  /\ toServer' = toServer \o [n \in DOMAIN AllVariables |-> UpdateVariable(AllVariables[n])]
  /\ UNCHANGED <<scalar, events, waitsFor, toClient, items, copies, heard>>

\* One of the methods; most of them wait for a reply.
CallMethod(action) ==
  /\ ready /\ waitsFor = "none"
  /\ Counted
  /\ toServer' = Append(toServer, Request(action, RequestFields(action)))
  /\ waitsFor' = IF action \in ReplyActions THEN action ELSE "none"
  /\ UNCHANGED <<scalar, ready, toClient, items, copies, heard>>

\* A Vector3 is one of the client's floating type before set() gets it.
Given(var, value) == IF var = "earthGravity" THEN Converted("client", var, value) ELSE value

SetAssignsFirst(var, value) ==
  /\ ready /\ waitsFor = "none"
  /\ Counted
  /\ UNCHANGED <<scalar, ready, waitsFor, toClient, items, heard>>
  /\ copies' = [copies EXCEPT !.client[var] = Converted("client", var, value)]
  /\ toServer' = IF copies'.client[var] = Given(var, value) THEN toServer
                 ELSE Append(toServer, UpdateVariable(var)')

\* set() compares the value before it is converted: a value that a float cannot
\* hold counts as a change every time.
Set(var, value) ==
  /\ ready /\ waitsFor = "none"
  /\ Counted
  /\ UNCHANGED <<scalar, ready, waitsFor, toClient, items, heard>>
  /\ copies' = [copies EXCEPT !.client[var] = Converted("client", var, value)]
  /\ toServer' = IF copies.client[var] = Given(var, value) THEN toServer
                 ELSE Append(toServer, UpdateVariable(var)')

\* processReply(); the reply is read by the method that has waited for it.
ReadReply ==
  /\ toClient # <<>>
  /\ toClient' = Tail(toClient)
  /\ LET data == Head(toClient)
         header == Read(data, <<"int", "int", "short">>)
         status == header.values[3]
     IN  \/ /\ status = "sendFrame"
            /\ heard' = Hear(header.rest, IntOf("frameCounter") \o ShortOf("index")
                                            \o ReadBasicSphereData)
            /\ UNCHANGED <<waitsFor, copies>>
         \/ /\ status = "sendVariable"
            /\ ReceiveVariable("client", Drop(data, 10))
            /\ UNCHANGED waitsFor
         \/ /\ status = "acknowledge"
            /\ heard' = Hear(Drop(data, 10), AnswerFields(waitsFor))
            /\ waitsFor' = "none"
            /\ UNCHANGED copies
  /\ UNCHANGED <<scalar, ready, events, toServer, items>>

-----------------------------------------------------------------------------
(* The server *)

\* receiveRequest() cuts off the IDs, processRequest() group and action; requests
\* for steps are read at once by pushItem().
ReceiveRequest ==
  /\ toServer # <<>>
  /\ toServer' = Tail(toServer)
  /\ LET request == Drop(Head(toServer), 8)
         action == Read(request, <<"char", "char">>).values[2]
         data == Drop(request, 2)
     IN  IF action \in StepActions
         THEN /\ heard' = Hear(data, HandlerFields(action))
              /\ UNCHANGED items
         ELSE /\ items' = Append(items, [action |-> action, data |-> data])
              /\ UNCHANGED heard
  /\ UNCHANGED <<scalar, ready, events, waitsFor, toClient, copies>>

\* updateVariable: the worker reads the number and hands on what follows it.
HandleVariable ==
  /\ items # <<>> /\ Head(items).action = "updateVariable"
  /\ items' = Tail(items)
  /\ ReceiveVariable("server", Head(items).data)
  /\ UNCHANGED <<scalar, ready, events, waitsFor, toServer, toClient>>

\* The other actions of the worker.  A changed number of spheres is sent before the
\* reply.
HandleAction ==
  /\ items # <<>> /\ Head(items).action # "updateVariable"
  /\ items' = Tail(items)
  /\ UNCHANGED <<scalar, ready, events, waitsFor, toServer>>
  /\ LET action == Head(items).action
     IN  /\ heard' = Hear(Head(items).data, HandlerFields(action))
         /\ \E n \in IF action \in CountActions THEN 0 .. 2
                     ELSE {copies.server.sphereCount} :
              copies' = [copies EXCEPT !.server.sphereCount = n]
         /\ toClient' = toClient
              \o (IF copies' = copies THEN <<>>
                  ELSE <<Reply("sendVariable", VariableFields("server", "sphereCount")')>>)
              \o (IF action \in ReplyActions
                  THEN <<Reply("acknowledge", ReplyFields(action))>> ELSE <<>>)

\* prepareFrameData(), for one sphere.
SendFrame ==
  /\ ready
  /\ Counted
  /\ toClient' = Append(toClient, Reply("sendFrame",
       IntOf("frameCounter") \o ShortOf("index") \o WriteBasicSphereData))
  /\ UNCHANGED <<scalar, ready, waitsFor, toServer, items, copies, heard>>

WireNext ==
  \/ SendAllVariables
  \/ \E action \in Actions : CallMethod(action)
  \/ \E var \in Variables \ {"sphereCount"}, value \in Numbers : Set(var, value)
  \/ ReadReply
  \/ ReceiveRequest
  \/ HandleVariable
  \/ HandleAction
  \/ SendFrame

WireSpec == WireInit /\ [][WireNext]_wireVars

-----------------------------------------------------------------------------
\* Each side reads what the other has written: every field of every request, reply
\* and frame arrives where it is meant to, and no byte is left over, although the
\* two layouts are written down twice and each header is cut off at offsets that
\* nobody computes (2, 8, 10 and 12 bytes).
MessagesAreUnderstood == heard.values = heard.expected /\ heard.left = 0

\* messageTransmitter's buffer: char buffer[1024].
BufferLength == 1024

\* No reader stores more bytes than the variable it fills has, and no message is
\* longer than the buffer it is received in.  readFloat() asks for eight bytes and
\* fills four: that is right only because a float is the last thing in its message.
ReadsStayInBounds ==
  /\ ~heard.past
  /\ \A n \in DOMAIN toServer : Len(toServer[n]) <= BufferLength
  /\ \A n \in DOMAIN toClient : Len(toClient[n]) <= BufferLength

\* When nothing is under way, the server has what the client has, as exactly as the
\* server's types allow, whatever the floating types of the two builds and however
\* often a value that cannot be represented was set; before the client was accepted
\* the two may differ in every float.
CopiesAgree ==
  ready /\ toServer = <<>> /\ items = <<>> /\ toClient = <<>> =>
    \A var \in Variables : copies.server[var] = Converted("server", var, copies.client[var])
=============================================================================
