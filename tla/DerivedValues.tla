--------------------------- MODULE DerivedValues -----------------------------
(***************************************************************************)
(* From a client's setting to the value a step calculates with             *)
(* (SimulatedSystem::set and receiveVariable, SimulationWorker::           *)
(* handleBasicAction, SphereCalculator::variableUpdated and the functions  *)
(* it calls).                                                              *)
(*                                                                         *)
(* A setting travels through the work queue to the worker, which stores    *)
(* it.  SphereCalculator lives in the main thread, so the worker's signal  *)
(* variableUpdated is posted there, and the main thread computes what      *)
(* depends on the variable, reading the variables one by one while the     *)
(* worker goes on storing settings and calculating steps.  Nothing is      *)
(* locked.                                                                 *)
(*                                                                         *)
(* A computed modulus is modelled by the values it was computed from, a    *)
(* Butcher tableau by the methods its two halves are of: what a step reads *)
(* in its stages, and what it reads after them.                            *)
(***************************************************************************)
EXTENDS Sequences, SequencesExt, Tableaux

CONSTANTS
  Settings,   \* pairs <<variable, value>> a client sets
  MaxSets,    \* bound: settings of the client
  MaxAsked    \* bound: steps asked for

Moduli == {"sphereE", "spherePoissonRatio", "wallE", "wallPoissonRatio"}
Variables == Moduli \union {"integratorMethod", "maximumTheta"}

ASSUME DerivedValuesAssumption ==
  /\ Settings \subseteq Variables \X Nat
  /\ MaxSets \in Nat /\ MaxAsked \in Nat

\* The methods with a branch of their own; Fallback replaces all others.
Fallback == RungeKuttaFehlberg54
Known == Methods \ {Fallback}

\* The default of a modulus or angle is 0 here.
Default(var) == IF var = "integratorMethod" THEN CashKarp54 ELSE 0

Values == {0, CashKarp54, Fallback} \union {setting[2] : setting \in Settings}

VARIABLES
  client,          \* the client's copy of the variables
  sets, asked,     \* settings made, steps asked for
  toServer, toClient,
  items, steps,    \* the work queue: settings, and outstanding steps
  variables,       \* the server's copy
  posted,          \* variableUpdated(var) calls in the main thread's event queue
  todo,            \* what is left of the call the main thread makes
  operands,        \* what it has read for the value it computes
  derived,         \* sphereSphereE, sphereWallE
  butcherTableau,
  stage            \* the first half of the tableau as the running step read it

clientVars == <<client, sets, asked>>
queueVars == <<items, steps>>
mainVars == <<todo, operands, derived, butcherTableau>>
valuesVars == <<clientVars, toServer, toClient, queueVars, variables, posted, mainVars,
                stage>>

Set(var, value) == [op |-> "updateVariable", var |-> var, value |-> value]
Steps == [op |-> "calculateStep"]

\* What the main thread does, one memory access at a time.
Read(var) == [op |-> "read", var |-> var]
Store(what) == [op |-> "store", what |-> what]
Choose == [op |-> "choose"]
Replace == [op |-> "replace"]
Install(method) == [half \in 1 .. 2 |-> [op |-> "install", half |-> half, method |-> method]]

None == -1

ValuesTypeOK ==
  /\ client \in [Variables -> Values] /\ variables \in [Variables -> Values]
  /\ sets \in 0 .. MaxSets /\ asked \in 0 .. MaxAsked
  /\ \A m \in ToSet(toServer) : m = Steps \/ <<m.var, m.value>> \in Variables \X Values
  /\ ToSet(items) \union ToSet(toClient) \subseteq
       {Set(var, value) : var \in Variables, value \in Values}
  /\ steps \in 0 .. MaxAsked
  /\ ToSet(posted) \subseteq Variables
  /\ Len(operands) <= 4
  /\ todo # <<>> \/ operands = <<>>
  /\ Len(derived.sphereSphereE) = 4 /\ Len(derived.sphereWallE) = 4
  /\ butcherTableau \in [1 .. 2 -> Known \union {Fallback}]
  /\ stage \in Known \union {Fallback, None}

\* The order in which the formulas read the variables.
ReadsOf(what) ==
  IF what = "sphereSphereE"
  THEN <<"spherePoissonRatio", "sphereE", "spherePoissonRatio", "sphereE">>
  ELSE <<"spherePoissonRatio", "sphereE", "wallPoissonRatio", "wallE">>

Now(what) == [n \in DOMAIN ReadsOf(what) |-> variables[ReadsOf(what)[n]]]

\* startUp() computes from the defaults.
ValuesInit ==
  /\ client = [var \in Variables |-> Default(var)]
  /\ sets = 0 /\ asked = 0
  /\ toServer = <<>> /\ toClient = <<>>
  /\ items = <<>> /\ steps = 0
  /\ variables = client
  /\ posted = <<>>
  /\ todo = <<>> /\ operands = <<>>
  /\ derived = [what \in {"sphereSphereE", "sphereWallE"} |-> Now(what)]
  /\ butcherTableau = [half \in 1 .. 2 |-> CashKarp54]
  /\ stage = None

-----------------------------------------------------------------------------
(* The client *)

\* SimulatedSystem::set(): only a value that changes is sent.
ClientSets(var, value) ==
  /\ sets < MaxSets
  /\ client[var] # value
  /\ client' = [client EXCEPT ![var] = value]
  /\ sets' = sets + 1
  /\ toServer' = Append(toServer, Set(var, value))
  /\ UNCHANGED <<asked, toClient, queueVars, variables, posted, mainVars, stage>>

ClientAsksForStep ==
  /\ asked < MaxAsked
  /\ asked' = asked + 1
  /\ toServer' = Append(toServer, Steps)
  /\ UNCHANGED <<client, sets, toClient, queueVars, variables, posted, mainVars, stage>>

\* receiveVariable() of the client; it sends nothing back.
ClientReceives ==
  /\ toClient # <<>>
  /\ client' = [client EXCEPT ![Head(toClient).var] = Head(toClient).value]
  /\ toClient' = Tail(toClient)
  /\ UNCHANGED <<sets, asked, toServer, queueVars, variables, posted, mainVars, stage>>

-----------------------------------------------------------------------------
(* The main thread of the server *)

ServerReceivesInFront ==
  /\ todo = <<>>
  /\ toServer # <<>>
  /\ toServer' = Tail(toServer)
  /\ \/ /\ Head(toServer) = Steps
        /\ steps' = steps + 1
        /\ UNCHANGED items
     \/ /\ Head(toServer) # Steps
        /\ items' = <<Head(toServer)>> \o items
        /\ UNCHANGED steps
  /\ UNCHANGED <<clientVars, toClient, variables, posted, mainVars, stage>>

\* pushItem(): a setting is queued, steps are granted at once.
ServerReceives ==
  /\ todo = <<>>
  /\ toServer # <<>>
  /\ toServer' = Tail(toServer)
  /\ \/ /\ Head(toServer) = Steps
        /\ steps' = steps + 1
        /\ UNCHANGED items
     \/ /\ Head(toServer) # Steps
        /\ items' = Append(items, Head(toServer))
        /\ UNCHANGED steps
  /\ UNCHANGED <<clientVars, toClient, variables, posted, mainVars, stage>>

ComputeModulus(what) ==
  [n \in DOMAIN ReadsOf(what) |-> Read(ReadsOf(what)[n])] \o <<Store(what)>>

CallsWithBreak(var) ==
  CASE var \in {"sphereE", "spherePoissonRatio"} -> ComputeModulus("sphereSphereE")
    [] var \in {"wallE", "wallPoissonRatio"} -> ComputeModulus("sphereWallE")
    [] var = "integratorMethod" -> <<Choose>>
    [] OTHER -> <<>>

\* The switch of variableUpdated(): the first two cases fall through to the next.
Calls(var) ==
  CASE var \in {"sphereE", "spherePoissonRatio"} ->
         ComputeModulus("sphereSphereE") \o ComputeModulus("sphereWallE")
    [] var \in {"wallE", "wallPoissonRatio"} -> ComputeModulus("sphereWallE")
    [] var = "integratorMethod" -> <<Choose>>
    [] OTHER -> <<>>

VariableUpdated ==
  /\ todo = <<>>
  /\ posted # <<>>
  /\ todo' = Calls(Head(posted))
  /\ posted' = Tail(posted)
  /\ UNCHANGED <<clientVars, toServer, toClient, queueVars, variables, operands,
                 derived, butcherTableau, stage>>

Doing(op) == todo # <<>> /\ Head(todo).op = op

ReadVariable ==
  /\ Doing("read")
  /\ operands' = Append(operands, variables[Head(todo).var])
  /\ todo' = Tail(todo)
  /\ UNCHANGED <<clientVars, toServer, toClient, queueVars, variables, posted,
                 derived, butcherTableau, stage>>

StoreModulus ==
  /\ Doing("store")
  /\ derived' = [derived EXCEPT ![Head(todo).what] = operands]
  /\ operands' = <<>>
  /\ todo' = Tail(todo)
  /\ UNCHANGED <<clientVars, toServer, toClient, queueVars, variables, posted,
                 butcherTableau, stage>>

\* unsigned char integrMethod = integratorMethod;
MethodOf(value) == value % 256

\* updateIntegratorMethod() reads the method and looks for its branch.
ChooseMethod ==
  /\ Doing("choose")
  /\ LET method == MethodOf(variables["integratorMethod"])
     IN  todo' = (IF method \in Known THEN Install(method) ELSE <<Replace>>) \o Tail(todo)
  /\ UNCHANGED <<clientVars, toServer, toClient, queueVars, variables, posted,
                 operands, derived, butcherTableau, stage>>

\* Another method is replaced: set() sends it and calls variableUpdated() directly,
\* so the tableau is built twice.
ReplaceMethod ==
  /\ Doing("replace")
  /\ IF variables["integratorMethod"] = Fallback
     THEN /\ todo' = Install(Fallback) \o Tail(todo)
          /\ UNCHANGED <<variables, toClient>>
     ELSE /\ variables' = [variables EXCEPT !["integratorMethod"] = Fallback]
          /\ toClient' = Append(toClient, Set("integratorMethod", Fallback))
          /\ todo' = <<Choose>> \o Install(Fallback) \o Tail(todo)
  /\ UNCHANGED <<clientVars, toServer, queueVars, posted, operands, derived,
                 butcherTableau, stage>>

\* The assignment of the tableau copies it number by number.
InstallHalf ==
  /\ Doing("install")
  /\ butcherTableau' = [butcherTableau EXCEPT ![Head(todo).half] = Head(todo).method]
  /\ todo' = Tail(todo)
  /\ UNCHANGED <<clientVars, toServer, toClient, queueVars, variables, posted,
                 operands, derived, stage>>

MainNext ==
  \/ ServerReceives
  \/ VariableUpdated
  \/ ReadVariable \/ StoreModulus
  \/ ChooseMethod \/ ReplaceMethod \/ InstallHalf

-----------------------------------------------------------------------------
(* The worker *)

\* updateVariable: receiveVariable() signals only a value that changes.
HandleUpdateVariable ==
  /\ stage = None
  /\ items # <<>>
  /\ items' = Tail(items)
  /\ LET item == Head(items)
     IN  /\ variables' = [variables EXCEPT ![item.var] = item.value]
         /\ posted' = IF variables[item.var] = item.value
                      THEN posted ELSE Append(posted, item.var)
  /\ UNCHANGED <<clientVars, toServer, toClient, steps, mainVars, stage>>

\* A step is calculated when no item is queued.
BeginCalculation ==
  /\ stage = None
  /\ items = <<>>
  /\ steps > 0
  /\ steps' = steps - 1
  /\ stage' = butcherTableau[1]
  /\ UNCHANGED <<clientVars, toServer, toClient, items, variables, posted, mainVars>>

EndCalculation ==
  /\ stage # None
  /\ stage' = None
  /\ UNCHANGED <<clientVars, toServer, toClient, queueVars, variables, posted, mainVars>>

WorkerNext == HandleUpdateVariable \/ BeginCalculation \/ EndCalculation

ValuesNext ==
  \/ \E setting \in Settings : ClientSets(setting[1], setting[2])
  \/ ClientAsksForStep
  \/ ClientReceives
  \/ MainNext
  \/ WorkerNext

ValuesSpec == ValuesInit /\ [][ValuesNext]_valuesVars

\* Both threads run, and so does the client's event loop.
FairValuesSpec ==
  /\ ValuesSpec
  /\ WF_valuesVars(MainNext) /\ WF_valuesVars(WorkerNext) /\ WF_valuesVars(ClientReceives)

-----------------------------------------------------------------------------
\* Once every signal is handled, what a step calculates with belongs to the
\* variables as they are, although each was read without a lock, at its own time,
\* and the signals carry no values: the last writer's signal repairs what an
\* earlier call has read too early (variableUpdated, updateSphereSphereE,
\* updateSphereWallE, updateIntegratorMethod).
DerivedFollows ==
  posted = <<>> /\ todo = <<>> =>
    /\ \A what \in {"sphereSphereE", "sphereWallE"} : derived[what] = Now(what)
    /\ \A half \in 1 .. 2 :
         butcherTableau[half] = MethodOf(variables["integratorMethod"])

\* The orders of the tableaux, worked out once.
TableauIsOfOrder ==
  [method \in Methods |->
     \A p \in Primes : IsOfOrder(Built(method, p), OrderOf(method), p)]

\* A step that begins when every signal is handled integrates with a tableau of the
\* order that the name of the variable's method promises, whatever method a client
\* asks for and whether it exists: the tableau is complete, is the one that is named,
\* and fulfils the order conditions (updateIntegratorMethod, Integrators.hpp).
OrdersAsNamed ==
  posted = <<>> /\ todo = <<>> =>
    \E method \in Methods :
      /\ butcherTableau = <<method, method>>
      /\ TableauIsOfOrder[method]
      /\ OrderOf(method) = OrderOf(MethodOf(variables["integratorMethod"]))

\* Settings arrive in order: when none is under way, the server has what the client
\* has, but for the method, which the server may have replaced (set() and
\* receiveVariable() of SimulatedSystem, pushItem(), popItem()).
SettingsAgree ==
  toServer = <<>> /\ items = <<>> =>
    \A var \in Variables \ {"integratorMethod"} : variables[var] = client[var]

\* "Runge-Kutta method used for integrating the system." (Actions.hpp): when every
\* signal is handled, the variable, and with it every client's copy, names the
\* tableau that is used.
VariableNamesTableau ==
  posted = <<>> /\ todo = <<>> => butcherTableau[1] = variables["integratorMethod"]

\* What the client has set last is what steps calculate with in the end
\* (ServerTester sets a method, asks for steps and judges the method by the result):
\* the moduli always, and the method too, both halves of the tableau, as long as the
\* client asks only for methods with a branch of their own; for these the main
\* thread writes no method, so that the worker stays its only writer.
SettingsArrive ==
  /\ <>[](/\ \A var \in Variables \ {"integratorMethod"} : variables[var] = client[var]
          /\ \A what \in {"sphereSphereE", "sphereWallE"} : derived[what] = Now(what))
  /\ [](client["integratorMethod"] \in Known) =>
       <>[](/\ variables["integratorMethod"] = client["integratorMethod"]
            /\ \A half \in 1 .. 2 : butcherTableau[half] = client["integratorMethod"])

\* "Variables which are synchronized between client and server." (Actions.hpp): in
\* the end the two have the same method, also if the server has replaced one.
MethodIsSynchronized ==
  <>[](variables["integratorMethod"] = client["integratorMethod"])

\* "Integrate one step using specified Runge Kutta method." (SphereCalculator.hpp)
OneMethodPerStep == stage # None => butcherTableau[2] = stage
=============================================================================
