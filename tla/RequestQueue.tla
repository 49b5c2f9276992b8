---------------------------- MODULE RequestQueue ----------------------------
(***************************************************************************)
(* What the work queue of one simulation promises to its clients, without  *)
(* flags, locks, threads or frames (Server/include/WorkQueue.hpp):         *)
(*                                                                         *)
(*   - queued requests are served in the order they were submitted, each   *)
(*     exactly once, and none disappears except when the simulation is     *)
(*     torn down;                                                          *)
(*   - integration steps are an allowance that is consumed one by one, and *)
(*     only while no request is waiting to be served;                      *)
(*   - once stopped, no further step is begun until a new allowance is     *)
(*     given.                                                              *)
(*                                                                         *)
(* WorkQueue.tla implements this specification: see ImplementsRequestQueue.*)
(***************************************************************************)
EXTENDS Integers, Sequences

CONSTANTS
  Items,          \* what can be submitted: client requests and the stop item
  StepItem,       \* what the worker serves when it integrates one step
  NoItem,         \* the worker serves nothing
  StepCounts,     \* the step counts a client asks for
  StepModulus     \* the allowance is counted modulo this number

VARIABLES
  pending,        \* requests submitted and not yet served, oldest first
  allowance,      \* steps asked for and not yet begun
  unlimited,      \* a continuous simulation is running
  serving         \* what the worker is busy with

vars == <<pending, allowance, unlimited, serving>>

Init ==
  /\ pending = <<>>
  /\ allowance = 0
  /\ unlimited = FALSE
  /\ serving = NoItem

Submit(item) ==
  /\ pending' = Append(pending, item)
  /\ UNCHANGED <<allowance, unlimited, serving>>

Allow(n) ==
  /\ allowance' = (allowance + n) % StepModulus
  /\ UNCHANGED <<pending, unlimited, serving>>

RunUnlimited ==
  /\ allowance' = 0
  /\ unlimited' = TRUE
  /\ UNCHANGED <<pending, serving>>

Halt ==
  /\ allowance' = 0
  /\ unlimited' = FALSE
  /\ UNCHANGED <<pending, serving>>

\* Tear-down: the only step that drops requests.
Discard ==
  /\ pending' = <<>>
  /\ allowance' = 0
  /\ unlimited' = FALSE
  /\ UNCHANGED serving

Serve ==
  /\ serving = NoItem
  /\ pending # <<>>
  /\ serving' = Head(pending)
  /\ pending' = Tail(pending)
  /\ UNCHANGED <<allowance, unlimited>>

Step ==
  /\ serving = NoItem
  /\ pending = <<>>
  /\ \/ /\ allowance > 0
        /\ allowance' = allowance - 1
     \/ /\ allowance = 0
        /\ unlimited
        /\ UNCHANGED allowance
  /\ serving' = StepItem
  /\ UNCHANGED <<pending, unlimited>>

Finish ==
  /\ serving # NoItem
  /\ serving' = NoItem
  /\ UNCHANGED <<pending, allowance, unlimited>>

Next ==
  \/ \E item \in Items : Submit(item)
  \/ \E n \in StepCounts : Allow(n)
  \/ RunUnlimited
  \/ Halt
  \/ Discard
  \/ Serve
  \/ Step
  \/ Finish

Spec == Init /\ [][Next]_vars
=============================================================================
