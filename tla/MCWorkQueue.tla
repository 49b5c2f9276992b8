---------------------------- MODULE MCWorkQueue -----------------------------
(***************************************************************************)
(* Small instances of WorkQueue for TLC.                                   *)
(***************************************************************************)
EXTENDS WorkQueue, TLC

CONSTANTS query, update, switch

\* One request of each kind the worker treats differently.
MCRequests == {query, update, switch}

MCUpdating == {update}
MCSwitch == {switch}

MCStepCounts == {1, 2}

AllCommands == {"start", "stop", "tearDown"}
StartAndStop == {"start", "stop"}
StartOnly == {"start"}
=============================================================================
