--------------------------- MODULE MCDerivedValues ---------------------------
(***************************************************************************)
(* What a client sets, for TLC: two variables of the spheres and one of    *)
(* the walls, every method, one that does not exist and one whose number   *)
(* does not fit in a byte, and a variable that nothing is derived from.    *)
(***************************************************************************)
EXTENDS DerivedValues

MCSettings ==
  {"sphereE", "spherePoissonRatio", "wallE"} \X {0, 1} \union {"integratorMethod"} \X {0, 1, 2, 3, 4, 7, 259}
    \union {<<"maximumTheta", 1>>}
=============================================================================
