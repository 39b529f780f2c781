----------------------------- MODULE MCCurveMath -----------------------------
(* The laws of the curve over every argument up to past the cut-off, with   *)
(* a fixed point of a thousand.                                             *)
EXTENDS CurveLaws, TLC

MCExpNegInt == (0 :> 1000) @@ (1 :> 367) @@ (2 :> 135) @@ (3 :> 49) @@ (4 :> 18)

=============================================================================
