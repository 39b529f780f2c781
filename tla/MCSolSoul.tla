------------------------------ MODULE MCSolSoul ------------------------------
(* Model-checking instances of SolSoul, with the curve of MCBondingCurve    *)
(* and a unit of 2500 tokens: a first buy of 160 yields two units and a     *)
(* remainder, the next buys one and a remainder.                            *)
EXTENDS SolSoul, TLC

CONSTANTS w1, w2

MCExpNegInt == (0 :> 1000) @@ (1 :> 367) @@ (2 :> 135) @@ (3 :> 49) @@ (4 :> 18)

MCSymmetry == Permutations(Wallets)

MCAmounts == 0 .. CurveK

=============================================================================
