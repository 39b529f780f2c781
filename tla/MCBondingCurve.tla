--------------------------- MODULE MCBondingCurve ---------------------------
(* Model-checking instances of BondingCurve: the program's curve with SCALE *)
(* cut to 1000 and S and K in the program's proportion to it (1 : 2 : 42), *)
(* so one SOL unit here is a 500th of the curve's scale.  The exponential  *)
(* table is the program's, truncated to three digits.                      *)
EXTENDS BondingCurveHistory, TLC

CONSTANTS a1, a2

MCExpNegInt == (0 :> 1000) @@ (1 :> 367) @@ (2 :> 135) @@ (3 :> 49) @@ (4 :> 18)

=============================================================================
