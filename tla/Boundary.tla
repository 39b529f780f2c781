------------------------------ MODULE Boundary ------------------------------
(***************************************************************************)
(* Whole-unit arithmetic of programs/shared/src/boundary.rs.  A balance of *)
(* base units holds some number of whole units (one unit is the claim      *)
(* quantum, 10_000 tokens on chain); a debit may cross boundaries between  *)
(* whole units downwards.  The quantum is a parameter: the programs never  *)
(* use its value, only the division by it.                                 *)
(***************************************************************************)
EXTENDS Integers

CONSTANT Quantum   \* WHOLE_TOKEN_BASE_UNITS

ASSUME QuantumAssumption == Quantum \in Nat \ {0}

WholeUnits(balance) == balance \div Quantum

(* The subtraction is checked in the code: a debit larger than the balance *)
(* is an error, which callers express as the guard Debits(pre, amount).    *)
Debits(pre, amount) == amount <= pre

PostUnits(pre, amount) == WholeUnits(pre - amount)

CrossedDown(pre, amount) == WholeUnits(pre) - PostUnits(pre, amount)

=============================================================================
