--------------------------- MODULE MCSoulGenerator ---------------------------
(* Model-checking instances of SoulGenerator.  A unit is two base units, so *)
(* that balances inside and on a boundary both occur.                       *)
EXTENDS SoulGenerator, TLC

CONSTANTS w1, w2

MCBalances == {0, Quantum - 1, Quantum, 2 * Quantum, 3 * Quantum}
MCTokenAmounts == {Quantum - 1, Quantum}

MCSymmetry == Permutations(Wallets)

=============================================================================
