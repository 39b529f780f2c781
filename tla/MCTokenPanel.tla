---------------------------- MODULE MCTokenPanel ----------------------------
(* Model-checking instances of TokenPanel: a unit of two base units, so     *)
(* that a sale of one crosses a boundary from two and none from three.      *)
EXTENDS TokenPanel, TLC

CONSTANTS w1, w2

MCSymmetry == Permutations(Wallets)

=============================================================================
