----------------------------- MODULE MCProvenance -----------------------------
(* Model-checking instances of Provenance: pages of two signatures and a    *)
(* window of one, so that a chain of four transactions has pages before     *)
(* and behind the cursor and trades outside the window.                     *)
EXTENDS Provenance
=============================================================================
