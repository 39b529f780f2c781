---------------------------- MODULE MCIndexer ----------------------------
(* Model-checking instances of Indexer. *)
EXTENDS Indexer

=============================================================================
