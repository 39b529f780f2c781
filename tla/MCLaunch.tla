------------------------------ MODULE MCLaunch ------------------------------
(* The model-checking instance of Launch. *)
EXTENDS Launch

=============================================================================
