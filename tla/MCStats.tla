------------------------------ MODULE MCStats ------------------------------
(* An instance of Stats: two launches and room for one row, the first of a *)
(* curve that has reached the cap, the second of a theme the dashboard     *)
(* does not know; requests of a page that overlap with each other and with *)
(* the prewarming load; a server process that ends at any time.            *)
EXTENDS Stats

MCThemes == <<"custom", "fractal">>

=============================================================================
