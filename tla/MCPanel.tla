------------------------------ MODULE MCPanel ------------------------------
(* Panel for TLC: two battery rows of the seven, and the brightness row. *)
EXTENDS Panel

MCRowOrder == <<"current", "voltage", "brightness">>
=============================================================================
