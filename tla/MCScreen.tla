------------------------------ MODULE MCScreen ------------------------------
(* A screen of three rows of three cells, with positions of two bytes.     *)
EXTENDS Screen

MCColors == {"grey", "red"}
=============================================================================
