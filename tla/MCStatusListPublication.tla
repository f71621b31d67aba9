---------------------- MODULE MCStatusListPublication ----------------------
(* A small instance of StatusListPublication for TLC.                      *)
EXTENDS StatusListPublication
=============================================================================
