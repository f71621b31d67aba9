--------------------------- MODULE MCSigningKeys ---------------------------
(* Two overlapping commands, either edition. *)
EXTENDS SigningKeys, TLC

Symmetry == Permutations(Commands)
=============================================================================
