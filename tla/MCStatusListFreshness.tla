----------------------- MODULE MCStatusListFreshness -----------------------
(* StatusListFreshness with a tick of four hours.                          *)
EXTENDS StatusListFreshness
=============================================================================
