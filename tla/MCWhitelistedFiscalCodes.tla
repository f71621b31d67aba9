---------------------- MODULE MCWhitelistedFiscalCodes ----------------------
EXTENDS WhitelistedFiscalCodes

CONSTANTS a, b, c, d, q1, q2, q3

(* A partial last batch, a code that is listed twice, and an invalid line. *)
MCFiles == {<<a, b, c, d>>, <<a, b, a>>, <<a, b, c, Invalid, d>>}
=============================================================================
