--------------------------- MODULE StatusListBits ---------------------------
(***************************************************************************)
(* What the pages of the status lists promise to the rest of the system:   *)
(* the bit of a wallet instance is set only after the instance was         *)
(* revoked, and a bit that is set stays set, whatever runs, fails or is    *)
(* delivered twice in between.                                             *)
(***************************************************************************)
CONSTANT Bindings   \* <<status list, index>> of the wallet instances

VARIABLES
  revokedBindings,  \* bindings of the wallet instances revoked so far
  setBits           \* bits that are 1 in the pages

Init == revokedBindings = {} /\ setBits = {}

Revoke ==
  /\ revokedBindings \subseteq revokedBindings'
  /\ revokedBindings' \subseteq Bindings
  /\ UNCHANGED setBits

SetBits ==
  /\ setBits \subseteq setBits'
  /\ setBits' \subseteq revokedBindings
  /\ UNCHANGED revokedBindings

Next == Revoke \/ SetBits

Spec == Init /\ [][Next]_<<revokedBindings, setBits>>
=============================================================================
