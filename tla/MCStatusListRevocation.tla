----------------------- MODULE MCStatusListRevocation -----------------------
(* A small instance of StatusListRevocation for TLC.                       *)
EXTENDS StatusListRevocation, TLC

CONSTANTS w1, w2, w3, l1, r1, r2

(* Two instances of one range: w1 shares a page, and not the word, with w2 *)
(* of the other range; w3 is in the other page.                            *)
MCStatusOf == w1 :> <<l1, 4>> @@ w2 :> <<l1, 7>> @@ w3 :> <<l1, 2>>
MCLeaseOf == w1 :> r1 @@ w2 :> r2 @@ w3 :> r1
=============================================================================
