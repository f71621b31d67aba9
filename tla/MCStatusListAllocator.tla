----------------------- MODULE MCStatusListAllocator -----------------------
(* Small instances of StatusListAllocator for TLC.                         *)
EXTENDS StatusListAllocator, TLC

CONSTANTS h1, h2, r1, r2, r3, r4

(* Two hosts: h1 with the requests that share its cache and reservation,   *)
(* h2 with the rest, which compete for the same lists.                     *)
TwoHosts     == {h1, h2}
FourRequests == {r1, r2, r3, r4}
TwoAndTwo    == [r \in FourRequests |-> IF r \in {r1, r2} THEN h1 ELSE h2]
ThreeAndOne  == [r \in FourRequests |-> IF r = r4 THEN h2 ELSE h1]

(* The lists are interchangeable, and so are the requests of one host.     *)
SafetySymmetry ==
  Permutations({r1, r2}) \cup Permutations({r3, r4})
    \cup Permutations(StatusLists)
=============================================================================
