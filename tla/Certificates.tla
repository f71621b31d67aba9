---------------------------- MODULE Certificates ----------------------------
(***************************************************************************)
(* Chains of X.509 certificates, the leaf first, and their validation      *)
(* (apps/io-wallet-user-func/src/certificates.ts).                         *)
(*                                                                         *)
(* Of a certificate a model keeps who signed it: the next one of the       *)
(* chain, a trusted root key, or neither.                                  *)
(***************************************************************************)
EXTENDS Naturals, Sequences, Functions

CONSTANTS
  Serials,     \* serial numbers of certificates
  Containing   \* <<s, t>>: the text of s has that of t in it

ASSUME SerialsAssumption ==
  /\ Containing \subseteq Serials \X Serials
  /\ \A s \in Serials : <<s, s>> \in Containing

Accepted == "accepted"

(* What a sequence of checks <<holds, reason>> comes to: the reason of the *)
(* first that does not hold.                                               *)
FirstFailure(checks) ==
  LET failed == {i \in DOMAIN checks : ~checks[i][1]}
  IN IF failed = {} THEN Accepted
     ELSE checks[CHOOSE i \in failed : \A j \in failed : i <= j][2]

GetRootPublicKey(chain) == chain[Len(chain)].signer = "trusted"

IsLeafOrRoot(chain, i) == i \in {1, Len(chain)}

\* Mutant: the root alone is excused.
DatesValidUnlessRoot(chain, skipIntermediate, skipLeafAndRoot) ==
  \A i \in DOMAIN chain :
    \/ IF i = Len(chain) THEN skipLeafAndRoot ELSE skipIntermediate
    \/ chain[i].dates = "valid"

DatesValid(chain, skipIntermediate, skipLeafAndRoot) ==
  \A i \in DOMAIN chain :
    \/ IF IsLeafOrRoot(chain, i) THEN skipLeafAndRoot ELSE skipIntermediate
    \/ chain[i].dates = "valid"

ChainValid(chain) ==
  \A i \in 1..Len(chain) - 1 : chain[i].signer = "next"

ValidateIssuance(chain, skipIntermediate, skipLeafAndRoot) ==
  FirstFailure(<<
    <<GetRootPublicKey(chain), "root certificate not found">>,
    <<DatesValid(chain, skipIntermediate, skipLeafAndRoot), "expired">>,
    <<ChainValid(chain), "chain is invalid">> >>)

(* A revoked serial number is looked for anywhere in that of a certificate.*)
ValidateRevocation(chain, crl) ==
  \A i \in DOMAIN chain : \A s \in crl : <<chain[i].serial, s>> \notin Containing
=============================================================================
