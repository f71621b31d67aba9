------------------------ MODULE MCWalletInstances ------------------------
EXTENDS WalletInstances, TLC

CONSTANTS w1, w2, q1, q2, q3, n1, n2

(* The requests and the nonces are interchangeable; the instances are not, *)
(* as the target of a request that has not started is one of them.         *)
Symmetry == Permutations({q1, q2, q3}) \cup Permutations({n1, n2})
==========================================================================
