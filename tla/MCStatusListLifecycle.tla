----------------------- MODULE MCStatusListLifecycle -----------------------
(* Small instances of StatusListLifecycle for TLC.                         *)
EXTENDS StatusListLifecycle, TLC

OneTarget  == {1}
TwoTargets == {1, 2}

(* Lists, pages and runs are interchangeable.                              *)
SafetySymmetry ==
  Permutations(StatusLists) \cup Permutations(Managers) \cup Permutations(Pages)
=============================================================================
