---------------------------------- MODULE MCTips ----------------------------------
(* An instance of Tips for TLC.                                                   *)
EXTENDS Tips, TLC

CONSTANTS w1, w2, c1, c2

Windows == {w1, w2}
Claimers == {c1, c2}
Symmetry == Permutations(Windows) \cup Permutations(Claimers)
====================================================================================
