------------------------------- MODULE MCGroups -------------------------------
(* Two clients of a Link, two groups; the first allocated id is one that a   *)
(* client may also choose.                                                   *)
EXTENDS Groups, TLC

CONSTANTS c1, c2, k1, k2

MCSocks == {c1, c2}
MCKeys == {k1, k2}
MCLinks == {5}
MCGroupIds == {1, 2}
MCNamed == {1}
MCIndexStart == 0

Symmetry == Permutations(MCSocks) \cup Permutations(MCKeys)
===============================================================================
