-------------------------------- MODULE MCLogin --------------------------------
(* Two users and two clients of a Link; one client has the number of a user. *)
EXTENDS Login, TLC

CONSTANTS a1, a2

MCAddr == {a1, a2}
MCUsers == {7, 8}
MCClients == {8, 9}

Symmetry == Permutations(MCAddr)
===============================================================================
