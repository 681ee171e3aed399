----------------------------- MODULE MCCellServer -----------------------------
(* Values for the constants of CellServer.                                  *)
EXTENDS CellServer, TLC

MCThreads == 1..(2 * NServers + 1)
SockSymmetry == Permutations(Socks)
===============================================================================
