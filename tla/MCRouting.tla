------------------------------- MODULE MCRouting -------------------------------
(* Two servers, and a Link whose descriptor at the Gate may change.          *)
EXTENDS Routing

MCLinks == {5, 6}
MCServers == {7, 8}
===============================================================================
