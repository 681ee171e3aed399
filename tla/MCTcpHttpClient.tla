---------------------------- MODULE MCTcpHttpClient ----------------------------
(* Requests of which the first half goes to one host and the rest to another. *)
EXTENDS TcpHttpClient

TwoHosts == [r \in 1 .. MaxReq |-> IF 2 * r <= MaxReq THEN 1 ELSE 2]
===============================================================================
