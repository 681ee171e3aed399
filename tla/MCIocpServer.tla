------------------------------ MODULE MCIocpServer ------------------------------
(* Two connections that may get the same handle; one message of each kind that *)
(* matters: one that fits beside others, and one that the Buffer cannot hold.  *)
EXTENDS IocpServer

CONSTANTS h1, h2

MCHandles == {h1, h2}
MCMsgLens == {1, 3}
===============================================================================
