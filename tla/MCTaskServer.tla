----------------------------- MODULE MCTaskServer -----------------------------
(* One TaskServer, started and closed once, with a handful of tasks.        *)
EXTENDS TaskServer

MCSelf == 1
MCThreads == {MCSelf}
===============================================================================
