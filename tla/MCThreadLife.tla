----------------------------- MODULE MCThreadLife -----------------------------
(* One Thread object, two callers, as many restarts as MaxStarts allows.    *)
EXTENDS ThreadLife

MCThreads == {1}
===============================================================================
