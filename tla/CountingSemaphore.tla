--------------------------- MODULE CountingSemaphore ---------------------------
(***************************************************************************)
(* What a semaphore promises: release adds a permit, acquire takes one and *)
(* happens only when there is one.  One semaphore per element of Sems.     *)
(***************************************************************************)
EXTENDS Integers

CONSTANT Sems

VARIABLE permits

Init == permits = [s \in Sems |-> 0]

Release(s) == permits' = [permits EXCEPT ![s] = @ + 1]

Acquire(s) ==
  /\ permits[s] > 0
  /\ permits' = [permits EXCEPT ![s] = @ - 1]

Next == \E s \in Sems : Release(s) \/ Acquire(s)

Spec == Init /\ [][Next]_permits
===============================================================================
