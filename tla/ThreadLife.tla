------------------------------ MODULE ThreadLife ------------------------------
(***************************************************************************)
(* Thread objects under any sequence of Start and Close calls by several   *)
(* callers, with the OnWork activations they spawn.  A Thread can be       *)
(* started again after a Close (TcpServer does so when InitSocket finds an *)
(* open socket), so several activations of one object may be alive.        *)
(***************************************************************************)
EXTENDS Thread, FiniteSets

CONSTANTS
  Callers,    \* threads that call Start and Close
  MaxStarts,  \* bound: activations spawned per Thread
  WorkExits   \* whether the work function may call Exit() on its own Thread

ASSUME LifeAssumption ==
  /\ MaxStarts \in Nat \ {0}
  /\ WorkExits \in BOOLEAN
  /\ Nobody \notin Callers

VARIABLES
  call,    \* call[p]: where caller p is inside Close
  target,  \* target[p]: the Thread p is closing
  starts,  \* starts[t]: activations of t spawned so far
  work     \* work[t][n]: where the n-th activation of t is inside OnWork

vars == <<isRun, holder, semWait, semWakeup, call, target, starts, work>>

Runs == 1..MaxStarts

CallPC == {"idle", "wait", "blocked"}
WorkPC == {"none", "loop", "exit", "destory", "wakeup", "store", "ended"}

\* Activations that have not signalled the semaphore yet.
Pending(t) == {n \in Runs : work[t][n] \in {"loop", "exit", "destory", "wakeup"}}

\* Activations whose work function and onDestory have returned.
Finished(t) == {n \in Runs : work[t][n] \in {"wakeup", "store", "ended"}}

TypeOK ==
  /\ ThreadTypeOK(Callers)
  /\ call \in [Callers -> CallPC]
  /\ target \in [Callers -> Threads]
  /\ starts \in [Threads -> 0..MaxStarts]
  /\ work \in [Threads -> [Runs -> WorkPC]]

Init ==
  /\ ThreadInit
  /\ call = [p \in Callers |-> "idle"]
  /\ target \in [Callers -> Threads]
  /\ starts = [t \in Threads |-> 0]
  /\ work = [t \in Threads |-> [n \in Runs |-> "none"]]

-------------------------------------------------------------------------------
(* The callers.  A Start of a running Thread and a Close of a stopped one  *)
(* change nothing, so they are stuttering steps and need no action.        *)

Start(p, t) ==
  /\ call[p] = "idle"
  /\ starts[t] < MaxStarts
  /\ StartThread(t)
  /\ starts' = [starts EXCEPT ![t] = @ + 1]
  /\ work' = [work EXCEPT ![t][starts[t] + 1] = "loop"]
  /\ UNCHANGED <<call, target>>

Close(p, t) ==
  /\ call[p] = "idle"
  /\ CloseStop(t, p)
  /\ call' = [call EXCEPT ![p] = "wait"]
  /\ target' = [target EXCEPT ![p] = t]
  /\ UNCHANGED <<starts, work>>

CloseBlock(p) ==
  /\ call[p] = "wait"
  /\ WaitBlock(target[p])
  /\ call' = [call EXCEPT ![p] = "blocked"]
  /\ UNCHANGED <<target, starts, work>>

\* Close returns: straight from wait(), or woken from the condition variable.
CloseReturn(p) ==
  /\ \/ call[p] = "wait" /\ WaitPass(target[p])
     \/ call[p] = "blocked" /\ WaitResume(target[p])
  /\ call' = [call EXCEPT ![p] = "idle"]
  /\ UNCHANGED <<target, starts, work>>

-------------------------------------------------------------------------------
(* OnWork.  onCreate is part of entering the loop; one more turn of the    *)
(* loop with _isRun still up changes nothing here.                         *)

GoTo(t, n, from, to) ==
  /\ work[t][n] = from
  /\ work' = [work EXCEPT ![t][n] = to]
  /\ UNCHANGED <<call, target, starts>>

LeaveLoop(t, n) == ~isRun[t] /\ GoTo(t, n, "loop", "destory") /\ UNCHANGED threadVars

\* The work function calls Exit(): the unlocked test of _isRun ...
CallExit(t, n) ==
  /\ WorkExits
  /\ GoTo(t, n, "loop", IF isRun[t] THEN "exit" ELSE "destory")
  /\ UNCHANGED threadVars

\* ... and the locked store, after which the function breaks out of its loop.
FinishExit(t, n) == GoTo(t, n, "exit", "destory") /\ ExitLocked(t)

Destory(t, n) == GoTo(t, n, "destory", "wakeup") /\ UNCHANGED threadVars

Signal(t, n) == GoTo(t, n, "wakeup", "store") /\ Wakeup(t)

LastStore(t, n) == GoTo(t, n, "store", "ended") /\ EndRun(t)

WorkStep(t, n) ==
  \/ LeaveLoop(t, n)
  \/ CallExit(t, n)
  \/ FinishExit(t, n)
  \/ Destory(t, n)
  \/ Signal(t, n)
  \/ LastStore(t, n)

CallStep(p) ==
  \/ \E t \in Threads : Start(p, t) \/ Close(p, t)
  \/ CloseBlock(p)
  \/ CloseReturn(p)

Next ==
  \/ \E p \in Callers : CallStep(p)
  \/ \E t \in Threads, n \in Runs : WorkStep(t, n)

(***************************************************************************)
(* The operating system runs every runnable thread: a Close in progress    *)
(* and an activation past its loop take their enabled steps.  Nothing      *)
(* forces a caller to call Start or Close, or a work function to Exit.     *)
(***************************************************************************)
Fairness ==
  /\ \A p \in Callers : WF_vars(CloseBlock(p) \/ CloseReturn(p))
  /\ \A t \in Threads, n \in Runs :
       WF_vars(LeaveLoop(t, n) \/ FinishExit(t, n) \/ Destory(t, n)
               \/ Signal(t, n) \/ LastStore(t, n))

Spec == Init /\ [][Next]_vars

FairSpec == Spec /\ Fairness

-------------------------------------------------------------------------------
(* Properties                                                              *)

\* A caller asleep in Close with no wakeup stored is always waiting for an
\* activation that has still to signal: no wakeup is lost between the two
\* counters of the Semaphore, whatever restarts happened before.
NoLostWakeup ==
  \A p \in Callers :
    call[p] = "blocked" /\ semWakeup[target[p]] = 0 => Pending(target[p]) # {}

\* Close holds Thread::_mutex exactly while it waits, so Start, Exit and other
\* Close calls on that Thread are shut out for the whole wait.
LockHeldWhileClosing ==
  \A p \in Callers, t \in Threads :
    holder[t] = p <=> call[p] \in {"wait", "blocked"} /\ target[p] = t

Asleep(t) == \E p \in Callers : call[p] = "blocked" /\ target[p] = t

\* The counters of the Semaphore are at rest whenever nobody sleeps: _wait is
\* not negative and no wakeup is left over for a later sleeper; a sleeper that
\* has no wakeup yet is the only one counted.  Only the lock held across the
\* wait keeps two Close calls from counting at once.
SemaphoreAtRest ==
  \A t \in Threads :
    IF Asleep(t) /\ semWakeup[t] = 0
    THEN semWait[t] = -1
    ELSE semWait[t] >= 0 /\ (semWakeup[t] > 0 => semWakeup[t] = 1 /\ Asleep(t))

\* The rest of what makes NoLostWakeup and SemaphoreAtRest inductive: a raised
\* _isRun has an activation in its loop behind it, and a Close about to wait has
\* one that will signal, or finds a wakeup already there.
RunIsBacked ==
  \A t \in Threads : isRun[t] => \E n \in Runs : work[t][n] \in {"loop", "exit"}

WaitIsBacked ==
  \A p \in Callers :
    call[p] = "wait" => Pending(target[p]) # {} \/ semWait[target[p]] > 0

LifeInv ==
  /\ TypeOK
  /\ LockHeldWhileClosing
  /\ RunIsBacked
  /\ SemaphoreAtRest
  /\ WaitIsBacked
  /\ NoLostWakeup

\* A Close that found the first activation running returns only when its work
\* function and onDestory have returned (callers delete what they use next).
CloseWaitsForFirstRun ==
  [][\A p \in Callers :
       call[p] # "idle" /\ call'[p] = "idle" /\ starts[target[p]] = 1
         => 1 \in Finished(target[p])]_vars

\* The two counters of Semaphore implement a counting semaphore: no wait()
\* returns without a wakeup() of its own, and none is spent twice.
Counting == INSTANCE CountingSemaphore WITH
  Sems <- Threads, permits <- [t \in Threads |-> Permits(t)]
SemaphoreCounts == Counting!Spec

\* Every Close returns, restarts or not, unless the worker it waits for is
\* itself inside Exit(): that is the only way to wait forever.
CloseReturns ==
  \A p \in Callers :
    call[p] # "idle" ~>
      (call[p] = "idle" \/ \E n \in Runs : work[target[p]][n] = "exit")

\* Thread.hpp:52-54 says of Exit that it is for use in the work function and
\* does not block waiting.  A worker inside Exit must not wait for a lock whose
\* holder is asleep until this very worker signals.
ExitDoesNotBlock ==
  \A p \in Callers, t \in Threads, n \in Runs :
    work[t][n] = "exit" /\ holder[t] = p /\ call[p] = "blocked"
      => semWakeup[t] > 0 \/ Pending(t) # {n}

===============================================================================
