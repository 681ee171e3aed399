-------------------------------- MODULE Thread --------------------------------
(***************************************************************************)
(* doyou::io::Thread and the Semaphore it owns (Thread.hpp,                *)
(* Semaphore.hpp).  This module holds the fields of a set of Thread        *)
(* objects and the effect of every critical section of Start, Close, Exit  *)
(* and OnWork on them.  Who calls them, and what OnWork runs, is left to   *)
(* the modules that extend this one (ThreadLife, TaskServer, CellServer).  *)
(*                                                                         *)
(* _isRun is a plain bool that one thread writes under _mutex and the      *)
(* worker reads without it.  Every loop that reads it also makes an opaque *)
(* call (sleep, epoll_wait, select), so the build reads the memory again   *)
(* in each iteration: a read here returns the current value.               *)
(***************************************************************************)
EXTENDS Integers

CONSTANTS
  Threads,   \* the Thread objects
  Nobody     \* "no thread of control holds the lock"

VARIABLES
  isRun,     \* _isRun of each Thread
  holder,    \* who holds Thread::_mutex across a wait (only Close does)
  semWait,   \* _wait of the Thread's Semaphore
  semWakeup  \* _wakeup of the Thread's Semaphore

threadVars == <<isRun, holder, semWait, semWakeup>>

ThreadTypeOK(Holders) ==
  /\ isRun \in [Threads -> BOOLEAN]
  /\ holder \in [Threads -> Holders \cup {Nobody}]
  /\ semWait \in [Threads -> Int]
  /\ semWakeup \in [Threads -> Nat]

ThreadInit ==
  /\ isRun = [t \in Threads |-> FALSE]
  /\ holder = [t \in Threads |-> Nobody]
  /\ semWait = [t \in Threads |-> 0]
  /\ semWakeup = [t \in Threads |-> 0]

-------------------------------------------------------------------------------
(* Start and Exit take _mutex for a critical section that blocks on        *)
(* nothing, so each is one step that needs the lock to be free.            *)

CanLock(t) == holder[t] = Nobody

\* Start() of a Thread that is not running: the flag goes up, OnWork is spawned.
StartThread(t) ==
  /\ CanLock(t)
  /\ ~isRun[t]
  /\ isRun' = [isRun EXCEPT ![t] = TRUE]
  /\ UNCHANGED <<holder, semWait, semWakeup>>

\* Close() of a Thread that is not running returns at once.
CloseIdle(t) ==
  /\ CanLock(t)
  /\ ~isRun[t]
  /\ UNCHANGED threadVars

\* Defect: a Close() that gives up _mutex before it waits for the worker.
CloseStop_Unlocked(t, p) ==
  /\ CanLock(t)
  /\ isRun[t]
  /\ isRun' = [isRun EXCEPT ![t] = FALSE]
  /\ UNCHANGED <<holder, semWait, semWakeup>>

\* Close() of a running Thread lowers the flag and goes on, lock held, to the wait.
CloseStop(t, p) ==
  /\ CanLock(t)
  /\ isRun[t]
  /\ isRun' = [isRun EXCEPT ![t] = FALSE]
  /\ holder' = [holder EXCEPT ![t] = p]
  /\ UNCHANGED <<semWait, semWakeup>>

\* The critical section of Exit(), entered after an unlocked read of _isRun.
ExitLocked(t) ==
  /\ CanLock(t)
  /\ isRun' = [isRun EXCEPT ![t] = FALSE]
  /\ UNCHANGED <<holder, semWait, semWakeup>>

\* The last statement of OnWork, after the wakeup and without the lock.
EndRun(t) ==
  /\ isRun' = [isRun EXCEPT ![t] = FALSE]
  /\ UNCHANGED <<holder, semWait, semWakeup>>

-------------------------------------------------------------------------------
(* Semaphore::wait, called by Close only, and Semaphore::wakeup.           *)

\* Defect: wait() sleeps only when _wait falls below -1.
WaitPass_OffByOne(t) ==
  /\ semWait[t] >= 0
  /\ semWait' = [semWait EXCEPT ![t] = @ - 1]
  /\ holder' = [holder EXCEPT ![t] = Nobody]
  /\ UNCHANGED <<isRun, semWakeup>>

\* --_wait stays non-negative: wait() returns and Close releases _mutex.
WaitPass(t) ==
  /\ semWait[t] > 0
  /\ semWait' = [semWait EXCEPT ![t] = @ - 1]
  /\ holder' = [holder EXCEPT ![t] = Nobody]
  /\ UNCHANGED <<isRun, semWakeup>>

\* --_wait turns negative: the caller sleeps on the condition variable.
WaitBlock(t) ==
  /\ semWait[t] <= 0
  /\ semWait' = [semWait EXCEPT ![t] = @ - 1]
  /\ UNCHANGED <<isRun, holder, semWakeup>>

\* Defect: the sleeper does not test the predicate when it is woken spuriously.
WaitResume_Spurious(t) ==
  /\ semWakeup' = [semWakeup EXCEPT ![t] = @ - 1]
  /\ holder' = [holder EXCEPT ![t] = Nobody]
  /\ UNCHANGED <<isRun, semWait>>

\* The predicate _wakeup > 0 holds: the sleeper takes the wakeup and returns.
WaitResume(t) ==
  /\ semWakeup[t] > 0
  /\ semWakeup' = [semWakeup EXCEPT ![t] = @ - 1]
  /\ holder' = [holder EXCEPT ![t] = Nobody]
  /\ UNCHANGED <<isRun, semWait>>

\* Defect: a wakeup() that stores a wakeup only while somebody else still sleeps.
Wakeup_Strict(t) ==
  /\ semWait' = [semWait EXCEPT ![t] = @ + 1]
  /\ semWakeup' = [semWakeup EXCEPT ![t] = IF semWait[t] + 1 < 0 THEN @ + 1 ELSE @]
  /\ UNCHANGED <<isRun, holder>>

\* Defect: a wakeup() that stores a wakeup whether or not a sleeper was counted.
Wakeup_Always(t) ==
  /\ semWait' = [semWait EXCEPT ![t] = @ + 1]
  /\ semWakeup' = [semWakeup EXCEPT ![t] = @ + 1]
  /\ UNCHANGED <<isRun, holder>>

\* wakeup(): ++_wait, and a stored wakeup if a sleeper was counted.
Wakeup(t) ==
  /\ semWait' = [semWait EXCEPT ![t] = @ + 1]
  /\ semWakeup' = [semWakeup EXCEPT ![t] = IF semWait[t] + 1 <= 0 THEN @ + 1 ELSE @]
  /\ UNCHANGED <<isRun, holder>>

\* What the two counters stand for: wakeups that no wait() has used yet.
Permits(t) == (IF semWait[t] > 0 THEN semWait[t] ELSE 0) + semWakeup[t]
===============================================================================
