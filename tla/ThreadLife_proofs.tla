--------------------------- MODULE ThreadLife_proofs ---------------------------
(***************************************************************************)
(* Proofs about ThreadLife, for any number of Threads, callers and         *)
(* restarts.                                                               *)
(***************************************************************************)
EXTENDS ThreadLife, TLAPS

\* One step of any thread keeps the types.
LEMMA TypeStep == TypeOK /\ [Next]_vars => TypeOK'
<1> USE LifeAssumption DEF TypeOK, ThreadTypeOK
<1>1. TypeOK /\ [Next]_vars => TypeOK'
  <2> SUFFICES ASSUME TypeOK, [Next]_vars PROVE TypeOK'
    OBVIOUS
  <2>1. ASSUME NEW p \in Callers, NEW t \in Threads, Start(p, t) PROVE TypeOK'
    BY <2>1 DEF Start, StartThread, Runs, WorkPC
  <2>2. ASSUME NEW p \in Callers, NEW t \in Threads, Close(p, t) PROVE TypeOK'
    BY <2>2 DEF Close, CloseStop, CallPC
  <2>3. ASSUME NEW p \in Callers, CloseBlock(p) PROVE TypeOK'
    BY <2>3 DEF CloseBlock, WaitBlock, CallPC
  <2>4. ASSUME NEW p \in Callers, CloseReturn(p) PROVE TypeOK'
    <3>1. target[p] \in Threads
      OBVIOUS
    <3>2. CASE WaitPass(target[p])
      BY <2>4, <3>1, <3>2 DEF CloseReturn, WaitPass, CallPC
    <3>3. CASE WaitResume(target[p])
      <4>1. semWakeup[target[p]] - 1 \in Nat
        BY <3>1, <3>3 DEF WaitResume
      <4> QED BY <2>4, <3>1, <3>3, <4>1 DEF CloseReturn, WaitResume, CallPC
    <3> QED BY <2>4, <3>2, <3>3 DEF CloseReturn
  <2>5. ASSUME NEW t \in Threads, NEW n \in Runs, WorkStep(t, n) PROVE TypeOK'
    <3> DEFINE RestTyped ==
          /\ call \in [Callers -> CallPC]
          /\ target \in [Callers -> Threads]
          /\ starts \in [Threads -> 0..MaxStarts]
          /\ work \in [Threads -> [Runs -> WorkPC]]
    <3>1. ASSUME NEW a \in WorkPC, NEW b \in WorkPC, GoTo(t, n, a, b) PROVE RestTyped'
      BY <3>1 DEF GoTo
    <3>2. RestTyped'
      <4>1. {"loop", "exit", "destory", "wakeup", "store", "ended"} \subseteq WorkPC
        BY DEF WorkPC
      <4> QED
        BY <2>5, <3>1, <4>1 DEF WorkStep, LeaveLoop, CallExit, FinishExit, Destory,
                                Signal, LastStore
    <3>3. ThreadTypeOK(Callers)'
      <4>1. CASE Signal(t, n)
        BY <4>1 DEF Signal, Wakeup
      <4>2. CASE UNCHANGED threadVars
        BY <4>2 DEF threadVars
      <4>3. CASE ExitLocked(t) \/ EndRun(t)
        BY <4>3 DEF ExitLocked, EndRun
      <4> QED
        BY <2>5, <4>1, <4>2, <4>3 DEF WorkStep, LeaveLoop, CallExit, FinishExit, Destory,
                                      LastStore
    <3> QED BY <3>2, <3>3
  <2>6. CASE UNCHANGED vars
    BY <2>6 DEF vars
  <2> QED BY <2>1, <2>2, <2>3, <2>4, <2>5, <2>6 DEF Next, CallStep
<1> QED BY <1>1

\* The variables always have their types; _wakeup is never negative.
THEOREM TypeCorrect == Spec => []TypeOK
<1>1. Init => TypeOK
  BY LifeAssumption DEF Init, ThreadInit, TypeOK, ThreadTypeOK, CallPC, WorkPC
<1> QED BY <1>1, TypeStep, PTL DEF Spec
-------------------------------------------------------------------------------
\* At most one caller is inside Close of a Thread at a time.
LEMMA OneCloser ==
  ASSUME LockHeldWhileClosing,
         NEW p \in Callers, NEW q \in Callers,
         call[p] \in {"wait", "blocked"}, call[q] \in {"wait", "blocked"},
         target[p] \in Threads, target[p] = target[q]
  PROVE  p = q
BY DEF LockHeldWhileClosing

\* The lock is taken and given up together with the wait.
LEMMA LockStep ==
  TypeOK /\ LockHeldWhileClosing /\ [Next]_vars => LockHeldWhileClosing'
<1> SUFFICES ASSUME TypeOK, LockHeldWhileClosing, [Next]_vars
             PROVE  LockHeldWhileClosing'
  OBVIOUS
<1> USE LifeAssumption DEF TypeOK, ThreadTypeOK, LockHeldWhileClosing
<1>1. ASSUME NEW p \in Callers, NEW t \in Threads, Close(p, t)
      PROVE  LockHeldWhileClosing'
  BY <1>1 DEF Close, CloseStop, CanLock
<1>2. ASSUME NEW p \in Callers, CloseBlock(p) PROVE LockHeldWhileClosing'
  BY <1>2 DEF CloseBlock, WaitBlock
<1>3. ASSUME NEW p \in Callers, CloseReturn(p) PROVE LockHeldWhileClosing'
  <2>1. /\ holder' = [holder EXCEPT ![target[p]] = Nobody]
        /\ call' = [call EXCEPT ![p] = "idle"] /\ target' = target
        /\ call[p] \in {"wait", "blocked"} /\ target[p] \in Threads
    BY <1>3 DEF CloseReturn, WaitPass, WaitResume
  <2>2. SUFFICES ASSUME NEW q \in Callers, NEW t \in Threads
                 PROVE  (holder[t] = q <=> call[q] \in {"wait", "blocked"} /\ target[q] = t)'
    OBVIOUS
  <2>3. CASE t = target[p]
    BY <2>1, <2>3
  <2>4. CASE t # target[p]
    BY <2>1, <2>4
  <2> QED BY <2>3, <2>4
<1>4. CASE UNCHANGED <<holder, call, target>>
  BY <1>4
<1>5. ASSUME NEW t \in Threads, NEW n \in Runs, WorkStep(t, n)
      PROVE  UNCHANGED <<holder, call, target>>
  BY <1>5 DEF WorkStep, LeaveLoop, CallExit, FinishExit, Destory, Signal, LastStore, GoTo,
              threadVars, ExitLocked, Wakeup, EndRun
<1>6. ASSUME NEW p \in Callers, NEW t \in Threads, Start(p, t)
      PROVE  UNCHANGED <<holder, call, target>>
  BY <1>6 DEF Start, StartThread
<1> QED BY <1>1, <1>2, <1>3, <1>4, <1>5, <1>6 DEF Next, CallStep, vars
-------------------------------------------------------------------------------
(* LifeInv is inductive.  Each lemma below is one kind of step, and proves *)
(* the four parts that TypeStep and LockStep leave open.                   *)

Rest == RunIsBacked /\ SemaphoreAtRest /\ WaitIsBacked /\ NoLostWakeup

\* A new activation in its loop only adds to what the Thread's callers wait for.
LEMMA StartKeeps ==
  ASSUME LifeInv, NEW p \in Callers, NEW t \in Threads, Start(p, t)
  PROVE  Rest'
<1> USE LifeAssumption DEF LifeInv, TypeOK, ThreadTypeOK
<1>1. /\ starts[t] + 1 \in Runs
      /\ UNCHANGED <<call, target, semWait, semWakeup>>
      /\ isRun' = [isRun EXCEPT ![t] = TRUE]
      /\ work' = [work EXCEPT ![t][starts[t] + 1] = "loop"]
  BY DEF Start, StartThread, Runs
<1>2. RunIsBacked'
  BY <1>1 DEF RunIsBacked
<1>3. \A u \in Threads : Pending(u) # {} => Pending(u)' # {}
  <2> TAKE u \in Threads
  <2>1. CASE u = t
    BY <1>1, <2>1 DEF Pending
  <2>2. CASE u # t
    BY <1>1, <2>2 DEF Pending
  <2> QED BY <2>1, <2>2
<1>4. SemaphoreAtRest'
  BY <1>1 DEF SemaphoreAtRest, Asleep
<1>5. WaitIsBacked' /\ NoLostWakeup'
  BY <1>1, <1>3 DEF WaitIsBacked, NoLostWakeup
<1> QED BY <1>2, <1>4, <1>5 DEF Rest

\* Whoever finds _isRun up has an activation to wait for.
LEMMA CloseKeeps ==
  ASSUME LifeInv, NEW p \in Callers, NEW t \in Threads, Close(p, t)
  PROVE  Rest'
<1> USE DEF LifeInv, TypeOK, ThreadTypeOK
<1>1. /\ isRun[t] /\ call[p] = "idle"
      /\ isRun' = [isRun EXCEPT ![t] = FALSE]
      /\ call' = [call EXCEPT ![p] = "wait"] /\ target' = [target EXCEPT ![p] = t]
      /\ UNCHANGED <<work, semWait, semWakeup>>
  BY DEF Close, CloseStop
<1>2. RunIsBacked'
  BY <1>1 DEF RunIsBacked
<1>3. \A u \in Threads : Asleep(u)' <=> Asleep(u)
  BY <1>1 DEF Asleep
<1>4. SemaphoreAtRest'
  BY <1>1, <1>3 DEF SemaphoreAtRest
<1>5. Pending(t) # {}
  BY <1>1 DEF RunIsBacked, Pending
<1>6. \A u \in Threads : Pending(u)' = Pending(u)
  BY <1>1 DEF Pending
<1>7. WaitIsBacked'
  <2> SUFFICES ASSUME NEW q \in Callers, (call[q] = "wait")'
               PROVE  (Pending(target[q]) # {} \/ semWait[target[q]] > 0)'
    BY DEF WaitIsBacked
  <2>1. CASE q = p
    BY <1>1, <1>5, <1>6, <2>1
  <2>2. CASE q # p
    BY <1>1, <1>6, <2>2 DEF WaitIsBacked
  <2> QED BY <2>1, <2>2
<1>8. NoLostWakeup'
  BY <1>1, <1>6 DEF NoLostWakeup
<1> QED BY <1>2, <1>4, <1>7, <1>8 DEF Rest

\* The caller that falls asleep is the only one, and _wait goes from 0 to -1.
LEMMA BlockKeeps ==
  ASSUME LifeInv, NEW p \in Callers, CloseBlock(p)
  PROVE  Rest'
<1> USE DEF LifeInv, TypeOK, ThreadTypeOK
<1> PICK t \in Threads : t = target[p]
  OBVIOUS
<1>1. /\ call[p] = "wait" /\ semWait[t] <= 0
      /\ call' = [call EXCEPT ![p] = "blocked"]
      /\ semWait' = [semWait EXCEPT ![t] = @ - 1]
      /\ UNCHANGED <<isRun, work, target, semWakeup>>
  BY DEF CloseBlock, WaitBlock
<1>2. ~Asleep(t)
  BY <1>1, OneCloser DEF Asleep
<1>3. semWait[t] = 0 /\ semWakeup[t] = 0 /\ Pending(t) # {}
  BY <1>1, <1>2 DEF SemaphoreAtRest, WaitIsBacked
<1>4. RunIsBacked'
  BY <1>1 DEF RunIsBacked
<1>5. \A u \in Threads : u # t => (Asleep(u)' <=> Asleep(u))
  BY <1>1 DEF Asleep
<1>6. SemaphoreAtRest'
  <2> SUFFICES ASSUME NEW u \in Threads
               PROVE  (IF Asleep(u) /\ semWakeup[u] = 0
                       THEN semWait[u] = -1
                       ELSE semWait[u] >= 0
                            /\ (semWakeup[u] > 0 => semWakeup[u] = 1 /\ Asleep(u)))'
    BY DEF SemaphoreAtRest
  <2>1. CASE u = t
    <3>1. Asleep(t)' /\ semWakeup'[t] = 0 /\ semWait'[t] = -1
      BY <1>1, <1>3 DEF Asleep
    <3> QED BY <2>1, <3>1
  <2>2. CASE u # t
    BY <1>1, <1>5, <2>2 DEF SemaphoreAtRest
  <2> QED BY <2>1, <2>2
<1>7. \A u \in Threads : Pending(u)' = Pending(u)
  BY <1>1 DEF Pending
<1>8. WaitIsBacked'
  BY <1>1, <1>3, <1>7 DEF WaitIsBacked
<1>9. NoLostWakeup'
  BY <1>1, <1>3, <1>7 DEF NoLostWakeup
<1> QED BY <1>4, <1>6, <1>8, <1>9 DEF Rest

\* The caller that returns was the only one there: it takes the permit it used.
LEMMA ReturnKeeps ==
  ASSUME LifeInv, NEW p \in Callers, CloseReturn(p)
  PROVE  Rest'
<1> USE DEF LifeInv, TypeOK, ThreadTypeOK
<1> PICK t \in Threads : t = target[p]
  OBVIOUS
<1>1. /\ call[p] \in {"wait", "blocked"}
      /\ call' = [call EXCEPT ![p] = "idle"]
      /\ UNCHANGED <<isRun, work, target>>
  BY DEF CloseReturn, WaitPass, WaitResume
<1>2. \A q \in Callers : q # p /\ target[q] = t => call[q] \notin {"wait", "blocked"}
  BY <1>1, OneCloser
<1>3. \A u \in Threads \ {t} : (Asleep(u)' <=> Asleep(u))
                                /\ semWait'[u] = semWait[u] /\ semWakeup'[u] = semWakeup[u]
  <2>1. \A u \in Threads \ {t} : semWait'[u] = semWait[u] /\ semWakeup'[u] = semWakeup[u]
    BY DEF CloseReturn, WaitPass, WaitResume
  <2>2. \A u \in Threads \ {t} : Asleep(u)' <=> Asleep(u)
    BY <1>1 DEF Asleep
  <2> QED BY <2>1, <2>2
<1>4. ~Asleep(t)'
  BY <1>1, <1>2 DEF Asleep
<1>5. semWait'[t] >= 0 /\ semWakeup'[t] = 0
  <2>1. CASE call[p] = "wait" /\ WaitPass(t)
    <3>1. ~Asleep(t)
      BY <1>2, <2>1 DEF Asleep
    <3> QED BY <2>1, <3>1 DEF WaitPass, SemaphoreAtRest
  <2>2. CASE call[p] = "blocked" /\ WaitResume(t)
    <3>1. semWakeup[t] = 1 /\ semWait[t] >= 0
      BY <2>2 DEF WaitResume, SemaphoreAtRest
    <3> QED BY <2>2, <3>1 DEF WaitResume
  <2> QED BY <2>1, <2>2 DEF CloseReturn
<1>6. RunIsBacked'
  BY <1>1 DEF RunIsBacked
<1>7. SemaphoreAtRest'
  <2> SUFFICES ASSUME NEW u \in Threads
               PROVE  (IF Asleep(u) /\ semWakeup[u] = 0
                       THEN semWait[u] = -1
                       ELSE semWait[u] >= 0
                            /\ (semWakeup[u] > 0 => semWakeup[u] = 1 /\ Asleep(u)))'
    BY DEF SemaphoreAtRest
  <2>1. CASE u = t
    BY <1>4, <1>5, <2>1
  <2>2. CASE u # t
    BY <1>3, <2>2 DEF SemaphoreAtRest
  <2> QED BY <2>1, <2>2
<1>8. \A u \in Threads : Pending(u)' = Pending(u)
  BY <1>1 DEF Pending
<1>9. \A q \in Callers : call'[q] \in {"wait", "blocked"} =>
        target[q] \in Threads \ {t} /\ call'[q] = call[q]
  BY <1>1, <1>2
<1>10. WaitIsBacked' /\ NoLostWakeup'
  BY <1>1, <1>3, <1>8, <1>9 DEF WaitIsBacked, NoLostWakeup
<1> QED BY <1>6, <1>7, <1>10 DEF Rest

\* A step of an activation up to the wakeup keeps it among those that will signal.
LEMMA WorkKeeps ==
  ASSUME LifeInv, NEW t \in Threads, NEW n \in Runs,
         WorkStep(t, n), ~Signal(t, n)
  PROVE  Rest'
<1> USE DEF LifeInv, TypeOK, ThreadTypeOK
<1>1. /\ UNCHANGED <<call, target, starts, semWait, semWakeup>>
      /\ \E from, to \in WorkPC :
           /\ work[t][n] = from /\ work' = [work EXCEPT ![t][n] = to]
           /\ to \in {"exit", "destory", "wakeup"} \/ from = "store"
           /\ to = "exit" => from = "loop"
           /\ to # "exit" => from \notin {"loop", "exit"} \/ ~isRun'[t]
      /\ isRun' = isRun \/ isRun' = [isRun EXCEPT ![t] = FALSE]
  BY DEF WorkStep, LeaveLoop, CallExit, FinishExit, Destory, Signal, LastStore, GoTo,
         threadVars, ExitLocked, EndRun, WorkPC
<1>2. \A u \in Threads : Pending(u) \subseteq Pending(u)'
  BY <1>1 DEF Pending
<1>3. RunIsBacked'
  <2> SUFFICES ASSUME NEW u \in Threads, isRun'[u]
               PROVE  \E k \in Runs : work'[u][k] \in {"loop", "exit"}
    BY DEF RunIsBacked
  <2>1. PICK k \in Runs : work[u][k] \in {"loop", "exit"}
    BY <1>1 DEF RunIsBacked
  <2>2. work'[u][k] \in {"loop", "exit"}
    BY <1>1, <2>1
  <2> QED BY <2>2
<1>4. SemaphoreAtRest'
  BY <1>1 DEF SemaphoreAtRest, Asleep
<1>5. WaitIsBacked' /\ NoLostWakeup'
  BY <1>1, <1>2 DEF WaitIsBacked, NoLostWakeup
<1> QED BY <1>3, <1>4, <1>5 DEF Rest

\* The wakeup leaves a permit: stored as _wakeup if there is a sleeper without
\* one, in _wait otherwise.
LEMMA SignalKeeps ==
  ASSUME LifeInv, NEW t \in Threads, NEW n \in Runs, Signal(t, n)
  PROVE  Rest'
<1> USE DEF LifeInv, TypeOK, ThreadTypeOK
<1>1. /\ work[t][n] = "wakeup" /\ work' = [work EXCEPT ![t][n] = "store"]
      /\ semWait' = [semWait EXCEPT ![t] = @ + 1]
      /\ semWakeup' = [semWakeup EXCEPT ![t] = IF semWait[t] + 1 <= 0 THEN @ + 1 ELSE @]
      /\ UNCHANGED <<isRun, call, target>>
  BY DEF Signal, Wakeup, GoTo
<1>2. \A u \in Threads : Asleep(u)' <=> Asleep(u)
  BY <1>1 DEF Asleep
<1>3. IF Asleep(t) /\ semWakeup[t] = 0
      THEN semWait'[t] = 0 /\ semWakeup'[t] = 1
      ELSE semWait'[t] > 0 /\ semWakeup'[t] = semWakeup[t]
  <2>1. semWait[t] \in Int /\ semWakeup[t] \in Nat
    OBVIOUS
  <2>2. CASE Asleep(t) /\ semWakeup[t] = 0
    <3>1. semWait[t] = -1
      BY <2>2 DEF SemaphoreAtRest
    <3>2. semWait'[t] = 0
      BY <1>1, <3>1
    <3>3. semWakeup'[t] = IF semWait[t] + 1 <= 0 THEN semWakeup[t] + 1 ELSE semWakeup[t]
      BY <1>1
    <3>4. semWait[t] + 1 <= 0 /\ semWakeup[t] + 1 = 1
      BY <2>2, <3>1
    <3>5. semWakeup'[t] = 1
      BY <3>3, <3>4
    <3> QED BY <2>2, <3>2, <3>5
  <2>3. CASE ~(Asleep(t) /\ semWakeup[t] = 0)
    <3>1. semWait[t] >= 0
      BY <2>3 DEF SemaphoreAtRest
    <3> QED BY <1>1, <2>1, <2>3, <3>1
  <2> QED BY <2>2, <2>3
<1>4. \A u \in Threads \ {t} :
        /\ semWait'[u] = semWait[u] /\ semWakeup'[u] = semWakeup[u]
        /\ Pending(u)' = Pending(u)
  BY <1>1 DEF Pending
<1>5. RunIsBacked'
  BY <1>1 DEF RunIsBacked
<1>6. SemaphoreAtRest'
  <2> SUFFICES ASSUME NEW u \in Threads
               PROVE  (IF Asleep(u) /\ semWakeup[u] = 0
                       THEN semWait[u] = -1
                       ELSE semWait[u] >= 0
                            /\ (semWakeup[u] > 0 => semWakeup[u] = 1 /\ Asleep(u)))'
    BY DEF SemaphoreAtRest
  <2>1. CASE u = t
    <3>1. semWakeup'[t] > 0 => semWakeup'[t] = 1 /\ Asleep(t)
      BY <1>3 DEF SemaphoreAtRest
    <3>2. semWait'[t] >= 0 /\ (Asleep(t) => semWakeup'[t] # 0)
      BY <1>1, <1>3 DEF Asleep
    <3> QED BY <1>2, <2>1, <3>1, <3>2
  <2>2. CASE u # t
    BY <1>2, <1>4, <2>2 DEF SemaphoreAtRest
  <2> QED BY <2>1, <2>2
<1>7. \A p \in Callers : call[p] = "wait" => ~Asleep(target[p])
  BY OneCloser DEF Asleep
<1>8. WaitIsBacked'
  <2> SUFFICES ASSUME NEW p \in Callers, (call[p] = "wait")'
               PROVE  (Pending(target[p]) # {} \/ semWait[target[p]] > 0)'
    BY DEF WaitIsBacked
  <2>1. CASE target[p] = t
    BY <1>1, <1>3, <1>7, <2>1
  <2>2. CASE target[p] # t
    BY <1>1, <1>4, <2>2 DEF WaitIsBacked
  <2> QED BY <2>1, <2>2
<1>9. NoLostWakeup'
  <2> SUFFICES ASSUME NEW p \in Callers,
                      (call[p] = "blocked" /\ semWakeup[target[p]] = 0)'
               PROVE  (Pending(target[p]) # {})'
    BY DEF NoLostWakeup
  <2>1. CASE target[p] = t
    <3>1. Asleep(t)
      BY <1>1, <2>1 DEF Asleep
    <3> QED BY <1>1, <1>3, <2>1, <3>1
  <2>2. CASE target[p] # t
    BY <1>1, <1>4, <2>2 DEF NoLostWakeup
  <2> QED BY <2>1, <2>2
<1> QED BY <1>5, <1>6, <1>8, <1>9 DEF Rest

LEMMA LifeStep == LifeInv /\ [Next]_vars => LifeInv'
<1> SUFFICES ASSUME LifeInv, [Next]_vars PROVE LifeInv'
  OBVIOUS
<1>1. TypeOK' /\ LockHeldWhileClosing'
  BY TypeStep, LockStep DEF LifeInv
<1>2. Rest'
  <2>1. CASE UNCHANGED vars
    BY <2>1 DEF LifeInv, Rest, RunIsBacked, SemaphoreAtRest, WaitIsBacked, NoLostWakeup,
                Asleep, Pending, vars
  <2> QED BY <2>1, StartKeeps, CloseKeeps, BlockKeeps, ReturnKeeps, WorkKeeps, SignalKeeps
          DEF Next, CallStep
<1> QED BY <1>1, <1>2 DEF LifeInv, Rest

\* The lock, the flag, the two counters and the activations always fit together.
THEOREM LifeInvariant == Spec => []LifeInv
<1>1. Init => LifeInv
  <2> SUFFICES ASSUME Init PROVE LifeInv
    OBVIOUS
  <2>1. TypeOK
    BY LifeAssumption DEF Init, ThreadInit, TypeOK, ThreadTypeOK, CallPC, WorkPC
  <2>2. LockHeldWhileClosing
    BY LifeAssumption DEF Init, ThreadInit, LockHeldWhileClosing
  <2>3. RunIsBacked /\ WaitIsBacked /\ NoLostWakeup
    BY DEF Init, ThreadInit, RunIsBacked, WaitIsBacked, NoLostWakeup
  <2>4. SemaphoreAtRest
    <3>1. \A t \in Threads : ~Asleep(t)
      BY DEF Init, Asleep
    <3>2. ASSUME NEW t \in Threads PROVE semWait[t] >= 0 /\ ~(semWakeup[t] > 0)
      <4>1. semWait[t] = 0 /\ semWakeup[t] = 0
        BY DEF Init, ThreadInit
      <4> QED BY <4>1
    <3> QED BY <3>1, <3>2, Zenon DEF SemaphoreAtRest
  <2> QED BY <2>1, <2>2, <2>3, <2>4 DEF LifeInv
<1> QED BY <1>1, LifeStep, PTL DEF Spec

\* No wakeup of the Semaphore is lost: a sleeping Close without a stored wakeup
\* has an activation that has still to signal.
THEOREM WakeupsKept == Spec => []NoLostWakeup
<1>1. LifeInv => NoLostWakeup
  BY DEF LifeInv
<1> QED BY <1>1, LifeInvariant, PTL

\* _wait never goes below -1 and no wakeup is left over for a later sleeper.
THEOREM CountersAtRest == Spec => []SemaphoreAtRest
<1>1. LifeInv => SemaphoreAtRest
  BY DEF LifeInv
<1> QED BY <1>1, LifeInvariant, PTL
-------------------------------------------------------------------------------
(* The two counters of each Semaphore implement CountingSemaphore.         *)

\* What every step does to the permits of a Thread: nothing, one more, or one
\* that was there less.
PermitStep(t) ==
  \/ /\ \E d \in {1, -1} :
          /\ Permits(t)' = Permits(t) + d
          /\ d = -1 => Permits(t) > 0
     /\ \A u \in Threads \ {t} : Permits(u)' = Permits(u)
  \/ \A u \in Threads : Permits(u)' = Permits(u)

LEMMA StepOfPermits ==
  ASSUME TypeOK, [Next]_vars, Threads # {}
  PROVE  \E t \in Threads : PermitStep(t)
<1> USE DEF TypeOK, ThreadTypeOK
<1>1. ASSUME UNCHANGED <<semWait, semWakeup>> PROVE \E t \in Threads : PermitStep(t)
  BY <1>1 DEF PermitStep, Permits
<1>2. ASSUME NEW t \in Threads, WaitPass(t) \/ WaitBlock(t) \/ WaitResume(t) \/ Wakeup(t)
      PROVE  PermitStep(t)
  <2>1. \A u \in Threads \ {t} : Permits(u)' = Permits(u)
    BY <1>2 DEF WaitPass, WaitBlock, WaitResume, Wakeup, Permits
  <2>2. CASE WaitPass(t)
    <3>1. Permits(t)' = Permits(t) + (-1) /\ Permits(t) > 0
      BY <2>2 DEF WaitPass, Permits
    <3> QED BY <2>1, <3>1 DEF PermitStep
  <2>3. CASE WaitResume(t)
    <3>1. Permits(t)' = Permits(t) + (-1) /\ Permits(t) > 0
      BY <2>3 DEF WaitResume, Permits
    <3> QED BY <2>1, <3>1 DEF PermitStep
  <2>4. CASE Wakeup(t)
    <3>1. semWait[t] \in Int /\ semWakeup[t] \in Nat
      OBVIOUS
    <3>2. /\ semWait'[t] = semWait[t] + 1
          /\ semWakeup'[t] = IF semWait[t] + 1 <= 0 THEN semWakeup[t] + 1 ELSE semWakeup[t]
      BY <2>4 DEF Wakeup
    <3>3. Permits(t)' = Permits(t) + 1
      <4>1. CASE semWait[t] + 1 <= 0
        BY <3>1, <3>2, <4>1 DEF Permits
      <4>2. CASE ~(semWait[t] + 1 <= 0)
        <5>1. semWait[t] >= 0 /\ semWait'[t] > 0 /\ semWakeup'[t] = semWakeup[t]
          BY <3>1, <3>2, <4>2
        <5> QED BY <3>1, <3>2, <5>1 DEF Permits
      <4> QED BY <4>1, <4>2
    <3> QED BY <2>1, <3>3 DEF PermitStep
  <2>5. CASE WaitBlock(t)
    <3>1. Permits(t)' = Permits(t)
      BY <2>5 DEF WaitBlock, Permits
    <3> QED BY <2>1, <3>1 DEF PermitStep
  <2> QED BY <1>2, <2>2, <2>3, <2>4, <2>5
<1>3. ASSUME NEW p \in Callers, CallStep(p) PROVE \E t \in Threads : PermitStep(t)
  BY <1>1, <1>2, <1>3 DEF CallStep, Start, StartThread, Close, CloseStop, CloseBlock,
                          CloseReturn
<1>4. ASSUME NEW t \in Threads, NEW n \in Runs, WorkStep(t, n)
      PROVE  \E u \in Threads : PermitStep(u)
  BY <1>1, <1>2, <1>4 DEF WorkStep, LeaveLoop, CallExit, FinishExit, Destory, Signal,
                          LastStore, ExitLocked, EndRun, threadVars
<1> QED BY <1>1, <1>3, <1>4 DEF Next, vars

\* wait() takes a wakeup() of its own, and none is spent twice.
THEOREM SemaphoreImplemented == Spec => SemaphoreCounts
<1>1. Init => Counting!Init
  BY DEF Init, ThreadInit, Counting!Init, Permits
<1>2. TypeOK /\ [Next]_vars => [Counting!Next]_([t \in Threads |-> Permits(t)])
  <2> SUFFICES ASSUME TypeOK, [Next]_vars
               PROVE  [Counting!Next]_([t \in Threads |-> Permits(t)])
    OBVIOUS
  <2>1. CASE \A u \in Threads : Permits(u)' = Permits(u)
    BY <2>1
  <2>2. CASE Threads # {} /\ ~(\A u \in Threads : Permits(u)' = Permits(u))
    <3>1. PICK t \in Threads, d \in {1, -1} :
            /\ Permits(t)' = Permits(t) + d
            /\ d = -1 => Permits(t) > 0
            /\ \A u \in Threads \ {t} : Permits(u)' = Permits(u)
      BY <2>2, StepOfPermits DEF PermitStep
    <3>2. CASE d = 1
      BY <3>1, <3>2 DEF Counting!Next, Counting!Release
    <3>3. CASE d = -1
      <4>1. Permits(t)' = Permits(t) - 1
        BY <3>1, <3>3 DEF Permits, TypeOK, ThreadTypeOK
      <4> QED BY <3>1, <3>3, <4>1 DEF Counting!Next, Counting!Acquire
    <3> QED BY <3>2, <3>3
  <2> QED BY <2>1, <2>2
<1> QED BY <1>1, <1>2, TypeCorrect, PTL DEF Spec, SemaphoreCounts, Counting!Spec
-------------------------------------------------------------------------------
(* Close waits for the work: with a single activation so far, a permit     *)
(* exists only when that activation has signalled.                         *)

FirstRunInv ==
  \A t \in Threads :
    /\ \A n \in Runs : n > starts[t] => work[t][n] = "none"
    /\ starts[t] <= 1 /\ Permits(t) > 0 => work[t][1] \in {"store", "ended"}

LEMMA FirstRunStep == TypeOK /\ FirstRunInv /\ [Next]_vars => FirstRunInv'
<1> SUFFICES ASSUME TypeOK, FirstRunInv, [Next]_vars PROVE FirstRunInv'
  OBVIOUS
<1> USE LifeAssumption DEF TypeOK, ThreadTypeOK
<1>0. 1 \in Runs
  BY DEF Runs
<1>1. ASSUME NEW p \in Callers, NEW t \in Threads, Start(p, t) PROVE FirstRunInv'
  <2>1. /\ starts' = [starts EXCEPT ![t] = @ + 1]
        /\ work' = [work EXCEPT ![t][starts[t] + 1] = "loop"]
        /\ starts[t] + 1 \in Runs
        /\ UNCHANGED <<semWait, semWakeup>>
    BY <1>1 DEF Start, StartThread, Runs
  <2>2. \A u \in Threads : Permits(u)' = Permits(u)
    BY <2>1 DEF Permits
  <2>3. starts[t] = 0 => ~(Permits(t) > 0)
    BY <1>0 DEF FirstRunInv
  <2> QED BY <2>1, <2>2, <2>3 DEF FirstRunInv, Runs
<1>2. ASSUME NEW t \in Threads, NEW n \in Runs, WorkStep(t, n) PROVE FirstRunInv'
  <2>1. /\ UNCHANGED starts
        /\ work[t][n] # "none"
        /\ \E to \in WorkPC : work' = [work EXCEPT ![t][n] = to]
                               /\ (work[t][n] \in {"store", "ended"} \/ Signal(t, n)
                                     => to \in {"store", "ended"})
    BY <1>2 DEF WorkStep, LeaveLoop, CallExit, FinishExit, Destory, Signal, LastStore, GoTo,
                WorkPC
  <2>2. \A u \in Threads : u # t \/ ~Signal(t, n) => Permits(u)' = Permits(u)
    BY <1>2 DEF WorkStep, LeaveLoop, CallExit, FinishExit, Destory, Signal, LastStore,
                ExitLocked, EndRun, Wakeup, threadVars, Permits
  <2>3. starts[t] <= 1 => n = 1
    BY <2>1 DEF FirstRunInv, Runs
  <2> SUFFICES ASSUME NEW u \in Threads
               PROVE  /\ \A k \in Runs : k > starts'[u] => work'[u][k] = "none"
                      /\ starts'[u] <= 1 /\ Permits(u)' > 0 => work'[u][1] \in {"store", "ended"}
    BY DEF FirstRunInv
  <2>4. ASSUME NEW k \in Runs, k > starts'[u] PROVE work'[u][k] = "none"
    BY <2>1, <2>4 DEF FirstRunInv
  <2>5. ASSUME starts'[u] <= 1, Permits(u)' > 0 PROVE work'[u][1] \in {"store", "ended"}
    <3>1. CASE u # t
      BY <1>0, <2>1, <2>2, <2>5, <3>1 DEF FirstRunInv
    <3>2. CASE u = t /\ Signal(t, n)
      BY <1>0, <2>1, <2>3, <2>5, <3>2
    <3>3. CASE u = t /\ ~Signal(t, n)
      BY <1>0, <2>1, <2>2, <2>3, <2>5, <3>3 DEF FirstRunInv
    <3> QED BY <3>1, <3>2, <3>3
  <2> QED BY <2>4, <2>5
<1>3. ASSUME NEW t \in Threads, UNCHANGED <<work, starts>>,
             \/ WaitPass(t) \/ WaitBlock(t) \/ WaitResume(t)
             \/ UNCHANGED <<semWait, semWakeup>>
      PROVE  FirstRunInv'
  <2>1. \A u \in Threads : Permits(u)' > 0 => Permits(u) > 0
    <3> TAKE u \in Threads
    <3>1. semWait[u] \in Int /\ semWakeup[u] \in Nat
      OBVIOUS
    <3>2. semWait'[u] <= semWait[u] /\ semWakeup'[u] <= semWakeup[u]
          /\ semWait'[u] \in Int /\ semWakeup'[u] \in Int
      BY <1>3, <3>1 DEF WaitPass, WaitBlock, WaitResume
    <3>3. semWakeup'[u] >= 0
      BY <1>3, <3>1 DEF WaitPass, WaitBlock, WaitResume
    <3> QED BY <3>1, <3>2, <3>3 DEF Permits
  <2> QED BY <1>3, <2>1 DEF FirstRunInv
<1>4. ASSUME NEW p \in Callers, \A t \in Threads : ~Start(p, t), CallStep(p)
      PROVE  FirstRunInv'
  BY <1>3, <1>4 DEF CallStep, Close, CloseStop, CloseBlock, CloseReturn
<1>5. CASE UNCHANGED vars
  BY <1>5 DEF vars, FirstRunInv, Permits
<1> QED BY <1>1, <1>2, <1>4, <1>5 DEF Next

\* A Close of a Thread that was started once returns after its work function and
\* its onDestory.
THEOREM CloseWaits == Spec => CloseWaitsForFirstRun
<1>1. Init => FirstRunInv
  <2> SUFFICES ASSUME Init, NEW t \in Threads
               PROVE  /\ \A n \in Runs : n > starts[t] => work[t][n] = "none"
                      /\ starts[t] <= 1 /\ Permits(t) > 0 => work[t][1] \in {"store", "ended"}
    BY DEF FirstRunInv
  <2>1. semWait[t] = 0 /\ semWakeup[t] = 0 /\ \A n \in Runs : work[t][n] = "none"
    BY DEF Init, ThreadInit
  <2>2. ~(Permits(t) > 0)
    BY <2>1 DEF Permits
  <2> QED BY <2>1, <2>2
<1>2. TypeOK /\ FirstRunInv /\ [Next]_vars =>
        [\A p \in Callers :
           call[p] # "idle" /\ call'[p] = "idle" /\ starts[target[p]] = 1
             => 1 \in Finished(target[p])]_vars
  <2> SUFFICES ASSUME TypeOK, FirstRunInv, Next, NEW p \in Callers,
                      call[p] # "idle", call'[p] = "idle", starts[target[p]] = 1
               PROVE  1 \in Finished(target[p])
    OBVIOUS
  <2>1. CloseReturn(p)
    BY DEF TypeOK, Next, CallStep, Start, Close, CloseBlock, CloseReturn, WorkStep, LeaveLoop,
           CallExit, FinishExit, Destory, Signal, LastStore, GoTo
  <2>2. Permits(target[p]) > 0
    BY <2>1 DEF CloseReturn, WaitPass, WaitResume, Permits, TypeOK, ThreadTypeOK
  <2> QED BY <2>2, LifeAssumption DEF FirstRunInv, TypeOK, Finished, Runs
<1> QED BY <1>1, <1>2, FirstRunStep, TypeCorrect, PTL DEF Spec, CloseWaitsForFirstRun
===============================================================================
