--------------------------- MODULE TaskServer_proofs ---------------------------
(***************************************************************************)
(* Proofs about TaskServer, for any set of tasks: they run in the order    *)
(* they were added, and Close is a barrier for those added before it.      *)
(***************************************************************************)
EXTENDS TaskServer, TLAPS

(***************************************************************************)
(* The inductive invariant.  A task that was added is executed, or in      *)
(* tasks behind the first Ran entries, or in tasksBuf behind the first     *)
(* Drained entries, in this order.                                         *)
(***************************************************************************)
Ran == IF pc = "run" THEN pos - 1 ELSE 0

Leaving == {"drain", "wakeup", "store", "ended"}

Drained == IF pc \in Leaving THEN pos - 1 ELSE 0

LengthsFit ==
  /\ Ran <= Len(tasks) /\ Drained <= Len(tasksBuf)
  /\ Len(added) = Len(executed) + (Len(tasks) - Ran) + (Len(tasksBuf) - Drained)
  /\ pc \notin {"check", "run"} => Len(tasks) = 0

ElementsFit ==
  /\ \A i \in 1..Len(executed) : executed[i] = added[i]
  /\ \A i \in 1..Len(tasks) : i > Ran => tasks[i] = added[Len(executed) - Ran + i]
  /\ \A i \in 1..Len(tasksBuf) :
       i > Drained =>
         tasksBuf[i] = added[Len(executed) + Len(tasks) - Ran - Drained + i]

\* Where the owner and the worker can be at the same time.
ControlFits ==
  /\ isRun[Self] <=> call = "up"
  /\ call = "new" => pc = "none"
  /\ pc \in Leaving => call \in {"wait", "blocked", "closed"}
  /\ semWait[Self] > 0 \/ semWakeup[Self] > 0 => pc \in {"store", "ended"}
  /\ call = "closed" => pc \in {"store", "ended"}

PromiseFits ==
  /\ promised <= Len(added)
  /\ pc \in {"wakeup", "store", "ended"} => Len(executed) >= promised

TaskInv == TypeOK /\ LengthsFit /\ ElementsFit /\ ControlFits /\ PromiseFits
-------------------------------------------------------------------------------
\* Threads holds the one Thread of the TaskServer.
LEMMA TypeStep == TypeOK /\ [Next]_vars => TypeOK'
<1> SUFFICES ASSUME TypeOK, [Next]_vars PROVE TypeOK'
  OBVIOUS
<1> USE TaskAssumption DEF TypeOK, ThreadTypeOK
<1>1. ASSUME NEW k \in Tasks, AddTask(k) PROVE TypeOK'
  BY <1>1 DEF AddTask, threadVars
<1>2. CASE Start
  BY <1>2 DEF Start, StartThread, queueVars, WorkPC, CallPC
<1>3. CASE Close
  BY <1>3 DEF Close, CloseStop, queueVars, CallPC
<1>4. CASE CloseBlock
  BY <1>4 DEF CloseBlock, WaitBlock, queueVars, CallPC
<1>5. CASE CloseReturn
  <2>1. CASE WaitPass(Self)
    BY <1>5, <2>1 DEF CloseReturn, WaitPass, queueVars, CallPC
  <2>2. CASE WaitResume(Self)
    <3>1. semWakeup[Self] - 1 \in Nat
      BY <2>2 DEF WaitResume
    <3> QED BY <1>5, <2>2, <3>1 DEF CloseReturn, WaitResume, queueVars, CallPC
  <2> QED BY <1>5, <2>1, <2>2 DEF CloseReturn
<1>6. CASE LeaveLoop \/ Turn \/ Check \/ DrainEnd
  BY <1>6 DEF LeaveLoop, Turn, Check, DrainEnd, threadVars, queueVars, WorkPC
<1>13. CASE ClearTasks
  BY <1>13 DEF ClearTasks, threadVars, WorkPC
<1>12. CASE Fetch
  <2>1. tasks' \in Seq(Tasks) /\ tasksBuf' \in Seq(Tasks)
    BY <1>12 DEF Fetch
  <2> QED BY <1>12, <2>1 DEF Fetch, threadVars, WorkPC
<1>7. CASE RunTask
  <2>1. tasks[pos] \in Tasks
    BY <1>7 DEF RunTask
  <2> QED BY <1>7, <2>1 DEF RunTask, threadVars
<1>8. CASE DrainTask
  <2>1. tasksBuf[pos] \in Tasks
    BY <1>8 DEF DrainTask
  <2> QED BY <1>8, <2>1 DEF DrainTask, threadVars
<1>9. CASE Signal
  BY <1>9 DEF Signal, Wakeup, queueVars, WorkPC
<1>10. CASE LastStore
  BY <1>10 DEF LastStore, EndRun, queueVars, WorkPC
<1>11. CASE UNCHANGED vars
  BY <1>11 DEF vars, queueVars
<1> QED BY <1>1, <1>2, <1>3, <1>4, <1>5, <1>6, <1>7, <1>8, <1>9, <1>10, <1>11, <1>12, <1>13
    DEF Next, Worker

\* The variables always have their types; _wakeup is never negative.
THEOREM TypeCorrect == Spec => []TypeOK
<1>1. Init => TypeOK
  BY TaskAssumption DEF Init, ThreadInit, TypeOK, ThreadTypeOK, CallPC, WorkPC
<1> QED BY <1>1, TypeStep, PTL DEF Spec
-------------------------------------------------------------------------------
(* TaskInv is inductive.  The steps are taken in four groups: those that   *)
(* leave both lists alone, those that move tasks between them, those that  *)
(* run a task, and AddTask.                                                *)

\* A step that only moves the control, and moves neither position.
LEMMA QueueKeeps ==
  ASSUME LengthsFit, ElementsFit,
         UNCHANGED <<tasksBuf, tasks, added, executed, Ran, Drained>>,
         pc' \in {"check", "run"} \/ Len(tasks) = 0
  PROVE  LengthsFit' /\ ElementsFit'
BY DEF LengthsFit, ElementsFit

\* The owner changes only the flag, the counters and its own place; it returns
\* from the wait only on a wakeup that the worker gave after the last drain.
LEMMA OwnerKeeps ==
  ASSUME TaskInv, Start \/ Close \/ CloseBlock \/ CloseReturn
  PROVE  LengthsFit' /\ ElementsFit' /\ ControlFits' /\ PromiseFits'
<1> USE TaskAssumption DEF TaskInv, TypeOK, ThreadTypeOK
<1>1. CASE Start
  <2>1. pc = "none" /\ pc' = "loop" /\ call = "new" /\ call' = "up"
        /\ isRun'[Self] /\ UNCHANGED <<queueVars, semWait, semWakeup, promised>>
    BY <1>1 DEF Start, StartThread, ControlFits
  <2>2. LengthsFit' /\ ElementsFit'
    BY <2>1, QueueKeeps DEF Ran, Drained, Leaving, LengthsFit, queueVars
  <2>3. ControlFits' /\ PromiseFits'
    BY <2>1 DEF ControlFits, PromiseFits, Leaving, queueVars
  <2> QED BY <2>2, <2>3
<1>2. CASE Close
  <2>1. pc' = pc /\ call = "up" /\ call' = "wait" /\ ~isRun'[Self]
        /\ promised' = Len(added) /\ UNCHANGED <<queueVars, semWait, semWakeup>>
    BY <1>2 DEF Close, CloseStop
  <2>2. LengthsFit' /\ ElementsFit'
    BY <2>1, QueueKeeps DEF Ran, Drained, LengthsFit, queueVars
  <2>3. pc \notin Leaving
    BY <2>1 DEF ControlFits
  <2>4. ControlFits' /\ PromiseFits'
    BY <2>1, <2>3 DEF ControlFits, PromiseFits, Leaving, queueVars
  <2> QED BY <2>2, <2>4
<1>3. CASE CloseBlock \/ CloseReturn
  <2>1. /\ pc' = pc /\ isRun' = isRun /\ call \in {"wait", "blocked"}
        /\ UNCHANGED <<queueVars, promised>>
        /\ semWait'[Self] <= semWait[Self] /\ semWakeup'[Self] <= semWakeup[Self]
        /\ semWait'[Self] \in Int /\ semWakeup'[Self] \in Int
        /\ call' = "blocked" \/ (call' = "closed" /\ (semWait[Self] > 0 \/ semWakeup[Self] > 0))
    BY <1>3 DEF CloseBlock, CloseReturn, WaitBlock, WaitPass, WaitResume
  <2>2. LengthsFit' /\ ElementsFit'
    BY <2>1, QueueKeeps DEF Ran, Drained, LengthsFit, queueVars
  <2>3. ControlFits' /\ PromiseFits'
    BY <2>1 DEF ControlFits, PromiseFits, Leaving, queueVars
  <2> QED BY <2>2, <2>3
<1> QED BY <1>1, <1>2, <1>3

\* The worker's own control: only DrainEnd owes the tasks that Close waits for.
LEMMA WorkerKeeps ==
  ASSUME TaskInv,
         LeaveLoop \/ Turn \/ Check \/ DrainEnd \/ Signal \/ LastStore
  PROVE  LengthsFit' /\ ElementsFit' /\ ControlFits' /\ PromiseFits'
<1> USE TaskAssumption DEF TaskInv, TypeOK, ThreadTypeOK
<1>1. UNCHANGED <<tasksBuf, tasks, added, executed, call, promised>>
  BY DEF LeaveLoop, Turn, Check, DrainEnd, Signal, LastStore, queueVars
<1>2. LengthsFit' /\ ElementsFit'
  <2>1. CASE LeaveLoop
    <3>1. UNCHANGED <<Ran, Drained>>
      BY <2>1 DEF LeaveLoop, Ran, Drained, Leaving
    <3> QED BY <1>1, <2>1, <3>1, QueueKeeps DEF LeaveLoop, LengthsFit
  <2>2. CASE Turn
    <3>1. UNCHANGED <<Ran, Drained>>
      BY <2>2 DEF Turn, Ran, Drained, Leaving
    <3> QED BY <1>1, <2>2, <3>1, QueueKeeps DEF Turn, LengthsFit
  <2>3. CASE Check
    <3>1. UNCHANGED <<Ran, Drained>>
      BY <2>3 DEF Check, Ran, Drained, Leaving
    <3>2. pc' = "run" \/ Len(tasks) = 0
      BY <2>3 DEF Check
    <3> QED BY <1>1, <3>1, <3>2, QueueKeeps
  <2>4. CASE DrainEnd \/ Signal \/ LastStore
    <3>1. pc \in Leaving /\ pc' \in Leaving /\ pos' = pos
      BY <2>4 DEF DrainEnd, Signal, LastStore, Leaving, queueVars
    <3>2. UNCHANGED <<Ran, Drained>>
      BY <3>1 DEF Ran, Drained, Leaving
    <3>3. Len(tasks) = 0
      BY <3>1 DEF LengthsFit, Leaving
    <3> QED BY <1>1, <3>2, <3>3, QueueKeeps
  <2> QED BY <2>1, <2>2, <2>3, <2>4
<1>3. PromiseFits'
  <2>1. CASE DrainEnd
    <3>1. pc = "drain" /\ Len(tasks) = 0 /\ Ran = 0
          /\ Drained = pos - 1 /\ pos - 1 >= Len(tasksBuf)
      BY <2>1 DEF DrainEnd, LengthsFit, Ran, Drained, Leaving
    <3>2. Len(executed) = Len(added)
      BY <3>1 DEF LengthsFit
    <3> QED BY <1>1, <3>2 DEF PromiseFits
  <2>2. CASE ~DrainEnd
    BY <1>1, <2>2 DEF LeaveLoop, Turn, Check, Signal, LastStore, PromiseFits
  <2> QED BY <2>1, <2>2
<1>4. ControlFits'
  <2>1. CASE LeaveLoop
    BY <2>1 DEF LeaveLoop, ControlFits, Leaving, threadVars, CallPC
  <2>2. CASE Turn \/ Check
    BY <2>2 DEF Turn, Check, ControlFits, Leaving, threadVars
  <2>3. CASE DrainEnd
    BY <2>3 DEF DrainEnd, ControlFits, Leaving, threadVars
  <2>4. CASE Signal
    BY <2>4 DEF Signal, Wakeup, ControlFits, Leaving
  <2>5. CASE LastStore
    BY <2>5 DEF LastStore, EndRun, ControlFits, Leaving
  <2> QED BY <2>1, <2>2, <2>3, <2>4, <2>5
<1> QED BY <1>2, <1>3, <1>4

\* The lists are emptied only where nothing of them is still to run.
LEMMA MoveKeeps ==
  ASSUME TaskInv, Fetch \/ ClearTasks
  PROVE  LengthsFit' /\ ElementsFit' /\ ControlFits' /\ PromiseFits'
<1> USE TaskAssumption DEF TaskInv, TypeOK, ThreadTypeOK
<1>1. ControlFits' /\ PromiseFits'
  BY DEF Fetch, ClearTasks, ControlFits, PromiseFits, Leaving, threadVars
<1>2. CASE Fetch
  <2>1. /\ Ran = 0 /\ Drained = 0 /\ Ran' = 0 /\ Drained' = 0 /\ tasks = <<>>
        /\ UNCHANGED <<added, executed>>
    BY <1>2 DEF Fetch, Ran, Drained, Leaving, LengthsFit
  <2>2. tasks' = tasksBuf /\ tasksBuf' = <<>>
    BY <1>2, <2>1 DEF Fetch
  <2>3. LengthsFit'
    BY <1>2, <2>1, <2>2 DEF Fetch, LengthsFit
  <2>4. ElementsFit'
    BY <2>1, <2>2 DEF ElementsFit
  <2> QED BY <1>1, <2>3, <2>4
<1>3. CASE ClearTasks
  <2>1. /\ Ran = Len(tasks) /\ Drained = 0 /\ Ran' = 0 /\ Drained' = 0 /\ tasks' = <<>>
        /\ UNCHANGED <<tasksBuf, added, executed>>
    BY <1>3 DEF ClearTasks, Ran, Drained, Leaving, LengthsFit
  <2>2. LengthsFit'
    BY <2>1 DEF LengthsFit
  <2>3. ElementsFit'
    BY <2>1 DEF ElementsFit, LengthsFit
  <2> QED BY <1>1, <2>2, <2>3
<1> QED BY <1>2, <1>3

\* The task that is run is the one that follows the last one in added.
LEMMA RunKeeps ==
  ASSUME TaskInv, RunTask \/ DrainTask
  PROVE  LengthsFit' /\ ElementsFit' /\ ControlFits' /\ PromiseFits'
<1> USE TaskAssumption DEF TaskInv, TypeOK, ThreadTypeOK
<1>1. ControlFits' /\ PromiseFits'
  BY DEF RunTask, DrainTask, ControlFits, PromiseFits, Leaving, threadVars
<1>2. UNCHANGED <<tasksBuf, tasks, added, pc>> /\ pos' = pos + 1
  BY DEF RunTask, DrainTask
<1>3. CASE RunTask
  <2>1. /\ Ran = pos - 1 /\ Ran' = pos /\ Drained = 0 /\ Drained' = 0
        /\ pos \in 1..Len(tasks) /\ tasks[pos] \in Tasks
    BY <1>2, <1>3 DEF RunTask, Ran, Drained, Leaving
  <2>2. tasks[pos] = added[Len(executed) + 1]
    <3>1. tasks[pos] = added[Len(executed) - Ran + pos]
      BY <2>1 DEF ElementsFit
    <3> QED BY <2>1, <3>1
  <2>3. /\ executed' \in Seq(Tasks) /\ Len(executed') = Len(executed) + 1
        /\ executed'[Len(executed) + 1] = tasks[pos]
        /\ \A i \in 1..Len(executed) : executed'[i] = executed[i]
    BY <1>3, <2>1 DEF RunTask
  <2>4. LengthsFit'
    BY <1>2, <1>3, <2>1, <2>3 DEF RunTask, LengthsFit
  <2>5. ElementsFit'
    <3>1. ASSUME NEW i \in 1..Len(executed') PROVE executed'[i] = added[i]
      <4>1. CASE i = Len(executed) + 1
        BY <2>2, <2>3, <4>1
      <4>2. CASE i \in 1..Len(executed)
        BY <2>3, <4>2 DEF ElementsFit
      <4> QED BY <2>3, <4>1, <4>2
    <3>2. ASSUME NEW i \in 1..Len(tasks), i > pos
          PROVE  tasks[i] = added[Len(executed') - pos + i]
      <4>1. tasks[i] = added[Len(executed) - (pos - 1) + i]
        BY <2>1, <3>2 DEF ElementsFit
      <4>2. Len(executed) - (pos - 1) + i = Len(executed') - pos + i
        BY <2>3
      <4> QED BY <4>1, <4>2
    <3>3. ASSUME NEW i \in 1..Len(tasksBuf)
          PROVE  tasksBuf[i] = added[Len(executed') + Len(tasks) - pos - 0 + i]
      <4>1. tasksBuf[i] = added[Len(executed) + Len(tasks) - (pos - 1) - 0 + i]
        BY <2>1, <3>3 DEF ElementsFit
      <4>2. Len(executed) + Len(tasks) - (pos - 1) - 0 + i
              = Len(executed') + Len(tasks) - pos - 0 + i
        BY <2>3
      <4> QED BY <4>1, <4>2
    <3> QED BY <1>2, <2>1, <3>1, <3>2, <3>3 DEF ElementsFit
  <2> QED BY <1>1, <2>4, <2>5
<1>4. CASE DrainTask
  <2>1. /\ Ran = 0 /\ Ran' = 0 /\ Drained = pos - 1 /\ Drained' = pos
        /\ pos \in 1..Len(tasksBuf) /\ tasksBuf[pos] \in Tasks /\ Len(tasks) = 0
    BY <1>2, <1>4 DEF DrainTask, Ran, Drained, Leaving, LengthsFit
  <2>2. tasksBuf[pos] = added[Len(executed) + 1]
    <3>1. tasksBuf[pos] = added[Len(executed) + Len(tasks) - Ran - Drained + pos]
      <4>1. pos > Drained
        BY <2>1
      <4> QED BY <2>1, <4>1 DEF ElementsFit
    <3>2. Len(executed) + Len(tasks) - Ran - Drained + pos = Len(executed) + 1
      BY <2>1
    <3> QED BY <3>1, <3>2
  <2>3. /\ executed' \in Seq(Tasks) /\ Len(executed') = Len(executed) + 1
        /\ executed'[Len(executed) + 1] = tasksBuf[pos]
        /\ \A i \in 1..Len(executed) : executed'[i] = executed[i]
    BY <1>4, <2>1 DEF DrainTask
  <2>4. LengthsFit'
    BY <1>2, <1>4, <2>1, <2>3 DEF DrainTask, LengthsFit
  <2>5. ElementsFit'
    <3>1. ASSUME NEW i \in 1..Len(executed') PROVE executed'[i] = added[i]
      <4>1. CASE i = Len(executed) + 1
        BY <2>2, <2>3, <4>1
      <4>2. CASE i \in 1..Len(executed)
        BY <2>3, <4>2 DEF ElementsFit
      <4> QED BY <2>3, <4>1, <4>2
    <3>2. ASSUME NEW i \in 1..Len(tasksBuf), i > pos
          PROVE  tasksBuf[i] = added[Len(executed') + Len(tasks) - 0 - pos + i]
      <4>1. tasksBuf[i] = added[Len(executed) + Len(tasks) - 0 - (pos - 1) + i]
        BY <2>1, <3>2 DEF ElementsFit
      <4>2. Len(executed) + Len(tasks) - 0 - (pos - 1) + i
              = Len(executed') + Len(tasks) - 0 - pos + i
        BY <2>3
      <4> QED BY <4>1, <4>2
    <3>3. UNCHANGED tasks /\ 1..Len(tasks) = {}
      BY <1>2, <2>1
    <3>4. \A i \in 1..Len(tasksBuf) :
            i > Drained' => tasksBuf[i] = added[Len(executed') + Len(tasks) - Ran' - Drained' + i]
      BY <2>1, <3>2
    <3> QED BY <1>2, <3>1, <3>3, <3>4 DEF ElementsFit
  <2> QED BY <1>1, <2>4, <2>5
<1> QED BY <1>3, <1>4

\* A new task goes to the end of both tasksBuf and added.
LEMMA AddKeeps ==
  ASSUME TaskInv, NEW k \in Tasks, AddTask(k)
  PROVE  LengthsFit' /\ ElementsFit' /\ ControlFits' /\ PromiseFits'
<1> USE DEF TaskInv, TypeOK, ThreadTypeOK
<1>1. /\ UNCHANGED <<threadVars, tasks, pos, pc, call, executed, promised>>
      /\ Len(added') = Len(added) + 1 /\ added'[Len(added) + 1] = k
      /\ \A i \in 1..Len(added) : added'[i] = added[i]
      /\ Len(tasksBuf') = Len(tasksBuf) + 1 /\ tasksBuf'[Len(tasksBuf) + 1] = k
      /\ \A i \in 1..Len(tasksBuf) : tasksBuf'[i] = tasksBuf[i]
  BY DEF AddTask
<1>2. Ran' = Ran /\ Drained' = Drained /\ Ran \in Nat /\ Drained \in Nat
  BY <1>1 DEF Ran, Drained
<1>3. LengthsFit'
  BY <1>1, <1>2 DEF LengthsFit
<1>4. ElementsFit'
  <2>1. \A i \in 1..Len(executed) : executed[i] = added'[i]
    BY <1>1, <1>2 DEF ElementsFit, LengthsFit
  <2>2. ASSUME NEW i \in 1..Len(tasks), i > Ran
        PROVE  tasks[i] = added'[Len(executed) - Ran + i]
    <3>1. Len(executed) - Ran + i \in 1..Len(added)
      BY <1>2, <2>2 DEF LengthsFit
    <3> QED BY <1>1, <2>2, <3>1 DEF ElementsFit
  <2>3. ASSUME NEW i \in 1..Len(tasksBuf'), i > Drained
        PROVE  tasksBuf'[i] = added'[Len(executed) + Len(tasks) - Ran - Drained + i]
    <3>1. CASE i = Len(tasksBuf) + 1
      <4>1. Len(executed) + Len(tasks) - Ran - Drained + i = Len(added) + 1
        BY <1>2, <3>1 DEF LengthsFit
      <4> QED BY <1>1, <3>1, <4>1
    <3>2. CASE i \in 1..Len(tasksBuf)
      <4>1. Len(executed) + Len(tasks) - Ran - Drained + i \in 1..Len(added)
        BY <1>2, <2>3, <3>2 DEF LengthsFit
      <4>2. tasksBuf[i] = added[Len(executed) + Len(tasks) - Ran - Drained + i]
        BY <2>3, <3>2 DEF ElementsFit
      <4> QED BY <1>1, <3>2, <4>1, <4>2
    <3> QED BY <1>1, <3>1, <3>2
  <2> QED BY <1>1, <1>2, <2>1, <2>2, <2>3 DEF ElementsFit
<1>5. ControlFits' /\ PromiseFits'
  BY <1>1 DEF ControlFits, PromiseFits, threadVars
<1> QED BY <1>3, <1>4, <1>5

LEMMA TaskStep == TaskInv /\ [Next]_vars => TaskInv'
<1> SUFFICES ASSUME TaskInv, [Next]_vars PROVE TaskInv'
  OBVIOUS
<1>1. TypeOK'
  BY TypeStep DEF TaskInv
<1>2. LengthsFit' /\ ElementsFit' /\ ControlFits' /\ PromiseFits'
  <2>1. CASE UNCHANGED vars
    BY <2>1 DEF TaskInv, LengthsFit, ElementsFit, ControlFits, PromiseFits, Ran, Drained,
                vars, queueVars
  <2> QED BY <2>1, OwnerKeeps, WorkerKeeps, MoveKeeps, RunKeeps, AddKeeps DEF Next, Worker
<1> QED BY <1>1, <1>2 DEF TaskInv

\* What was added is what ran, then what is in tasks, then what is in tasksBuf.
THEOREM TaskInvariant == Spec => []TaskInv
<1>1. Init => TaskInv
  <2> SUFFICES ASSUME Init PROVE TaskInv
    OBVIOUS
  <2>1. TypeOK
    BY TaskAssumption DEF Init, ThreadInit, TypeOK, ThreadTypeOK, CallPC, WorkPC
  <2>2. Ran = 0 /\ Drained = 0
    BY DEF Init, Ran, Drained, Leaving
  <2>3. LengthsFit /\ ElementsFit
    BY <2>2 DEF Init, LengthsFit, ElementsFit
  <2>4. ControlFits /\ PromiseFits
    BY TaskAssumption DEF Init, ThreadInit, ControlFits, PromiseFits, Leaving
  <2> QED BY <2>1, <2>3, <2>4 DEF TaskInv
<1> QED BY <1>1, TaskStep, PTL DEF Spec

\* Tasks run in the order they were added, none twice and none skipped.
THEOREM OrderKept == Spec => []RunsInOrder
<1>1. TaskInv => RunsInOrder
  <2> SUFFICES ASSUME TaskInv PROVE RunsInOrder
    OBVIOUS
  <2> USE DEF TaskInv, TypeOK
  <2>1. Len(executed) <= Len(added) /\ Len(executed) \in Nat
    <3>1. Ran \in Nat /\ Drained \in Nat
      BY DEF Ran, Drained
    <3> QED BY <3>1 DEF LengthsFit
  <2>2. executed = SubSeq(added, 1, Len(executed))
    BY <2>1 DEF ElementsFit
  <2>3. SubSeq(executed, 1, Len(executed)) = executed
    OBVIOUS
  <2> QED BY <2>1, <2>2, <2>3 DEF RunsInOrder, IsPrefix
<1> QED BY <1>1, TaskInvariant, PTL

\* When Close returns, the tasks added before it have run.
THEOREM CloseIsABarrier == Spec => []CloseFlushes
<1>1. TaskInv => CloseFlushes
  BY DEF TaskInv, CloseFlushes, ControlFits, PromiseFits
<1> QED BY <1>1, TaskInvariant, PTL

\* Once Close has returned, no task runs.
THEOREM NothingRunsLate == Spec => QuietAfterClose
<1>1. TaskInv /\ [Next]_vars => [call = "closed" => executed' = executed]_vars
  <2> SUFFICES ASSUME TaskInv, Next, call = "closed" PROVE executed' = executed
    OBVIOUS
  <2>1. pc \in {"store", "ended"}
    BY DEF TaskInv, ControlFits
  <2> QED BY <2>1 DEF Next, Worker, AddTask, Start, Close, CloseBlock, CloseReturn, LeaveLoop,
                      Turn, Fetch, Check, RunTask, ClearTasks, DrainTask, DrainEnd, Signal,
                      LastStore, queueVars
<1> QED BY <1>1, TaskInvariant, PTL DEF Spec, QuietAfterClose
===============================================================================
