------------------------------ MODULE TaskServer ------------------------------
(***************************************************************************)
(* doyou::io::TaskServer (Task.hpp): tasks handed over by any thread       *)
(* through a locked buffer and run by one worker, the OnWork activation of *)
(* the TaskServer's Thread.  Log writes its lines this way and every       *)
(* Server owns one.  A task is an element of Tasks and is added once.      *)
(*                                                                         *)
(* _tasksBuf is read without the lock by its own worker only: in the       *)
(* test for emptiness and in the loop that drains it at the end.           *)
(***************************************************************************)
EXTENDS Thread, Sequences, SequencesExt

CONSTANTS
  Tasks,  \* the tasks that callers may add
  Self,   \* the TaskServer's Thread object
  Owner   \* the thread that calls Start and Close

ASSUME TaskAssumption == Threads = {Self} /\ Owner # Nobody

VARIABLES
  tasksBuf,  \* _tasksBuf, filled under _mutex
  tasks,     \* _tasks, private to the worker
  pos,       \* position of the worker in the list it is running
  pc,        \* where the worker is
  call,      \* where the owner is
  added,     \* history: the tasks in the order addTask accepted them
  executed,  \* history: the tasks in the order they were run
  promised   \* history: how many tasks had been added when Close was called

queueVars == <<tasksBuf, tasks, pos, added, executed>>
vars == <<isRun, holder, semWait, semWakeup, queueVars, pc, call, promised>>

WorkPC == {"none", "loop", "fetch", "check", "run", "drain", "wakeup", "store", "ended"}
CallPC == {"new", "up", "wait", "blocked", "closed"}

TypeOK ==
  /\ ThreadTypeOK({Owner})
  /\ tasksBuf \in Seq(Tasks)
  /\ tasks \in Seq(Tasks)
  /\ added \in Seq(Tasks)
  /\ executed \in Seq(Tasks)
  /\ pos \in Nat \ {0}
  /\ promised \in Nat
  /\ pc \in WorkPC
  /\ call \in CallPC

Init ==
  /\ ThreadInit
  /\ tasksBuf = <<>> /\ tasks = <<>> /\ pos = 1
  /\ added = <<>> /\ executed = <<>> /\ promised = 0
  /\ pc = "none" /\ call = "new"

-------------------------------------------------------------------------------
(* Any thread, a running task included, may add a task; nothing refuses a  *)
(* task that comes too late.                                               *)

AddTask(k) ==
  /\ k \notin ToSet(added)
  /\ tasksBuf' = Append(tasksBuf, k)
  /\ added' = Append(added, k)
  /\ UNCHANGED <<threadVars, tasks, pos, pc, call, executed, promised>>

-------------------------------------------------------------------------------
(* The owner                                                               *)

Start ==
  /\ call = "new"
  /\ StartThread(Self)
  /\ pc' = "loop"
  /\ call' = "up"
  /\ UNCHANGED <<queueVars, promised>>

Close ==
  /\ call = "up"
  /\ CloseStop(Self, Owner)
  /\ call' = "wait"
  /\ promised' = Len(added)
  /\ UNCHANGED <<queueVars, pc>>

CloseBlock ==
  /\ call = "wait"
  /\ WaitBlock(Self)
  /\ call' = "blocked"
  /\ UNCHANGED <<queueVars, pc, promised>>

CloseReturn ==
  /\ \/ call = "wait" /\ WaitPass(Self)
     \/ call = "blocked" /\ WaitResume(Self)
  /\ call' = "closed"
  /\ UNCHANGED <<queueVars, pc, promised>>

-------------------------------------------------------------------------------
(* The worker: OnRun, then the end of OnWork                               *)

\* Defect: the worker leaves as soon as it is told to, without the last drain.
LeaveLoop_NoDrain ==
  /\ pc = "loop" /\ ~isRun[Self]
  /\ pc' = "wakeup"
  /\ UNCHANGED <<threadVars, queueVars, call, promised>>

\* The loop test fails: on to the tasks that are still buffered.
LeaveLoop ==
  /\ pc = "loop" /\ ~isRun[Self]
  /\ pc' = "drain"
  /\ pos' = 1
  /\ UNCHANGED <<threadVars, tasksBuf, tasks, added, executed, call, promised>>

\* Defect: the test for emptiness is the wrong way round.
Turn_Inverted ==
  /\ pc = "loop" /\ isRun[Self]
  /\ pc' = IF tasksBuf = <<>> THEN "fetch" ELSE "check"
  /\ UNCHANGED <<threadVars, queueVars, call, promised>>

\* One more turn; the emptiness of the buffer is tested without the lock.
Turn ==
  /\ pc = "loop" /\ isRun[Self]
  /\ pc' = IF tasksBuf = <<>> THEN "check" ELSE "fetch"
  /\ UNCHANGED <<threadVars, queueVars, call, promised>>

\* Defect: the buffer is copied and not cleared.
Fetch_NoClear ==
  /\ pc = "fetch"
  /\ tasks' = tasks \o tasksBuf
  /\ pc' = "check"
  /\ UNCHANGED <<threadVars, tasksBuf, pos, added, executed, call, promised>>

\* Under _mutex: the buffer moves to the private list.
Fetch ==
  /\ pc = "fetch"
  /\ tasks' = tasks \o tasksBuf
  /\ tasksBuf' = <<>>
  /\ pc' = "check"
  /\ UNCHANGED <<threadVars, pos, added, executed, call, promised>>

Check ==
  /\ pc = "check"
  /\ pc' = IF tasks = <<>> THEN "loop" ELSE "run"
  /\ pos' = 1
  /\ UNCHANGED <<threadVars, tasksBuf, tasks, added, executed, call, promised>>

RunTask ==
  /\ pc = "run" /\ pos <= Len(tasks)
  /\ executed' = Append(executed, tasks[pos])
  /\ pos' = pos + 1
  /\ UNCHANGED <<threadVars, tasksBuf, tasks, pc, added, call, promised>>

ClearTasks ==
  /\ pc = "run" /\ pos > Len(tasks)
  /\ tasks' = <<>>
  /\ pc' = "loop"
  /\ UNCHANGED <<threadVars, tasksBuf, pos, added, executed, call, promised>>

\* The last loop walks _tasksBuf without the lock; a task appended before the
\* walk reaches the end is run too.  The buffer is not cleared.
DrainTask ==
  /\ pc = "drain" /\ pos <= Len(tasksBuf)
  /\ executed' = Append(executed, tasksBuf[pos])
  /\ pos' = pos + 1
  /\ UNCHANGED <<threadVars, tasksBuf, tasks, pc, added, call, promised>>

DrainEnd ==
  /\ pc = "drain" /\ pos > Len(tasksBuf)
  /\ pc' = "wakeup"
  /\ UNCHANGED <<threadVars, queueVars, call, promised>>

Signal ==
  /\ pc = "wakeup"
  /\ Wakeup(Self)
  /\ pc' = "store"
  /\ UNCHANGED <<queueVars, call, promised>>

LastStore ==
  /\ pc = "store"
  /\ EndRun(Self)
  /\ pc' = "ended"
  /\ UNCHANGED <<queueVars, call, promised>>

Worker ==
  \/ LeaveLoop \/ Turn \/ Fetch \/ Check \/ RunTask \/ ClearTasks
  \/ DrainTask \/ DrainEnd \/ Signal \/ LastStore

Next ==
  \/ \E k \in Tasks : AddTask(k)
  \/ Start \/ Close \/ CloseBlock \/ CloseReturn
  \/ Worker

\* The worker and a Close in progress are scheduled; nobody has to add or close.
Fairness == WF_vars(Worker) /\ WF_vars(CloseBlock \/ CloseReturn)

Spec == Init /\ [][Next]_vars

FairSpec == Spec /\ Fairness

-------------------------------------------------------------------------------
(* Properties                                                              *)

\* Tasks run in the order addTask accepted them, none twice and none skipped,
\* through both lists, the unlocked test and the final drain.
RunsInOrder == IsPrefix(executed, added)

\* When Close returns, every task added before it was called has run (the last
\* lines of a log are written before the program goes on).
CloseFlushes == call = "closed" => Len(executed) >= promised

\* Once Close has returned no task runs any more, so the objects that tasks
\* refer to may be destroyed.
QuietAfterClose == [][call = "closed" => executed' = executed]_vars

\* A task added to a running server is run, or else the server was closed
\* around it: a task that arrives after the final drain is dropped silently.
AddedRuns ==
  \A k \in Tasks :
    k \in ToSet(added) /\ call = "up" ~> k \in ToSet(executed) \/ call = "closed"
===============================================================================
