--------------------------- MODULE CellServer_proofs ---------------------------
(***************************************************************************)
(* Proofs about CellServer, for any number of Servers and descriptors, any *)
(* limit and any number of restarts and failing polls, in this order:      *)
(*   - its types and the limit,                                            *)
(*   - the owner of each socket (OwnerInv),                                *)
(*   - the two counters (CountInv), and with them the refusals and the     *)
(*     refinement of Connections,                                          *)
(*   - the order of the shutdown (CloseInv).                               *)
(***************************************************************************)
EXTENDS CellServer, FiniteSetTheorems, TLAPS

(***************************************************************************)
(* Type correctness is not inductive: that only sockets enter _clientsBuff *)
(* depends on where the accept thread is, and that main may count one more *)
(* start depends on how far it has come with this one.                     *)
(***************************************************************************)
InHandTyped == apc \in {"limit", "count", "refuse", "scan"} => acur \in Socks

SendTyped == \A s \in Servers : spc[s] = "out" => cur[s] \in Socks

MayStart == mpc = "listen" \/ (mpc = "start" /\ midx # Task(1)) => starts < MaxStarts

TypeInv == TypeOK /\ InHandTyped /\ SendTyped /\ MayStart

\* The Thread objects are the ones of the accept thread and of the Servers.
LEMMA ThreadNumbers ==
  /\ Accept \in Threads
  /\ \A s \in Servers : Task(s) \in Threads /\ Net(s) \in Threads /\ Task(s) # Net(s)
  /\ LastThread \in Threads /\ Task(1) \in Threads /\ 1 \in Servers
BY CellAssumption DEF Accept, Task, Net, LastThread, Servers

\* Two fields of a function are replaced by values of its range.
LEMMA TwoUpdates ==
  ASSUME NEW S, NEW T, NEW f \in [S -> T], NEW a \in S, NEW b \in S, NEW x \in T, NEW y \in T
  PROVE  [f EXCEPT ![a] = x, ![b] = y] \in [S -> T]
OBVIOUS

\* What the shared operations of Thread do to its fields.
LEMMA ThreadOpsTyped ==
  ASSUME ThreadTypeOK({Main}), NEW t \in Threads,
         \/ StartThread(t) \/ CloseIdle(t) \/ CloseStop(t, Main) \/ ExitLocked(t)
         \/ EndRun(t) \/ WaitPass(t) \/ WaitBlock(t) \/ WaitResume(t) \/ Wakeup(t)
         \/ UNCHANGED threadVars
  PROVE  ThreadTypeOK({Main})'
<1> USE DEF ThreadTypeOK
<1>1. CASE StartThread(t)
  BY <1>1 DEF StartThread
<1>2. CASE CloseIdle(t) \/ UNCHANGED threadVars
  BY <1>2 DEF CloseIdle, threadVars
<1>3. CASE CloseStop(t, Main)
  BY <1>3 DEF CloseStop
<1>4. CASE ExitLocked(t) \/ EndRun(t)
  BY <1>4 DEF ExitLocked, EndRun
<1>5. CASE WaitPass(t)
  BY <1>5 DEF WaitPass
<1>6. CASE WaitBlock(t)
  BY <1>6 DEF WaitBlock
<1>7. CASE WaitResume(t)
  <2>1. semWakeup[t] - 1 \in Nat
    BY <1>7 DEF WaitResume
  <2> QED BY <1>7, <2>1 DEF WaitResume
<1>8. CASE Wakeup(t)
  BY <1>8 DEF Wakeup
<1> QED BY <1>1, <1>2, <1>3, <1>4, <1>5, <1>6, <1>7, <1>8

\* The accept thread.
LEMMA AcceptTyped == ASSUME TypeInv, AcceptThread PROVE TypeInv'
<1> USE CellAssumption DEF TypeInv, TypeOK, InHandTyped
<1>1. Accept \in Threads
  BY ThreadNumbers
<1>2. ThreadTypeOK({Main})'
  <2>1. \/ ExitLocked(Accept) \/ EndRun(Accept) \/ Wakeup(Accept) \/ UNCHANGED threadVars
    BY DEF AcceptThread, AcceptConnection, AcceptLimit, AcceptRefuse, AcceptCount, AcceptScan,
           AcceptAdd, AcceptPollFails, AcceptExitTest, AcceptExitStore, AcceptStop, AcceptSignal,
           AcceptLastStore
  <2> QED BY <1>1, <2>1, ThreadOpsTyped
<1>3. CASE AcceptConnection \/ AcceptLimit \/ AcceptRefuse \/ AcceptCount \/ AcceptScan
  <2>1. UNCHANGED <<queueVars, netVars, mainVars, tpc, pollFailures>>
    BY <1>3 DEF AcceptConnection, AcceptLimit, AcceptRefuse, AcceptCount, AcceptScan, notAccept
  <2>2. /\ apc' \in AcceptPC /\ acur' \in Socks \cup {NoSock} /\ InHandTyped'
        /\ amin' \in Servers /\ anext' \in 1..(NServers + 1)
    <3>1. CASE AcceptConnection
      BY <3>1 DEF AcceptConnection, AcceptPC
    <3>2. CASE AcceptLimit
      BY <3>2 DEF AcceptLimit, AcceptPC
    <3>3. CASE AcceptRefuse
      BY <3>3 DEF AcceptRefuse, AcceptPC
    <3>4. CASE AcceptCount
      BY <3>4 DEF AcceptCount, AcceptPC
    <3>5. CASE AcceptScan
      BY <3>5 DEF AcceptScan, Servers
    <3> QED BY <1>3, <3>1, <3>2, <3>3, <3>4, <3>5
  <2>3. /\ clientAccept' \in Int /\ clientJoin' \in Int
        /\ abandoned' \in Nat /\ abandonedJoin' \in Nat
    BY <1>3 DEF AcceptConnection, AcceptLimit, AcceptRefuse, AcceptCount, AcceptScan, countVars
  <2>4. open' \in SUBSET Socks /\ closed' \in SUBSET Socks /\ gone' \in SUBSET Socks
    BY <1>3 DEF AcceptConnection, AcceptLimit, AcceptRefuse, AcceptCount, AcceptScan, sockVars,
                Destroy
  <2>5. SendTyped' /\ MayStart'
    BY <2>1 DEF SendTyped, MayStart, netVars, mainVars
  <2> QED BY <1>2, <2>1, <2>2, <2>3, <2>4, <2>5 DEF queueVars, netVars, mainVars
<1>4. CASE AcceptAdd
  <2>1. buff' \in [Servers -> Seq(Socks)]
    BY <1>4 DEF AcceptAdd
  <2>2. SendTyped' /\ MayStart'
    BY <1>4 DEF AcceptAdd, SendTyped, MayStart, netVars, mainVars
  <2>3. /\ UNCHANGED <<clients, locked, taken, netVars, sockVars, countVars, mainVars, tpc,
                        pollFailures>>
        /\ apc' = "loop" /\ acur' = NoSock /\ amin' = 1 /\ anext' = 1
    BY <1>4 DEF AcceptAdd
  <2>4. 1 \in Servers /\ 1 \in 1..(NServers + 1) /\ "loop" \in AcceptPC
    BY DEF Servers, AcceptPC
  <2> QED BY <1>2, <2>1, <2>2, <2>3, <2>4
          DEF netVars, sockVars, countVars, mainVars
<1>5. ASSUME NEW pc \in AcceptPC,
             NEW to \in AcceptPC \ {"limit", "count", "refuse", "scan"}, AcceptGoTo(pc, to),
             pollFailures' \in 0..MaxPollFailures
      PROVE  TypeInv'
  BY <1>2, <1>5 DEF AcceptGoTo, notAccept, queueVars, netVars, mainVars, sockVars, countVars,
                    SendTyped, MayStart
<1>6. CASE AcceptPollFails \/ AcceptExitTest \/ AcceptExitStore \/ AcceptStop
           \/ AcceptSignal \/ AcceptLastStore
  <2>1. /\ {"loop", "exit", "exitLock", "wakeup", "store"} \subseteq AcceptPC
        /\ {"exit", "exitLock", "wakeup", "store", "ended"}
             \subseteq AcceptPC \ {"limit", "count", "refuse", "scan"}
    BY DEF AcceptPC
  <2>2. pollFailures' \in 0..MaxPollFailures
    BY <1>6 DEF AcceptPollFails, AcceptExitTest, AcceptExitStore, AcceptStop, AcceptSignal,
                AcceptLastStore
  <2> QED BY <1>5, <1>6, <2>1, <2>2
          DEF AcceptPollFails, AcceptExitTest, AcceptExitStore, AcceptStop, AcceptSignal,
              AcceptLastStore
<1> QED BY <1>3, <1>4, <1>6 DEF AcceptThread

\* A net thread, one group of variables after the other.
LEMMA NetQueueTyped ==
  ASSUME TypeInv, NEW s \in Servers, NetThread(s)
  PROVE  /\ clients' \in [Servers -> SUBSET Socks] /\ buff' \in [Servers -> Seq(Socks)]
         /\ locked' \in [Servers -> BOOLEAN] /\ taken' \in [Servers -> Nat]
<1> USE DEF TypeInv, TypeOK
<1>1. \/ NetLock(s) \/ NetTake(s) \/ NetTaken(s) \/ NetRemove(s) \/ NetErase(s)
      \/ NetClear(s) \/ NetClearBuff(s) \/ NetClearEnd(s) \/ UNCHANGED queueVars
  BY DEF NetThread, NetStop, NetTurn, NetLock, NetTake, NetTaken, NetRun, NetExpire,
         NetChecked, NetPoll, NetPollFails, NetRecv, NetSend, NetSendFails, NetPolled, NetMsg,
         NetRemove, NetLeave, NetUnjoin, NetDelete, NetErase, NetExitTest, NetExitStore,
         NetClear, NetClearBuff, NetClearEnd, NetSignal, NetLastStore, NetStep
<1>2. CASE NetLock(s)
  BY <1>2 DEF NetLock
<1>3. CASE NetTake(s)
  <2>1. buff[s][taken[s] + 1] \in Socks
    BY <1>3 DEF NetTake
  <2> QED BY <1>3, <2>1 DEF NetTake
<1>4. CASE NetTaken(s)
  BY <1>4 DEF NetTaken
<1>5. CASE NetRemove(s) \/ NetErase(s) \/ NetClear(s)
  BY <1>5 DEF NetRemove, NetErase, NetClear
<1>6. CASE NetClearBuff(s)
  BY <1>6 DEF NetClearBuff
<1>7. CASE NetClearEnd(s)
  BY <1>7 DEF NetClearEnd
<1>8. CASE UNCHANGED queueVars
  BY <1>8 DEF queueVars
<1> QED BY <1>1, <1>2, <1>3, <1>4, <1>5, <1>6, <1>7, <1>8

LEMMA NetPlaceTyped ==
  ASSUME TypeInv, NEW s \in Servers, NetThread(s)
  PROVE  /\ spc' \in [Servers -> NetPC] /\ cur' \in [Servers -> Socks \cup {NoSock}]
         /\ from' \in [Servers -> {"check", "event"}]
         /\ events' \in [Servers -> SUBSET Socks]
         /\ SendTyped'
<1> USE DEF TypeInv, TypeOK
<1>1. PICK to \in NetPC : spc' = [spc EXCEPT ![s] = to] /\ (to = "out" => NetRecv(s))
  <2>1. ASSUME NEW pc, NEW to \in NetPC, NetGoTo(s, pc, to), to # "out"
        PROVE  \E q \in NetPC : spc' = [spc EXCEPT ![s] = q] /\ (q = "out" => NetRecv(s))
    BY <2>1 DEF NetGoTo
  <2>2. CASE NetRecv(s)
    BY <2>2 DEF NetRecv, NetGoTo, NetPC
  <2>3. {"top", "lock", "take", "net", "check", "poll", "event", "msg", "remove", "leave",
         "unjoin", "delete", "erase", "exit", "exitLock", "clear", "clearBuff", "clearEnd",
         "wakeup", "store", "ended"} \subseteq NetPC
    BY DEF NetPC
  <2> QED BY <2>1, <2>2, <2>3
      DEF NetThread, NetStop, NetTurn, NetLock, NetTake, NetTaken, NetRun, NetExpire,
          NetChecked, NetPoll, NetPollFails, NetRecv, NetSend, NetSendFails, NetPolled, NetMsg,
          NetRemove, NetLeave, NetUnjoin, NetDelete, NetErase, NetExitTest, NetExitStore,
          NetClear, NetClearBuff, NetClearEnd, NetSignal, NetLastStore, NetStep
<1>2. cur' \in [Servers -> Socks \cup {NoSock}]
      /\ \A r \in Servers \ {s} : cur'[r] = cur[r]
  <2>1. \/ UNCHANGED cur \/ \E k \in Socks \cup {NoSock} : cur' = [cur EXCEPT ![s] = k]
    BY DEF NetThread, NetStop, NetTurn, NetLock, NetTake, NetTaken, NetRun, NetExpire,
           NetChecked, NetPoll, NetPollFails, NetRecv, NetSend, NetSendFails, NetPolled, NetMsg,
           NetRemove, NetLeave, NetUnjoin, NetDelete, NetErase, NetExitTest, NetExitStore,
           NetClear, NetClearBuff, NetClearEnd, NetSignal, NetLastStore, NetStep
  <2> QED BY <2>1
<1>3. from' \in [Servers -> {"check", "event"}]
  <2>1. \/ UNCHANGED from
        \/ \E f \in {"check", "event"} : from' = [from EXCEPT ![s] = f]
    BY DEF NetThread, NetStop, NetTurn, NetLock, NetTake, NetTaken, NetRun, NetExpire,
           NetChecked, NetPoll, NetPollFails, NetRecv, NetSend, NetSendFails, NetPolled, NetMsg,
           NetRemove, NetLeave, NetUnjoin, NetDelete, NetErase, NetExitTest, NetExitStore,
           NetClear, NetClearBuff, NetClearEnd, NetSignal, NetLastStore, NetStep
  <2> QED BY <2>1
<1>4. events' \in [Servers -> SUBSET Socks]
  <2>1. UNCHANGED events \/ \E E \in SUBSET Socks : events' = [events EXCEPT ![s] = E]
    BY DEF NetThread, NetStop, NetTurn, NetLock, NetTake, NetTaken, NetRun, NetExpire,
           NetChecked, NetPoll, NetPollFails, NetRecv, NetSend, NetSendFails, NetPolled, NetMsg,
           NetRemove, NetLeave, NetUnjoin, NetDelete, NetErase, NetExitTest, NetExitStore,
           NetClear, NetClearBuff, NetClearEnd, NetSignal, NetLastStore, NetStep
  <2> QED BY <2>1
<1>5. SendTyped'
  <2>1. NetRecv(s) => cur'[s] \in Socks
    BY DEF NetRecv
  <2> QED BY <1>1, <1>2, <2>1 DEF SendTyped
<1> QED BY <1>1, <1>2, <1>3, <1>4, <1>5

LEMMA NetSocksTyped ==
  ASSUME TypeInv, NEW s \in Servers, NetThread(s)
  PROVE  open' \in SUBSET Socks /\ closed' \in SUBSET Socks /\ gone' \in SUBSET Socks
<1> USE DEF TypeInv, TypeOK
<1>1. CASE NetSend(s)
  <2>1. cur[s] \in Socks
    BY <1>1 DEF NetSend, NetGoTo, SendTyped
  <2> QED BY <1>1, <2>1 DEF NetSend
<1>2. \/ NetSend(s)
      \/ open' \subseteq open /\ closed' \subseteq closed \cup clients[s] /\ gone' \subseteq gone
  BY DEF sockVars, Destroy,
         NetThread, NetStop, NetTurn, NetLock, NetTake, NetTaken, NetRun, NetExpire,
         NetChecked, NetPoll, NetPollFails, NetRecv, NetSend, NetSendFails, NetPolled, NetMsg,
         NetRemove, NetLeave, NetUnjoin, NetDelete, NetErase, NetExitTest, NetExitStore,
         NetClear, NetClearBuff, NetClearEnd, NetSignal, NetLastStore, NetStep
<1> QED BY <1>1, <1>2

LEMMA NetCountsTyped ==
  ASSUME TypeInv, NEW s \in Servers, NetThread(s)
  PROVE  /\ clientAccept' \in Int /\ clientJoin' \in Int
         /\ abandoned' \in Nat /\ abandonedJoin' \in Nat
         /\ pollFailures' \in 0..MaxPollFailures
<1> USE DEF TypeInv, TypeOK
<1>1. \/ NetTake(s) \/ NetPollFails(s) \/ NetLeave(s) \/ NetUnjoin(s) \/ NetClear(s)
      \/ NetClearBuff(s) \/ UNCHANGED <<countVars, pollFailures>>
  BY DEF NetThread, NetStop, NetTurn, NetLock, NetTake, NetTaken, NetRun, NetExpire,
         NetChecked, NetPoll, NetPollFails, NetRecv, NetSend, NetSendFails, NetPolled, NetMsg,
         NetRemove, NetLeave, NetUnjoin, NetDelete, NetErase, NetExitTest, NetExitStore,
         NetClear, NetClearBuff, NetClearEnd, NetSignal, NetLastStore, NetStep
<1>2. CASE NetTake(s)
  BY <1>2 DEF NetTake
<1>7. CASE NetLeave(s)
  BY <1>7 DEF NetLeave
<1>8. CASE NetUnjoin(s)
  BY <1>8 DEF NetUnjoin
<1>6. CASE NetPollFails(s)
  BY <1>6, CellAssumption DEF NetPollFails, countVars
<1>3. CASE NetClear(s)
  <2>1. Cardinality(clients[s]) \in Nat
    BY CellAssumption, FS_Subset, FS_CardinalityType
  <2> QED BY <1>3, <2>1 DEF NetClear
<1>4. CASE NetClearBuff(s)
  <2>1. Len(buff[s]) \in Nat
    OBVIOUS
  <2> QED BY <1>4, <2>1 DEF NetClearBuff
<1>5. CASE UNCHANGED <<countVars, pollFailures>>
  BY <1>5 DEF countVars
<1> QED BY <1>1, <1>2, <1>3, <1>4, <1>5, <1>6, <1>7, <1>8

LEMMA NetTyped == ASSUME TypeInv, NEW s \in Servers, NetThread(s) PROVE TypeInv'
<1>1. ThreadTypeOK({Main})'
  <2>1. \/ ExitLocked(Net(s)) \/ EndRun(Net(s)) \/ Wakeup(Net(s)) \/ UNCHANGED threadVars
    BY DEF NetThread, NetStop, NetTurn, NetLock, NetTake, NetTaken, NetRun, NetExpire,
           NetChecked, NetPoll, NetPollFails, NetRecv, NetSend, NetSendFails, NetPolled, NetMsg,
           NetRemove, NetLeave, NetUnjoin, NetDelete, NetErase, NetExitTest, NetExitStore,
           NetClear, NetClearBuff, NetClearEnd, NetSignal, NetLastStore, NetStep
  <2> QED BY <2>1, ThreadNumbers, ThreadOpsTyped DEF TypeInv, TypeOK
<1>2. UNCHANGED notNet
  BY DEF NetGoTo,
         NetThread, NetStop, NetTurn, NetLock, NetTake, NetTaken, NetRun, NetExpire,
         NetChecked, NetPoll, NetPollFails, NetRecv, NetSend, NetSendFails, NetPolled, NetMsg,
         NetRemove, NetLeave, NetUnjoin, NetDelete, NetErase, NetExitTest, NetExitStore,
         NetClear, NetClearBuff, NetClearEnd, NetSignal, NetLastStore, NetStep
<1>3. InHandTyped' /\ MayStart'
  BY <1>2 DEF notNet, acceptVars, mainVars, InHandTyped, MayStart, TypeInv
<1> QED BY <1>1, <1>2, <1>3, NetQueueTyped, NetPlaceTyped, NetSocksTyped, NetCountsTyped
        DEF TypeInv, TypeOK, notNet, acceptVars, mainVars

\* A task thread.
LEMMA TaskTyped == ASSUME TypeInv, NEW s \in Servers, TaskThread(s) PROVE TypeInv'
<1> USE DEF TypeInv, TypeOK
<1>1. ThreadTypeOK({Main})'
  <2>1. EndRun(Task(s)) \/ Wakeup(Task(s)) \/ UNCHANGED threadVars
    BY DEF TaskThread, TaskStop, TaskSignal, TaskLastStore
  <2> QED BY <2>1, ThreadNumbers, ThreadOpsTyped
<1>2. /\ tpc' \in [Servers -> TaskPC]
      /\ UNCHANGED <<acceptVars, queueVars, netVars, sockVars, countVars, mainVars, pollFailures>>
  BY DEF TaskThread, TaskStop, TaskSignal, TaskLastStore, TaskGoTo, TaskPC
<1>3. InHandTyped' /\ SendTyped' /\ MayStart'
  BY <1>2 DEF acceptVars, netVars, mainVars, InHandTyped, SendTyped, MayStart
<1> QED BY <1>1, <1>2, <1>3 DEF acceptVars, queueVars, netVars, sockVars, countVars, mainVars

\* Main.
LEMMA MainTyped == ASSUME TypeInv, MainThread \/ Close PROVE TypeInv'
<1> USE CellAssumption, ThreadNumbers DEF TypeInv, TypeOK
<1>1. ASSUME NEW s \in Servers, StartTask(s) PROVE TypeInv'
  <2>1. ThreadTypeOK({Main})'
    <3> PICK t \in Threads, u \in Threads : t = Task(s) /\ u = Net(s)
      OBVIOUS
    <3>1. /\ isRun' = [isRun EXCEPT ![t] = TRUE, ![u] = FALSE]
          /\ holder' = [holder EXCEPT ![t] = Nobody, ![u] = Nobody]
          /\ semWait' = [semWait EXCEPT ![t] = 0, ![u] = 0]
          /\ semWakeup' = [semWakeup EXCEPT ![t] = 0, ![u] = 0]
      BY <1>1 DEF StartTask
    <3>2. isRun' \in [Threads -> BOOLEAN] /\ holder' \in [Threads -> {Main} \cup {Nobody}]
      BY <3>1 DEF ThreadTypeOK
    <3>3. semWait' \in [Threads -> Int]
      BY <3>1, TwoUpdates, 0 \in Int DEF ThreadTypeOK
    <3>4. semWakeup' \in [Threads -> Nat]
      BY <3>1, TwoUpdates, 0 \in Nat DEF ThreadTypeOK
    <3> QED BY <3>2, <3>3, <3>4 DEF ThreadTypeOK
  <2>2. /\ spc' \in [Servers -> NetPC] /\ tpc' \in [Servers -> TaskPC]
        /\ clients' \in [Servers -> SUBSET Socks] /\ buff' \in [Servers -> Seq(Socks)]
    BY <1>1 DEF StartTask, NetPC, TaskPC
  <2>3. SendTyped' /\ InHandTyped' /\ MayStart'
    BY <1>1 DEF StartTask, SendTyped, InHandTyped, MayStart, acceptVars
  <2> QED BY <1>1, <2>1, <2>2, <2>3 DEF StartTask, acceptVars, sockVars, countVars
<1>2. ASSUME NEW s \in Servers, StartNet(s) PROVE TypeInv'
  <2>1. ThreadTypeOK({Main})'
    BY <1>2, ThreadOpsTyped DEF StartNet
  <2>2. spc' \in [Servers -> NetPC]
    BY <1>2 DEF StartNet, NetPC
  <2>3. midx' \in Threads /\ mpc' \in MainPC
    BY <1>2 DEF StartNet, MainPC, Servers, Task, LastThread
  <2>4. midx # Task(1) /\ mpc = "start"
    BY <1>2 DEF StartNet, Net, Task, Servers
  <2>5. SendTyped' /\ InHandTyped' /\ MayStart'
    BY <1>2, <2>4 DEF StartNet, SendTyped, InHandTyped, MayStart, acceptVars
  <2> QED BY <1>2, <2>1, <2>2, <2>3, <2>5 DEF StartNet, acceptVars, queueVars, sockVars, countVars
<1>3. CASE StartAccept
  <2>1. ThreadTypeOK({Main})'
    BY <1>3, ThreadOpsTyped DEF StartAccept
  <2>2. starts' \in 0..MaxStarts /\ apc' \in AcceptPC /\ mpc' \in MainPC
    BY <1>3 DEF StartAccept, MayStart, AcceptPC, MainPC
  <2>3. SendTyped' /\ InHandTyped' /\ MayStart'
    BY <1>3 DEF StartAccept, SendTyped, InHandTyped, MayStart, netVars
  <2> QED BY <1>3, <2>1, <2>2, <2>3 DEF StartAccept, queueVars, netVars, sockVars, countVars
<1>4. ASSUME ThreadTypeOK({Main})', mpc' \in MainPC \ {"listen"}, midx' \in Threads,
             mpc' = "start" => midx' = Task(1), UNCHANGED notMain
      PROVE  TypeInv'
  <2>1. SendTyped' /\ InHandTyped' /\ MayStart'
    BY <1>4 DEF SendTyped, InHandTyped, MayStart, notMain, acceptVars, netVars
  <2> QED BY <1>4, <2>1 DEF notMain, acceptVars, queueVars, netVars, sockVars, countVars
<1>5. NextThread => /\ mpc' \in MainPC \ {"listen"} /\ midx' \in Threads
                    /\ mpc' = "start" => midx' = Task(1)
  BY DEF NextThread, MainPC, LastThread
<1>6. {"close", "wait", "blocked"} \subseteq MainPC \ {"listen"} /\ "start" \notin {"close", "wait", "blocked"}
  BY DEF MainPC
<1>7. CASE CloseThread
  <2>1. CloseIdle(midx) \/ CloseStop(midx, Main)
    BY <1>7 DEF CloseThread
  <2>2. ThreadTypeOK({Main})'
    BY <2>1, ThreadOpsTyped
  <2> QED BY <1>4, <1>5, <1>6, <1>7, <2>2 DEF CloseThread
<1>8. CASE CloseBlock
  <2>1. ThreadTypeOK({Main})'
    BY <1>8, ThreadOpsTyped DEF CloseBlock
  <2> QED BY <1>4, <1>6, <1>8, <2>1 DEF CloseBlock
<1>9. CASE CloseReturn
  <2>1. ThreadTypeOK({Main})'
    BY <1>9, ThreadOpsTyped DEF CloseReturn
  <2> QED BY <1>4, <1>5, <1>9, <2>1 DEF CloseReturn
<1>10. CASE Close
  <2>1. ThreadTypeOK({Main})'
    BY <1>10, ThreadOpsTyped DEF Close
  <2> QED BY <1>4, <1>6, <1>10, <2>1 DEF Close
<1> QED BY <1>1, <1>2, <1>3, <1>7, <1>8, <1>9, <1>10 DEF MainThread

LEMMA TypeStep == TypeInv /\ [Next]_vars => TypeInv'
<1>1. ASSUME TypeInv, NEW k \in Socks, PeerCloses(k) PROVE TypeInv'
  BY <1>1 DEF PeerCloses, TypeInv, TypeOK, ThreadTypeOK, InHandTyped, SendTyped, MayStart,
              threadVars, acceptVars, queueVars, netVars, countVars, mainVars
<1>2. ASSUME TypeInv, UNCHANGED vars PROVE TypeInv'
  BY <1>2 DEF vars, TypeInv, TypeOK, ThreadTypeOK, InHandTyped, SendTyped, MayStart,
              threadVars, acceptVars, queueVars, netVars, sockVars, countVars, mainVars
<1> QED BY <1>1, <1>2, AcceptTyped, NetTyped, TaskTyped, MainTyped DEF Next

LEMMA TypeInit == Init => TypeInv
<1> SUFFICES ASSUME Init PROVE TypeInv
  OBVIOUS
<1>1. ThreadTypeOK({Main})
  BY DEF Init, ThreadInit, ThreadTypeOK
<1>2. InHandTyped /\ SendTyped /\ MayStart
  BY DEF Init, InHandTyped, SendTyped, MayStart, Task
<1>3. 1 \in Servers /\ 1 \in 1..(NServers + 1) /\ midx \in Threads
  BY CellAssumption, ThreadNumbers DEF Init, Task
<1> QED BY <1>1, <1>2, <1>3, CellAssumption
        DEF Init, TypeInv, TypeOK, AcceptPC, NetPC, TaskPC, MainPC

\* The variables always have their types; _wakeup is never negative.
THEOREM TypeCorrect == Spec => []TypeOK
<1>1. TypeInv => TypeOK
  BY DEF TypeInv
<1> QED BY <1>1, TypeInit, TypeStep, PTL DEF Spec
-------------------------------------------------------------------------------
(* The limit                                                               *)

\* Between the test and the increment only the net threads touch the counter,
\* and they lower it.
LimitInv == AcceptWithinLimit /\ (apc = "count" => clientAccept < MaxClient)

LEMMA LimitStep == TypeOK /\ LimitInv /\ [Next]_vars => LimitInv'
<1> SUFFICES ASSUME TypeOK, LimitInv, [Next]_vars PROVE LimitInv'
  OBVIOUS
<1> USE CellAssumption DEF LimitInv, AcceptWithinLimit
<1>1. clientAccept \in Int /\ MaxClient \in Int
  BY DEF TypeOK
<1>2. CASE AcceptThread
  BY <1>1, <1>2 DEF AcceptThread, AcceptConnection, AcceptLimit, AcceptRefuse, AcceptCount,
       AcceptScan, AcceptAdd, AcceptPollFails, AcceptExitTest, AcceptExitStore, AcceptStop,
       AcceptSignal, AcceptLastStore, AcceptGoTo, countVars
<1>3. ASSUME NEW s \in Servers, NetThread(s) PROVE LimitInv'
  <2>1. clientAccept' \in {clientAccept, clientAccept - 1}
    BY <1>3 DEF countVars,
         NetThread, NetStop, NetTurn, NetLock, NetTake, NetTaken, NetRun, NetExpire,
         NetChecked, NetPoll, NetPollFails, NetRecv, NetSend, NetSendFails, NetPolled, NetMsg,
         NetRemove, NetLeave, NetUnjoin, NetDelete, NetErase, NetExitTest, NetExitStore,
         NetClear, NetClearBuff, NetClearEnd, NetSignal, NetLastStore, NetStep
  <2>2. apc' = apc
    BY <1>3 DEF NetGoTo, notNet, acceptVars,
         NetThread, NetStop, NetTurn, NetLock, NetTake, NetTaken, NetRun, NetExpire,
         NetChecked, NetPoll, NetPollFails, NetRecv, NetSend, NetSendFails, NetPolled, NetMsg,
         NetRemove, NetLeave, NetUnjoin, NetDelete, NetErase, NetExitTest, NetExitStore,
         NetClear, NetClearBuff, NetClearEnd, NetSignal, NetLastStore, NetStep
  <2> QED BY <1>1, <2>1, <2>2
<1>4. CASE UNCHANGED <<apc, clientAccept>>
  BY <1>4
<1>5. ASSUME MainThread PROVE clientAccept' = clientAccept /\ apc' \in {apc, "loop"}
  BY <1>5 DEF MainThread, StartTask, StartNet, StartAccept, CloseThread, CloseBlock,
              CloseReturn, notMain, acceptVars, countVars
<1>6. ASSUME \/ Close \/ UNCHANGED vars \/ \E k \in Socks : PeerCloses(k)
             \/ \E s \in Servers : TaskThread(s)
      PROVE  UNCHANGED <<apc, clientAccept>>
  BY <1>6 DEF Close, vars, PeerCloses, TaskThread, TaskStop, TaskSignal, TaskLastStore,
              TaskGoTo, notMain, acceptVars, countVars
<1> QED BY <1>2, <1>3, <1>4, <1>5, <1>6 DEF Next

\* _clientAccept never exceeds _nMaxClient, however the threads interleave.
THEOREM LimitKept == Spec => []AcceptWithinLimit
<1>1. Init => LimitInv
  BY CellAssumption DEF Init, LimitInv, AcceptWithinLimit
<1>2. LimitInv => AcceptWithinLimit
  BY DEF LimitInv
<1> QED BY <1>1, <1>2, LimitStep, TypeCorrect, PTL DEF Spec
-------------------------------------------------------------------------------
(* One owner                                                               *)

(***************************************************************************)
(* What holds of each Server beside OneOwner.  A client is on its way out  *)
(* either from an event, when rmClient has taken it out of the map, or     *)
(* from CheckTime, when it is still there.                                 *)
(***************************************************************************)
OnItsWay(s) == spc[s] \in {"leave", "unjoin", "delete"}

TakenFits(s) ==
  /\ taken[s] <= Len(buff[s])
  /\ spc[s] \notin {"take", "clearEnd"} => taken[s] = 0

EventsFit(s) ==
  /\ spc[s] \in {"out", "remove"} => from[s] = "event"
  /\ from[s] = "event" => spc[s] \in {"out", "remove"} \/ OnItsWay(s)
  /\ OnItsWay(s) => (cur[s] \in clients[s] <=> from[s] = "check")
  /\ spc[s] # "event" /\ from[s] = "check" => events[s] = {}

Apart(s) ==
  /\ events[s] \subseteq Mapped(s) \ Leaving(s)
  /\ spc[s] \in {"out", "remove"} => cur[s] \in Mapped(s) \ events[s]
  /\ IsInjective(Queue(s))
  /\ ToSet(Queue(s)) \cap (clients[s] \cup Leaving(s)) \subseteq Stale(s)

Local(s) == TakenFits(s) /\ EventsFit(s) /\ Apart(s)

\* What each thread holds is open, and held by no other.
Shared ==
  /\ InHand \subseteq open
  /\ \A s \in Servers : Held(s) \subseteq open \ InHand
  /\ \A s \in Servers : \A r \in Servers \ {s} : Held(s) \cap Held(r) = {}

\* A net thread that is about to be started has no place yet.
Fresh == \A s \in Servers : mpc = "start" /\ midx = Net(s) => spc[s] = "none"

OwnerInv == TypeInv /\ (\A s \in Servers : Local(s)) /\ Shared /\ Fresh
-------------------------------------------------------------------------------
(* The part of a buffer from position n + 1 on.                            *)

LEMMA RestElements ==
  ASSUME NEW b \in Seq(Socks), NEW n \in 0..Len(b)
  PROVE  LET Q == SubSeq(b, n + 1, Len(b)) IN
           /\ Q \in Seq(Socks) /\ Len(Q) = Len(b) - n
           /\ \A i \in 1..Len(Q) : Q[i] = b[n + i]
OBVIOUS

LEMMA RestEmpty ==
  ASSUME NEW b \in Seq(Socks)
  PROVE  LET Q == SubSeq(b, Len(b) + 1, Len(b)) IN IsInjective(Q) /\ ToSet(Q) = {}
<1> DEFINE Q == SubSeq(b, Len(b) + 1, Len(b))
<1>1. Len(Q) = 0 /\ Q \in Seq(Socks)
  BY RestElements
<1>2. DOMAIN Q = {}
  BY <1>1
<1> QED BY <1>2 DEF IsInjective, ToSet

LEMMA RestOfAppended ==
  ASSUME NEW b \in Seq(Socks), NEW n \in 0..Len(b), NEW k \in Socks
  PROVE  LET Q == SubSeq(b, n + 1, Len(b))
             R == SubSeq(Append(b, k), n + 1, Len(Append(b, k)))
         IN  /\ ToSet(R) = ToSet(Q) \cup {k}
             /\ IsInjective(Q) /\ k \notin ToSet(Q) => IsInjective(R)
<1> DEFINE Q == SubSeq(b, n + 1, Len(b))
           R == SubSeq(Append(b, k), n + 1, Len(Append(b, k)))
<1>1. /\ Append(b, k) \in Seq(Socks) /\ Len(Append(b, k)) = Len(b) + 1
      /\ Append(b, k)[Len(b) + 1] = k
      /\ \A i \in 1..Len(b) : Append(b, k)[i] = b[i]
  OBVIOUS
<1>2. /\ Q \in Seq(Socks) /\ Len(Q) = Len(b) - n
      /\ \A i \in 1..Len(Q) : Q[i] = b[n + i]
  BY RestElements
<1>3. /\ R \in Seq(Socks) /\ Len(R) = Len(b) + 1 - n
      /\ \A i \in 1..Len(R) : R[i] = Append(b, k)[n + i]
  BY <1>1, RestElements
<1>4. DOMAIN Q = 1..Len(Q) /\ DOMAIN R = 1..(Len(Q) + 1)
  BY <1>2, <1>3
<1>5. R[Len(Q) + 1] = k /\ \A i \in 1..Len(Q) : R[i] = Q[i]
  <2>1. Len(Q) + 1 \in 1..Len(R) /\ n + (Len(Q) + 1) = Len(b) + 1
    BY <1>2, <1>3
  <2>2. ASSUME NEW i \in 1..Len(Q)
        PROVE  i \in 1..Len(R) /\ n + i \in 1..Len(b) /\ Q[i] = b[n + i]
    BY <1>2, <1>3
  <2>3. R[Len(Q) + 1] = k
    BY <1>1, <1>3, <2>1
  <2>4. \A i \in 1..Len(Q) : R[i] = Q[i]
    BY <1>1, <1>3, <2>2
  <2> QED BY <2>3, <2>4
<1> HIDE DEF Q, R
<1>6. Len(Q) \in Nat
  BY <1>2
<1>7. ToSet(R) = ToSet(Q) \cup {k}
  BY <1>4, <1>5, <1>6 DEF ToSet
<1>8. IsInjective(Q) /\ k \notin ToSet(Q) => IsInjective(R)
  BY <1>4, <1>5, <1>6 DEF ToSet, IsInjective
<1> QED BY <1>7, <1>8 DEF Q, R

LEMMA RestTaken ==
  ASSUME NEW b \in Seq(Socks), NEW n \in 0..Len(b), n < Len(b)
  PROVE  LET Q == SubSeq(b, n + 1, Len(b))
             R == SubSeq(b, n + 1 + 1, Len(b))
         IN  /\ ToSet(Q) = ToSet(R) \cup {b[n + 1]}
             /\ IsInjective(Q) => IsInjective(R) /\ b[n + 1] \notin ToSet(R)
<1> DEFINE Q == SubSeq(b, n + 1, Len(b))
           R == SubSeq(b, n + 1 + 1, Len(b))
<1>1. /\ Q \in Seq(Socks) /\ Len(Q) = Len(b) - n
      /\ \A i \in 1..Len(Q) : Q[i] = b[n + i]
  BY RestElements
<1>2. /\ R \in Seq(Socks) /\ Len(R) = Len(b) - (n + 1)
      /\ \A i \in 1..Len(R) : R[i] = b[n + 1 + i]
  BY RestElements
<1>3. DOMAIN R = 1..Len(R) /\ DOMAIN Q = 1..(Len(R) + 1) /\ Len(R) \in Nat
  BY <1>1, <1>2
<1>4. Q[1] = b[n + 1] /\ \A i \in 1..Len(R) : R[i] = Q[i + 1]
  BY <1>1, <1>2
<1>5. \A i \in 1..(Len(R) + 1) : i = 1 \/ (i - 1 \in 1..Len(R) /\ Q[i] = R[i - 1])
  BY <1>3, <1>4
<1> HIDE DEF Q, R
<1>6. ToSet(Q) \subseteq ToSet(R) \cup {b[n + 1]}
  <2>1. ASSUME NEW i \in 1..(Len(R) + 1) PROVE Q[i] \in ToSet(R) \cup {b[n + 1]}
    <3>1. CASE i = 1
      BY <1>4, <3>1
    <3>2. CASE i # 1
      <4>1. i - 1 \in DOMAIN R /\ Q[i] = R[i - 1]
        BY <1>3, <1>5, <3>2, Zenon
      <4> QED BY <4>1 DEF ToSet
    <3> QED BY <3>1, <3>2
  <2> QED BY <1>3, <2>1, Zenon DEF ToSet
<1>7. ToSet(R) \cup {b[n + 1]} \subseteq ToSet(Q)
  BY <1>3, <1>4 DEF ToSet
<1>8. ASSUME IsInjective(Q) PROVE IsInjective(R) /\ b[n + 1] \notin ToSet(R)
  <2>1. \A i, j \in 1..(Len(R) + 1) : Q[i] = Q[j] => i = j
    BY <1>3, <1>8 DEF IsInjective
  <2>2. \A i \in 1..Len(R) : i + 1 \in 1..(Len(R) + 1) /\ i + 1 # 1 /\ 1 \in 1..(Len(R) + 1)
    BY <1>3
  <2>3. \A i, j \in 1..Len(R) : R[i] = R[j] => i = j
    <3> TAKE i, j \in 1..Len(R)
    <3>1. R[i] = Q[i + 1] /\ R[j] = Q[j + 1]
      BY <1>4, Zenon
    <3>2. i + 1 \in 1..(Len(R) + 1) /\ j + 1 \in 1..(Len(R) + 1)
      BY <2>2, Zenon
    <3>3. R[i] = R[j] => i + 1 = j + 1
      BY <2>1, <3>1, <3>2, Zenon
    <3> QED BY <1>3, <3>3
  <2>4. \A i \in 1..Len(R) : R[i] # b[n + 1]
    BY <1>4, <2>1, <2>2
  <2> QED BY <1>3, <2>3, <2>4 DEF ToSet, IsInjective
<1> QED BY <1>6, <1>7, <1>8 DEF Q, R
-------------------------------------------------------------------------------
(* What one thread does to the sockets of the others: nothing.             *)

\* Nothing about r changes when none of its variables does.
LEMMA SameServer ==
  ASSUME NEW r \in Servers,
         clients'[r] = clients[r], buff'[r] = buff[r], taken'[r] = taken[r], spc'[r] = spc[r],
         cur'[r] = cur[r], from'[r] = from[r], events'[r] = events[r], Local(r)
  PROVE  Held(r)' = Held(r) /\ Local(r)'
<1>1. Queue(r)' = Queue(r) /\ Stale(r)' = Stale(r) /\ Leaving(r)' = Leaving(r)
  BY DEF Queue, Stale, Leaving
<1>2. Mapped(r)' = Mapped(r)
  BY <1>1 DEF Mapped
<1>3. OnItsWay(r)' <=> OnItsWay(r)
  BY DEF OnItsWay
<1>4. Held(r)' = Held(r)
  BY <1>1, <1>2 DEF Held
<1>5. TakenFits(r)' /\ EventsFit(r)' /\ Apart(r)'
  BY <1>1, <1>2, <1>3 DEF Local, TakenFits, EventsFit, Apart
<1> QED BY <1>4, <1>5 DEF Local

\* A net thread closes only sockets it holds, and holds them no longer.
GivesUp(s) ==
  \E D \in SUBSET Held(s) : open' = open \ D /\ Held(s)' \subseteq Held(s) \ D

LEMMA SharedKept ==
  ASSUME Shared, NEW s \in Servers, GivesUp(s), UNCHANGED <<apc, acur>>,
         \A r \in Servers \ {s} : Held(r)' = Held(r)
  PROVE  Shared'
<1>1. InHand' = InHand
  BY DEF InHand
<1>2. PICK D \in SUBSET Held(s) : open' = open \ D /\ Held(s)' \subseteq Held(s) \ D
  BY DEF GivesUp
<1>3. InHand' \subseteq open'
  BY <1>1, <1>2 DEF Shared
<1>4. ASSUME NEW r \in Servers PROVE Held(r)' \subseteq open' \ InHand'
  <2>1. CASE r = s
    BY <1>1, <1>2, <2>1 DEF Shared
  <2>2. CASE r # s
    BY <1>1, <1>2, <2>2 DEF Shared
  <2> QED BY <2>1, <2>2
<1>5. ASSUME NEW q \in Servers, NEW r \in Servers \ {q} PROVE Held(q)' \cap Held(r)' = {}
  <2>1. Held(q)' \subseteq Held(q) /\ Held(r)' \subseteq Held(r)
    BY <1>2
  <2> QED BY <1>5, <2>1 DEF Shared
<1> QED BY <1>3, <1>4, <1>5 DEF Shared
-------------------------------------------------------------------------------
(* The steps of a net thread, seen from its own Server.                    *)

Calm == {"none", "top", "lock", "net", "check", "poll", "event", "msg", "exit", "exitLock", "clear",
         "wakeup", "store", "ended"}

\* The thread goes on without touching the clients.
LEMMA CalmStep ==
  ASSUME TypeInv, NEW s \in Servers, Local(s), spc[s] \in Calm, spc'[s] \in Calm \cup {"take"},
         spc[s] # "event" \/ events[s] = {}, open' = open,
         clients'[s] = clients[s], buff'[s] = buff[s], taken'[s] = taken[s],
         cur'[s] = cur[s], from'[s] = from[s], events'[s] = events[s]
  PROVE  Local(s)' /\ GivesUp(s)
<1> USE DEF Local
<1>1. Queue(s)' = Queue(s) /\ Stale(s) = {} /\ Stale(s)' = {}
      /\ Leaving(s) = {} /\ Leaving(s)' = {}
  BY DEF Queue, Stale, Leaving, Calm
<1>2. Mapped(s)' = Mapped(s)
  BY <1>1 DEF Mapped
<1>3. Held(s)' = Held(s)
  BY <1>1, <1>2 DEF Held
<1>4. TakenFits(s)'
  BY DEF TakenFits, Calm
<1>5. ~OnItsWay(s) /\ ~OnItsWay(s)'
  BY DEF OnItsWay, Calm
<1>6. EventsFit(s)'
  BY <1>5, Zenon DEF EventsFit, Calm
<1>7. Apart(s)'
  BY <1>1, <1>2 DEF Apart, Calm
<1>8. GivesUp(s)
  BY <1>3 DEF GivesUp
<1> QED BY <1>4, <1>6, <1>7, <1>8

\* From a failed send to the removal, and through OnNetLeave.
LEMMA LeaveStep ==
  ASSUME TypeInv, NEW s \in Servers, Local(s), NetSendFails(s) \/ NetLeave(s) \/ NetUnjoin(s)
  PROVE  Local(s)' /\ GivesUp(s)
<1> USE DEF Local
<1>1. /\ \/ spc[s] = "out" /\ spc'[s] = "remove"
         \/ spc[s] \in {"leave", "unjoin"} /\ spc'[s] \in {"unjoin", "delete"}
      /\ UNCHANGED <<open, clients, buff, taken, cur, from, events>>
  BY DEF TypeInv, TypeOK, NetSendFails, NetLeave, NetUnjoin, NetStep, NetGoTo, queueVars, sockVars
<1>2. /\ Queue(s)' = Queue(s) /\ Stale(s) = {} /\ Stale(s)' = {} /\ Leaving(s)' = Leaving(s)
      /\ OnItsWay(s)' <=> OnItsWay(s)
  BY <1>1 DEF Queue, Stale, Leaving, OnItsWay
<1>3. Mapped(s)' = Mapped(s)
  BY <1>1, <1>2 DEF Mapped
<1>4. GivesUp(s)
  BY <1>1, <1>2, <1>3 DEF GivesUp, Held
<1>5. TakenFits(s)'
  BY <1>1 DEF TakenFits
<1>6. EventsFit(s)'
  BY <1>1, <1>2 DEF EventsFit
<1>7. Apart(s)'
  BY <1>1, <1>2, <1>3 DEF Apart
<1> QED BY <1>4, <1>5, <1>6, <1>7

\* A buffered client enters the map; the lock is not even needed for this.
LEMMA TakeStep ==
  ASSUME TypeInv, NEW s \in Servers, Local(s), NetTake(s)
  PROVE  Local(s)' /\ GivesUp(s)
<1> USE DEF Local
<1> PICK k \in Socks : k = buff[s][taken[s] + 1]
  BY DEF NetTake, TypeInv, TypeOK
<1>1. /\ spc[s] = "take" /\ spc'[s] = "take" /\ taken[s] < Len(buff[s])
      /\ clients'[s] = clients[s] \cup {k} /\ taken'[s] = taken[s] + 1
      /\ UNCHANGED <<open, buff, cur, from, events>>
  BY DEF TypeInv, TypeOK, NetTake, NetGoTo
<1>2. /\ Stale(s) = {} /\ Stale(s)' = {} /\ Leaving(s) = {} /\ Leaving(s)' = {}
      /\ ~OnItsWay(s) /\ ~OnItsWay(s)'
  BY <1>1 DEF Stale, Leaving, OnItsWay
<1>3. /\ ToSet(Queue(s)) = ToSet(Queue(s)') \cup {k}
      /\ IsInjective(Queue(s)') /\ k \notin ToSet(Queue(s)')
  <2>1. buff[s] \in Seq(Socks) /\ taken[s] \in 0..Len(buff[s])
    BY <1>1 DEF TypeInv, TypeOK
  <2>2. Queue(s)' = SubSeq(buff[s], taken[s] + 1 + 1, Len(buff[s]))
    BY <1>1 DEF Queue
  <2> QED BY <1>1, <2>1, <2>2, RestTaken DEF Queue, Apart
<1>4. Mapped(s) = clients[s] /\ Mapped(s)' = clients[s] \cup {k}
  BY <1>1, <1>2 DEF Mapped
<1>5. Held(s)' = Held(s)
  BY <1>2, <1>3, <1>4 DEF Held
<1>6. GivesUp(s)
  BY <1>1, <1>5 DEF GivesUp
<1>7. TakenFits(s)'
  BY <1>1 DEF TakenFits, TypeInv, TypeOK
<1>8. EventsFit(s)'
  BY <1>1, <1>2 DEF EventsFit
<1>9. Apart(s)'
  <2>1. events[s] = {}
    BY <1>1, <1>2 DEF EventsFit, TypeInv, TypeOK
  <2>2. ToSet(Queue(s)') \cap clients[s] = {}
    BY <1>2, <1>3 DEF Apart
  <2> QED BY <1>1, <1>2, <1>3, <2>1, <2>2 DEF Apart
<1> QED BY <1>6, <1>7, <1>8, <1>9

\* The buffer is cleared when nothing in it is left to take, or on the way out.
LEMMA EmptyStep ==
  ASSUME TypeInv, NEW s \in Servers, Local(s), NetTaken(s) \/ NetClearEnd(s)
  PROVE  Local(s)' /\ GivesUp(s)
<1> USE DEF Local
<1>1. /\ spc[s] \in {"take", "clearEnd"} /\ spc'[s] \in {"net", "wakeup"}
      /\ buff'[s] = <<>> /\ taken'[s] = 0
      /\ UNCHANGED <<open, clients, cur, from, events>>
  BY DEF TypeInv, TypeOK, NetTaken, NetClearEnd, NetGoTo, sockVars
<1>2. /\ Stale(s) = {} /\ Stale(s)' = {} /\ Leaving(s) = {} /\ Leaving(s)' = {}
      /\ ~OnItsWay(s) /\ ~OnItsWay(s)'
  BY <1>1 DEF Stale, Leaving, OnItsWay
<1>3. Mapped(s)' = Mapped(s)
  BY <1>1, <1>2 DEF Mapped
<1>4. ToSet(Queue(s)') = {} /\ IsInjective(Queue(s)')
  <2>1. <<>> \in Seq(Socks) /\ Len(<<>>) = 0
    OBVIOUS
  <2>2. Queue(s)' = SubSeq(<<>>, Len(<<>>) + 1, Len(<<>>))
    BY <1>1, <2>1 DEF Queue
  <2> QED BY <2>1, <2>2, RestEmpty
<1>5. GivesUp(s)
  BY <1>1, <1>2, <1>3, <1>4 DEF GivesUp, Held
<1>6. TakenFits(s)'
  BY <1>1 DEF TakenFits
<1>7. EventsFit(s)'
  BY <1>1, <1>2 DEF EventsFit
<1>8. Apart(s)'
  BY <1>1, <1>2, <1>3, <1>4 DEF Apart
<1> QED BY <1>5, <1>6, <1>7, <1>8

\* CheckTime picks a client of the map.
LEMMA ExpireStep ==
  ASSUME TypeInv, NEW s \in Servers, Local(s), NEW k \in Socks, NetExpire(s, k)
  PROVE  Local(s)' /\ GivesUp(s)
<1> USE DEF Local
<1>1. /\ spc[s] = "check" /\ spc'[s] = "leave" /\ cur'[s] = k /\ k \in clients[s]
      /\ UNCHANGED <<open, clients, buff, taken, from, events>>
  BY DEF TypeInv, TypeOK, NetExpire, NetGoTo, sockVars, queueVars
<1>2. /\ Stale(s) = {} /\ Stale(s)' = {} /\ Leaving(s) = {} /\ Leaving(s)' = {k}
      /\ ~OnItsWay(s) /\ OnItsWay(s)' /\ Queue(s)' = Queue(s)
  BY <1>1 DEF Stale, Leaving, OnItsWay, Queue
<1>3. Mapped(s) = clients[s] /\ Mapped(s)' = clients[s]
  BY <1>1, <1>2 DEF Mapped
<1>4. from[s] = "check" /\ events[s] = {}
  BY <1>1, <1>2 DEF EventsFit, TypeInv, TypeOK
<1>5. GivesUp(s)
  BY <1>1, <1>2, <1>3 DEF GivesUp, Held
<1>6. TakenFits(s)'
  BY <1>1 DEF TakenFits
<1>7. EventsFit(s)'
  BY <1>1, <1>2, <1>4 DEF EventsFit
<1>8. Apart(s)'
  BY <1>1, <1>2, <1>3, <1>4 DEF Apart
<1> QED BY <1>5, <1>6, <1>7, <1>8

\* epoll_wait reports clients of the map.
LEMMA PollStep ==
  ASSUME TypeInv, NEW s \in Servers, Local(s), NetPoll(s)
  PROVE  Local(s)' /\ GivesUp(s)
<1> USE DEF Local
<1>1. /\ spc[s] = "poll" /\ spc'[s] = "event" /\ events'[s] \subseteq clients[s]
      /\ UNCHANGED <<open, clients, buff, taken, cur, from>>
  BY DEF TypeInv, TypeOK, NetPoll, NetGoTo, sockVars, queueVars
<1>2. /\ Stale(s) = {} /\ Stale(s)' = {} /\ Leaving(s) = {} /\ Leaving(s)' = {}
      /\ ~OnItsWay(s) /\ ~OnItsWay(s)' /\ Queue(s)' = Queue(s)
  BY <1>1 DEF Stale, Leaving, OnItsWay, Queue
<1>3. Mapped(s) = clients[s] /\ Mapped(s)' = clients[s]
  BY <1>1, <1>2 DEF Mapped
<1>4. GivesUp(s)
  BY <1>1, <1>2, <1>3 DEF GivesUp, Held
<1>5. TakenFits(s)' /\ EventsFit(s)'
  BY <1>1, <1>2 DEF TakenFits, EventsFit
<1>6. Apart(s)'
  BY <1>1, <1>2, <1>3 DEF Apart
<1> QED BY <1>4, <1>5, <1>6

\* The next event is taken from the list; its client is in the map and not
\* named by any event left.
LEMMA RecvStep ==
  ASSUME TypeInv, NEW s \in Servers, Local(s), NetRecv(s)
  PROVE  Local(s)' /\ GivesUp(s)
<1> USE DEF Local
<1>1. PICK k \in events[s] :
        /\ spc[s] = "event" /\ spc'[s] \in {"out", "remove"} /\ cur'[s] = k
        /\ events'[s] = events[s] \ {k} /\ from'[s] = "event"
        /\ UNCHANGED <<open, clients, buff, taken>>
  BY DEF TypeInv, TypeOK, NetRecv, NetGoTo, sockVars, queueVars
<1>2. /\ Stale(s) = {} /\ Stale(s)' = {} /\ Leaving(s) = {} /\ Leaving(s)' = {}
      /\ ~OnItsWay(s) /\ ~OnItsWay(s)' /\ Queue(s)' = Queue(s)
  BY <1>1 DEF Stale, Leaving, OnItsWay, Queue
<1>3. Mapped(s) = clients[s] /\ Mapped(s)' = clients[s]
  BY <1>1, <1>2 DEF Mapped
<1>4. GivesUp(s)
  BY <1>1, <1>2, <1>3 DEF GivesUp, Held
<1>5. TakenFits(s)' /\ EventsFit(s)'
  BY <1>1, <1>2 DEF TakenFits, EventsFit
<1>6. Apart(s)'
  BY <1>1, <1>2, <1>3 DEF Apart
<1> QED BY <1>4, <1>5, <1>6

LEMMA SendStep ==
  ASSUME TypeInv, NEW s \in Servers, Local(s), NetSend(s)
  PROVE  Local(s)' /\ GivesUp(s)
<1> USE DEF Local
<1>1. /\ spc[s] = "out" /\ spc'[s] = "event" /\ from'[s] = "check"
      /\ UNCHANGED <<open, clients, buff, taken, events>>
  BY DEF TypeInv, TypeOK, NetSend, NetGoTo, queueVars
<1>2. /\ Stale(s) = {} /\ Stale(s)' = {} /\ Leaving(s) = {} /\ Leaving(s)' = {}
      /\ ~OnItsWay(s) /\ ~OnItsWay(s)' /\ Queue(s)' = Queue(s)
  BY <1>1 DEF Stale, Leaving, OnItsWay, Queue
<1>3. Mapped(s) = clients[s] /\ Mapped(s)' = clients[s]
  BY <1>1, <1>2 DEF Mapped
<1>4. GivesUp(s)
  BY <1>1, <1>2, <1>3 DEF GivesUp, Held
<1>5. TakenFits(s)' /\ EventsFit(s)'
  BY <1>1, <1>2 DEF TakenFits, EventsFit
<1>6. Apart(s)'
  BY <1>1, <1>2, <1>3 DEF Apart
<1> QED BY <1>4, <1>5, <1>6

\* rmClient: out of the map, still in the hands of the thread.
LEMMA RemoveStep ==
  ASSUME TypeInv, NEW s \in Servers, Local(s), NetRemove(s)
  PROVE  Local(s)' /\ GivesUp(s)
<1> USE DEF Local
<1>1. /\ spc[s] = "remove" /\ spc'[s] = "leave" /\ clients'[s] = clients[s] \ {cur[s]}
      /\ UNCHANGED <<open, buff, taken, cur, from, events>>
  BY DEF TypeInv, TypeOK, NetRemove, NetGoTo, sockVars
<1>2. /\ Stale(s) = {} /\ Stale(s)' = {} /\ Leaving(s) = {} /\ Leaving(s)' = {cur[s]}
      /\ ~OnItsWay(s) /\ OnItsWay(s)' /\ Queue(s)' = Queue(s)
  BY <1>1 DEF Stale, Leaving, OnItsWay, Queue
<1>3. Mapped(s) = clients[s] /\ Mapped(s)' = clients[s] \ {cur[s]}
  BY <1>1, <1>2 DEF Mapped
<1>4. cur[s] \in clients[s] \ events[s]
  BY <1>1, <1>3 DEF Apart
<1>5. GivesUp(s)
  <2>1. Held(s)' = Held(s)
    BY <1>2, <1>3, <1>4 DEF Held
  <2>2. {} \in SUBSET Held(s) /\ open' = open \ {} /\ Held(s)' \subseteq Held(s) \ {}
    BY <1>1, <2>1
  <2> QED BY <2>2, Zenon DEF GivesUp
<1>6. TakenFits(s)' /\ EventsFit(s)'
  BY <1>1, <1>2 DEF TakenFits, EventsFit
<1>7. Apart(s)'
  BY <1>1, <1>2, <1>3, <1>4 DEF Apart
<1> QED BY <1>5, <1>6, <1>7

\* The client is deleted and its socket closed; CheckTime keeps a stale key.
LEMMA DeleteStep ==
  ASSUME TypeInv, NEW s \in Servers, Local(s), NetDelete(s)
  PROVE  Local(s)' /\ GivesUp(s)
<1> USE DEF Local
<1> DEFINE k == cur[s]
<1>1. /\ spc[s] = "delete" /\ open' = open \ {k} /\ from'[s] = "check"
      /\ IF from[s] = "check" THEN spc'[s] = "erase" /\ cur'[s] = k ELSE spc'[s] = "event"
      /\ UNCHANGED <<clients, buff, taken, events>>
  BY DEF TypeInv, TypeOK, NetDelete, NetGoTo, Destroy, queueVars
<1>2. /\ Stale(s) = {} /\ Leaving(s) = {k} /\ Leaving(s)' = {}
      /\ OnItsWay(s) /\ ~OnItsWay(s)' /\ Queue(s)' = Queue(s)
  BY <1>1 DEF Stale, Leaving, OnItsWay, Queue
<1>3. Stale(s)' = IF from[s] = "check" THEN {k} ELSE {}
  BY <1>1 DEF Stale
<1>4. Mapped(s) = clients[s] /\ Mapped(s)' = clients[s] \ {k}
  <2>1. from[s] # "check" => k \notin clients[s]
    BY <1>2 DEF EventsFit
  <2> QED BY <1>1, <1>2, <1>3, <2>1 DEF Mapped
<1>5. k \notin ToSet(Queue(s)) /\ ToSet(Queue(s)) \cap clients[s] = {}
  BY <1>2 DEF Apart
<1>6. GivesUp(s)
  <2>1. {k} \subseteq Held(s) /\ Held(s)' \subseteq Held(s) \ {k}
    BY <1>2, <1>4, <1>5 DEF Held
  <2> QED BY <1>1, <2>1 DEF GivesUp
<1>7. TakenFits(s)'
  BY <1>1 DEF TakenFits
<1>8. EventsFit(s)'
  BY <1>1, <1>2 DEF EventsFit
<1>9. Apart(s)'
  BY <1>1, <1>2, <1>4, <1>5 DEF Apart
<1> QED BY <1>6, <1>7, <1>8, <1>9

\* The stale key goes.
LEMMA EraseStep ==
  ASSUME TypeInv, NEW s \in Servers, Local(s), NetErase(s)
  PROVE  Local(s)' /\ GivesUp(s)
<1> USE DEF Local
<1>1. /\ spc[s] = "erase" /\ spc'[s] = "check" /\ clients'[s] = clients[s] \ {cur[s]}
      /\ UNCHANGED <<open, buff, taken, from, events>>
  BY DEF TypeInv, TypeOK, NetErase, NetGoTo, sockVars
<1>2. /\ Stale(s) = {cur[s]} /\ Stale(s)' = {} /\ Leaving(s) = {} /\ Leaving(s)' = {}
      /\ ~OnItsWay(s) /\ ~OnItsWay(s)' /\ Queue(s)' = Queue(s)
  BY <1>1 DEF Stale, Leaving, OnItsWay, Queue
<1>3. Mapped(s)' = Mapped(s)
  BY <1>1, <1>2 DEF Mapped
<1>4. GivesUp(s)
  BY <1>1, <1>2, <1>3 DEF GivesUp, Held
<1>5. TakenFits(s)' /\ EventsFit(s)'
  BY <1>1, <1>2 DEF TakenFits, EventsFit
<1>6. Apart(s)'
  BY <1>1, <1>2, <1>3 DEF Apart
<1> QED BY <1>4, <1>5, <1>6

\* ClearClients, first the map, then the buffer, none of which was taken.
LEMMA ClearStep ==
  ASSUME TypeInv, NEW s \in Servers, Local(s), NetClear(s) \/ NetClearBuff(s)
  PROVE  Local(s)' /\ GivesUp(s)
<1> USE DEF Local
<1>1. /\ spc[s] \in {"clear", "clearBuff"} /\ spc'[s] \in {"clearBuff", "clearEnd"}
      /\ UNCHANGED <<buff, cur, from, events>>
  BY DEF TypeInv, TypeOK, NetClear, NetClearBuff, NetGoTo
<1>2. /\ Stale(s) = {} /\ Stale(s)' = {} /\ Leaving(s) = {} /\ Leaving(s)' = {}
      /\ ~OnItsWay(s) /\ ~OnItsWay(s)'
  BY <1>1 DEF Stale, Leaving, OnItsWay
<1>3. Mapped(s) = clients[s] /\ Mapped(s)' = clients'[s]
  BY <1>2 DEF Mapped
<1>4. /\ events[s] = {} /\ taken[s] = 0 /\ ToSet(Queue(s)) \cap clients[s] = {}
      /\ EventsFit(s)'
  BY <1>1, <1>2 DEF EventsFit, TakenFits, Apart, TypeInv, TypeOK
<1>5. CASE NetClear(s)
  <2>1. spc'[s] = "clearBuff" /\ open' = open \ clients[s] /\ clients'[s] = {} /\ taken' = taken
    BY <1>5 DEF TypeInv, TypeOK, NetClear, NetGoTo, Destroy
  <2>2. Queue(s)' = Queue(s)
    BY <1>1, <2>1 DEF Queue
  <2>3. GivesUp(s)
    BY <1>2, <1>3, <1>4, <2>1, <2>2 DEF GivesUp, Held
  <2>4. TakenFits(s)'
    BY <1>1, <1>4, <2>1 DEF TakenFits
  <2>5. Apart(s)'
    BY <1>1, <1>2, <1>3, <1>4, <2>1, <2>2 DEF Apart
  <2> QED BY <1>4, <2>3, <2>4, <2>5
<1>6. CASE NetClearBuff(s)
  <2>1. /\ spc'[s] = "clearEnd" /\ open' = open \ ToSet(buff[s]) /\ clients' = clients
        /\ taken'[s] = Len(buff[s]) /\ buff[s] \in Seq(Socks)
    BY <1>6 DEF TypeInv, TypeOK, NetClearBuff, NetGoTo, Destroy
  <2>2. Queue(s) = buff[s]
    BY <1>4, <2>1 DEF Queue
  <2>3. ToSet(Queue(s)') = {} /\ IsInjective(Queue(s)')
    BY <1>1, <2>1, RestEmpty DEF Queue
  <2>4. GivesUp(s)
    <3>1. Held(s) = clients[s] \cup ToSet(buff[s]) /\ Held(s)' = clients[s]
      BY <1>2, <1>3, <2>1, <2>2, <2>3 DEF Held
    <3>2. Held(s)' \subseteq Held(s) \ ToSet(buff[s])
      BY <1>4, <2>2, <3>1
    <3> QED BY <2>1, <3>1, <3>2 DEF GivesUp
  <2>5. TakenFits(s)'
    BY <1>1, <2>1 DEF TakenFits
  <2>6. Apart(s)'
    BY <1>1, <1>2, <1>3, <1>4, <2>3 DEF Apart
  <2> QED BY <1>4, <2>4, <2>5, <2>6
<1> QED BY <1>5, <1>6

\* All of them together.
LEMMA NetLocal ==
  ASSUME TypeInv, NEW s \in Servers, Local(s), NetThread(s)
  PROVE  Local(s)' /\ GivesUp(s)
<1>1. CASE \/ NetStop(s) \/ NetTurn(s) \/ NetRun(s) \/ NetChecked(s) \/ NetPolled(s)
           \/ NetExitTest(s) \/ NetPollFails(s) \/ NetMsg(s) \/ NetLock(s)
           \/ NetExitStore(s) \/ NetSignal(s) \/ NetLastStore(s)
  <2>1. /\ UNCHANGED <<open, clients, buff, taken, cur, from, events>>
        /\ spc[s] # "event" \/ events[s] = {}
    BY <1>1 DEF NetStop, NetTurn, NetRun, NetChecked, NetPolled, NetExitTest, NetPollFails,
         NetMsg, NetLock, NetExitStore, NetSignal, NetLastStore, NetStep, NetGoTo, queueVars,
         sockVars
  <2>2. spc[s] \in Calm /\ spc'[s] \in Calm \cup {"take"}
    BY <1>1 DEF TypeInv, TypeOK, Calm, NetStop, NetTurn, NetRun, NetChecked, NetPolled,
         NetExitTest, NetPollFails, NetMsg, NetLock, NetExitStore, NetSignal, NetLastStore,
         NetStep, NetGoTo
  <2> QED BY <2>1, <2>2, CalmStep
<1> QED BY <1>1, LeaveStep, TakeStep, EmptyStep, ExpireStep, PollStep, RecvStep, SendStep,
           RemoveStep, DeleteStep, EraseStep, ClearStep DEF NetThread

\* A net thread changes the variables of its own Server only.
LEMMA NetFrame ==
  ASSUME TypeInv, NEW s \in Servers, NEW r \in Servers \ {s}, NetThread(s)
  PROVE  /\ clients'[r] = clients[r] /\ buff'[r] = buff[r] /\ taken'[r] = taken[r]
         /\ spc'[r] = spc[r] /\ cur'[r] = cur[r] /\ from'[r] = from[r]
         /\ events'[r] = events[r]
<1> USE DEF TypeInv, TypeOK
<1>1. clients'[r] = clients[r]
  BY DEF queueVars,
         NetThread, NetStop, NetTurn, NetLock, NetTake, NetTaken, NetRun, NetExpire,
         NetChecked, NetPoll, NetPollFails, NetRecv, NetSend, NetSendFails, NetPolled, NetMsg,
         NetRemove, NetLeave, NetUnjoin, NetDelete, NetErase, NetExitTest, NetExitStore,
         NetClear, NetClearBuff, NetClearEnd, NetSignal, NetLastStore, NetStep
<1>2. buff'[r] = buff[r] /\ taken'[r] = taken[r]
  BY DEF queueVars,
         NetThread, NetStop, NetTurn, NetLock, NetTake, NetTaken, NetRun, NetExpire,
         NetChecked, NetPoll, NetPollFails, NetRecv, NetSend, NetSendFails, NetPolled, NetMsg,
         NetRemove, NetLeave, NetUnjoin, NetDelete, NetErase, NetExitTest, NetExitStore,
         NetClear, NetClearBuff, NetClearEnd, NetSignal, NetLastStore, NetStep
<1>3. spc'[r] = spc[r]
  BY DEF NetGoTo,
         NetThread, NetStop, NetTurn, NetLock, NetTake, NetTaken, NetRun, NetExpire,
         NetChecked, NetPoll, NetPollFails, NetRecv, NetSend, NetSendFails, NetPolled, NetMsg,
         NetRemove, NetLeave, NetUnjoin, NetDelete, NetErase, NetExitTest, NetExitStore,
         NetClear, NetClearBuff, NetClearEnd, NetSignal, NetLastStore, NetStep
<1>4. cur'[r] = cur[r] /\ from'[r] = from[r]
  BY DEF NetThread, NetStop, NetTurn, NetLock, NetTake, NetTaken, NetRun, NetExpire,
         NetChecked, NetPoll, NetPollFails, NetRecv, NetSend, NetSendFails, NetPolled, NetMsg,
         NetRemove, NetLeave, NetUnjoin, NetDelete, NetErase, NetExitTest, NetExitStore,
         NetClear, NetClearBuff, NetClearEnd, NetSignal, NetLastStore, NetStep
<1>5. events'[r] = events[r]
  BY DEF NetThread, NetStop, NetTurn, NetLock, NetTake, NetTaken, NetRun, NetExpire,
         NetChecked, NetPoll, NetPollFails, NetRecv, NetSend, NetSendFails, NetPolled, NetMsg,
         NetRemove, NetLeave, NetUnjoin, NetDelete, NetErase, NetExitTest, NetExitStore,
         NetClear, NetClearBuff, NetClearEnd, NetSignal, NetLastStore, NetStep
<1> QED BY <1>1, <1>2, <1>3, <1>4, <1>5

LEMMA NetKeeps ==
  ASSUME OwnerInv, NEW s \in Servers, NetThread(s)
  PROVE  (\A r \in Servers : Local(r)') /\ Shared'
<1>1. Local(s)' /\ GivesUp(s)
  BY NetLocal DEF OwnerInv
<1>2. \A r \in Servers \ {s} : Held(r)' = Held(r) /\ Local(r)'
  BY NetFrame, SameServer DEF OwnerInv
<1>3. UNCHANGED <<apc, acur>>
  BY DEF NetGoTo, notNet, acceptVars,
         NetThread, NetStop, NetTurn, NetLock, NetTake, NetTaken, NetRun, NetExpire,
         NetChecked, NetPoll, NetPollFails, NetRecv, NetSend, NetSendFails, NetPolled, NetMsg,
         NetRemove, NetLeave, NetUnjoin, NetDelete, NetErase, NetExitTest, NetExitStore,
         NetClear, NetClearBuff, NetClearEnd, NetSignal, NetLastStore, NetStep
<1> QED BY <1>1, <1>2, <1>3, SharedKept DEF OwnerInv
-------------------------------------------------------------------------------
(* The accept thread: a socket is new, or was in its hand.                 *)

LEMMA AcceptKeeps ==
  ASSUME OwnerInv, AcceptThread
  PROVE  (\A s \in Servers : Local(s)') /\ Shared'
<1> USE DEF OwnerInv
<1>1. ASSUME UNCHANGED <<queueVars, netVars>>
      PROVE  \A s \in Servers : Held(s)' = Held(s) /\ Local(s)'
  BY <1>1, SameServer DEF queueVars, netVars
<1>2. CASE AcceptConnection
  <2>1. PICK k \in Socks \ open : open' = open \cup {k} /\ InHand' = {k} /\ InHand = {}
    BY <1>2 DEF AcceptConnection, InHand
  <2>2. UNCHANGED <<queueVars, netVars>>
    BY <1>2 DEF AcceptConnection, notAccept
  <2> QED BY <1>1, <2>1, <2>2 DEF Shared
<1>3. CASE AcceptRefuse
  <2>1. InHand = {acur} /\ InHand' = {} /\ open' = open \ {acur}
    BY <1>3 DEF AcceptRefuse, InHand, Destroy
  <2>2. UNCHANGED <<queueVars, netVars>>
    BY <1>3 DEF AcceptRefuse, notAccept
  <2> QED BY <1>1, <2>1, <2>2 DEF Shared
<1>4. CASE AcceptAdd
  <2> PICK s \in Servers, k \in Socks : s = amin /\ k = acur
    BY <1>4 DEF AcceptAdd, TypeInv, TypeOK, InHandTyped
  <2>1. /\ InHand = {k} /\ InHand' = {} /\ open' = open
        /\ buff'[s] = Append(buff[s], k) /\ \A r \in Servers \ {s} : buff'[r] = buff[r]
        /\ UNCHANGED <<clients, taken, netVars>>
    BY <1>4 DEF AcceptAdd, InHand, TypeInv, TypeOK, InHandTyped, sockVars
  <2>2. \A r \in Servers \ {s} : Held(r)' = Held(r) /\ Local(r)'
    BY <2>1, SameServer DEF netVars
  <2>3. /\ buff[s] \in Seq(Socks) /\ taken[s] \in 0..Len(buff[s])
        /\ Len(buff'[s]) = Len(buff[s]) + 1
    BY <2>1 DEF Local, TakenFits, TypeInv, TypeOK
  <2>4. Stale(s)' = Stale(s) /\ Leaving(s)' = Leaving(s) /\ (OnItsWay(s)' <=> OnItsWay(s))
    BY <2>1 DEF Stale, Leaving, OnItsWay, netVars
  <2>5. Mapped(s)' = Mapped(s)
    BY <2>1, <2>4 DEF Mapped
  <2>6. k \in open /\ k \notin Mapped(s) \cup ToSet(Queue(s)) \cup Leaving(s)
    BY <2>1 DEF Shared, Held
  <2>7. ToSet(Queue(s)') = ToSet(Queue(s)) \cup {k} /\ IsInjective(Queue(s)')
    <3>1. Queue(s)' = SubSeq(Append(buff[s], k), taken[s] + 1, Len(Append(buff[s], k)))
      BY <2>1 DEF Queue
    <3>2. IsInjective(Queue(s))
      BY <2>1 DEF Local, Apart
    <3> DEFINE b == buff[s]
               n == taken[s]
    <3>3. b \in Seq(Socks) /\ n \in 0..Len(b) /\ Queue(s) = SubSeq(b, n + 1, Len(b))
      BY <2>3 DEF Queue
    <3>4. k \notin ToSet(Queue(s))
      BY <2>6
    <3> HIDE DEF b, n
    <3>5. LET R == SubSeq(Append(b, k), n + 1, Len(Append(b, k)))
          IN  ToSet(R) = ToSet(Queue(s)) \cup {k} /\ IsInjective(R)
      BY <3>2, <3>3, <3>4, RestOfAppended
    <3> QED BY <3>1, <3>5 DEF b, n
  <2>8. TakenFits(s)'
    BY <2>1, <2>3 DEF Local, TakenFits, netVars
  <2>9. EventsFit(s)'
    BY <2>1, <2>4 DEF Local, EventsFit, netVars
  <2>10. Apart(s)'
    <3>1. ToSet(Queue(s)') \cap (clients[s] \cup Leaving(s)) \subseteq Stale(s)
      <4>1. k \in clients[s] => k \in Stale(s)
        BY <2>6 DEF Mapped
      <4> QED BY <2>1, <2>6, <2>7, <4>1 DEF Local, Apart
    <3> QED BY <2>1, <2>4, <2>5, <2>7, <3>1 DEF Local, Apart, netVars
  <2>11. Held(s)' = Held(s) \cup {k}
    BY <2>4, <2>5, <2>7 DEF Held
  <2>12. Shared'
    <3>1. \A r \in Servers : k \notin Held(r) /\ Held(r) \subseteq open
      BY <2>1 DEF Shared
    <3>2. \A r \in Servers : Held(r)' \subseteq open' \ InHand'
      BY <2>1, <2>2, <2>6, <2>11, <3>1
    <3>3. ASSUME NEW q \in Servers, NEW r \in Servers \ {q} PROVE Held(q)' \cap Held(r)' = {}
      <4>1. Held(q) \cap Held(r) = {}
        BY <3>3 DEF Shared
      <4> QED BY <2>2, <2>11, <3>1, <4>1
    <3> QED BY <2>1, <3>2, <3>3 DEF Shared
  <2> QED BY <2>1, <2>2, <2>8, <2>9, <2>10, <2>12 DEF Local
<1>5. CASE UNCHANGED <<open, InHand, queueVars, netVars>>
  BY <1>1, <1>5 DEF Shared
<1>6. \/ AcceptConnection \/ AcceptRefuse \/ AcceptAdd
      \/ UNCHANGED <<open, InHand, queueVars, netVars>>
  <2>1. \/ AcceptConnection \/ AcceptRefuse \/ AcceptAdd
        \/ UNCHANGED <<open, queueVars, netVars>>
    BY DEF AcceptThread, AcceptLimit, AcceptCount, AcceptScan, AcceptPollFails, AcceptExitTest,
           AcceptExitStore, AcceptStop, AcceptSignal, AcceptLastStore, AcceptGoTo, notAccept,
           sockVars
  <2>2. \/ AcceptConnection \/ AcceptRefuse \/ AcceptAdd \/ InHand' = InHand
    BY DEF AcceptThread, AcceptLimit, AcceptCount, AcceptScan, AcceptPollFails, AcceptExitTest,
           AcceptExitStore, AcceptStop, AcceptSignal, AcceptLastStore, AcceptGoTo, InHand
  <2> QED BY <2>1, <2>2
<1> QED BY <1>2, <1>3, <1>4, <1>5, <1>6
-------------------------------------------------------------------------------
(* Main: a new Server holds nothing, and neither did the one before it.    *)

LEMMA MainKeeps ==
  ASSUME OwnerInv, MainThread \/ Close
  PROVE  (\A s \in Servers : Local(s)') /\ Shared'
<1> USE DEF OwnerInv
<1>1. ASSUME NEW s \in Servers, StartTask(s)
      PROVE  (\A r \in Servers : Local(r)') /\ Shared'
  <2>1. /\ spc[s] \in {"none", "ended"} /\ spc'[s] = "none"
        /\ clients'[s] = {} /\ buff'[s] = <<>>
        /\ \A r \in Servers \ {s} :
              clients'[r] = clients[r] /\ buff'[r] = buff[r] /\ spc'[r] = spc[r]
        /\ UNCHANGED <<open, taken, cur, from, events, apc, acur>>
    BY <1>1 DEF StartTask, TypeInv, TypeOK, acceptVars, sockVars
  <2>2. \A r \in Servers \ {s} : Held(r)' = Held(r) /\ Local(r)'
    BY <2>1, SameServer
  <2>3. /\ Stale(s)' = {} /\ Leaving(s)' = {} /\ ~OnItsWay(s) /\ ~OnItsWay(s)'
    BY <2>1 DEF Stale, Leaving, OnItsWay
  <2>4. Mapped(s)' = {}
    BY <2>1 DEF Mapped
  <2>5. taken[s] = 0 /\ from[s] = "check" /\ events[s] = {}
    BY <2>1, <2>3 DEF Local, TakenFits, EventsFit, TypeInv, TypeOK
  <2>6. ToSet(Queue(s)') = {} /\ IsInjective(Queue(s)')
    <3>1. <<>> \in Seq(Socks) /\ Len(<<>>) = 0
      OBVIOUS
    <3>2. Queue(s)' = SubSeq(<<>>, Len(<<>>) + 1, Len(<<>>))
      BY <2>1, <2>5, <3>1 DEF Queue
    <3> QED BY <3>1, <3>2, RestEmpty
  <2>7. Local(s)'
    <3>1. TakenFits(s)'
      BY <2>1, <2>5 DEF TakenFits
    <3>2. EventsFit(s)'
      BY <2>1, <2>3, <2>5 DEF EventsFit
    <3>3. Apart(s)'
      BY <2>1, <2>3, <2>4, <2>5, <2>6 DEF Apart
    <3> QED BY <3>1, <3>2, <3>3 DEF Local
  <2>8. GivesUp(s)
    BY <2>1, <2>3, <2>4, <2>6 DEF GivesUp, Held
  <2> QED BY <2>1, <2>2, <2>7, <2>8, SharedKept
<1>2. ASSUME NEW s \in Servers, StartNet(s)
      PROVE  (\A r \in Servers : Local(r)') /\ Shared'
  <2>1. /\ spc'[s] = "top" /\ \A r \in Servers \ {s} : spc'[r] = spc[r]
        /\ UNCHANGED <<open, queueVars, cur, from, events, apc, acur>>
    BY <1>2 DEF StartNet, TypeInv, TypeOK, acceptVars, sockVars
  <2>2. \A r \in Servers \ {s} : Held(r)' = Held(r) /\ Local(r)'
    BY <2>1, SameServer DEF queueVars
  <2>3. spc[s] = "none" /\ events[s] = {}
    <3>1. spc[s] = "none"
      BY <1>2 DEF Fresh, StartNet
    <3> QED BY <3>1 DEF Local, EventsFit, OnItsWay, TypeInv, TypeOK
  <2>4. Local(s)' /\ GivesUp(s)
    BY <2>1, <2>3, CalmStep DEF Calm, queueVars
  <2> QED BY <2>1, <2>2, <2>4, SharedKept
<1>3. CASE UNCHANGED <<open, InHand, queueVars, netVars>>
  <2>1. \A s \in Servers : Held(s)' = Held(s) /\ Local(s)'
    BY <1>3, SameServer DEF queueVars, netVars
  <2> QED BY <1>3, <2>1 DEF Shared
<1>4. \/ \E s \in Servers : StartTask(s) \/ StartNet(s)
      \/ UNCHANGED <<open, InHand, queueVars, netVars>>
  BY DEF MainThread, StartAccept, CloseThread, CloseBlock, CloseReturn, Close, notMain,
         acceptVars, sockVars, InHand
<1> QED BY <1>1, <1>2, <1>3, <1>4

-------------------------------------------------------------------------------
(* All together.                                                           *)

LEMMA FreshKept ==
  ASSUME OwnerInv, [Next]_vars
  PROVE  Fresh'
<1> SUFFICES ASSUME NEW s \in Servers, mpc' = "start", midx' = Net(s)
             PROVE  spc'[s] = "none"
  BY DEF Fresh
<1>1. /\ Net(s) # Accept /\ \A r \in Servers : Net(s) # Task(r) /\ (Net(s) = Net(r) => s = r)
      /\ Net(s) # Task(1) /\ \A r \in Servers : Net(s) # Task(r + 1)
  BY CellAssumption DEF Servers, Net, Task, Accept
<1>2. CASE \/ \E k \in Socks : PeerCloses(k)
           \/ AcceptThread
           \/ \E r \in Servers : TaskThread(r)
           \/ UNCHANGED vars
  <2>1. UNCHANGED <<mpc, midx, spc>>
    BY <1>2 DEF PeerCloses, vars, netVars, mainVars, AcceptThread, AcceptConnection, AcceptLimit,
         AcceptRefuse, AcceptCount, AcceptScan, AcceptAdd, AcceptPollFails, AcceptExitTest,
         AcceptExitStore, AcceptStop, AcceptSignal, AcceptLastStore, AcceptGoTo, notAccept,
         TaskThread, TaskStop, TaskSignal, TaskLastStore, TaskGoTo
  <2> QED BY <2>1 DEF OwnerInv, Fresh
<1>3. ASSUME NEW r \in Servers, NetThread(r) PROVE spc'[s] = "none"
  <2>1. UNCHANGED <<mpc, midx>> /\ spc[r] # "none"
    BY <1>3 DEF NetGoTo, notNet, mainVars,
         NetThread, NetStop, NetTurn, NetLock, NetTake, NetTaken, NetRun, NetExpire,
         NetChecked, NetPoll, NetPollFails, NetRecv, NetSend, NetSendFails, NetPolled, NetMsg,
         NetRemove, NetLeave, NetUnjoin, NetDelete, NetErase, NetExitTest, NetExitStore,
         NetClear, NetClearBuff, NetClearEnd, NetSignal, NetLastStore, NetStep
  <2>2. spc[s] = "none"
    BY <2>1 DEF OwnerInv, Fresh
  <2>3. spc'[s] = spc[s]
    BY <1>3, <2>1, <2>2, NetFrame DEF OwnerInv
  <2> QED BY <2>2, <2>3
<1>4. ASSUME NEW r \in Servers, StartTask(r) PROVE spc'[s] = "none"
  BY <1>1, <1>4 DEF StartTask, OwnerInv, TypeInv, TypeOK
<1>5. ASSUME NEW r \in Servers, StartNet(r) PROVE FALSE
  BY <1>1, <1>5 DEF StartNet
<1>6. CASE StartAccept \/ CloseThread \/ CloseBlock \/ CloseReturn \/ Close
  <2>1. midx' = Task(1) \/ mpc' # "start"
    BY <1>6 DEF StartAccept, CloseThread, CloseBlock, CloseReturn, Close, NextThread
  <2> QED BY <1>1, <2>1
<1> QED BY <1>2, <1>3, <1>4, <1>5, <1>6 DEF Next, MainThread

LEMMA OwnerStep ==
  ASSUME OwnerInv, [Next]_vars
  PROVE  OwnerInv'
<1>1. TypeInv'
  BY TypeStep DEF OwnerInv
<1>2. Fresh'
  BY FreshKept
<1>3. (\A s \in Servers : Local(s)') /\ Shared'
  <2>1. CASE \/ \E k \in Socks : PeerCloses(k)
             \/ \E s \in Servers : TaskThread(s)
             \/ UNCHANGED vars
    <3>1. UNCHANGED <<open, apc, acur, clients, buff, taken, netVars>>
      BY <2>1 DEF PeerCloses, vars, acceptVars, queueVars, sockVars, TaskThread, TaskStop,
           TaskSignal, TaskLastStore, TaskGoTo
    <3>2. \A s \in Servers : Held(s)' = Held(s) /\ Local(s)'
      BY <3>1, SameServer DEF netVars, OwnerInv
    <3>3. InHand' = InHand
      BY <3>1 DEF InHand
    <3> QED BY <3>1, <3>2, <3>3 DEF OwnerInv, Shared
  <2> QED BY <2>1, AcceptKeeps, NetKeeps, MainKeeps DEF Next
<1> QED BY <1>1, <1>2, <1>3 DEF OwnerInv

LEMMA OwnerInit ==
  ASSUME Init
  PROVE  OwnerInv
<1>1. TypeInv
  BY TypeInit
<1>2. ASSUME NEW s \in Servers
      PROVE  /\ clients[s] = {} /\ buff[s] = <<>> /\ taken[s] = 0 /\ spc[s] = "none"
             /\ from[s] = "check" /\ events[s] = {}
  BY <1>2 DEF Init
<1>3. ASSUME NEW s \in Servers
      PROVE  /\ Stale(s) = {} /\ Leaving(s) = {} /\ Mapped(s) = {} /\ ~OnItsWay(s)
             /\ ToSet(Queue(s)) = {} /\ IsInjective(Queue(s))
  <2>1. <<>> \in Seq(Socks) /\ Len(<<>>) = 0
    OBVIOUS
  <2>2. Queue(s) = SubSeq(<<>>, Len(<<>>) + 1, Len(<<>>))
    BY <1>2, <2>1 DEF Queue
  <2>3. ToSet(Queue(s)) = {} /\ IsInjective(Queue(s))
    BY <2>1, <2>2, RestEmpty
  <2> QED BY <1>2, <2>3 DEF Stale, Leaving, Mapped, OnItsWay
<1>4. ASSUME NEW s \in Servers PROVE Local(s) /\ Held(s) = {}
  <2>1. TakenFits(s)
    BY <1>2 DEF TakenFits
  <2>2. EventsFit(s)
    BY <1>2, <1>3 DEF EventsFit
  <2>3. Apart(s)
    BY <1>2, <1>3 DEF Apart
  <2>4. Held(s) = {}
    BY <1>3 DEF Held
  <2> QED BY <2>1, <2>2, <2>3, <2>4 DEF Local
<1>5. Shared
  BY <1>4 DEF Init, InHand, Shared
<1>6. Fresh
  BY <1>2 DEF Fresh
<1> QED BY <1>1, <1>4, <1>5, <1>6 DEF OwnerInv

\* In every run no socket has two owners, whoever holds a socket holds an open
\* one, and no event or removal concerns a client that has been deleted: the
\* accept thread, the buffers, the maps and the clients on their way out never
\* share one (addClientToCELLServer, Server::OnRun, CheckTime, ClearClients).
THEOREM OneOwnerKept == Spec => []OneOwner
<1>1. OwnerInv => OneOwner
  <2> SUFFICES ASSUME OwnerInv, NEW s \in Servers
               PROVE  /\ events[s] \subseteq Mapped(s) \ Leaving(s)
                      /\ spc[s] \in {"out", "remove"} => cur[s] \in Mapped(s) \ events[s]
                      /\ IsInjective(Queue(s))
                      /\ ToSet(Queue(s)) \cap clients[s] \subseteq Stale(s)
    BY DEF OneOwner, OwnerInv, Shared
  <2>1. Apart(s)
    BY DEF OwnerInv, Local
  <2> QED BY <2>1 DEF Apart
<1>2. OwnerInv /\ [Next]_vars => OwnerInv'
  BY OwnerStep
<1>3. Init => OwnerInv
  BY OwnerInit
<1> QED BY <1>1, <1>2, <1>3, PTL DEF Spec
-------------------------------------------------------------------------------
(* The counters                                                            *)

(***************************************************************************)
(* Each counter belongs to a set of sockets.  A client is in the first one *)
(* from the increment of AcceptClient to the decrement of OnNetLeave, in   *)
(* the second one from OnNetJoin on.  A Server whose map was cleared, or   *)
(* is not there yet, has no joined client left that a restart could lose.  *)
(***************************************************************************)
Untested == IF apc \in {"limit", "refuse", "count"} THEN {acur} ELSE {}

Counted == open \ Uncounted
AllJoined == UNION {Joined(s) : s \in Servers}

Emptied(s) ==
  spc[s] \in {"none", "clearBuff", "clearEnd", "wakeup", "store", "ended"} => clients[s] = {}

CountInv == OwnerInv /\ CountersExact /\ \A s \in Servers : Emptied(s)

LEMMA CountedParts ==
  /\ Uncounted = Untested \cup UNION {Left(s) : s \in Servers}
  /\ Uncounted' = Untested' \cup UNION {Left(s)' : s \in Servers}
BY DEF Uncounted, Untested, Left

\* What is counted is finite.
LEMMA CountedFinite ==
  ASSUME OwnerInv
  PROVE  IsFiniteSet(Counted) /\ IsFiniteSet(AllJoined) /\ \A s \in Servers : Joined(s) \subseteq Held(s)
<1>1. \A s \in Servers : Joined(s) \subseteq Held(s) /\ Held(s) \subseteq Socks
  BY DEF OwnerInv, TypeInv, TypeOK, Shared, Joined, Held
<1>2. Counted \subseteq Socks /\ AllJoined \subseteq Socks
  BY <1>1 DEF Counted, AllJoined, OwnerInv, TypeInv, TypeOK
<1> QED BY <1>1, <1>2, CellAssumption, FS_Subset

\* An element fewer, an element more.
LEMMA FewerCounted ==
  ASSUME NEW S, IsFiniteSet(S), NEW D \in SUBSET S
  PROVE  Cardinality(S \ D) = Cardinality(S) - Cardinality(D) /\ Cardinality(D) \in Nat
         /\ Cardinality(S) \in Nat
<1>1. S \cap D = D /\ IsFiniteSet(D)
  BY FS_Subset
<1> QED BY <1>1, FS_Difference, FS_CardinalityType

\* As many elements as positions.
LEMMA InjectiveCount ==
  ASSUME NEW b \in Seq(Socks), IsInjective(b)
  PROVE  Cardinality(ToSet(b)) = Len(b)
<1> DEFINE D == 1..Len(b)
<1>1. Len(b) \in Nat /\ DOMAIN b = D
  OBVIOUS
<1>2. IsFiniteSet(D) /\ Cardinality(D) = Len(b)
  BY <1>1, FS_Interval
<1>3. b \in Bijection(D, ToSet(b))
  BY <1>1 DEF IsInjective, ToSet, Bijection, Injection, Surjection
<1>4. ExistsBijection(D, ToSet(b))
  BY <1>3 DEF ExistsBijection
<1> QED BY <1>2, <1>4, FS_Bijection
-------------------------------------------------------------------------------
(* A net thread that closes or ceases to count sockets does so with its    *)
(* own ones, so the sets of all the Servers together lose just these.      *)

LEMMA CountedLoses ==
  ASSUME OwnerInv, NEW s \in Servers, NEW D \in SUBSET (Held(s) \ Left(s)),
         open' \ Left(s)' = (open \ Left(s)) \ D, UNCHANGED <<apc, acur>>,
         \A r \in Servers \ {s} : spc'[r] = spc[r] /\ cur'[r] = cur[r]
  PROVE  D \subseteq Counted /\ Counted' = Counted \ D
<1>1. Untested' = Untested /\ \A r \in Servers \ {s} : Left(r)' = Left(r)
  BY DEF Untested, Left
<1>2. ASSUME NEW k \in D
      PROVE  k \in open /\ k \notin Untested /\ \A r \in Servers : k \notin Left(r)
  <2>1. k \in Held(s) /\ k \notin Left(s) /\ k \in open /\ k \notin InHand
    BY DEF OwnerInv, Shared
  <2>2. k \notin Untested
    BY <2>1 DEF Untested, InHand
  <2>3. ASSUME NEW r \in Servers \ {s} PROVE k \notin Left(r)
    <3>1. Left(r) \subseteq Held(r) /\ Held(s) \cap Held(r) = {}
      BY DEF Left, Leaving, Held, OwnerInv, Shared
    <3> QED BY <2>1, <3>1
  <2> QED BY <2>1, <2>2, <2>3
<1>3. D \subseteq Counted
  BY <1>2, CountedParts DEF Counted
<1>4. ASSUME NEW k PROVE k \in Counted' <=> k \in Counted \ D
  <2>1. k \in Counted <=>
          /\ k \in open \ Left(s) /\ k \notin Untested
          /\ \A r \in Servers \ {s} : k \notin Left(r)
    BY CountedParts DEF Counted
  <2>2. k \in Counted' <=>
          /\ k \in open' \ Left(s)' /\ k \notin Untested'
          /\ \A r \in Servers \ {s} : k \notin Left(r)'
    BY CountedParts DEF Counted
  <2> QED BY <1>1, <2>1, <2>2
<1> QED BY <1>3, <1>4

LEMMA JoinedChanges ==
  ASSUME OwnerInv, NEW s \in Servers,
         \A r \in Servers \ {s} : Joined(r)' = Joined(r)
  PROVE  /\ \A D \in SUBSET Joined(s) :
              Joined(s)' = Joined(s) \ D => D \subseteq AllJoined /\ AllJoined' = AllJoined \ D
         /\ \A k \in Held(s) \ Joined(s) :
              Joined(s)' = Joined(s) \cup {k} => k \notin AllJoined /\ AllJoined' = AllJoined \cup {k}
<1>1. ASSUME NEW r \in Servers \ {s} PROVE Joined(r) \cap Held(s) = {}
  BY CountedFinite DEF OwnerInv, Shared
<1>2. Joined(s) \subseteq Held(s)
  BY CountedFinite
<1>3. AllJoined = Joined(s) \cup UNION {Joined(r) : r \in Servers \ {s}}
      /\ AllJoined' = Joined(s)' \cup UNION {Joined(r) : r \in Servers \ {s}}
  BY DEF AllJoined
<1> DEFINE Rest == UNION {Joined(r) : r \in Servers \ {s}}
<1>4. Rest \cap Held(s) = {}
  BY <1>1
<1> HIDE DEF Rest
<1> QED BY <1>2, <1>3, <1>4 DEF Rest
-------------------------------------------------------------------------------
(***************************************************************************)
(* What a step of a net thread means for the sockets that are open, for    *)
(* the client between its two decrements, for the joined clients, and for  *)
(* the counters.                                                           *)
(***************************************************************************)
Joins(s, k) ==
  /\ k \in Held(s) \ Joined(s) /\ Joined(s)' = Joined(s) \cup {k} /\ Left(s) = {} /\ Left(s)' = {}
  /\ open' = open /\ clientJoin' = clientJoin + 1
  /\ UNCHANGED <<clientAccept, abandoned, abandonedJoin>>

Leaves(s) ==
  /\ cur[s] \in Joined(s) /\ Joined(s)' = Joined(s) /\ Left(s) = {} /\ Left(s)' = {cur[s]}
  /\ open' = open /\ clientAccept' = clientAccept - 1
  /\ UNCHANGED <<clientJoin, abandoned, abandonedJoin>>

Unjoins(s) ==
  /\ cur[s] \in Joined(s) /\ Joined(s)' = Joined(s) \ {cur[s]}
  /\ Left(s) = {cur[s]} /\ Left(s)' = {cur[s]}
  /\ open' = open /\ clientJoin' = clientJoin - 1
  /\ UNCHANGED <<clientAccept, abandoned, abandonedJoin>>

Deletes(s) ==
  /\ cur[s] \notin Joined(s) /\ Joined(s)' = Joined(s) /\ Left(s) = {cur[s]} /\ Left(s)' = {}
  /\ open' = open \ {cur[s]}
  /\ UNCHANGED <<clientAccept, clientJoin, abandoned, abandonedJoin>>

Drops(s, D) ==
  /\ D \subseteq Held(s) /\ Joined(s)' = Joined(s) \ D /\ Left(s) = {} /\ Left(s)' = {}
  /\ open' = open \ D
  /\ abandoned' = abandoned + Cardinality(D)
  /\ abandonedJoin' = abandonedJoin + Cardinality(D \cap Joined(s))
  /\ UNCHANGED <<clientAccept, clientJoin>>

Keeps(s) ==
  /\ Joined(s)' = Joined(s) /\ Left(s)' = Left(s)
  /\ UNCHANGED <<open, clientAccept, clientJoin, abandoned, abandonedJoin>>

NetIdles(s) ==
  ~(NetTake(s) \/ NetLeave(s) \/ NetUnjoin(s) \/ NetDelete(s) \/ NetClear(s) \/ NetClearBuff(s))

LEMMA NetCases ==
  ASSUME OwnerInv, NEW s \in Servers, NetThread(s)
  PROVE  \/ NetTake(s) /\ Joins(s, buff[s][taken[s] + 1])
         \/ NetLeave(s) /\ Leaves(s)
         \/ NetUnjoin(s) /\ Unjoins(s)
         \/ NetDelete(s) /\ Deletes(s)
         \/ NetClear(s) /\ Drops(s, clients[s])
         \/ NetClearBuff(s) /\ Drops(s, ToSet(buff[s]))
         \/ NetIdles(s) /\ Keeps(s)
<1>1. TypeOK /\ Local(s)
  BY DEF OwnerInv, TypeInv
<1>2. CASE NetTake(s)
  <2> PICK k \in Socks : k = buff[s][taken[s] + 1]
    BY <1>1, <1>2 DEF NetTake, TypeOK
  <2>1. /\ spc[s] = "take" /\ spc'[s] = "take" /\ taken[s] < Len(buff[s])
        /\ clients'[s] = clients[s] \cup {k} /\ clientJoin' = clientJoin + 1
        /\ UNCHANGED <<open, clientAccept, abandoned, abandonedJoin>>
    BY <1>1, <1>2 DEF NetTake, NetGoTo, TypeOK
  <2>2. /\ Stale(s) = {} /\ Leaving(s) = {} /\ Left(s) = {} /\ Left(s)' = {}
        /\ Joined(s) = clients[s] /\ Joined(s)' = clients[s] \cup {k}
    BY <2>1 DEF Stale, Leaving, Left, Joined, Mapped
  <2>3. k \in ToSet(Queue(s))
    <3>1. buff[s] \in Seq(Socks) /\ taken[s] \in 0..Len(buff[s])
      BY <1>1, <2>1 DEF TypeOK
    <3> QED BY <2>1, <3>1, RestTaken DEF Queue
  <2>4. k \in Held(s) \ Joined(s)
    BY <1>1, <2>2, <2>3 DEF Held, Local, Apart
  <2> QED BY <1>2, <2>1, <2>2, <2>4 DEF Joins
<1>3. CASE NetLeave(s)
  <2>1. /\ spc[s] = "leave" /\ spc'[s] = "unjoin" /\ clientAccept' = clientAccept - 1
        /\ UNCHANGED <<open, clients, cur, clientJoin, abandoned, abandonedJoin>>
    BY <1>1, <1>3 DEF NetLeave, NetGoTo, TypeOK, queueVars, sockVars
  <2>2. /\ Left(s) = {} /\ Left(s)' = {cur[s]}
        /\ cur[s] \in Joined(s) /\ Joined(s)' = Joined(s)
    BY <2>1 DEF Left, Joined, Mapped, Stale, Leaving
  <2> QED BY <1>3, <2>1, <2>2 DEF Leaves
<1>4. CASE NetUnjoin(s)
  <2>1. /\ spc[s] = "unjoin" /\ spc'[s] = "delete" /\ clientJoin' = clientJoin - 1
        /\ UNCHANGED <<open, clients, cur, clientAccept, abandoned, abandonedJoin>>
    BY <1>1, <1>4 DEF NetUnjoin, NetGoTo, TypeOK, queueVars, sockVars
  <2>2. /\ Left(s) = {cur[s]} /\ Left(s)' = {cur[s]}
        /\ cur[s] \in Joined(s) /\ Joined(s)' = Joined(s) \ {cur[s]}
    BY <2>1 DEF Left, Joined, Mapped, Stale, Leaving
  <2> QED BY <1>4, <2>1, <2>2 DEF Unjoins
<1>5. CASE NetDelete(s)
  <2>1. /\ spc[s] = "delete" /\ open' = open \ {cur[s]}
        /\ IF from[s] = "check" THEN spc'[s] = "erase" /\ cur'[s] = cur[s] ELSE spc'[s] = "event"
        /\ UNCHANGED <<clients, clientAccept, clientJoin, abandoned, abandonedJoin>>
    BY <1>1, <1>5 DEF NetDelete, NetGoTo, TypeOK, Destroy, queueVars, countVars
  <2>2. from[s] # "check" => cur[s] \notin clients[s]
    BY <1>1, <2>1 DEF Local, EventsFit, OnItsWay
  <2>3. /\ Left(s) = {cur[s]} /\ Left(s)' = {}
        /\ cur[s] \notin Joined(s) /\ Joined(s)' = Joined(s)
    BY <2>1, <2>2 DEF Left, Joined, Mapped, Stale, Leaving
  <2> QED BY <1>5, <2>1, <2>3 DEF Deletes
<1>6. CASE NetClear(s)
  <2>1. /\ spc[s] = "clear" /\ spc'[s] = "clearBuff" /\ open' = open \ clients[s]
        /\ clients'[s] = {} /\ clients[s] \in SUBSET Socks
        /\ abandoned' = abandoned + Cardinality(clients[s])
        /\ abandonedJoin' = abandonedJoin + Cardinality(clients[s])
        /\ UNCHANGED <<clientAccept, clientJoin>>
    BY <1>1, <1>6 DEF NetClear, NetGoTo, TypeOK, Destroy
  <2>2. /\ Left(s) = {} /\ Left(s)' = {} /\ clients[s] \subseteq Held(s)
        /\ Joined(s) = clients[s] /\ Joined(s)' = {}
    BY <2>1 DEF Left, Joined, Held, Mapped, Stale, Leaving
  <2>3. clients[s] \cap Joined(s) = clients[s] /\ Joined(s)' = Joined(s) \ clients[s]
    BY <2>2
  <2>4. Drops(s, clients[s])
    BY <2>1, <2>2, <2>3 DEF Drops
  <2> QED BY <1>6, <2>4
<1>7. CASE NetClearBuff(s)
  <2>1. /\ spc[s] = "clearBuff" /\ spc'[s] = "clearEnd" /\ open' = open \ ToSet(buff[s])
        /\ abandoned' = abandoned + Len(buff[s])
        /\ UNCHANGED <<clients, clientAccept, clientJoin, abandonedJoin>>
    BY <1>1, <1>7 DEF NetClearBuff, NetGoTo, TypeOK, Destroy
  <2>2. /\ Left(s) = {} /\ Left(s)' = {} /\ Stale(s) = {} /\ Leaving(s) = {}
        /\ Joined(s) = clients[s] /\ Joined(s)' = clients[s]
    BY <2>1 DEF Left, Joined, Mapped, Stale, Leaving
  <2>3. taken[s] = 0 /\ IsInjective(Queue(s)) /\ ToSet(Queue(s)) \cap clients[s] = {}
    BY <1>1, <2>1, <2>2 DEF Local, TakenFits, Apart
  <2>4. buff[s] \in Seq(Socks) /\ Queue(s) = buff[s]
    BY <1>1, <2>3 DEF Queue, TypeOK
  <2>5. Cardinality(ToSet(buff[s])) = Len(buff[s])
    BY <2>3, <2>4, InjectiveCount
  <2>6. ToSet(buff[s]) \subseteq Held(s) /\ ToSet(buff[s]) \in SUBSET Socks
    BY <2>4 DEF Held, ToSet
  <2>7. /\ abandonedJoin' = abandonedJoin + Cardinality(ToSet(buff[s]) \cap Joined(s))
        /\ Joined(s)' = Joined(s) \ ToSet(buff[s])
    <3>1. ToSet(buff[s]) \cap Joined(s) = {}
      BY <2>2, <2>3, <2>4
    <3>2. Cardinality({}) = 0 /\ abandonedJoin \in Nat
      BY <1>1, FS_EmptySet DEF TypeOK
    <3>3. Cardinality(ToSet(buff[s]) \cap Joined(s)) = 0
      BY <3>1, <3>2, Zenon
    <3>4. Joined(s)' = Joined(s) \ ToSet(buff[s])
      BY <2>2, <3>1
    <3> QED BY <2>1, <3>2, <3>3, <3>4
  <2>8. Drops(s, ToSet(buff[s]))
    BY <2>1, <2>2, <2>5, <2>6, <2>7, Zenon DEF Drops
  <2> QED BY <1>7, <2>8
<1>8. ASSUME Joined(s)' = Joined(s), Left(s)' = Left(s), UNCHANGED <<open, countVars>>
      PROVE  Keeps(s)
  BY <1>8 DEF Keeps, countVars
<1>9. ASSUME NEW k \in Socks, NetExpire(s, k) PROVE Keeps(s)
  <2>1. /\ spc[s] = "check" /\ spc'[s] = "leave" /\ cur'[s] = k /\ k \in clients[s]
        /\ UNCHANGED <<clients, open, countVars>>
    BY <1>1, <1>9 DEF NetExpire, NetGoTo, TypeOK, queueVars, sockVars
  <2>2. Joined(s)' = Joined(s) /\ Left(s)' = Left(s)
    BY <2>1 DEF Joined, Mapped, Stale, Leaving, Left
  <2> QED BY <1>8, <2>1, <2>2
<1>10. ASSUME NetRemove(s) PROVE Keeps(s)
  <2>1. /\ spc[s] = "remove" /\ spc'[s] = "leave" /\ clients'[s] = clients[s] \ {cur[s]}
        /\ UNCHANGED <<cur, open, countVars>>
    BY <1>1, <1>10 DEF NetRemove, NetGoTo, TypeOK, sockVars
  <2>2. cur[s] \in clients[s]
    BY <1>1, <2>1 DEF Local, Apart, Mapped
  <2>3. Joined(s)' = Joined(s) /\ Left(s)' = Left(s)
    BY <2>1, <2>2 DEF Joined, Mapped, Stale, Leaving, Left
  <2> QED BY <1>8, <2>1, <2>3
<1>11. ASSUME NetErase(s) PROVE Keeps(s)
  <2>1. /\ spc[s] = "erase" /\ spc'[s] = "check" /\ clients'[s] = clients[s] \ {cur[s]}
        /\ UNCHANGED <<open, countVars>>
    BY <1>1, <1>11 DEF NetErase, NetGoTo, TypeOK, sockVars
  <2>2. Joined(s)' = Joined(s) /\ Left(s)' = Left(s)
    BY <2>1 DEF Joined, Mapped, Stale, Leaving, Left
  <2> QED BY <1>8, <2>1, <2>2
<1>12. ASSUME NetIdles(s), ~NetRemove(s), ~NetErase(s), \A k \in Socks : ~NetExpire(s, k)
       PROVE  Keeps(s)
  <2>1. UNCHANGED <<clients, open, countVars>>
    BY <1>12 DEF NetIdles, queueVars, sockVars,
         NetThread, NetStop, NetTurn, NetLock, NetTaken, NetRun,
         NetChecked, NetPoll, NetPollFails, NetRecv, NetSend, NetSendFails, NetPolled, NetMsg,
         NetExitTest, NetExitStore, NetClearEnd, NetSignal, NetLastStore, NetStep
  <2>2. /\ spc[s] \notin {"erase", "leave", "unjoin", "delete"}
        /\ spc'[s] \notin {"erase", "leave", "unjoin", "delete"}
    BY <1>1, <1>12 DEF NetIdles, TypeOK, NetGoTo,
         NetThread, NetStop, NetTurn, NetLock, NetTaken, NetRun,
         NetChecked, NetPoll, NetPollFails, NetRecv, NetSend, NetSendFails, NetPolled, NetMsg,
         NetExitTest, NetExitStore, NetClearEnd, NetSignal, NetLastStore, NetStep
  <2>3. Joined(s)' = Joined(s) /\ Left(s)' = Left(s)
    BY <2>1, <2>2 DEF Joined, Mapped, Stale, Leaving, Left
  <2> QED BY <1>8, <2>1, <2>3
<1>13. NetIdles(s) => Keeps(s)
  BY <1>9, <1>10, <1>11, <1>12
<1> QED BY <1>2, <1>3, <1>4, <1>5, <1>6, <1>7, <1>13 DEF NetIdles

LEMMA NetSets ==
  ASSUME OwnerInv, NEW s \in Servers, NetThread(s)
  PROVE  \/ \E k \in Socks : Joins(s, k)
         \/ Leaves(s) \/ Unjoins(s) \/ Deletes(s) \/ Keeps(s)
         \/ \E D \in SUBSET Socks : Drops(s, D)
<1>1. Held(s) \subseteq Socks
  BY DEF OwnerInv, Shared, TypeInv, TypeOK
<1>2. \A k : Joins(s, k) => k \in Socks
  BY <1>1 DEF Joins
<1>3. \A D : Drops(s, D) => D \in SUBSET Socks
  BY <1>1 DEF Drops
<1> QED BY <1>2, <1>3, NetCases

\* What remains counted once the step is done ...
CountsAccepted(s, D) ==
  /\ open' \ Left(s)' = (open \ Left(s)) \ D
  /\ clientAccept' - abandoned' = clientAccept - abandoned - Cardinality(D)

LEMMA NetCountsAccepted ==
  ASSUME OwnerInv, NEW s \in Servers, NetThread(s)
  PROVE  \E D \in SUBSET (Held(s) \ Left(s)) : CountsAccepted(s, D)
<1>1. Cardinality({}) = 0 /\ Cardinality({cur[s]}) = 1
  BY FS_EmptySet, FS_Singleton
<1>2. clientAccept \in Int /\ abandoned \in Nat /\ Joined(s) \subseteq Held(s)
  BY CountedFinite DEF OwnerInv, TypeInv, TypeOK
<1>3. CASE Leaves(s)
  <2>1. CountsAccepted(s, {cur[s]})
    BY <1>1, <1>2, <1>3 DEF Leaves, CountsAccepted
  <2> QED BY <1>2, <1>3, <2>1 DEF Leaves
<1>4. ASSUME NEW D \in SUBSET Socks, Drops(s, D)
      PROVE  D \in SUBSET (Held(s) \ Left(s)) /\ CountsAccepted(s, D)
  <2>1. Cardinality(D) \in Nat
    BY CellAssumption, FS_Subset, FS_CardinalityType
  <2> QED BY <1>2, <1>4, <2>1 DEF Drops, CountsAccepted
<1>5. CASE Unjoins(s) \/ Deletes(s) \/ Keeps(s) \/ \E k \in Socks : Joins(s, k)
  <2>1. open' \ Left(s)' = (open \ Left(s)) \ {} /\ UNCHANGED <<clientAccept, abandoned>>
    BY <1>5 DEF Unjoins, Deletes, Keeps, Joins
  <2>2. CountsAccepted(s, {})
    BY <1>1, <1>2, <2>1 DEF CountsAccepted
  <2> QED BY <2>2
<1> QED BY <1>3, <1>4, <1>5, NetSets

\* ... and in the second counter.
CountsJoined(s, D) ==
  /\ Joined(s)' = Joined(s) \ D
  /\ clientJoin' - abandonedJoin' = clientJoin - abandonedJoin - Cardinality(D)

LEMMA NetCountsJoined ==
  ASSUME OwnerInv, NEW s \in Servers, NetThread(s)
  PROVE  \/ \E D \in SUBSET Joined(s) : CountsJoined(s, D)
         \/ \E k \in Socks : Joins(s, k)
<1>1. Cardinality({}) = 0 /\ Cardinality({cur[s]}) = 1
  BY FS_EmptySet, FS_Singleton
<1>2. clientJoin \in Int /\ abandonedJoin \in Nat
  BY DEF OwnerInv, TypeInv, TypeOK
<1>3. CASE Unjoins(s)
  <2>1. CountsJoined(s, {cur[s]})
    BY <1>1, <1>2, <1>3 DEF Unjoins, CountsJoined
  <2> QED BY <1>3, <2>1 DEF Unjoins
<1>4. ASSUME NEW D \in SUBSET Socks, Drops(s, D)
      PROVE  \E C \in SUBSET Joined(s) : CountsJoined(s, C)
  <2>1. Cardinality(D \cap Joined(s)) \in Nat
    BY CellAssumption, FS_Subset, FS_CardinalityType
  <2>2. Joined(s)' = Joined(s) \ (D \cap Joined(s))
    BY <1>4 DEF Drops
  <2>3. CountsJoined(s, D \cap Joined(s))
    BY <1>2, <1>4, <2>1, <2>2 DEF Drops, CountsJoined
  <2> QED BY <2>3
<1>5. CASE Leaves(s) \/ Deletes(s) \/ Keeps(s)
  <2>1. Joined(s)' = Joined(s) \ {} /\ UNCHANGED <<clientJoin, abandonedJoin>>
    BY <1>5 DEF Leaves, Deletes, Keeps
  <2>2. CountsJoined(s, {})
    BY <1>1, <1>2, <2>1 DEF CountsJoined
  <2> QED BY <2>2
<1> QED BY <1>3, <1>4, <1>5, NetSets

\* A net thread keeps what the counters stand for.
LEMMA NetKeepsCounts ==
  ASSUME CountInv, NEW s \in Servers, NetThread(s)
  PROVE  CountersExact' /\ \A r \in Servers : Emptied(r)'
<1> USE DEF CountInv
<1>1. OwnerInv /\ TypeOK
  BY DEF OwnerInv, TypeInv
<1>2. /\ UNCHANGED <<apc, acur>>
      /\ \A r \in Servers \ {s} : clients'[r] = clients[r] /\ spc'[r] = spc[r] /\ cur'[r] = cur[r]
  <2>1. UNCHANGED <<apc, acur>>
    BY DEF NetGoTo, notNet, acceptVars,
         NetThread, NetStop, NetTurn, NetLock, NetTake, NetTaken, NetRun, NetExpire,
         NetChecked, NetPoll, NetPollFails, NetRecv, NetSend, NetSendFails, NetPolled, NetMsg,
         NetRemove, NetLeave, NetUnjoin, NetDelete, NetErase, NetExitTest, NetExitStore,
         NetClear, NetClearBuff, NetClearEnd, NetSignal, NetLastStore, NetStep
  <2> QED BY <1>1, <2>1, NetFrame DEF OwnerInv
<1>3. \A r \in Servers \ {s} : Joined(r)' = Joined(r) /\ Emptied(r)'
  BY <1>2 DEF Joined, Mapped, Stale, Leaving, Emptied
<1>4. /\ clientAccept \in Int /\ abandoned \in Nat /\ clientAccept' \in Int /\ abandoned' \in Nat
      /\ clientJoin \in Int /\ abandonedJoin \in Nat /\ clientJoin' \in Int
      /\ abandonedJoin' \in Nat
  <2>1. TypeInv'
    BY <1>1, TypeStep DEF OwnerInv, Next
  <2> QED BY <1>1, <2>1 DEF TypeInv, TypeOK
<1>5. /\ clientAccept = Cardinality(Counted) + abandoned
      /\ clientJoin = Cardinality(AllJoined) + abandonedJoin
  BY DEF CountersExact, Counted, AllJoined
<1>6. clientAccept' = Cardinality(Counted') + abandoned'
  <2>1. PICK D \in SUBSET (Held(s) \ Left(s)) : CountsAccepted(s, D)
    BY <1>1, NetCountsAccepted
  <2>2. D \subseteq Counted /\ Counted' = Counted \ D
    BY <1>1, <1>2, <2>1, CountedLoses DEF CountsAccepted
  <2>3. /\ Cardinality(Counted \ D) = Cardinality(Counted) - Cardinality(D)
        /\ Cardinality(D) \in Nat /\ Cardinality(Counted) \in Nat
    BY <1>1, <2>2, CountedFinite, FewerCounted
  <2>4. clientAccept' - abandoned' = clientAccept - abandoned - Cardinality(D)
    BY <2>1 DEF CountsAccepted
  <2> QED BY <1>4, <1>5, <2>2, <2>3, <2>4
<1>7. clientJoin' = Cardinality(AllJoined') + abandonedJoin'
  <2>1. IsFiniteSet(AllJoined) /\ Cardinality(AllJoined) \in Nat
    BY <1>1, CountedFinite, FS_CardinalityType
  <2>2. ASSUME NEW D \in SUBSET Joined(s), CountsJoined(s, D)
        PROVE  clientJoin' = Cardinality(AllJoined') + abandonedJoin'
    <3>1. D \subseteq AllJoined /\ AllJoined' = AllJoined \ D
      BY <1>1, <1>3, <2>2, JoinedChanges DEF CountsJoined
    <3>2. /\ Cardinality(AllJoined \ D) = Cardinality(AllJoined) - Cardinality(D)
          /\ Cardinality(D) \in Nat
      BY <2>1, <3>1, FewerCounted
    <3>3. clientJoin' - abandonedJoin' = clientJoin - abandonedJoin - Cardinality(D)
      BY <2>2 DEF CountsJoined
    <3> QED BY <1>4, <1>5, <2>1, <3>1, <3>2, <3>3
  <2>3. ASSUME NEW k \in Socks, Joins(s, k)
        PROVE  clientJoin' = Cardinality(AllJoined') + abandonedJoin'
    <3>1. k \notin AllJoined /\ AllJoined' = AllJoined \cup {k}
      BY <1>1, <1>3, <2>3, JoinedChanges DEF Joins
    <3>2. Cardinality(AllJoined \cup {k}) = Cardinality(AllJoined) + 1
      BY <2>1, <3>1, FS_AddElement
    <3>3. clientJoin' = clientJoin + 1 /\ abandonedJoin' = abandonedJoin
      BY <2>3 DEF Joins
    <3> QED BY <1>4, <1>5, <2>1, <3>1, <3>2, <3>3
  <2> QED BY <1>1, <2>2, <2>3, NetCountsJoined
<1>8. Emptied(s)'
  <2>1. CASE NetClear(s)
    BY <1>1, <2>1 DEF NetClear, Emptied, TypeOK
  <2>2. CASE ~NetClear(s)
    <3>1. \/ spc'[s] \notin {"none", "clearBuff", "clearEnd", "wakeup", "store", "ended"}
          \/ /\ spc[s] \in {"clearBuff", "clearEnd", "wakeup", "store"}
             /\ clients' = clients
      BY <1>1, <2>2 DEF TypeOK, NetGoTo, queueVars,
         NetThread, NetStop, NetTurn, NetLock, NetTake, NetTaken, NetRun, NetExpire,
         NetChecked, NetPoll, NetPollFails, NetRecv, NetSend, NetSendFails, NetPolled, NetMsg,
         NetRemove, NetLeave, NetUnjoin, NetDelete, NetErase, NetExitTest, NetExitStore,
         NetClearBuff, NetClearEnd, NetSignal, NetLastStore, NetStep
    <3> QED BY <3>1 DEF Emptied
  <2> QED BY <2>1, <2>2
<1> QED BY <1>3, <1>6, <1>7, <1>8 DEF CountersExact, Counted, AllJoined

\* The accept thread raises the first counter by one, for the socket in its
\* hand; whatever else it does leaves both counters and both sets alone.
LEMMA AcceptKeepsCounts ==
  ASSUME CountInv, AcceptThread
  PROVE  CountersExact' /\ \A r \in Servers : Emptied(r)'
<1> USE DEF CountInv
<1>1. OwnerInv /\ TypeOK
  BY DEF OwnerInv, TypeInv
<1>2. UNCHANGED <<clients, spc, cur, clientJoin, abandoned, abandonedJoin>>
  BY DEF notAccept, queueVars, netVars, countVars, AcceptThread, AcceptConnection, AcceptLimit,
       AcceptRefuse, AcceptCount, AcceptScan, AcceptAdd, AcceptPollFails, AcceptExitTest,
       AcceptExitStore, AcceptStop, AcceptSignal, AcceptLastStore, AcceptGoTo
<1>3. /\ \A s \in Servers : Joined(s)' = Joined(s) /\ Left(s)' = Left(s) /\ Emptied(s)'
      /\ AllJoined' = AllJoined
  <2>1. \A s \in Servers : Joined(s)' = Joined(s) /\ Left(s)' = Left(s) /\ Emptied(s)'
    BY <1>2 DEF Joined, Mapped, Stale, Leaving, Emptied, Left
  <2> QED BY <2>1 DEF AllJoined
<1>4. /\ clientAccept = Cardinality(Counted) + abandoned
      /\ clientJoin' = Cardinality(AllJoined') + abandonedJoin'
  BY <1>2, <1>3 DEF CountersExact, Counted, AllJoined
<1>5. ASSUME NEW k
      PROVE  /\ k \in Counted <=>
                  k \in open /\ k \notin Untested /\ \A s \in Servers : k \notin Left(s)
             /\ k \in Counted' <=>
                  k \in open' /\ k \notin Untested' /\ \A s \in Servers : k \notin Left(s)
  BY <1>3, CountedParts DEF Counted
<1>6. CASE AcceptCount
  <2>1. /\ open' = open /\ clientAccept' = clientAccept + 1
        /\ Untested = {acur} /\ Untested' = {} /\ InHand = {acur}
    BY <1>6 DEF AcceptCount, sockVars, Untested, InHand
  <2>2. acur \in open /\ \A s \in Servers : acur \notin Left(s)
    <3>1. ASSUME NEW s \in Servers PROVE Left(s) \subseteq Held(s)
      BY DEF Left, Leaving, Held
    <3> QED BY <1>1, <2>1, <3>1 DEF OwnerInv, Shared
  <2>3. Counted' = Counted \cup {acur} /\ acur \notin Counted
    BY <1>5, <2>1, <2>2
  <2>4. Cardinality(Counted \cup {acur}) = Cardinality(Counted) + 1 /\ Cardinality(Counted) \in Nat
    BY <1>1, <2>3, CountedFinite, FS_AddElement, FS_CardinalityType
  <2>5. clientAccept' = Cardinality(Counted') + abandoned'
    BY <1>1, <1>2, <1>4, <2>1, <2>3, <2>4 DEF TypeOK
  <2> QED BY <1>3, <1>4, <2>5 DEF CountersExact, Counted, AllJoined
<1>7. CASE ~AcceptCount
  <2>1. clientAccept' = clientAccept
    BY <1>7 DEF countVars, AcceptThread, AcceptConnection, AcceptLimit,
         AcceptRefuse, AcceptScan, AcceptAdd, AcceptPollFails, AcceptExitTest,
         AcceptExitStore, AcceptStop, AcceptSignal, AcceptLastStore, AcceptGoTo
  <2>2. open' \ Untested' = open \ Untested
    <3>1. CASE AcceptConnection
      BY <3>1 DEF AcceptConnection, Untested
    <3>2. CASE AcceptRefuse
      BY <3>2 DEF AcceptRefuse, Destroy, Untested
    <3>3. CASE ~AcceptConnection /\ ~AcceptRefuse
      <4>1. open' = open
        BY <1>7, <3>3 DEF sockVars, AcceptThread, AcceptLimit,
           AcceptScan, AcceptAdd, AcceptPollFails, AcceptExitTest,
           AcceptExitStore, AcceptStop, AcceptSignal, AcceptLastStore, AcceptGoTo
      <4>2. Untested' = Untested
        BY <1>7, <3>3 DEF Untested, AcceptThread, AcceptLimit,
           AcceptScan, AcceptAdd, AcceptPollFails, AcceptExitTest,
           AcceptExitStore, AcceptStop, AcceptSignal, AcceptLastStore, AcceptGoTo
      <4> QED BY <4>1, <4>2
    <3> QED BY <3>1, <3>2, <3>3
  <2>3. Counted' = Counted
    BY <1>5, <2>2
  <2> QED BY <1>2, <1>3, <1>4, <2>1, <2>3 DEF CountersExact, Counted, AllJoined
<1> QED BY <1>6, <1>7
-------------------------------------------------------------------------------
(* The other steps, and the theorems.                                      *)

LEMMA CountStep ==
  ASSUME CountInv, [Next]_vars
  PROVE  CountInv'
<1> USE DEF CountInv
<1>1. OwnerInv'
  BY OwnerStep
<1>2. ASSUME UNCHANGED <<apc, acur, clients, spc, cur, open, countVars>>
      PROVE  CountersExact' /\ \A s \in Servers : Emptied(s)'
  <2>1. \A s \in Servers : Joined(s)' = Joined(s)
    BY <1>2 DEF Joined, Mapped, Stale, Leaving
  <2>2. Uncounted' = Uncounted /\ AllJoined' = AllJoined
    BY <1>2, <2>1 DEF Uncounted, Left, AllJoined
  <2>3. CountersExact'
    BY <1>2, <2>2 DEF CountersExact, countVars, AllJoined
  <2>4. \A s \in Servers : Emptied(s)'
    BY <1>2 DEF Emptied
  <2> QED BY <2>3, <2>4
<1>3. ASSUME NEW s \in Servers, StartTask(s) \/ StartNet(s)
      PROVE  CountersExact' /\ \A r \in Servers : Emptied(r)'
  <2>1. /\ spc[s] \in {"none", "ended"} /\ spc'[s] \in {"none", "top"}
        /\ clients[s] = {} /\ clients'[s] = {}
        /\ \A r \in Servers \ {s} :
              clients'[r] = clients[r] /\ spc'[r] = spc[r] /\ cur'[r] = cur[r]
        /\ UNCHANGED <<open, apc, acur, countVars>>
    <3>1. spc[s] \in {"none", "ended"}
      BY <1>3 DEF StartTask, StartNet, OwnerInv, Fresh
    <3>2. clients[s] = {}
      BY <3>1 DEF Emptied
    <3> QED BY <1>3, <3>1, <3>2
            DEF StartTask, StartNet, OwnerInv, TypeInv, TypeOK, acceptVars, sockVars, queueVars
  <2>2. \A r \in Servers : Joined(r)' = Joined(r) /\ Left(r)' = Left(r) /\ Emptied(r)'
    <3>1. \A r \in Servers \ {s} : Joined(r)' = Joined(r) /\ Left(r)' = Left(r) /\ Emptied(r)'
      BY <2>1 DEF Joined, Mapped, Stale, Leaving, Left, Emptied
    <3>2. Joined(s)' = Joined(s) /\ Left(s)' = Left(s) /\ Emptied(s)'
      BY <2>1 DEF Joined, Mapped, Stale, Leaving, Left, Emptied
    <3> QED BY <3>1, <3>2
  <2>3. Uncounted' = Uncounted /\ AllJoined' = AllJoined
    BY <2>1, <2>2, CountedParts DEF AllJoined, Untested
  <2>4. CountersExact'
    BY <2>1, <2>3 DEF CountersExact, countVars, AllJoined
  <2> QED BY <2>2, <2>4
<1>4. CASE StartAccept
  <2>1. /\ apc \in {"none", "ended"} /\ apc' = "loop"
        /\ UNCHANGED <<clients, spc, cur, open, countVars>>
    BY <1>4 DEF StartAccept, queueVars, netVars, sockVars
  <2>2. \A s \in Servers : Joined(s)' = Joined(s) /\ Left(s)' = Left(s) /\ Emptied(s)'
    BY <2>1 DEF Joined, Mapped, Stale, Leaving, Left, Emptied
  <2>3. Untested' = Untested
    BY <2>1 DEF Untested
  <2>4. Uncounted' = Uncounted /\ AllJoined' = AllJoined
    BY <2>2, <2>3, CountedParts DEF AllJoined
  <2>5. CountersExact'
    BY <2>1, <2>4 DEF CountersExact, countVars, AllJoined
  <2> QED BY <1>1, <2>2, <2>5
<1>5. CASE \/ \E k \in Socks : PeerCloses(k)
           \/ \E s \in Servers : TaskThread(s)
           \/ CloseThread \/ CloseBlock \/ CloseReturn \/ Close \/ UNCHANGED vars
  <2>1. UNCHANGED <<apc, acur, clients, spc, cur, open, countVars>>
    BY <1>5 DEF PeerCloses, vars, acceptVars, queueVars, netVars, sockVars, TaskThread, TaskStop,
         TaskSignal, TaskLastStore, TaskGoTo, CloseThread, CloseBlock, CloseReturn, Close, notMain
  <2> QED BY <1>1, <1>2, <2>1
<1> QED BY <1>1, <1>3, <1>4, <1>5, NetKeepsCounts, AcceptKeepsCounts DEF Next, MainThread

LEMMA CountInit ==
  ASSUME Init
  PROVE  CountInv
<1>1. ASSUME NEW s \in Servers PROVE clients[s] = {} /\ spc[s] = "none"
  BY <1>1 DEF Init
<1>2. \A s \in Servers : Joined(s) = {} /\ Emptied(s)
  BY <1>1 DEF Joined, Mapped, Stale, Leaving, Emptied
<1>3. AllJoined = {} /\ Counted = {} /\ Cardinality({}) = 0
  BY <1>2, FS_EmptySet DEF AllJoined, Counted, Init
<1>4. CountersExact
  <2>1. Cardinality(open \ Uncounted) = 0 /\ Cardinality(UNION {Joined(s) : s \in Servers}) = 0
    BY <1>3, Zenon DEF AllJoined, Counted
  <2> QED BY <2>1 DEF CountersExact, Init
<1> QED BY <1>2, <1>4, OwnerInit DEF CountInv

\* At any moment _clientAccept is the number of open sockets past the limit test
\* whose OnNetLeave has not begun, and _clientJoin the number of clients between
\* OnNetJoin and OnNetLeave, but for the clients that ClearClients deleted
\* without OnNetLeave (TcpServer::OnNetJoin, OnNetLeave, AcceptClient).
THEOREM CountersKept == Spec => []CountersExact
<1>1. CountInv => CountersExact
  BY DEF CountInv
<1>2. CountInv /\ [Next]_vars => CountInv'
  BY CountStep
<1>3. Init => CountInv
  BY CountInit
<1> QED BY <1>1, <1>2, <1>3, PTL DEF Spec

\* As long as no client has been deleted without OnNetLeave, AcceptClient turns
\* a connection away only when as many others as the limit allows are open.
THEOREM RefusalsJustified == Spec => RefusedOnlyWhenFullAtFirst
<1>1. ASSUME CountInv, Next, apc = "limit", apc' = "refuse", abandoned = 0
      PROVE  Cardinality(open) > MaxClient
  <2>1. ~(clientAccept < MaxClient)
    <3>1. AcceptLimit
      BY <1>1 DEF Next, PeerCloses, AcceptThread, AcceptConnection, AcceptRefuse, AcceptCount,
         AcceptScan, AcceptAdd, AcceptPollFails, AcceptExitTest, AcceptExitStore, AcceptStop,
         AcceptSignal, AcceptLastStore, AcceptGoTo, NetGoTo, notNet, acceptVars,
         NetThread, NetStop, NetTurn, NetLock, NetTake, NetTaken, NetRun, NetExpire,
         NetChecked, NetPoll, NetPollFails, NetRecv, NetSend, NetSendFails, NetPolled, NetMsg,
         NetRemove, NetLeave, NetUnjoin, NetDelete, NetErase, NetExitTest, NetExitStore,
         NetClear, NetClearBuff, NetClearEnd, NetSignal, NetLastStore, NetStep,
         TaskThread, TaskStop, TaskSignal, TaskLastStore, TaskGoTo, MainThread, StartTask,
         StartNet, StartAccept, CloseThread, CloseBlock, CloseReturn, Close, notMain
    <3> QED BY <1>1, <3>1 DEF AcceptLimit
  <2>2. clientAccept = Cardinality(Counted) /\ clientAccept \in Int
    BY <1>1, CountedFinite, FS_CardinalityType
       DEF CountInv, CountersExact, Counted, OwnerInv, TypeInv, TypeOK
  <2>3. acur \in open /\ acur \notin Counted /\ Counted \subseteq open
    BY <1>1 DEF CountInv, OwnerInv, Shared, InHand, Counted, Uncounted
  <2>4. IsFiniteSet(open) /\ IsFiniteSet(Counted)
    BY <1>1, CountedFinite, CellAssumption, FS_Subset DEF CountInv, OwnerInv, TypeInv, TypeOK
  <2>5. /\ Cardinality(Counted \cup {acur}) = Cardinality(Counted) + 1
        /\ Cardinality(Counted \cup {acur}) <= Cardinality(open)
        /\ Cardinality(open) \in Nat
    BY <2>3, <2>4, FS_AddElement, FS_Subset, FS_CardinalityType
  <2> QED BY <2>1, <2>2, <2>5, CellAssumption
<1>2. CountInv /\ [Next]_vars =>
        [apc = "limit" /\ apc' = "refuse" /\ abandoned = 0 => Cardinality(open) > MaxClient]_vars
  BY <1>1
<1>3. CountInv /\ [Next]_vars => CountInv'
  BY CountStep
<1>4. Init => CountInv
  BY CountInit
<1> QED BY <1>2, <1>3, <1>4, PTL DEF Spec, RefusedOnlyWhenFullAtFirst
-------------------------------------------------------------------------------
(* The life of every connection is the one Connections describes.          *)

LEMMA HeldParts ==
  ASSUME NEW s \in Servers
  PROVE  /\ Held(s) = Joined(s) \cup Left(s) \cup ToSet(Queue(s))
         /\ Held(s)' = Joined(s)' \cup Left(s)' \cup ToSet(Queue(s)')
BY DEF Held, Joined, Left, Leaving, Mapped

\* Where a connection stands, told from who has it: nobody, the accept thread,
\* one Server, or no thread although it is open.
Life(k, s) ==
  IF k \in Left(s) THEN "left" ELSE IF k \in Joined(s) THEN "joined" ELSE "waiting"

Stands(k, p, s) == Phase(k) = p /\ At(k) = s

InOrder ==
  \A k \in Socks :
    /\ k \notin open => Stands(k, "free", 0)
    /\ k \in InHand => Stands(k, IF apc = "scan" THEN "accepted" ELSE "arrived", 0)
    /\ \A s \in Servers : k \in Held(s) => Stands(k, Life(k, s), s)
    /\ k \in open \ InHand /\ (\A s \in Servers : k \notin Held(s)) => Stands(k, "lost", 0)

LEMMA OrderNow == OwnerInv => InOrder
<1> SUFFICES ASSUME OwnerInv, NEW k \in Socks
             PROVE  /\ k \notin open => Stands(k, "free", 0)
                    /\ k \in InHand => Stands(k, IF apc = "scan" THEN "accepted" ELSE "arrived", 0)
                    /\ \A s \in Servers : k \in Held(s) => Stands(k, Life(k, s), s)
                    /\ k \in open \ InHand /\ (\A s \in Servers : k \notin Held(s))
                         => Stands(k, "lost", 0)
  BY DEF InOrder
<1>1. \A s \in Servers : Joined(s) \subseteq Held(s) /\ Left(s) \subseteq Held(s)
  BY HeldParts
<1>2. InHand \subseteq open /\ \A s \in Servers : Held(s) \subseteq open \ InHand
  BY DEF OwnerInv, Shared
<1>3. CASE \A s \in Servers : k \notin Held(s)
  <2>1. At(k) = 0
    BY <1>3 DEF At
  <2>2. \A s \in Servers : k \notin Left(s) /\ k \notin Joined(s)
    BY <1>1, <1>3
  <2>3. Phase(k) = IF k \notin open THEN "free"
                   ELSE IF k \in InHand THEN IF apc = "scan" THEN "accepted" ELSE "arrived"
                   ELSE "lost"
    BY <1>3, <2>2, Zenon DEF Phase
  <2> QED BY <1>2, <1>3, <2>1, <2>3 DEF Stands
<1>4. ASSUME NEW s \in Servers, k \in Held(s)
      PROVE  k \in open /\ k \notin InHand /\ Stands(k, Life(k, s), s)
  <2>1. \A r \in Servers \ {s} : k \notin Held(r)
    BY <1>4 DEF OwnerInv, Shared
  <2>2. \A r \in Servers : k \in Held(r) <=> r = s
    BY <1>4, <2>1
  <2>3. At(k) = s
    <3>1. At(k) = CHOOSE r \in Servers : k \in Held(r)
      BY <1>4 DEF At
    <3>2. At(k) \in Servers /\ k \in Held(At(k))
      BY <1>4, <3>1
    <3> QED BY <2>2, <3>2
  <2>4. k \in open /\ k \notin InHand
    BY <1>2, <1>4
  <2>5. /\ (\E r \in Servers : k \in Left(r)) <=> k \in Left(s)
        /\ (\E r \in Servers : k \in Joined(r)) <=> k \in Joined(s)
        /\ \E r \in Servers : k \in Held(r)
    BY <1>1, <1>4, <2>2
  <2>6. Phase(k) = Life(k, s)
    BY <2>4, <2>5, Zenon DEF Phase, Life
  <2> QED BY <2>3, <2>4, <2>6 DEF Stands
<1> QED BY <1>2, <1>3, <1>4

LEMMA OrderNext == OwnerInv' => InOrder'
BY OrderNow, PTL

\* The connections of one phase at one Server.
LEMMA ThoseHeld ==
  ASSUME OwnerInv, NEW s \in Servers
  PROVE  /\ Conn!Those("left", s) = Left(s)
         /\ Conn!Those("joined", s) = Joined(s) \ Left(s)
         /\ Conn!Those("waiting", s) = Held(s) \ (Joined(s) \cup Left(s))
<1>1. InOrder
  BY OrderNow
<1>2. Held(s) \subseteq Socks /\ Joined(s) \subseteq Held(s) /\ Left(s) \subseteq Held(s)
  BY HeldParts DEF OwnerInv, Shared, TypeInv, TypeOK
<1>3. ASSUME NEW k \in Socks
      PROVE  IF k \in Held(s) THEN Stands(k, Life(k, s), s) ELSE At(k) # s
  <2>1. CASE k \in Held(s)
    BY <1>1, <2>1 DEF InOrder
  <2>2. CASE k \notin Held(s)
    <3>1. At(k) = 0 \/ \E r \in Servers : k \in Held(r) /\ At(k) = r
      BY <1>1 DEF InOrder, Stands
    <3> QED BY <2>2, <3>1 DEF Servers
  <2> QED BY <2>1, <2>2
<1>4. ASSUME NEW p, NEW k \in Socks
      PROVE  k \in Conn!Those(p, s) <=> k \in Held(s) /\ Life(k, s) = p
  BY <1>3 DEF Conn!Those, Stands
<1>5. \A p : Conn!Those(p, s) \subseteq Socks
  BY DEF Conn!Those
<1> QED BY <1>2, <1>4, <1>5 DEF Life

\* The admitted connections are the counted ones.
LEMMA AdmittedCounted ==
  ASSUME OwnerInv
  PROVE  Conn!Admitted = Counted
<1>1. ASSUME NEW k \in Socks
      PROVE  Phase(k) \in {"accepted", "waiting", "joined", "lost"} <=> k \in Counted
  <2>1. InOrder
    BY OrderNow
  <2>2. \A s \in Servers : Left(s) \subseteq Held(s) /\ Held(s) \subseteq open \ InHand
    BY HeldParts DEF OwnerInv, Shared
  <2>3. k \in Counted <=> k \in open /\ k \notin Untested /\ \A s \in Servers : k \notin Left(s)
    BY CountedParts DEF Counted
  <2>4. CASE k \notin open
    BY <2>1, <2>3, <2>4 DEF InOrder, Stands
  <2>5. CASE k \in InHand
    <3>1. k \in Untested <=> apc # "scan"
      BY <2>5 DEF Untested, InHand
    <3>2. k \in open /\ \A s \in Servers : k \notin Left(s)
      BY <2>2, <2>5 DEF OwnerInv, Shared
    <3> QED BY <2>1, <2>3, <2>5, <3>1, <3>2 DEF InOrder, Stands
  <2>6. ASSUME NEW s \in Servers, k \in Held(s)
        PROVE  Phase(k) \in {"accepted", "waiting", "joined", "lost"} <=> k \in Counted
    <3>1. \A r \in Servers \ {s} : k \notin Left(r)
      BY <2>2, <2>6 DEF OwnerInv, Shared
    <3>2. k \in open /\ k \notin Untested
      BY <2>2, <2>6 DEF Untested, InHand
    <3>3. Phase(k) = Life(k, s)
      BY <2>1, <2>6 DEF InOrder, Stands
    <3> QED BY <2>3, <3>1, <3>2, <3>3 DEF Life
  <2>7. CASE k \in open \ InHand /\ \A s \in Servers : k \notin Held(s)
    <3>1. k \notin Untested /\ \A s \in Servers : k \notin Left(s)
      BY <2>2, <2>7 DEF Untested, InHand
    <3> QED BY <2>1, <2>3, <2>7, <3>1 DEF InOrder, Stands
  <2> QED BY <2>4, <2>5, <2>6, <2>7
<1>2. Counted \subseteq Socks
  BY DEF OwnerInv, TypeInv, TypeOK, Counted
<1> QED BY <1>1, <1>2 DEF Conn!Admitted

\* A step of Connections, or none.
Stay(k) == Phase(k)' = Phase(k) /\ At(k)' = At(k)

Lives == Conn!Next \/ ((\A k \in Socks : Stay(k)) /\ Serving' = Serving)

LEMMA Moves ==
  ASSUME NEW K, NEW p, NEW s, Serving' = Serving,
         \A k \in Socks : IF k \in K THEN Stands(k, p, s)' ELSE Stay(k)
  PROVE  Conn!Move(K, p, s)
BY DEF Conn!Move, Stands, Stay

\* A connection nobody touches stays where it is.
LEMMA Stays ==
  ASSUME OwnerInv, OwnerInv', NEW k \in Socks, k \in open <=> k \in open',
         k \in InHand <=> k \in InHand', k \in InHand => (apc = "scan" <=> apc' = "scan"),
         \A s \in Servers : /\ k \in Held(s) <=> k \in Held(s)'
                            /\ k \in Held(s) => Life(k, s)' = Life(k, s)
  PROVE  Stay(k)
<1>1. InOrder /\ InOrder'
  BY OrderNow, OrderNext
<1>2. CASE k \notin open
  BY <1>1, <1>2 DEF InOrder, Stands, Stay
<1>3. CASE k \in InHand
  BY <1>1, <1>3 DEF InOrder, Stands, Stay
<1>4. ASSUME NEW s \in Servers, k \in Held(s) PROVE Stay(k)
  <2>1. Stands(k, Life(k, s), s) /\ Stands(k, Life(k, s), s)'
    BY <1>1, <1>4 DEF InOrder
  <2> QED BY <1>4, <2>1 DEF Stands, Stay
<1>5. CASE k \in open \ InHand /\ \A s \in Servers : k \notin Held(s)
  BY <1>1, <1>5 DEF InOrder, Stands, Stay
<1> QED BY <1>2, <1>3, <1>4, <1>5

-------------------------------------------------------------------------------
(* A net thread moves the connections it holds only.                       *)

LEMMA NetPlaces ==
  ASSUME OwnerInv, OwnerInv', NEW s \in Servers, NetThread(s), NEW k \in Socks
  PROVE  /\ k \notin Held(s) => Stay(k)
         /\ k \in Held(s) => k \in open /\ Stands(k, Life(k, s), s)
         /\ k \in Held(s)' => k \in Held(s) /\ Stands(k, Life(k, s), s)'
         /\ k \in Held(s) /\ k \notin open' => Stands(k, "free", 0)'
         /\ k \in Held(s) /\ k \in open' /\ k \notin Held(s)' => Stands(k, "lost", 0)'
<1>1. InOrder /\ InOrder' /\ TypeInv /\ Local(s)
  BY OrderNow, OrderNext DEF OwnerInv
<1>2. InHand' = InHand /\ apc' = apc
  BY DEF NetGoTo, notNet, acceptVars, InHand,
         NetThread, NetStop, NetTurn, NetLock, NetTake, NetTaken, NetRun, NetExpire,
         NetChecked, NetPoll, NetPollFails, NetRecv, NetSend, NetSendFails, NetPolled, NetMsg,
         NetRemove, NetLeave, NetUnjoin, NetDelete, NetErase, NetExitTest, NetExitStore,
         NetClear, NetClearBuff, NetClearEnd, NetSignal, NetLastStore, NetStep
<1>3. PICK D \in SUBSET Held(s) : open' = open \ D /\ Held(s)' \subseteq Held(s) \ D
  BY <1>1, NetLocal DEF GivesUp
<1>4. \A r \in Servers \ {s} : /\ Held(r)' = Held(r) /\ Joined(r)' = Joined(r)
                               /\ Left(r)' = Left(r)
  <2> TAKE r \in Servers \ {s}
  <2>1. Held(r)' = Held(r)
    BY <1>1, NetFrame, SameServer DEF OwnerInv
  <2>2. clients'[r] = clients[r] /\ spc'[r] = spc[r] /\ cur'[r] = cur[r]
    BY <1>1, NetFrame
  <2> QED BY <2>1, <2>2 DEF Joined, Mapped, Stale, Leaving, Left
<1>5. k \in Held(s) => k \in open /\ k \notin InHand /\ \A r \in Servers \ {s} : k \notin Held(r)
  BY DEF OwnerInv, Shared
<1>6. k \notin Held(s) => Stay(k)
  <2>1. SUFFICES ASSUME k \notin Held(s) PROVE Stay(k)
    OBVIOUS
  <2>2. (k \in open <=> k \in open') /\ k \notin Held(s)'
    BY <1>3, <2>1
  <2>3. \A r \in Servers : (k \in Held(r) <=> k \in Held(r)')
                           /\ (k \in Held(r) => Life(k, r)' = Life(k, r))
    BY <1>4, <2>1, <2>2 DEF Life
  <2> QED BY <1>2, <2>2, <2>3, Stays
<1>7. k \in Held(s) => Stands(k, Life(k, s), s)
  BY <1>1 DEF InOrder
<1>8. k \in Held(s)' => Stands(k, Life(k, s), s)'
  BY <1>1 DEF InOrder
<1>9. k \notin open' => Stands(k, "free", 0)'
  BY <1>1 DEF InOrder
<1>10. k \in Held(s) /\ k \in open' /\ k \notin Held(s)' => Stands(k, "lost", 0)'
  <2>1. k \in Held(s) /\ k \notin Held(s)'
          => k \notin InHand' /\ \A r \in Servers : k \notin Held(r)'
    BY <1>2, <1>4, <1>5
  <2> QED BY <1>1, <2>1 DEF InOrder
<1> QED BY <1>3, <1>5, <1>6, <1>7, <1>8, <1>9, <1>10

\* What a step of a net thread means for its queue ...
LEMMA NetQueue ==
  ASSUME OwnerInv, NEW s \in Servers, NetThread(s)
  PROVE  /\ NetTake(s) => ToSet(Queue(s)) = ToSet(Queue(s)') \cup {buff[s][taken[s] + 1]}
         /\ NetClearBuff(s) => ToSet(Queue(s)) = ToSet(buff[s])
         /\ NetClearBuff(s) \/ NetClearEnd(s) => ToSet(Queue(s)') = {}
         /\ ~NetTake(s) /\ ~NetClearBuff(s) /\ ~NetClearEnd(s)
              => ToSet(Queue(s)') = ToSet(Queue(s))
<1>1. TypeOK /\ Local(s) /\ buff[s] \in Seq(Socks)
  BY DEF OwnerInv, TypeInv, TypeOK
<1>2. ASSUME NetTake(s)
      PROVE  ToSet(Queue(s)) = ToSet(Queue(s)') \cup {buff[s][taken[s] + 1]}
  <2>1. /\ taken[s] < Len(buff[s]) /\ taken[s] \in 0..Len(buff[s])
        /\ taken'[s] = taken[s] + 1 /\ buff' = buff
    BY <1>1, <1>2 DEF NetTake, NetGoTo, TypeOK
  <2>2. Queue(s)' = SubSeq(buff[s], taken[s] + 1 + 1, Len(buff[s]))
    BY <2>1 DEF Queue
  <2> QED BY <1>1, <2>1, <2>2, RestTaken DEF Queue
<1>3. ASSUME NetClearBuff(s) PROVE ToSet(Queue(s)) = ToSet(buff[s]) /\ ToSet(Queue(s)') = {}
  <2>1. taken[s] = 0 /\ taken'[s] = Len(buff[s]) /\ buff' = buff
    BY <1>1, <1>3 DEF NetClearBuff, NetGoTo, Local, TakenFits, TypeOK
  <2>2. Queue(s) = buff[s] /\ Queue(s)' = SubSeq(buff[s], Len(buff[s]) + 1, Len(buff[s]))
    BY <1>1, <2>1 DEF Queue
  <2> QED BY <1>1, <2>2, RestEmpty
<1>4. ASSUME NetTaken(s) \/ NetClearEnd(s) PROVE ToSet(Queue(s)') = {}
  <2>1. taken'[s] = 0 /\ buff'[s] = <<>>
    BY <1>1, <1>4 DEF NetTaken, NetClearEnd, TypeOK
  <2>2. <<>> \in Seq(Socks) /\ Queue(s)' = SubSeq(<<>>, Len(<<>>) + 1, Len(<<>>))
    BY <2>1 DEF Queue
  <2> QED BY <2>2, RestEmpty
<1>5. ASSUME NetTaken(s) PROVE ToSet(Queue(s)) = {}
  <2>1. taken[s] = Len(buff[s])
    BY <1>5 DEF NetTaken
  <2>2. Queue(s) = SubSeq(buff[s], Len(buff[s]) + 1, Len(buff[s]))
    BY <2>1 DEF Queue
  <2> QED BY <1>1, <2>2, RestEmpty
<1>6. ASSUME ~(NetTake(s) \/ NetTaken(s) \/ NetClearEnd(s) \/ NetClearBuff(s))
      PROVE  Queue(s)' = Queue(s)
  <2>1. UNCHANGED <<buff, taken>>
    BY <1>6 DEF queueVars,
         NetThread, NetStop, NetTurn, NetLock, NetRun, NetExpire,
         NetChecked, NetPoll, NetPollFails, NetRecv, NetSend, NetSendFails, NetPolled, NetMsg,
         NetRemove, NetLeave, NetUnjoin, NetDelete, NetErase, NetExitTest, NetExitStore,
         NetClear, NetSignal, NetLastStore, NetStep
  <2> QED BY <2>1 DEF Queue
<1> QED BY <1>2, <1>3, <1>4, <1>5, <1>6

\* ... and for its being in its loop.
LEMMA NetServes ==
  ASSUME OwnerInv, NEW s \in Servers, NetThread(s)
  PROVE  /\ NetStop(s) \/ NetPollFails(s)
              => s \in Serving /\ Serving' = Serving \ {s} /\ Left(s) = {}
         /\ ~NetStop(s) /\ ~NetPollFails(s) => Serving' = Serving
         /\ NetTake(s) \/ NetLeave(s) \/ NetDelete(s) => s \in Serving
         /\ NetClear(s) \/ NetClearBuff(s) \/ NetClearEnd(s) => s \notin Serving /\ Left(s) = {}
<1>1. spc \in [Servers -> NetPC] /\ \A r \in Servers \ {s} : spc'[r] = spc[r]
  BY NetFrame DEF OwnerInv, TypeInv, TypeOK
<1>2. ASSUME NetStop(s) \/ NetPollFails(s)
      PROVE  spc[s] \in {"top", "poll"} /\ spc'[s] \in {"clear", "exit"}
  BY <1>1, <1>2 DEF NetStop, NetPollFails, NetStep, NetGoTo
<1>3. ASSUME ~NetStop(s), ~NetPollFails(s)
      PROVE  s \in Serving' <=> s \in Serving
  BY <1>1, <1>3 DEF Serving, NetGoTo,
         NetThread, NetTurn, NetLock, NetTake, NetTaken, NetRun, NetExpire,
         NetChecked, NetPoll, NetRecv, NetSend, NetSendFails, NetPolled, NetMsg,
         NetRemove, NetLeave, NetUnjoin, NetDelete, NetErase, NetExitTest, NetExitStore,
         NetClear, NetClearBuff, NetClearEnd, NetSignal, NetLastStore, NetStep
<1>4. \A r \in Servers \ {s} : r \in Serving' <=> r \in Serving
  BY <1>1 DEF Serving
<1>5. Serving \subseteq Servers /\ Serving' \subseteq Servers
  BY DEF Serving
<1>6. NetTake(s) \/ NetLeave(s) \/ NetDelete(s) => s \in Serving
  BY DEF NetTake, NetLeave, NetDelete, NetGoTo, Serving
<1>7. NetClear(s) \/ NetClearBuff(s) \/ NetClearEnd(s) => s \notin Serving /\ Left(s) = {}
  BY DEF NetClear, NetClearBuff, NetClearEnd, NetGoTo, Serving, Left
<1>8. NetStop(s) \/ NetPollFails(s) => s \in Serving /\ s \notin Serving' /\ Left(s) = {}
  BY <1>2 DEF Serving, Left
<1> QED BY <1>3, <1>4, <1>5, <1>6, <1>7, <1>8

LEMMA NetLives ==
  ASSUME CountInv, OwnerInv', NEW s \in Servers, NetThread(s)
  PROVE  Lives
<1>1. OwnerInv /\ Local(s) /\ Emptied(s) /\ TypeOK
  BY DEF CountInv, OwnerInv, TypeInv
<1>2. \A k \in Socks :
        /\ k \notin Held(s) => Stay(k)
        /\ k \in Held(s) => k \in open /\ Stands(k, Life(k, s), s)
        /\ k \in Held(s)' => k \in Held(s) /\ Stands(k, Life(k, s), s)'
        /\ k \in Held(s) /\ k \notin open' => Stands(k, "free", 0)'
        /\ k \in Held(s) /\ k \in open' /\ k \notin Held(s)' => Stands(k, "lost", 0)'
  BY <1>1, NetPlaces
<1>3. /\ Held(s) = Joined(s) \cup Left(s) \cup ToSet(Queue(s))
      /\ Held(s)' = Joined(s)' \cup Left(s)' \cup ToSet(Queue(s)')
      /\ Held(s) \subseteq Socks /\ Held(s)' \subseteq open'
  BY <1>1, HeldParts DEF OwnerInv, Shared, TypeInv, TypeOK
<1>4. ASSUME NEW k \in Socks, k \in Held(s)', Life(k, s)' = Life(k, s) PROVE Stay(k)
  BY <1>2, <1>4 DEF Stands, Stay
<1>5. /\ Conn!Those("left", s) = Left(s)
      /\ Conn!Those("joined", s) = Joined(s) \ Left(s)
      /\ Conn!Those("waiting", s) = Held(s) \ (Joined(s) \cup Left(s))
  BY <1>1, ThoseHeld
<1>6. CASE NetTake(s) /\ Joins(s, buff[s][taken[s] + 1])
  <2> PICK k \in Socks : k = buff[s][taken[s] + 1]
    BY <1>3, <1>6 DEF Joins
  <2>1. /\ k \in Held(s) \ Joined(s) /\ Joined(s)' = Joined(s) \cup {k}
        /\ Left(s) = {} /\ Left(s)' = {}
    BY <1>6 DEF Joins
  <2>2. ToSet(Queue(s)) = ToSet(Queue(s)') \cup {k}
    BY <1>1, <1>6, NetQueue
  <2>3. Held(s)' = Held(s)
    BY <1>3, <2>1, <2>2
  <2>4. Life(k, s)' = "joined" /\ \A j \in Socks \ {k} : Life(j, s)' = Life(j, s)
    BY <2>1 DEF Life
  <2>5. Stands(k, "joined", s)' /\ \A j \in Socks \ {k} : Stay(j)
    BY <1>2, <1>4, <2>1, <2>3, <2>4 DEF Stands
  <2>6. Conn!Move({k}, "joined", s)
    BY <1>1, <1>6, <2>5, NetServes, Moves DEF NetTake, NetGoTo, NetStop, NetPollFails, NetStep
  <2>7. Conn!Join(k, s)
    BY <1>1, <1>5, <1>6, <2>1, <2>6, NetServes DEF Conn!Join
  <2> QED BY <2>7 DEF Lives, Conn!Next
<1>7. CASE NetLeave(s) /\ Leaves(s)
  <2> PICK k \in Socks : k = cur[s]
    BY <1>3, <1>7 DEF Leaves
  <2>1. k \in Joined(s) /\ Joined(s)' = Joined(s) /\ Left(s) = {} /\ Left(s)' = {k}
    BY <1>7 DEF Leaves
  <2>2. Held(s)' = Held(s)
    <3>1. ToSet(Queue(s)') = ToSet(Queue(s))
      BY <1>1, <1>7, NetQueue DEF NetLeave, NetTake, NetClearBuff, NetClearEnd, NetGoTo
    <3> QED BY <1>3, <2>1, <3>1
  <2>3. Life(k, s)' = "left" /\ \A j \in Socks \ {k} : Life(j, s)' = Life(j, s)
    BY <2>1 DEF Life
  <2>4. Stands(k, "left", s)' /\ \A j \in Socks \ {k} : Stay(j)
    BY <1>2, <1>3, <1>4, <2>1, <2>2, <2>3 DEF Stands
  <2>5. Conn!Move({k}, "left", s)
    BY <1>1, <1>7, <2>4, NetServes, Moves DEF NetLeave, NetGoTo, NetStop, NetPollFails, NetStep
  <2>6. Conn!Leave(k, s)
    BY <1>1, <1>5, <1>7, <2>1, <2>5, NetServes DEF Conn!Leave
  <2> QED BY <2>6 DEF Lives, Conn!Next
<1>8. CASE NetDelete(s) /\ Deletes(s)
  <2>1. /\ cur[s] \notin Joined(s) /\ Joined(s)' = Joined(s) /\ Left(s) = {cur[s]}
        /\ Left(s)' = {} /\ open' = open \ {cur[s]}
    BY <1>8 DEF Deletes
  <2> PICK k \in Socks : k = cur[s] /\ k \in Held(s)
    BY <1>3, <2>1
  <2>2. ToSet(Queue(s)') = ToSet(Queue(s))
    BY <1>1, <1>8, NetQueue DEF NetDelete, NetTake, NetClearBuff, NetClearEnd, NetGoTo
  <2>3. Held(s)' = Held(s) \ {k}
    BY <1>3, <2>1, <2>2
  <2>4. \A j \in Socks \ {k} : Life(j, s)' = Life(j, s)
    BY <2>1 DEF Life
  <2>5. Stands(k, "free", 0)' /\ \A j \in Socks \ {k} : Stay(j)
    BY <1>2, <1>4, <2>1, <2>3, <2>4
  <2>6. Conn!Move({k}, "free", 0)
    BY <1>1, <1>8, <2>5, NetServes, Moves DEF NetDelete, NetGoTo, NetStop, NetPollFails, NetStep
  <2>7. Conn!Close(k, s)
    BY <1>1, <1>5, <1>8, <2>1, <2>6, NetServes DEF Conn!Close
  <2> QED BY <2>7 DEF Lives, Conn!Next
<1>9. ASSUME NEW D, Drops(s, D), NEW p \in {"joined", "waiting"}, D = Conn!Those(p, s),
             s \notin Serving, Serving' = Serving,
             ToSet(Queue(s)) \ D \subseteq ToSet(Queue(s)')
      PROVE  Lives
  <2>1. /\ D \subseteq Held(s) /\ Joined(s)' = Joined(s) \ D /\ Left(s) = {} /\ Left(s)' = {}
        /\ open' = open \ D
    BY <1>9 DEF Drops
  <2>2. \A k \in Socks \ D : Life(k, s)' = Life(k, s) /\ (k \in Held(s) => k \in Held(s)')
    BY <1>3, <1>9, <2>1 DEF Life
  <2>3. \A k \in Socks : IF k \in D THEN Stands(k, "free", 0)' ELSE Stay(k)
    BY <1>2, <1>4, <2>1, <2>2
  <2>4. Conn!Move(D, "free", 0)
    BY <1>9, <2>3, Moves
  <2>5. Conn!Drop(s, p)
    BY <1>9, <2>4 DEF Conn!Drop
  <2> QED BY <2>5 DEF Lives, Conn!Next
<1>10. CASE NetClear(s) /\ Drops(s, clients[s])
  <2>1. Conn!Those("joined", s) = clients[s]
    <3>1. Left(s) = {} /\ Joined(s) = clients[s]
      BY <1>10 DEF NetClear, NetGoTo, Left, Joined, Mapped, Stale, Leaving
    <3> QED BY <1>5, <3>1
  <2>2. ToSet(Queue(s)') = ToSet(Queue(s))
    BY <1>1, <1>10, NetQueue DEF NetClear, NetTake, NetClearBuff, NetClearEnd, NetGoTo
  <2>3. s \notin Serving /\ Serving' = Serving
    BY <1>1, <1>10, NetServes DEF NetClear, NetGoTo, NetStop, NetPollFails, NetStep
  <2> QED BY <1>9, <1>10, <2>1, <2>2, <2>3
<1>11. CASE NetClearBuff(s) /\ Drops(s, ToSet(buff[s]))
  <2>1. Conn!Those("waiting", s) = ToSet(buff[s]) /\ ToSet(Queue(s)) = ToSet(buff[s])
    <3>1. Left(s) = {} /\ Joined(s) = {}
      BY <1>1, <1>11 DEF NetClearBuff, NetGoTo, Emptied, Left, Joined, Mapped, Leaving
    <3> QED BY <1>1, <1>3, <1>5, <1>11, <3>1, NetQueue
  <2>2. s \notin Serving /\ Serving' = Serving
    BY <1>1, <1>11, NetServes DEF NetClearBuff, NetGoTo, NetStop, NetPollFails, NetStep
  <2> QED BY <1>9, <1>11, <2>1, <2>2
<1>12. CASE NetClearEnd(s) /\ Keeps(s)
  <2>1. Left(s) = {} /\ Left(s)' = {} /\ Joined(s) = {} /\ Joined(s)' = {} /\ open' = open
    BY <1>1, <1>12
       DEF NetClearEnd, NetGoTo, Emptied, Left, Joined, Mapped, Leaving, Keeps
  <2>2. Held(s)' = {} /\ Conn!Those("waiting", s) = Held(s)
    BY <1>1, <1>3, <1>5, <1>12, <2>1, NetQueue
  <2>3. \A k \in Socks : IF k \in Held(s) THEN Stands(k, "lost", 0)' ELSE Stay(k)
    BY <1>2, <2>1, <2>2
  <2>4. s \notin Serving /\ Serving' = Serving
    BY <1>1, <1>12, NetServes DEF NetClearEnd, NetGoTo, NetStop, NetPollFails, NetStep
  <2>5. Conn!Forget(s)
    BY <2>2, <2>3, <2>4, Moves DEF Conn!Forget
  <2> QED BY <2>5 DEF Lives, Conn!Next
<1>13. CASE (NetUnjoin(s) /\ Unjoins(s)) \/ (NetIdles(s) /\ ~NetClearEnd(s) /\ Keeps(s))
  <2>1. ToSet(Queue(s)') = ToSet(Queue(s))
    BY <1>1, <1>13, NetQueue
       DEF NetIdles, NetUnjoin, NetTake, NetClearBuff, NetClearEnd, NetGoTo
  <2>2. Held(s)' = Held(s) /\ \A k : Life(k, s)' = Life(k, s)
    BY <1>3, <1>13, <2>1 DEF Unjoins, Keeps, Life
  <2>3. \A k \in Socks : Stay(k)
    BY <1>2, <1>4, <2>2
  <2>4. CASE NetStop(s) \/ NetPollFails(s)
    <3>1. s \in Serving /\ Serving' = Serving \ {s} /\ Left(s) = {}
      BY <1>1, <2>4, NetServes
    <3>2. Conn!Down(s)
      BY <1>5, <2>3, <3>1 DEF Conn!Down, Stay
    <3> QED BY <3>2 DEF Lives, Conn!Next
  <2>5. CASE ~NetStop(s) /\ ~NetPollFails(s)
    BY <1>1, <2>3, <2>5, NetServes DEF Lives
  <2> QED BY <2>4, <2>5
<1> QED BY <1>1, <1>6, <1>7, <1>8, <1>10, <1>11, <1>12, <1>13, NetCases

-------------------------------------------------------------------------------
(* The accept thread moves the socket in its hand, and admits it only      *)
(* while the exact counter is below the limit.                             *)

LEMMA AcceptHolds ==
  ASSUME OwnerInv, AcceptThread
  PROVE  /\ \A s \in Servers : Joined(s)' = Joined(s) /\ Left(s)' = Left(s)
         /\ AcceptAdd => \E s \in Servers, k \in Socks :
                            /\ InHand = {k} /\ InHand' = {} /\ open' = open
                            /\ Held(s)' = Held(s) \cup {k}
                            /\ \A r \in Servers \ {s} : Held(r)' = Held(r)
         /\ ~AcceptAdd => \A s \in Servers : Held(s)' = Held(s)
<1>1. TypeInv /\ TypeOK /\ \A s \in Servers : Local(s)
  BY DEF OwnerInv, TypeInv
<1>2. UNCHANGED <<clients, taken, netVars>>
  BY DEF notAccept, queueVars, AcceptThread, AcceptConnection, AcceptLimit,
       AcceptRefuse, AcceptCount, AcceptScan, AcceptAdd, AcceptPollFails, AcceptExitTest,
       AcceptExitStore, AcceptStop, AcceptSignal, AcceptLastStore, AcceptGoTo
<1>3. \A s \in Servers : Joined(s)' = Joined(s) /\ Left(s)' = Left(s)
  BY <1>2 DEF Joined, Mapped, Stale, Leaving, Left, netVars
<1>4. ASSUME NEW s \in Servers, buff'[s] = buff[s] PROVE Held(s)' = Held(s)
  BY <1>1, <1>2, <1>4, SameServer DEF netVars
<1>5. ASSUME AcceptAdd
      PROVE  \E s \in Servers, k \in Socks :
               /\ InHand = {k} /\ InHand' = {} /\ open' = open
               /\ Held(s)' = Held(s) \cup {k} /\ \A r \in Servers \ {s} : Held(r)' = Held(r)
  <2> PICK s \in Servers, k \in Socks : s = amin /\ k = acur
    BY <1>1, <1>5 DEF AcceptAdd, TypeInv, TypeOK, InHandTyped
  <2>1. /\ InHand = {k} /\ InHand' = {} /\ open' = open
        /\ buff'[s] = Append(buff[s], k) /\ \A r \in Servers \ {s} : buff'[r] = buff[r]
    BY <1>1, <1>5 DEF AcceptAdd, InHand, TypeOK, sockVars
  <2>2. \A r \in Servers \ {s} : Held(r)' = Held(r)
    BY <1>4, <2>1
  <2>3. Queue(s)' = SubSeq(Append(buff[s], k), taken[s] + 1, Len(Append(buff[s], k)))
    BY <1>2, <2>1 DEF Queue
  <2>4. buff[s] \in Seq(Socks) /\ taken[s] \in 0..Len(buff[s])
    BY <1>1 DEF Local, TakenFits, TypeOK
  <2>5. ToSet(Queue(s)') = ToSet(Queue(s)) \cup {k}
    <3> PICK b \in Seq(Socks) : b = buff[s]
      BY <2>4
    <3> PICK n \in 0..Len(b) : n = taken[s]
      BY <2>4
    <3>1. ToSet(SubSeq(Append(b, k), n + 1, Len(Append(b, k))))
            = ToSet(SubSeq(b, n + 1, Len(b))) \cup {k}
      BY RestOfAppended
    <3> QED BY <2>3, <3>1 DEF Queue
  <2>6. Held(s)' = Held(s) \cup {k}
    BY <1>3, <2>5, HeldParts
  <2> QED BY <2>1, <2>2, <2>6
<1>6. ~AcceptAdd => UNCHANGED buff
  BY DEF notAccept, queueVars, AcceptThread, AcceptConnection, AcceptLimit,
       AcceptRefuse, AcceptCount, AcceptScan, AcceptPollFails, AcceptExitTest,
       AcceptExitStore, AcceptStop, AcceptSignal, AcceptLastStore, AcceptGoTo
<1> QED BY <1>3, <1>4, <1>5, <1>6

LEMMA AcceptLives ==
  ASSUME CountInv, OwnerInv', LimitInv, AcceptThread
  PROVE  Lives
<1> USE DEF CountInv
<1>1. OwnerInv /\ TypeInv /\ TypeOK /\ InOrder /\ InOrder'
  BY OrderNow, OrderNext DEF OwnerInv, TypeInv
<1>2. Serving' = Serving
  BY DEF Serving, notAccept, netVars, AcceptThread, AcceptConnection, AcceptLimit,
       AcceptRefuse, AcceptCount, AcceptScan, AcceptAdd, AcceptPollFails, AcceptExitTest,
       AcceptExitStore, AcceptStop, AcceptSignal, AcceptLastStore, AcceptGoTo
<1>3. \A k, s : s \in Servers => Life(k, s)' = Life(k, s)
  BY <1>1, AcceptHolds DEF Life
<1>4. ASSUME NEW k \in Socks, k \in open <=> k \in open', k \in InHand <=> k \in InHand',
             k \in InHand => (apc = "scan" <=> apc' = "scan"),
             \A s \in Servers : k \in Held(s) <=> k \in Held(s)'
      PROVE  Stay(k)
  BY <1>1, <1>3, <1>4, Stays
<1>5. CASE AcceptConnection
  <2>1. PICK k \in Socks \ open :
           open' = open \cup {k} /\ InHand' = {k} /\ InHand = {} /\ apc' = "limit"
    BY <1>5 DEF AcceptConnection, InHand
  <2>2. Phase(k) = "free" /\ Stands(k, "arrived", 0)'
    BY <1>1, <2>1 DEF InOrder, Stands
  <2>3. \A s \in Servers : Held(s)' = Held(s)
    BY <1>1, <1>5, AcceptHolds DEF AcceptConnection, AcceptAdd
  <2>4. \A j \in Socks \ {k} : Stay(j)
    BY <1>4, <2>1, <2>3
  <2>5. Conn!Move({k}, "arrived", 0)
    BY <1>2, <2>2, <2>4, Moves
  <2>6. Conn!Arrive(k)
    BY <2>2, <2>5 DEF Conn!Arrive
  <2> QED BY <2>6 DEF Lives, Conn!Next
<1>6. CASE AcceptRefuse
  <2> PICK k \in Socks : k = acur
    BY <1>1, <1>6 DEF AcceptRefuse, TypeInv, InHandTyped
  <2>1. open' = open \ {k} /\ InHand = {k} /\ InHand' = {} /\ apc = "refuse"
    BY <1>6 DEF AcceptRefuse, Destroy, InHand
  <2>2. Phase(k) = "arrived" /\ Stands(k, "free", 0)'
    BY <1>1, <2>1 DEF InOrder, Stands
  <2>3. \A s \in Servers : Held(s)' = Held(s)
    BY <1>1, <1>6, AcceptHolds DEF AcceptRefuse, AcceptAdd
  <2>4. \A j \in Socks \ {k} : Stay(j)
    BY <1>4, <2>1, <2>3
  <2>5. Conn!Move({k}, "free", 0)
    BY <1>2, <2>2, <2>4, Moves
  <2>6. Conn!Refuse(k)
    BY <2>2, <2>5 DEF Conn!Refuse
  <2> QED BY <2>6 DEF Lives, Conn!Next
<1>7. CASE AcceptCount
  <2> PICK k \in Socks : k = acur
    BY <1>1, <1>7 DEF AcceptCount, TypeInv, InHandTyped
  <2>1. /\ open' = open /\ InHand = {k} /\ InHand' = {k} /\ apc = "count" /\ apc' = "scan"
        /\ clientAccept < MaxClient
    BY <1>7 DEF AcceptCount, InHand, sockVars, LimitInv
  <2>2. Phase(k) = "arrived" /\ Stands(k, "accepted", 0)'
    BY <1>1, <2>1 DEF InOrder, Stands
  <2>3. \A s \in Servers : Held(s)' = Held(s)
    BY <1>1, <1>7, AcceptHolds DEF AcceptCount, AcceptAdd
  <2>4. \A j \in Socks \ {k} : Stay(j)
    BY <1>4, <2>1, <2>3
  <2>5. Cardinality(Conn!Admitted) < MaxClient
    <3>1. clientAccept = Cardinality(Counted) + abandoned /\ Cardinality(Counted) \in Nat
      BY <1>1, CountedFinite, FS_CardinalityType DEF CountersExact, Counted
    <3>2. abandoned \in Nat /\ MaxClient \in Nat
      BY <1>1, CellAssumption DEF TypeOK
    <3>3. Cardinality(Counted) < MaxClient
      BY <2>1, <3>1, <3>2
    <3> QED BY <1>1, <3>3, AdmittedCounted
  <2>6. Conn!Cardinality(Conn!Admitted) = Cardinality(Conn!Admitted)
    BY DEF Conn!Cardinality, Cardinality
  <2>7. Conn!Move({k}, "accepted", 0)
    BY <1>2, <2>2, <2>4, Moves
  <2>8. Conn!Admit(k)
    BY <2>2, <2>5, <2>6, <2>7 DEF Conn!Admit
  <2> QED BY <2>8 DEF Lives, Conn!Next
<1>8. CASE AcceptAdd
  <2>1. PICK s \in Servers, k \in Socks :
               /\ InHand = {k} /\ InHand' = {} /\ open' = open
               /\ Held(s)' = Held(s) \cup {k} /\ \A r \in Servers \ {s} : Held(r)' = Held(r)
    BY <1>1, <1>8, AcceptHolds
  <2>2. Phase(k) = "accepted"
    BY <1>1, <1>8, <2>1 DEF AcceptAdd, InOrder, Stands
  <2>3. Life(k, s)' = "waiting"
    <3>1. k \notin Joined(s) /\ k \notin Left(s)
      BY <1>1, <2>1, HeldParts DEF OwnerInv, Shared
    <3> QED BY <1>3, <3>1 DEF Life
  <2>4. Stands(k, "waiting", s)'
    <3>1. k \in Held(s)'
      BY <2>1
    <3>2. Stands(k, Life(k, s), s)'
      BY <1>1, <3>1 DEF InOrder
    <3> QED BY <2>3, <3>2 DEF Stands
  <2>5. \A j \in Socks \ {k} : Stay(j)
    BY <1>4, <2>1
  <2>6. Conn!Move({k}, "waiting", s)
    BY <1>2, <2>4, <2>5, Moves
  <2>7. Conn!Place(k, s)
    BY <2>2, <2>6 DEF Conn!Place
  <2> QED BY <2>7 DEF Lives, Conn!Next
<1>9. CASE ~AcceptConnection /\ ~AcceptRefuse /\ ~AcceptCount /\ ~AcceptAdd
  <2>1. open' = open
    BY <1>9 DEF sockVars, AcceptThread, AcceptLimit, AcceptScan, AcceptPollFails,
         AcceptExitTest, AcceptExitStore, AcceptStop, AcceptSignal, AcceptLastStore, AcceptGoTo
  <2>2. InHand' = InHand /\ (InHand # {} => (apc = "scan" <=> apc' = "scan"))
    BY <1>9 DEF InHand, AcceptThread, AcceptLimit, AcceptScan, AcceptPollFails,
         AcceptExitTest, AcceptExitStore, AcceptStop, AcceptSignal, AcceptLastStore, AcceptGoTo
  <2>3. \A k \in Socks : Stay(k)
    BY <1>1, <1>4, <1>9, <2>1, <2>2, AcceptHolds
  <2> QED BY <1>2, <2>3 DEF Lives
<1> QED BY <1>5, <1>6, <1>7, <1>8, <1>9

-------------------------------------------------------------------------------
(* Main makes Servers that have no clients, and starts them.  An entry     *)
(* that came to the buffer of a Server after it had gone down is forgotten *)
(* with it, at the latest when the next one takes its place.               *)

LEMMA RestLives ==
  ASSUME CountInv, OwnerInv', [Next]_vars, ~AcceptThread, \A s \in Servers : ~NetThread(s)
  PROVE  Lives
<1> USE DEF CountInv
<1>1. OwnerInv /\ TypeOK /\ InOrder /\ InOrder' /\ \A s \in Servers : Local(s) /\ Local(s)'
  BY OrderNow, OrderNext DEF OwnerInv, TypeInv
<1>2. open' = open /\ InHand' = InHand /\ (InHand # {} => apc' = apc)
  <2>1. open' = open
    BY DEF Next, PeerCloses, TaskThread, TaskStop, TaskSignal, TaskLastStore, TaskGoTo, MainThread,
         StartTask, StartNet, StartAccept, CloseThread, CloseBlock, CloseReturn, Close, notMain,
         sockVars, vars
  <2>2. InHand' = InHand /\ (InHand # {} => apc' = apc)
    BY DEF Next, PeerCloses, TaskThread, TaskStop, TaskSignal, TaskLastStore, TaskGoTo, MainThread,
         StartTask, StartNet, StartAccept, CloseThread, CloseBlock, CloseReturn, Close, notMain,
         acceptVars, InHand, vars
  <2> QED BY <2>1, <2>2
<1>3. ASSUME NEW k \in Socks, \A r \in Servers : /\ k \in Held(r) <=> k \in Held(r)'
                                                 /\ k \in Held(r) => Life(k, r)' = Life(k, r)
      PROVE  Stay(k)
  BY <1>1, <1>2, <1>3, Stays
<1>4. ASSUME NEW r \in Servers,
             clients'[r] = clients[r], buff'[r] = buff[r], taken'[r] = taken[r],
             spc'[r] = spc[r], cur'[r] = cur[r], from'[r] = from[r], events'[r] = events[r]
      PROVE  Held(r)' = Held(r) /\ \A k : Life(k, r)' = Life(k, r)
  BY <1>1, <1>4, SameServer DEF Life, Joined, Mapped, Stale, Leaving, Left
<1>5. ASSUME NEW s \in Servers, StartTask(s) PROVE Lives
  <2>1. /\ spc[s] \in {"none", "ended"} /\ spc'[s] = "none"
        /\ clients'[s] = {} /\ buff'[s] = <<>> /\ UNCHANGED <<taken, cur, from, events>>
        /\ \A r \in Servers \ {s} :
              clients'[r] = clients[r] /\ buff'[r] = buff[r] /\ spc'[r] = spc[r]
    BY <1>1, <1>5 DEF StartTask, TypeOK
  <2>2. /\ Left(s) = {} /\ Left(s)' = {} /\ Joined(s) = {} /\ Joined(s)' = {}
    BY <2>1 DEF Emptied, Left, Joined, Mapped, Leaving
  <2>3. Held(s)' = {}
    <3>1. taken'[s] = 0
      BY <1>1, <2>1 DEF Local, TakenFits
    <3>2. <<>> \in Seq(Socks) /\ Queue(s)' = SubSeq(<<>>, Len(<<>>) + 1, Len(<<>>))
      BY <2>1, <3>1 DEF Queue
    <3> QED BY <2>2, <3>2, RestEmpty, HeldParts
  <2>4. \A r \in Servers \ {s} : Held(r)' = Held(r) /\ \A k : Life(k, r)' = Life(k, r)
    BY <1>4, <2>1
  <2>5. Conn!Those("waiting", s) = Held(s)
    BY <1>1, <2>2, ThoseHeld
  <2>6. \A k \in Socks : IF k \in Held(s) THEN Stands(k, "lost", 0)' ELSE Stay(k)
    <3>1. ASSUME NEW k \in Socks, k \in Held(s)
          PROVE  k \in open' \ InHand' /\ \A r \in Servers : k \notin Held(r)'
      BY <1>1, <1>2, <2>3, <2>4, <3>1 DEF OwnerInv, Shared
    <3>2. ASSUME NEW k \in Socks, k \notin Held(s) PROVE Stay(k)
      BY <1>3, <2>3, <2>4, <3>2
    <3> QED BY <1>1, <3>1, <3>2 DEF InOrder
  <2>7. s \notin Serving /\ Serving' = Serving
    BY <2>1 DEF Serving
  <2>8. Conn!Forget(s)
    BY <2>5, <2>6, <2>7, Moves DEF Conn!Forget
  <2> QED BY <2>8 DEF Lives, Conn!Next
<1>6. ASSUME NEW s \in Servers, StartNet(s) PROVE Lives
  <2>1. /\ spc[s] = "none" /\ spc'[s] = "top" /\ UNCHANGED <<queueVars, cur, from, events>>
        /\ \A r \in Servers \ {s} : spc'[r] = spc[r]
    BY <1>1, <1>6 DEF StartNet, TypeOK, OwnerInv, Fresh
  <2>2. Left(s) = {} /\ Left(s)' = {} /\ Joined(s) = {} /\ Joined(s)' = {}
    BY <2>1 DEF Emptied, Left, Joined, Mapped, Leaving, queueVars
  <2>3. Queue(s)' = Queue(s)
    BY <2>1 DEF Queue, queueVars
  <2>4. Held(s)' = Held(s) /\ \A k : Life(k, s)' = Life(k, s)
    BY <2>2, <2>3, HeldParts DEF Life
  <2>5. \A r \in Servers \ {s} : Held(r)' = Held(r) /\ \A k : Life(k, r)' = Life(k, r)
    BY <1>4, <2>1 DEF queueVars
  <2>6. \A k \in Socks : Stay(k)
    BY <1>3, <2>4, <2>5
  <2>7. Serving' = Serving \cup {s} /\ s \notin Serving
    BY <2>1 DEF Serving
  <2>8. Conn!Those("joined", s) \cup Conn!Those("left", s) = {}
    BY <1>1, <2>2, ThoseHeld
  <2>9. Conn!Up(s)
    BY <2>6, <2>7, <2>8 DEF Conn!Up, Stay
  <2> QED BY <2>9 DEF Lives, Conn!Next
<1>7. CASE \A s \in Servers : ~StartTask(s) /\ ~StartNet(s)
  <2>1. UNCHANGED <<queueVars, netVars>>
    BY <1>7 DEF Next, PeerCloses, TaskThread, TaskStop, TaskSignal, TaskLastStore, TaskGoTo,
         MainThread, StartAccept, CloseThread, CloseBlock, CloseReturn, Close, notMain, vars
  <2>2. \A r \in Servers : Held(r)' = Held(r) /\ \A k : Life(k, r)' = Life(k, r)
    BY <1>4, <2>1 DEF queueVars, netVars
  <2>3. Serving' = Serving
    BY <2>1 DEF Serving, netVars
  <2>4. \A k \in Socks : Stay(k)
    BY <1>3, <2>2
  <2> QED BY <2>3, <2>4 DEF Lives
<1> QED BY <1>5, <1>6, <1>7

\* All the threads together implement Connections: a connection is admitted only
\* while fewer than the limit are, joins the Server it waits at, leaves it once
\* and is closed after that, whatever the order in which the threads act; only a
\* Server whose net thread has left its loop drops the clients it holds.
THEOREM ConnectionsImplemented == Spec => ConnectionsKept
<1>1. Init => Conn!Init
  <2> SUFFICES ASSUME Init PROVE Conn!Init
    OBVIOUS
  <2>1. \A k \in Socks : Stands(k, "free", 0)
    BY OwnerInit, OrderNow DEF Init, InOrder
  <2>2. Serving = {}
    BY DEF Init, Serving
  <2> QED BY <2>1, <2>2 DEF Conn!Init, Stands
<1>2. CountInv /\ TypeOK /\ LimitInv /\ [Next]_vars => [Conn!Next]_(Conn!vars)
  <2> SUFFICES ASSUME CountInv, LimitInv, [Next]_vars
               PROVE  [Conn!Next]_(Conn!vars)
    OBVIOUS
  <2>1. OwnerInv'
    BY OwnerStep DEF CountInv
  <2>2. Lives
    BY <2>1, NetLives, AcceptLives, RestLives
  <2> QED BY <2>2 DEF Lives, Stay, Conn!vars
<1>3. CountInv /\ [Next]_vars => CountInv'
  BY CountStep
<1>4. Init => CountInv /\ LimitInv
  BY CountInit, CellAssumption DEF Init, LimitInv, AcceptWithinLimit
<1>5. CountInv => TypeOK
  BY DEF CountInv, OwnerInv, TypeInv
<1> QED BY <1>1, <1>2, <1>3, <1>4, <1>5, LimitStep, PTL DEF Spec, ConnectionsKept, Conn!Spec
-------------------------------------------------------------------------------
(* The shutdown                                                            *)

(***************************************************************************)
(* The order of the shutdown, in executions in which no poll fails.        *)
(* Neither property is inductive: that ClearClients is alone rests on no   *)
(* thread leaving its loop before main is at it, and on Close returning no *)
(* earlier than the thread has given its wakeup, which is what the two     *)
(* counters of its Semaphore say for each place of main and of the thread. *)
(***************************************************************************)
Place(t) ==
  IF t = Accept THEN apc ELSE IF t % 2 = 0 THEN tpc[ServerOf(t)] ELSE spc[ServerOf(t)]

\* In its loop, on its way out of it, past its wakeup (or not there), or in Exit.
Part(p) ==
  IF p \in {"none", "store", "ended"} THEN "over"
  ELSE IF p \in {"clear", "clearBuff", "clearEnd", "wakeup"} THEN "quit"
  ELSE IF p \in {"exit", "exitLock"} THEN "exit" ELSE "loop"

\* Main has started the Thread and not come to its Close; it is in its Close.
Up(t) ==
  \/ mpc = "start" /\ 1 < t /\ t < midx
  \/ mpc = "listen" /\ 1 < t
  \/ mpc = "up"
  \/ mpc = "close" /\ midx <= t
  \/ mpc \in {"wait", "blocked"} /\ midx < t

Closing(t) == mpc \in {"wait", "blocked"} /\ t = midx

\* The permits of a Thread, and whether it has given one.
Counts(t, wait, wakeup) == semWait[t] = wait /\ semWakeup[t] = wakeup

Stage(t) ==
  /\ Part(Place(t)) # "exit"
  /\ Up(t) => isRun[t] /\ Counts(t, 0, 0) /\ Part(Place(t)) = "loop"
  /\ Closing(t) =>
       /\ ~isRun[t]
       /\ IF Part(Place(t)) = "over"
          THEN IF mpc = "wait" THEN Counts(t, 1, 0) ELSE Counts(t, 0, 1)
          ELSE IF mpc = "wait" THEN Counts(t, 0, 0) ELSE Counts(t, -1, 0)
  /\ ~Up(t) /\ ~Closing(t) => ~isRun[t] /\ Counts(t, 0, 0) /\ Part(Place(t)) = "over"

\* Every Thread is the accept thread or one of a Server, and has its place.
LEMMA Places ==
  /\ \A t \in Threads : t = Accept \/ \E s \in Servers : t = Task(s) \/ t = Net(s)
  /\ Place(Accept) = apc /\ Place(Accept)' = apc'
  /\ \A s \in Servers : /\ Place(Task(s)) = tpc[s] /\ Place(Task(s))' = tpc'[s]
                        /\ Place(Net(s)) = spc[s] /\ Place(Net(s))' = spc'[s]
<1>1. ASSUME NEW s \in Servers
      PROVE  /\ Task(s) # Accept /\ Task(s) % 2 = 0 /\ ServerOf(Task(s)) = s
             /\ Net(s) # Accept /\ Net(s) % 2 # 0 /\ ServerOf(Net(s)) = s
  BY CellAssumption DEF Servers, Task, Net, Accept, ServerOf
<1>2. ASSUME NEW t \in Threads, t # Accept
      PROVE  \E s \in Servers : t = Task(s) \/ t = Net(s)
  <2>1. t \div 2 \in Servers /\ (t = Task(t \div 2) \/ t = Net(t \div 2))
    BY <1>2, CellAssumption DEF Servers, Task, Net, Accept, LastThread
  <2> QED BY <2>1
<1> QED BY <1>1, <1>2 DEF Place

\* What a thread can do to itself, as long as no poll fails.
Works(u) ==
  /\ \A t \in Threads \ {u} : Place(t)' = Place(t)
  /\ UNCHANGED <<mpc, midx>>
  /\ \/ UNCHANGED threadVars /\ Part(Place(u)') = Part(Place(u))
     \/ UNCHANGED threadVars /\ ~isRun[u] /\ Part(Place(u)) = "loop" /\ Part(Place(u)') = "quit"
     \/ Wakeup(u) /\ Part(Place(u)) = "quit" /\ Part(Place(u)') = "over"
     \/ EndRun(u) /\ Part(Place(u)) = "over" /\ Part(Place(u)') = "over"

LEMMA WorkerStage ==
  ASSUME TypeOK, \A t \in Threads : Stage(t), NEW u \in Threads, Works(u)
  PROVE  \A t \in Threads : Stage(t)'
<1> USE DEF TypeOK, ThreadTypeOK, Counts
<1>1. UNCHANGED <<mpc, midx>> /\ \A t \in Threads : (Up(t)' <=> Up(t)) /\ (Closing(t)' <=> Closing(t))
  BY DEF Works, Up, Closing
<1>2. ASSUME NEW t \in Threads \ {u} PROVE Stage(t)'
  <2>1. /\ Place(t)' = Place(t) /\ isRun'[t] = isRun[t]
        /\ semWait'[t] = semWait[t] /\ semWakeup'[t] = semWakeup[t]
    BY DEF Works, threadVars, Wakeup, EndRun
  <2> QED BY <1>1, <2>1 DEF Stage
<1>3. Stage(u)'
  <2> DEFINE p == Part(Place(u))
             q == Part(Place(u)')
  <2>1. p # "exit" /\ q = Part(Place(u))'
    BY DEF Stage
  <2>2. CASE UNCHANGED threadVars /\ q = p
    BY <1>1, <2>1, <2>2 DEF Stage, threadVars
  <2>3. CASE UNCHANGED threadVars /\ ~isRun[u] /\ p = "loop" /\ q = "quit"
    BY <1>1, <2>1, <2>3 DEF Stage, threadVars
  <2>4. CASE Wakeup(u) /\ p = "quit" /\ q = "over"
    <3>1. Closing(u) /\ ~Up(u)
      BY <2>4 DEF Stage
    <3>2. /\ isRun' = isRun /\ semWait'[u] = semWait[u] + 1
          /\ semWakeup'[u] = IF semWait[u] + 1 <= 0 THEN semWakeup[u] + 1 ELSE semWakeup[u]
      BY <2>4 DEF Wakeup
    <3>3. /\ ~isRun[u]
          /\ \/ mpc = "wait" /\ semWait[u] = 0 /\ semWakeup[u] = 0
             \/ mpc # "wait" /\ semWait[u] = -1 /\ semWakeup[u] = 0
      BY <2>4, <3>1 DEF Stage
    <3>4. /\ ~isRun'[u]
          /\ IF mpc = "wait" THEN Counts(u, 1, 0)' ELSE Counts(u, 0, 1)'
      BY <3>2, <3>3
    <3> QED BY <1>1, <2>1, <2>4, <3>1, <3>4 DEF Stage
  <2>5. CASE EndRun(u) /\ p = "over" /\ q = "over"
    <3>1. ~Up(u) /\ ~isRun'[u] /\ UNCHANGED <<semWait, semWakeup>>
      BY <2>5 DEF Stage, EndRun
    <3> QED BY <1>1, <2>1, <2>5, <3>1 DEF Stage
  <2> QED BY <2>2, <2>3, <2>4, <2>5 DEF Works
<1> QED BY <1>2, <1>3

\* The accept thread, ...
LEMMA AcceptWorks ==
  ASSUME TypeOK, Stage(Accept), AcceptThread, pollFailures = 0, pollFailures' = 0
  PROVE  Works(Accept)
<1>1. UNCHANGED <<mpc, midx, tpc>> /\ UNCHANGED spc
  BY DEF mainVars, netVars, AcceptThread, AcceptConnection, AcceptLimit, AcceptRefuse, AcceptCount,
         AcceptScan, AcceptAdd, AcceptPollFails, AcceptExitTest, AcceptExitStore, AcceptStop,
         AcceptSignal, AcceptLastStore, AcceptGoTo, notAccept
<1>2. \A t \in Threads \ {Accept} : Place(t)' = Place(t)
  BY <1>1 DEF Place
<1>3. apc \notin {"exit", "exitLock"}
  BY Places DEF Stage, Part
<1>4. \/ UNCHANGED threadVars /\ Part(apc') = Part(apc)
      \/ UNCHANGED threadVars /\ ~isRun[Accept] /\ Part(apc) = "loop" /\ Part(apc') = "quit"
      \/ Wakeup(Accept) /\ Part(apc) = "quit" /\ Part(apc') = "over"
      \/ EndRun(Accept) /\ Part(apc) = "over" /\ Part(apc') = "over"
  BY <1>3 DEF Part, AcceptThread, AcceptConnection, AcceptLimit, AcceptRefuse, AcceptCount,
         AcceptScan, AcceptAdd, AcceptPollFails, AcceptExitTest, AcceptExitStore, AcceptStop,
         AcceptSignal, AcceptLastStore, AcceptGoTo
<1> QED BY <1>1, <1>2, <1>4, Places DEF Works

\* ... a task thread ...
LEMMA TaskWorks ==
  ASSUME TypeOK, NEW s \in Servers, TaskThread(s)
  PROVE  Works(Task(s))
<1>1. UNCHANGED <<mpc, midx, apc, spc>> /\ \A r \in Servers \ {s} : tpc'[r] = tpc[r]
  BY DEF mainVars, netVars, acceptVars, TaskThread, TaskStop, TaskSignal, TaskLastStore, TaskGoTo,
         TypeOK
<1>2. ASSUME NEW t \in Threads \ {Task(s)} PROVE Place(t)' = Place(t)
  BY <1>1, Places
<1>3. \/ UNCHANGED threadVars /\ ~isRun[Task(s)] /\ tpc[s] = "loop" /\ tpc'[s] = "wakeup"
      \/ Wakeup(Task(s)) /\ tpc[s] = "wakeup" /\ tpc'[s] = "store"
      \/ EndRun(Task(s)) /\ tpc[s] = "store" /\ tpc'[s] = "ended"
  BY DEF TaskThread, TaskStop, TaskSignal, TaskLastStore, TaskGoTo, TypeOK
<1> QED BY <1>1, <1>2, <1>3, Places DEF Works, Part

\* ... and a net thread.
LEMMA NetWorks ==
  ASSUME TypeOK, NEW s \in Servers, Stage(Net(s)), NetThread(s),
         pollFailures = 0, pollFailures' = 0
  PROVE  Works(Net(s))
<1>1. UNCHANGED <<mpc, midx, apc, tpc>> /\ \A r \in Servers \ {s} : spc'[r] = spc[r]
  BY DEF notNet, mainVars, acceptVars, TypeOK, NetGoTo,
         NetThread, NetStop, NetTurn, NetLock, NetTake, NetTaken, NetRun, NetExpire,
         NetChecked, NetPoll, NetPollFails, NetRecv, NetSend, NetSendFails, NetPolled, NetMsg,
         NetRemove, NetLeave, NetUnjoin, NetDelete, NetErase, NetExitTest, NetExitStore,
         NetClear, NetClearBuff, NetClearEnd, NetSignal, NetLastStore, NetStep
<1>2. ASSUME NEW t \in Threads \ {Net(s)} PROVE Place(t)' = Place(t)
  BY <1>1, Places
<1>3. spc[s] \notin {"exit", "exitLock"}
  BY Places DEF Stage, Part
<1>4. \/ UNCHANGED threadVars /\ Part(spc'[s]) = Part(spc[s])
      \/ UNCHANGED threadVars /\ ~isRun[Net(s)] /\ Part(spc[s]) = "loop" /\ Part(spc'[s]) = "quit"
      \/ Wakeup(Net(s)) /\ Part(spc[s]) = "quit" /\ Part(spc'[s]) = "over"
      \/ EndRun(Net(s)) /\ Part(spc[s]) = "over" /\ Part(spc'[s]) = "over"
  <2>1. ASSUME NEW pc, NEW to, NetGoTo(s, pc, to) PROVE spc[s] = pc /\ spc'[s] = to
    BY <2>1 DEF NetGoTo, TypeOK
  <2>2. CASE NetStop(s)
    BY <2>1, <2>2 DEF NetStop, NetStep, Part
  <2>3. CASE NetSignal(s)
    BY <2>1, <2>3 DEF NetSignal, Part
  <2>4. CASE NetLastStore(s)
    BY <2>1, <2>4 DEF NetLastStore, Part
  <2>5. CASE NetClear(s) \/ NetClearBuff(s) \/ NetClearEnd(s)
    BY <2>1, <2>5 DEF NetClear, NetClearBuff, NetClearEnd, Part
  <2>6. ASSUME NEW pc, NEW to, NetGoTo(s, pc, to), Part(pc) = "loop", Part(to) = "loop",
               UNCHANGED threadVars
        PROVE  UNCHANGED threadVars /\ Part(spc'[s]) = Part(spc[s])
    BY <2>1, <2>6
  <2>7. \A p \in {"top", "lock", "take", "net", "check", "poll", "event", "out", "msg", "remove",
                  "leave", "unjoin", "delete", "erase"} : Part(p) = "loop"
    BY DEF Part
  <2>8. ~NetPollFails(s) /\ ~NetExitTest(s) /\ ~NetExitStore(s)
    BY <1>3 DEF NetPollFails, NetExitTest, NetExitStore, NetStep, NetGoTo
  <2> QED BY <2>2, <2>3, <2>4, <2>5, <2>6, <2>7, <2>8
      DEF NetThread, NetTurn, NetLock, NetTake, NetTaken, NetRun, NetExpire,
          NetChecked, NetPoll, NetRecv, NetSend, NetSendFails, NetPolled, NetMsg,
          NetRemove, NetLeave, NetUnjoin, NetDelete, NetErase, NetStep
<1> QED BY <1>1, <1>2, <1>4, Places DEF Works

LEMMA OtherPlaces ==
  ASSUME NEW s \in Servers, apc' = apc,
         \A r \in Servers \ {s} : tpc'[r] = tpc[r] /\ spc'[r] = spc[r]
  PROVE  \A t \in Threads \ {Task(s), Net(s)} : Place(t)' = Place(t)
<1> TAKE t \in Threads \ {Task(s), Net(s)}
<1>1. CASE t = Accept
  BY <1>1, Places
<1>2. ASSUME NEW r \in Servers, t = Task(r) \/ t = Net(r) PROVE Place(t)' = Place(t)
  <2>1. tpc'[r] = tpc[r] /\ spc'[r] = spc[r]
    BY <1>2
  <2> QED BY <1>2, <2>1, Places
<1> QED BY <1>1, <1>2, Places

\* Main: each step of Start and Close takes the Threads one stage further.
LEMMA MainStage ==
  ASSUME TypeOK, \A t \in Threads : Stage(t), MainThread \/ Close
  PROVE  \A t \in Threads : Stage(t)'
<1> USE DEF Counts
<1>0. /\ isRun \in [Threads -> BOOLEAN] /\ semWait \in [Threads -> Int] /\ semWakeup \in [Threads -> Nat]
      /\ spc \in [Servers -> NetPC] /\ tpc \in [Servers -> TaskPC] /\ midx \in Threads
  BY DEF TypeOK, ThreadTypeOK
<1> USE <1>0
<1>1. /\ \A t \in Threads : t \in Int /\ 1 <= t /\ t <= LastThread
      /\ Accept = 1 /\ \A s \in Servers : Net(s) = Task(s) + 1 /\ Task(s) >= 2
      /\ LastThread \in Int
  BY CellAssumption DEF Servers, Task, Net, Accept, LastThread
<1>2. ASSUME NEW s \in Servers, StartTask(s) PROVE \A t \in Threads : Stage(t)'
  <2>1. /\ mpc = "start" /\ mpc' = "start" /\ midx = Task(s) /\ midx' = Net(s)
        /\ isRun'[Task(s)] /\ Counts(Task(s), 0, 0)' /\ ~isRun'[Net(s)] /\ Counts(Net(s), 0, 0)'
        /\ \A t \in Threads \ {Task(s), Net(s)} :
             isRun'[t] = isRun[t] /\ semWait'[t] = semWait[t] /\ semWakeup'[t] = semWakeup[t]
    BY <1>1, <1>2, ThreadNumbers DEF StartTask
  <2>2. /\ Place(Task(s))' = "loop" /\ Place(Net(s))' = "none"
        /\ \A t \in Threads \ {Task(s), Net(s)} : Place(t)' = Place(t)
    <3>1. /\ tpc'[s] = "loop" /\ spc'[s] = "none" /\ apc' = apc
          /\ \A r \in Servers \ {s} : tpc'[r] = tpc[r] /\ spc'[r] = spc[r]
      BY <1>2 DEF StartTask, acceptVars
    <3> QED BY <3>1, Places, OtherPlaces
  <2>3. ASSUME NEW t \in Threads \ {Task(s), Net(s)} PROVE Stage(t)'
    <3>1. (Up(t)' <=> Up(t)) /\ ~Closing(t) /\ ~Closing(t)'
      BY <1>1, <2>1 DEF Up, Closing
    <3> QED BY <2>1, <2>2, <2>3, <3>1 DEF Stage
  <2>4. Stage(Task(s))'
    <3>1. Up(Task(s))' /\ ~Closing(Task(s))'
      BY <1>1, <2>1 DEF Up, Closing
    <3> QED BY <2>1, <2>2, <3>1 DEF Stage, Part
  <2>5. Stage(Net(s))'
    <3>1. ~Up(Net(s))' /\ ~Closing(Net(s))'
      BY <1>1, <2>1 DEF Up, Closing
    <3> QED BY <2>1, <2>2, <3>1 DEF Stage, Part
  <2> QED BY <2>3, <2>4, <2>5
<1>3. ASSUME NEW u \in Threads, StartThread(u), ~Up(u), ~Closing(u), Up(u)', Part(Place(u)') = "loop",
             \A t \in Threads \ {u} :
               Place(t)' = Place(t) /\ (Up(t)' <=> Up(t)) /\ ~Closing(t),
             \A t \in Threads : ~Closing(t)'
      PROVE  \A t \in Threads : Stage(t)'
  <2>1. /\ isRun'[u] /\ semWait'[u] = semWait[u] /\ semWakeup'[u] = semWakeup[u]
        /\ \A t \in Threads \ {u} :
             isRun'[t] = isRun[t] /\ semWait'[t] = semWait[t] /\ semWakeup'[t] = semWakeup[t]
    BY <1>3 DEF StartThread
  <2>2. ASSUME NEW t \in Threads \ {u} PROVE Stage(t)'
    BY <1>3, <2>1, <2>2 DEF Stage
  <2>3. Stage(u)'
    BY <1>3, <2>1 DEF Stage
  <2> QED BY <2>2, <2>3
<1>4. ASSUME NEW s \in Servers, StartNet(s) PROVE \A t \in Threads : Stage(t)'
  <2>1. /\ mpc = "start" /\ midx = Net(s) /\ StartThread(Net(s)) /\ Net(s) \in Threads
        /\ \/ s = NServers /\ mpc' = "listen"
           \/ s # NServers /\ mpc' = "start" /\ midx' = Net(s) + 1
        /\ s = NServers => Net(s) = LastThread
    BY <1>4, ThreadNumbers, CellAssumption DEF StartNet, Task, Net, LastThread, Servers
  <2>2. Place(Net(s))' = "top" /\ \A t \in Threads \ {Net(s)} : Place(t)' = Place(t)
    <3>1. /\ tpc' = tpc /\ spc'[s] = "top" /\ apc' = apc
          /\ \A r \in Servers \ {s} : spc'[r] = spc[r]
      BY <1>4 DEF StartNet, acceptVars
    <3>2. Place(Task(s))' = Place(Task(s))
      BY <3>1, Places
    <3> QED BY <3>1, <3>2, Places, OtherPlaces
  <2>3. /\ ~Up(Net(s)) /\ ~Closing(Net(s)) /\ Up(Net(s))' /\ Part(Place(Net(s))') = "loop"
        /\ \A t \in Threads \ {Net(s)} : (Up(t)' <=> Up(t)) /\ ~Closing(t)
        /\ \A t \in Threads : ~Closing(t)'
    <3>1. mpc' \in {"start", "listen"} /\ Net(s) \in Int /\ 2 < Net(s)
      <4>1. Task(s) \in Int /\ Net(s) \in Int /\ Net(s) = Task(s) + 1 /\ Task(s) >= 2
        BY <1>1, ThreadNumbers
      <4>2. mpc' \in {"start", "listen"}
        BY <2>1
      <4> QED BY <4>1, <4>2
    <3>2. ASSUME NEW t \in Threads PROVE ~Closing(t) /\ ~Closing(t)'
      BY <2>1, <3>1 DEF Closing
    <3>3. ASSUME NEW t \in Threads PROVE Up(t) <=> 1 < t /\ t < Net(s)
      BY <2>1 DEF Up
    <3>4. ASSUME NEW t \in Threads PROVE Up(t)' <=> 1 < t /\ t < Net(s) + 1
      <4>1. CASE mpc' = "listen" /\ Net(s) = LastThread
        BY <1>1, <4>1 DEF Up
      <4>2. CASE mpc' = "start" /\ midx' = Net(s) + 1
        BY <4>2 DEF Up
      <4> QED BY <2>1, <4>1, <4>2
    <3>5. ASSUME NEW t \in Threads \ {Net(s)} PROVE Up(t)' <=> Up(t)
      BY <1>1, <3>1, <3>3, <3>4
    <3>6. ~Up(Net(s)) /\ Up(Net(s))'
      BY <2>1, <3>1, <3>3, <3>4
    <3>7. Part(Place(Net(s))') = "loop"
      BY <2>2 DEF Part
    <3> QED BY <2>1, <3>2, <3>5, <3>6, <3>7
  <2> QED BY <1>3, <2>1, <2>2, <2>3
<1>5. CASE StartAccept
  <2>1. Place(Accept)' = "loop" /\ \A t \in Threads \ {Accept} : Place(t)' = Place(t)
    BY <1>5, Places DEF StartAccept, netVars, Place
  <2>2. /\ ~Up(Accept) /\ ~Closing(Accept) /\ Up(Accept)' /\ Part(Place(Accept)') = "loop"
        /\ \A t \in Threads \ {Accept} : (Up(t)' <=> Up(t)) /\ ~Closing(t)
        /\ \A t \in Threads : ~Closing(t)'
    BY <1>1, <1>5, <2>1 DEF StartAccept, Up, Closing, Part
  <2> QED BY <1>3, <1>5, <2>1, <2>2, ThreadNumbers DEF StartAccept
<1>6. ASSUME UNCHANGED <<apc, tpc, spc>> PROVE \A t \in Threads : Place(t)' = Place(t)
  BY <1>6 DEF Place
<1>7. CASE Close
  <2>1. /\ \A t \in Threads : Place(t)' = Place(t) /\ Up(t) /\ Up(t)' /\ ~Closing(t)'
        /\ UNCHANGED <<isRun, semWait, semWakeup>>
    BY <1>1, <1>6, <1>7 DEF Close, Up, Closing, notMain, acceptVars, netVars, threadVars
  <2> QED BY <2>1 DEF Stage
<1>8. CASE CloseThread
  <2>1. mpc = "close" /\ Up(midx) /\ Stage(midx) /\ isRun[midx]
    BY <1>1, <1>8 DEF CloseThread, Up, Stage
  <2>2. /\ CloseStop(midx, Main) /\ mpc' = "wait" /\ midx' = midx
        /\ \A t \in Threads : Place(t)' = Place(t)
    BY <1>6, <1>8, <2>1 DEF CloseThread, CloseIdle, notMain, acceptVars, netVars
  <2>3. /\ ~isRun'[midx] /\ semWait' = semWait /\ semWakeup' = semWakeup
        /\ \A t \in Threads \ {midx} : isRun'[t] = isRun[t]
    BY <1>1, <2>2 DEF CloseStop
  <2>4. ASSUME NEW t \in Threads, t # midx PROVE Stage(t)'
    <3>1. (Up(t)' <=> Up(t)) /\ ~Closing(t) /\ ~Closing(t)'
      BY <1>1, <2>1, <2>2, <2>4 DEF Up, Closing
    <3> QED BY <2>2, <2>3, <2>4, <3>1 DEF Stage
  <2>5. ASSUME NEW t \in Threads, t = midx PROVE Stage(t)'
    <3>1. ~Up(t)' /\ Closing(t)'
      BY <1>1, <2>1, <2>2, <2>5 DEF Up, Closing
    <3> QED BY <2>1, <2>2, <2>3, <2>5, <3>1 DEF Stage
  <2> QED BY <2>4, <2>5
<1>9. CASE CloseBlock
  <2>1. /\ mpc = "wait" /\ mpc' = "blocked" /\ midx' = midx /\ semWait[midx] <= 0
        /\ isRun' = isRun /\ semWakeup' = semWakeup /\ semWait'[midx] = semWait[midx] - 1
        /\ \A t \in Threads \ {midx} : semWait'[t] = semWait[t]
        /\ \A t \in Threads : Place(t)' = Place(t)
    BY <1>1, <1>6, <1>9 DEF CloseBlock, WaitBlock, notMain, acceptVars, netVars
  <2>2. ASSUME NEW t \in Threads PROVE (Up(t)' <=> Up(t)) /\ (Closing(t)' <=> Closing(t))
    BY <2>1 DEF Up, Closing
  <2>3. ASSUME NEW t \in Threads, t # midx PROVE Stage(t)'
    BY <2>1, <2>2, <2>3 DEF Stage, Closing
  <2>4. ASSUME NEW t \in Threads, t = midx PROVE Stage(t)'
    <3>1. ~Up(t) /\ Closing(t)
      BY <1>1, <2>1, <2>4 DEF Up, Closing
    <3> QED BY <2>1, <2>2, <2>4, <3>1 DEF Stage
  <2> QED BY <2>3, <2>4
<1>10. CASE CloseReturn
  <2>1. /\ \/ mpc = "wait" /\ semWait[midx] > 0
              /\ semWait'[midx] = semWait[midx] - 1 /\ semWakeup'[midx] = semWakeup[midx]
           \/ mpc = "blocked" /\ semWakeup[midx] > 0
              /\ semWait'[midx] = semWait[midx] /\ semWakeup'[midx] = semWakeup[midx] - 1
        /\ isRun' = isRun
        /\ \A t \in Threads \ {midx} : semWait'[t] = semWait[t] /\ semWakeup'[t] = semWakeup[t]
        /\ \A t \in Threads : Place(t)' = Place(t)
    BY <1>1, <1>6, <1>10 DEF CloseReturn, WaitPass, WaitResume, notMain, acceptVars, netVars
  <2>2. ASSUME NEW t \in Threads
        PROVE  ~Closing(t)' /\ (Up(t)' <=> midx < t) /\ (Up(t) <=> midx < t)
    <3>1. \/ midx = LastThread /\ mpc' = "start" /\ midx' = 2
          \/ midx # LastThread /\ mpc' = "close" /\ midx' = midx + 1
      BY <1>10 DEF CloseReturn, NextThread, Task
    <3>2. ~Closing(t)'
      BY <3>1 DEF Closing
    <3>3. Up(t) <=> midx < t
      BY <2>1 DEF Up
    <3>4. Up(t)' <=> midx < t
      <4>1. CASE midx = LastThread /\ mpc' = "start" /\ midx' = 2
        BY <1>1, <4>1 DEF Up
      <4>2. CASE mpc' = "close" /\ midx' = midx + 1
        BY <1>1, <4>2 DEF Up
      <4> QED BY <3>1, <4>1, <4>2
    <3> QED BY <3>2, <3>3, <3>4
  <2>3. ASSUME NEW t \in Threads, t # midx PROVE Stage(t)'
    BY <2>1, <2>2, <2>3 DEF Stage, Closing
  <2>4. ASSUME NEW t \in Threads, t = midx PROVE Stage(t)'
    <3>1. Closing(t) /\ ~Up(t) /\ ~Up(t)'
      BY <1>1, <2>1, <2>2, <2>4 DEF Closing
    <3> QED BY <2>1, <2>2, <2>4, <3>1 DEF Stage
  <2> QED BY <2>3, <2>4
<1> QED BY <1>2, <1>4, <1>5, <1>7, <1>8, <1>9, <1>10 DEF MainThread

(***************************************************************************)
(* The sockets.  What is open is in somebody's hands, except for an entry  *)
(* that ClearClients would forget: _clientsBuff is dealt with to its end   *)
(* when it is cleared, because nobody appends to it any more.              *)
(***************************************************************************)
Drained(s) ==
  spc[s] \in {"none", "clearEnd", "wakeup", "store", "ended"} => taken[s] = Len(buff[s])

AllHeld == open \subseteq InHand \cup UNION {Held(s) : s \in Servers}

OrderInv ==
  /\ \A t \in Threads : Stage(t)
  /\ mpc \in {"up", "close", "wait", "blocked"} => apc # "none"
  /\ mpc \in {"start", "listen"} => open = {}
  /\ \A s \in Servers : Drained(s)
  /\ AllHeld

CloseInv == CountInv /\ (pollFailures = 0 => OrderInv)

\* While the accept thread has not ended, every net thread is in its loop ...
LEMMA AcceptFirst ==
  ASSUME TypeOK, \A t \in Threads : Stage(t), Part(apc) # "over"
  PROVE  mpc \notin {"start", "listen"} /\ \A s \in Servers : Part(spc[s]) = "loop"
<1>1. /\ Accept \in Threads /\ Accept = 1 /\ midx \in Int /\ midx >= 1
      /\ \A s \in Servers : Net(s) \in Threads /\ Net(s) \in Int /\ Net(s) > 1
  BY ThreadNumbers, CellAssumption DEF TypeOK, Accept, Net, Servers
<1>2. Up(Accept) \/ Closing(Accept)
  BY <1>1, Places DEF Stage
<1>3. mpc = "up" \/ (mpc \in {"close", "wait", "blocked"} /\ midx = 1)
  BY <1>1, <1>2 DEF Up, Closing
<1>4. \A s \in Servers : Up(Net(s))
  BY <1>1, <1>3 DEF Up
<1> QED BY <1>1, <1>3, <1>4, Places DEF Stage

\* ... so a net thread on its way out is alone with its queue.
LEMMA ClearAlone ==
  ASSUME TypeOK, OrderInv, NEW s \in Servers, Part(spc[s]) = "quit"
  PROVE  apc \in {"store", "ended"}
<1>1. Part(apc) = "over"
  BY AcceptFirst DEF OrderInv
<1>2. Closing(Net(s))
  BY Places, ThreadNumbers DEF OrderInv, Stage
<1>3. apc # "none"
  BY <1>2 DEF Closing, OrderInv
<1> QED BY <1>1, <1>3 DEF Part

\* A net thread lets go of a socket only by closing it.
LEMMA QueueHolds ==
  ASSUME OwnerInv, NEW s \in Servers, Drained(s), NetThread(s)
  PROVE  ToSet(Queue(s)) \cap open' \subseteq ToSet(Queue(s)') \cup Joined(s)'
<1>1. TypeOK /\ buff[s] \in Seq(Socks)
  BY DEF OwnerInv, TypeInv, TypeOK
<1>2. CASE NetTake(s)
  <2>1. /\ spc'[s] = "take" /\ clients'[s] = clients[s] \cup {buff[s][taken[s] + 1]}
    BY <1>1, <1>2 DEF NetTake, NetGoTo, TypeOK
  <2>2. buff[s][taken[s] + 1] \in Joined(s)'
    BY <2>1 DEF Joined, Mapped, Stale
  <2> QED BY <1>2, <2>2, NetQueue
<1>3. CASE NetClearEnd(s)
  <2>1. taken[s] = Len(buff[s])
    BY <1>3 DEF NetClearEnd, NetGoTo, Drained
  <2> QED BY <1>1, <2>1, RestEmpty DEF Queue
<1>4. CASE NetClearBuff(s)
  <2>1. open' = open \ ToSet(buff[s])
    BY <1>4 DEF NetClearBuff, Destroy
  <2> QED BY <1>4, <2>1, NetQueue
<1> QED BY <1>2, <1>3, <1>4, NetQueue

LEMMA NetHolds ==
  ASSUME OwnerInv, NEW s \in Servers, Drained(s), NetThread(s)
  PROVE  Held(s) \cap open' \subseteq Held(s)'
<1>1. (Joined(s) \cup Left(s)) \cap open' \subseteq Joined(s)' \cup Left(s)'
  BY NetSets DEF Joins, Leaves, Unjoins, Deletes, Drops, Keeps
<1> QED BY <1>1, HeldParts, QueueHolds

\* The steps of a net thread.
LEMMA NetKeepsOrder ==
  ASSUME CountInv, OrderInv, NEW s \in Servers, NetThread(s),
         pollFailures = 0, pollFailures' = 0
  PROVE  OrderInv'
<1>1. OwnerInv /\ TypeOK /\ Local(s)
  BY DEF CountInv, OwnerInv, TypeInv
<1>2. UNCHANGED <<mpc, midx, apc, acur>>
  BY DEF NetGoTo, notNet, acceptVars, mainVars,
         NetThread, NetStop, NetTurn, NetLock, NetTake, NetTaken, NetRun, NetExpire,
         NetChecked, NetPoll, NetPollFails, NetRecv, NetSend, NetSendFails, NetPolled, NetMsg,
         NetRemove, NetLeave, NetUnjoin, NetDelete, NetErase, NetExitTest, NetExitStore,
         NetClear, NetClearBuff, NetClearEnd, NetSignal, NetLastStore, NetStep
<1>3. \A t \in Threads : Stage(t)'
  <2>1. Works(Net(s))
    BY <1>1, NetWorks, ThreadNumbers DEF OrderInv
  <2> QED BY <1>1, <2>1, WorkerStage, ThreadNumbers DEF OrderInv
<1>4. open' \subseteq open
  BY <1>1, NetLocal DEF GivesUp, OwnerInv
<1>5. \A r \in Servers \ {s} : Held(r)' = Held(r) /\ Drained(r)'
  BY <1>1, NetFrame, SameServer DEF OwnerInv, OrderInv, Drained
<1>6. Drained(s)'
  <2>1. CASE NetClearBuff(s) \/ NetClearEnd(s)
    <3>1. taken'[s] = Len(buff'[s])
      BY <1>1, <2>1 DEF NetClearBuff, NetClearEnd, TypeOK
    <3> QED BY <3>1 DEF Drained
  <2>2. CASE NetSignal(s) \/ NetLastStore(s)
    BY <1>1, <2>2 DEF NetSignal, NetLastStore, NetGoTo, queueVars, Drained, OrderInv, TypeOK
  <2>3. CASE ~(NetClearBuff(s) \/ NetClearEnd(s) \/ NetSignal(s) \/ NetLastStore(s))
    <3>1. spc'[s] \notin {"none", "clearEnd", "wakeup", "store", "ended"}
      BY <1>1, <2>3 DEF NetGoTo, TypeOK,
         NetThread, NetStop, NetTurn, NetLock, NetTake, NetTaken, NetRun, NetExpire,
         NetChecked, NetPoll, NetPollFails, NetRecv, NetSend, NetSendFails, NetPolled, NetMsg,
         NetRemove, NetLeave, NetUnjoin, NetDelete, NetErase, NetExitTest, NetExitStore,
         NetClear, NetStep
    <3> QED BY <3>1 DEF Drained
  <2> QED BY <2>1, <2>2, <2>3
<1>7. AllHeld'
  <2>1. InHand' = InHand
    BY <1>2 DEF InHand
  <2>2. Held(s) \cap open' \subseteq Held(s)'
    BY <1>1, NetHolds DEF OrderInv
  <2>3. ASSUME NEW k \in open', k \notin InHand'
        PROVE  \E r \in Servers : k \in Held(r)'
    <3>1. PICK r \in Servers : k \in Held(r)
      BY <1>4, <2>1, <2>3 DEF OrderInv, AllHeld
    <3> QED BY <1>5, <2>2, <3>1
  <2> QED BY <2>3 DEF AllHeld
<1> QED BY <1>2, <1>3, <1>4, <1>5, <1>6, <1>7 DEF OrderInv

\* The steps of the accept thread, which puts a socket down where it is held.
LEMMA AcceptKeepsOrder ==
  ASSUME CountInv, OrderInv, AcceptThread, pollFailures = 0, pollFailures' = 0
  PROVE  OrderInv'
<1>1. OwnerInv /\ TypeOK /\ TypeInv /\ \A s \in Servers : Local(s)
  BY DEF CountInv, OwnerInv, TypeInv
<1>2. UNCHANGED mpc
  BY DEF mainVars, AcceptThread, AcceptConnection, AcceptLimit, AcceptRefuse, AcceptCount,
         AcceptScan, AcceptAdd, AcceptPollFails, AcceptExitTest, AcceptExitStore, AcceptStop,
         AcceptSignal, AcceptLastStore, AcceptGoTo, notAccept
<1>3. \A t \in Threads : Stage(t)'
  <2>1. Works(Accept)
    BY <1>1, AcceptWorks, ThreadNumbers DEF OrderInv
  <2> QED BY <1>1, <2>1, WorkerStage, ThreadNumbers DEF OrderInv
<1>4. apc' # "none"
  BY DEF AcceptThread, AcceptConnection, AcceptLimit, AcceptRefuse, AcceptCount,
         AcceptScan, AcceptAdd, AcceptPollFails, AcceptExitTest, AcceptExitStore, AcceptStop,
         AcceptSignal, AcceptLastStore, AcceptGoTo
<1>5. mpc' \in {"start", "listen"} => open' = {}
  <2>1. SUFFICES ASSUME mpc \in {"start", "listen"} PROVE open' = {}
    BY <1>2
  <2>2. Part(apc) = "over" /\ open = {}
    BY <1>1, <2>1, AcceptFirst DEF OrderInv
  <2>3. AcceptSignal \/ AcceptLastStore \/ open' = open
    BY <2>2 DEF Part, AcceptThread, AcceptConnection, AcceptLimit, AcceptRefuse, AcceptCount,
         AcceptScan, AcceptAdd, AcceptPollFails, AcceptExitTest, AcceptExitStore, AcceptStop,
         AcceptGoTo
  <2> QED BY <2>2, <2>3 DEF AcceptSignal, AcceptLastStore, AcceptGoTo, sockVars
<1>6. ASSUME UNCHANGED <<queueVars, netVars>>
      PROVE  \A s \in Servers : Held(s)' = Held(s) /\ Drained(s)'
  <2> TAKE s \in Servers
  <2>1. Held(s)' = Held(s)
    BY <1>1, <1>6, SameServer DEF queueVars, netVars
  <2>2. Drained(s)'
    BY <1>6 DEF OrderInv, Drained, queueVars, netVars
  <2> QED BY <2>1, <2>2
<1>7. CASE AcceptAdd
  <2>1. PICK s \in Servers, k \in Socks :
               /\ InHand = {k} /\ InHand' = {} /\ open' = open
               /\ Held(s)' = Held(s) \cup {k} /\ \A r \in Servers \ {s} : Held(r)' = Held(r)
    BY <1>1, <1>7, AcceptHolds
  <2>2. \A r \in Servers : Part(spc[r]) = "loop"
    BY <1>1, <1>7, AcceptFirst DEF AcceptAdd, Part, OrderInv
  <2>3. \A r \in Servers : Drained(r)'
    BY <1>7, <2>2 DEF AcceptAdd, netVars, Drained, Part
  <2>4. AllHeld'
    <3>1. ASSUME NEW j \in open PROVE \E r \in Servers : j \in Held(r)'
      <4>1. j = k \/ \E r \in Servers : j \in Held(r)
        BY <2>1, <3>1 DEF OrderInv, AllHeld
      <4> QED BY <2>1, <4>1
    <3> QED BY <2>1, <3>1 DEF AllHeld
  <2> QED BY <1>3, <1>4, <1>5, <2>3, <2>4 DEF OrderInv
<1>8. CASE ~AcceptAdd
  <2>1. UNCHANGED <<queueVars, netVars>>
    BY <1>8 DEF notAccept, AcceptThread, AcceptConnection, AcceptLimit, AcceptRefuse, AcceptCount,
         AcceptScan, AcceptPollFails, AcceptExitTest, AcceptExitStore, AcceptStop,
         AcceptSignal, AcceptLastStore, AcceptGoTo
  <2>2. open' \ InHand' \subseteq open \ InHand
    <3>1. CASE AcceptConnection
      <4>1. \E k \in Socks \ open : open' = open \cup {k} /\ InHand' = {k} /\ InHand = {}
        BY <3>1 DEF AcceptConnection, InHand
      <4> QED BY <4>1
    <3>2. CASE AcceptRefuse
      <4>1. InHand = {acur} /\ open' = open \ {acur}
        BY <3>2 DEF AcceptRefuse, InHand, Destroy
      <4> QED BY <4>1
    <3>3. CASE ~AcceptConnection /\ ~AcceptRefuse
      <4>1. open' = open
        BY <1>8, <3>3 DEF sockVars, AcceptThread, AcceptLimit, AcceptCount, AcceptScan,
           AcceptPollFails, AcceptExitTest, AcceptExitStore, AcceptStop, AcceptSignal,
           AcceptLastStore, AcceptGoTo
      <4>2. InHand' = InHand
        BY <1>8, <3>3 DEF InHand, AcceptThread, AcceptLimit, AcceptCount, AcceptScan,
           AcceptPollFails, AcceptExitTest, AcceptExitStore, AcceptStop, AcceptSignal,
           AcceptLastStore, AcceptGoTo
      <4> QED BY <4>1, <4>2
    <3> QED BY <3>1, <3>2, <3>3
  <2>3. AllHeld'
    <3>1. \A s \in Servers : Held(s)' = Held(s)
      BY <1>6, <2>1
    <3> QED BY <2>2, <3>1 DEF OrderInv, AllHeld
  <2> QED BY <1>3, <1>4, <1>5, <1>6, <2>1, <2>3 DEF OrderInv
<1> QED BY <1>7, <1>8

\* When every Thread has been closed nobody holds a socket any more.
LEMMA NothingHeld ==
  ASSUME CountInv, AllHeld, \A s \in Servers : Drained(s),
         Part(apc) = "over", \A s \in Servers : Part(spc[s]) = "over"
  PROVE  open = {}
<1>1. InHand = {}
  BY DEF InHand, Part
<1>2. ASSUME NEW s \in Servers PROVE Held(s) = {}
  <2>1. spc[s] \in {"none", "store", "ended"}
    BY DEF Part
  <2>2. clients[s] = {} /\ Leaving(s) = {} /\ taken[s] = Len(buff[s]) /\ buff[s] \in Seq(Socks)
    BY <2>1 DEF CountInv, Emptied, Leaving, Drained, OwnerInv, TypeInv, TypeOK
  <2>3. ToSet(Queue(s)) = {}
    BY <2>2, RestEmpty DEF Queue
  <2> QED BY <2>2, <2>3 DEF Held, Mapped
<1> QED BY <1>1, <1>2 DEF AllHeld

\* The steps of everybody else: main starts the Threads when nothing is open,
\* and comes back to that when it has closed the last of them.
LEMMA RestKeepsOrder ==
  ASSUME CountInv, OrderInv, [Next]_vars, ~AcceptThread, \A s \in Servers : ~NetThread(s)
  PROVE  OrderInv'
<1>1. TypeOK /\ TypeInv /\ \A s \in Servers : Local(s)
  BY DEF CountInv, OwnerInv, TypeInv
<1>2. \A t \in Threads : Stage(t)'
  <2>1. CASE MainThread \/ Close
    BY <1>1, <2>1, MainStage DEF OrderInv
  <2>2. ASSUME NEW s \in Servers, TaskThread(s) PROVE \A t \in Threads : Stage(t)'
    BY <1>1, <2>2, TaskWorks, WorkerStage, ThreadNumbers DEF OrderInv
  <2>3. ASSUME UNCHANGED <<threadVars, apc, tpc, spc, mpc, midx>>
        PROVE  \A t \in Threads : Stage(t)'
    BY <2>3 DEF OrderInv, Stage, Place, Up, Closing, Counts, threadVars
  <2>4. UNCHANGED vars \/ (\E k \in Socks : PeerCloses(k))
          => UNCHANGED <<threadVars, apc, tpc, spc, mpc, midx>>
    BY DEF vars, PeerCloses, acceptVars, netVars, mainVars
  <2> QED BY <2>1, <2>2, <2>3, <2>4 DEF Next
<1>3. UNCHANGED <<open, acur>>
  BY DEF Next, PeerCloses, TaskThread, TaskStop, TaskSignal, TaskLastStore, TaskGoTo, MainThread,
         StartTask, StartNet, StartAccept, CloseThread, CloseBlock, CloseReturn, Close, notMain,
         sockVars, acceptVars, vars
<1>4. CASE StartAccept
  <2>1. open = {} /\ mpc' = "up" /\ apc' = "loop" /\ UNCHANGED <<buff, taken, spc>>
    BY <1>4 DEF StartAccept, OrderInv, queueVars, netVars
  <2> QED BY <1>2, <1>3, <2>1 DEF OrderInv, Drained, AllHeld
<1>5. ASSUME NEW s \in Servers, StartTask(s) \/ StartNet(s) PROVE OrderInv'
  <2>1. open = {} /\ mpc' \in {"start", "listen"}
    BY <1>5 DEF StartTask, StartNet, OrderInv
  <2>2. Drained(s)'
    <3>1. CASE StartTask(s)
      <4>1. taken[s] = 0
        BY <1>1, <3>1 DEF StartTask, Local, TakenFits
      <4>2. buff'[s] = <<>> /\ taken'[s] = taken[s]
        BY <1>1, <3>1 DEF StartTask, TypeOK
      <4> QED BY <4>1, <4>2 DEF Drained
    <3>2. CASE StartNet(s)
      BY <1>1, <3>2 DEF StartNet, Drained, TypeOK
    <3> QED BY <1>5, <3>1, <3>2
  <2>3. \A r \in Servers \ {s} : Drained(r)'
    <3>1. \A r \in Servers \ {s} :
             buff'[r] = buff[r] /\ taken'[r] = taken[r] /\ spc'[r] = spc[r]
      BY <1>1, <1>5 DEF StartTask, StartNet, queueVars, TypeOK
    <3> QED BY <3>1 DEF OrderInv, Drained
  <2> QED BY <1>2, <1>3, <2>1, <2>2, <2>3 DEF OrderInv, AllHeld
<1>6. CASE ~StartAccept /\ \A s \in Servers : ~(StartTask(s) \/ StartNet(s))
  <2>1. UNCHANGED <<apc, queueVars, netVars>>
    BY <1>6 DEF Next, PeerCloses, TaskThread, TaskStop, TaskSignal, TaskLastStore, TaskGoTo,
         MainThread, CloseThread, CloseBlock, CloseReturn, Close, notMain, acceptVars, vars
  <2>2. \A s \in Servers : Drained(s)' /\ Held(s)' = Held(s)
    <3> TAKE s \in Servers
    <3>1. Drained(s)'
      BY <2>1 DEF OrderInv, Drained, queueVars, netVars
    <3>2. Held(s)' = Held(s)
      BY <1>1, <2>1, SameServer DEF queueVars, netVars
    <3> QED BY <3>1, <3>2
  <2>3. AllHeld'
    <3>1. InHand' = InHand
      BY <1>3, <2>1 DEF InHand
    <3> QED BY <1>3, <2>2, <3>1 DEF OrderInv, AllHeld
  <2>4. mpc' \in {"up", "close", "wait", "blocked"} => apc' # "none"
    <3>1. mpc' \in {"up", "close", "wait", "blocked"}
            => mpc \in {"up", "close", "wait", "blocked"}
      BY <1>6 DEF Next, PeerCloses, TaskThread, TaskStop, TaskSignal, TaskLastStore, TaskGoTo,
         MainThread, CloseThread, CloseBlock, CloseReturn, Close, mainVars, vars
    <3> QED BY <2>1, <3>1 DEF OrderInv
  <2>5. mpc' \in {"start", "listen"} => open' = {}
    <3>1. SUFFICES ASSUME mpc' \in {"start", "listen"}, mpc \notin {"start", "listen"}
                   PROVE  open' = {}
      BY <1>3 DEF OrderInv
    <3>2. CloseThread \/ CloseReturn
      BY <1>6, <3>1 DEF Next, PeerCloses, TaskThread, TaskStop, TaskSignal, TaskLastStore,
         TaskGoTo, MainThread, CloseBlock, Close, mainVars, vars
    <3>3. mpc' = "start" /\ midx' = Task(1)
      BY <3>1, <3>2 DEF CloseThread, CloseReturn, NextThread
    <3>4. \A t \in Threads : Part(Place(t)') = "over"
      <4> TAKE t \in Threads
      <4>1. t \in Int /\ Task(1) = 2
        BY CellAssumption DEF Task
      <4>2. ~Up(t)' /\ ~Closing(t)'
        BY <3>3, <4>1 DEF Up, Closing
      <4>3. Stage(t)'
        BY <1>2
      <4> QED BY <4>2, <4>3 DEF Stage
    <3>5. Part(apc) = "over" /\ \A s \in Servers : Part(spc[s]) = "over"
      BY <2>1, <3>4, Places, ThreadNumbers DEF netVars
    <3> QED BY <1>3, <3>5, NothingHeld DEF OrderInv
  <2> QED BY <1>2, <2>2, <2>3, <2>4, <2>5 DEF OrderInv
<1> QED BY <1>4, <1>5, <1>6

LEMMA CloseStep == CloseInv /\ [Next]_vars => CloseInv'
<1> SUFFICES ASSUME CloseInv, [Next]_vars PROVE CloseInv'
  OBVIOUS
<1>1. CountInv /\ CountInv'
  BY CountStep DEF CloseInv
<1>2. ASSUME pollFailures' = 0 PROVE OrderInv'
  <2>1. pollFailures = 0
    <3>1. pollFailures \in Nat
      BY <1>1, CellAssumption DEF CountInv, OwnerInv, TypeInv, TypeOK
    <3> DEFINE OneMore == pollFailures' \in {pollFailures, pollFailures + 1}
    <3>2. AcceptThread => OneMore
      BY DEF AcceptThread, AcceptConnection, AcceptLimit, AcceptRefuse, AcceptCount,
         AcceptScan, AcceptAdd, AcceptPollFails, AcceptExitTest, AcceptExitStore, AcceptStop,
         AcceptSignal, AcceptLastStore, AcceptGoTo
    <3>3. ASSUME NEW s \in Servers, NetThread(s) PROVE OneMore
      BY <3>3 DEF NetThread, NetStop, NetTurn, NetLock, NetTake, NetTaken, NetRun, NetExpire,
         NetChecked, NetPoll, NetPollFails, NetRecv, NetSend, NetSendFails, NetPolled, NetMsg,
         NetRemove, NetLeave, NetUnjoin, NetDelete, NetErase, NetExitTest, NetExitStore,
         NetClear, NetClearBuff, NetClearEnd, NetSignal, NetLastStore, NetStep
    <3>4. ~AcceptThread /\ (\A s \in Servers : ~NetThread(s)) => OneMore
      BY DEF Next, PeerCloses, TaskThread, TaskStop, TaskSignal, TaskLastStore, TaskGoTo,
         MainThread, StartTask, StartNet, StartAccept, CloseThread, CloseBlock, CloseReturn,
         Close, notMain, vars
    <3> QED BY <1>2, <3>1, <3>2, <3>3, <3>4
  <2>2. OrderInv
    BY <2>1 DEF CloseInv
  <2>3. CASE AcceptThread
    BY <1>1, <1>2, <2>1, <2>2, <2>3, AcceptKeepsOrder
  <2>4. ASSUME NEW s \in Servers, NetThread(s) PROVE OrderInv'
    BY <1>1, <1>2, <2>1, <2>2, <2>4, NetKeepsOrder
  <2>5. CASE ~AcceptThread /\ \A s \in Servers : ~NetThread(s)
    BY <1>1, <2>2, <2>5, RestKeepsOrder
  <2> QED BY <2>3, <2>4, <2>5
<1> QED BY <1>1, <1>2 DEF CloseInv

LEMMA CloseInit == Init => CloseInv
<1> SUFFICES ASSUME Init PROVE CloseInv
  OBVIOUS
<1>1. CountInv
  BY CountInit
<1>2. \A t \in Threads : Stage(t)
  <2> TAKE t \in Threads
  <2>1. Place(t) = "none"
    <3>1. ASSUME NEW s \in Servers PROVE Place(Task(s)) = "none" /\ Place(Net(s)) = "none"
      BY Places DEF Init
    <3> QED BY <3>1, Places DEF Init
  <2>2. ~isRun[t] /\ Counts(t, 0, 0)
    BY DEF Init, ThreadInit, Counts
  <2>3. t \in Int /\ ~Up(t) /\ ~Closing(t)
    BY CellAssumption DEF Init, Up, Closing
  <2> QED BY <2>1, <2>2, <2>3 DEF Stage, Part
<1>3. \A s \in Servers : Drained(s)
  BY DEF Init, Drained
<1>4. AllHeld
  BY DEF Init, AllHeld
<1> QED BY <1>1, <1>2, <1>3, <1>4 DEF CloseInv, OrderInv, Init

\* ClearClients walks _clientsBuff without its lock, in the net thread that is
\* closing; as long as no poll has failed, the accept thread, the only other one
\* that touches the buffer, has ended by then.
THEOREM ClearedAlone == Spec => []ClearIsAlone
<1>1. CloseInv => ClearIsAlone
  <2> SUFFICES ASSUME CloseInv, pollFailures = 0, NEW s \in Servers,
                      spc[s] \in {"clear", "clearBuff", "clearEnd"}
               PROVE  apc \in {"store", "ended"}
    BY DEF ClearIsAlone
  <2>1. TypeOK /\ OrderInv /\ Part(spc[s]) = "quit"
    BY DEF CloseInv, CountInv, OwnerInv, TypeInv, Part
  <2> QED BY <2>1, ClearAlone
<1> QED BY <1>1, CloseInit, CloseStep, PTL DEF Spec

\* When Close has returned, every socket the server ever accepted is closed, be
\* it in a map, in a buffer, in the accept thread's hand or on its way out.
THEOREM CloseReleases == Spec => []CloseReleasesAll
<1>1. CloseInv => CloseReleasesAll
  BY DEF CloseInv, OrderInv, CloseReleasesAll
<1> QED BY <1>1, CloseInit, CloseStep, PTL DEF Spec
===============================================================================
