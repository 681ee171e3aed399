------------------------------ MODULE CellServer ------------------------------
(***************************************************************************)
(* The server side of the library: TcpServer (TcpServer.hpp), its accept   *)
(* thread (TcpEpollServer.hpp), the Server objects it spreads clients over *)
(* (Server.hpp, EpollServer.hpp) and the states of the Client objects      *)
(* (Client.hpp), with a real thread of control for each of                 *)
(*   - main, which calls InitSocket/Start and Close,                       *)
(*   - the accept thread,                                                  *)
(*   - each Server's net thread and each Server's (empty) task thread.     *)
(*                                                                         *)
(* A Client lives exactly as long as its socket is open, so one identity,  *)
(* the socket descriptor, stands for both; the system may hand a           *)
(* descriptor out again as soon as it is closed.                           *)
(***************************************************************************)
EXTENDS Thread, Sequences, SequencesExt, FiniteSets

CONSTANTS
  NServers,         \* number of Server objects (nCELLServer)
  Socks,            \* descriptors the system can give to accepted sockets
  MaxClient,        \* _nMaxClient
  Main,             \* the thread that calls Start and Close
  NoSock,           \* INVALID_SOCKET
  MaxStarts,        \* bound: how often main calls Start
  MaxPollFailures   \* bound: failing epoll_wait calls

Servers == 1..NServers

(* Thread objects, numbered in the order Close closes them: the accept     *)
(* thread, then the task thread and the net thread of each Server.         *)
Accept == 1
Task(s) == 2 * s
Net(s) == 2 * s + 1
LastThread == 2 * NServers + 1

ASSUME CellAssumption ==
  /\ NServers \in Nat \ {0}
  /\ MaxClient \in Nat
  /\ MaxStarts \in Nat
  /\ MaxPollFailures \in Nat
  /\ IsFiniteSet(Socks) /\ NoSock \notin Socks
  /\ Nobody # Main
  /\ Threads = 1..LastThread

VARIABLES
  \* TcpServer
  clientAccept,  \* _clientAccept
  clientJoin,    \* _clientJoin
  apc,           \* where the accept thread is
  acur,          \* the socket the accept thread is placing
  amin,          \* pMinServer
  anext,         \* next Server to compare with pMinServer
  \* Server
  clients,       \* clients[s]: keys of _clients
  buff,          \* buff[s]: _clientsBuff
  locked,        \* locked[s]: the net thread holds Server::_mutex
  taken,         \* taken[s]: entries of _clientsBuff already dealt with in a loop
  spc,           \* where the net thread is
  cur,           \* cur[s]: the client the net thread is working on
  from,          \* from[s]: who is at cur[s], CheckTime or an event of DoNetEvents
  events,        \* events[s]: clients of the epoll result still to handle
  tpc,           \* where the task thread is
  \* Client and operating system
  open,          \* sockets that are open
  closed,        \* clients in clientState_close
  gone,          \* open sockets whose peer has closed the connection
  \* main
  mpc, midx,     \* where main is; the Server or Thread it is at
  starts,        \* how often main has started the whole
  pollFailures,  \* how many epoll_wait calls have failed
  \* history
  abandoned,     \* clients deleted without OnNetLeave since the beginning
  abandonedJoin  \* those of them that had joined

acceptVars == <<apc, acur, amin, anext>>
queueVars == <<clients, buff, locked, taken>>
netVars == <<spc, cur, from, events>>
sockVars == <<open, closed, gone>>
countVars == <<clientAccept, clientJoin, abandoned, abandonedJoin>>
mainVars == <<mpc, midx, starts>>
vars == <<threadVars, acceptVars, queueVars, netVars, sockVars, countVars,
          mainVars, tpc, pollFailures>>

AcceptPC == {"none", "loop", "limit", "count", "refuse", "scan",
             "exit", "exitLock", "wakeup", "store", "ended"}
NetPC == {"none", "top", "lock", "take", "net", "check", "poll", "event", "out",
          "msg", "remove", "leave", "unjoin", "delete", "erase",
          "exit", "exitLock", "clear", "clearBuff", "clearEnd",
          "wakeup", "store", "ended"}
TaskPC == {"none", "loop", "wakeup", "store", "ended"}
MainPC == {"start", "listen", "up", "close", "wait", "blocked"}

TypeOK ==
  /\ ThreadTypeOK({Main})
  /\ clientAccept \in Int /\ clientJoin \in Int
  /\ abandoned \in Nat /\ abandonedJoin \in Nat
  /\ apc \in AcceptPC /\ acur \in Socks \cup {NoSock}
  /\ amin \in Servers /\ anext \in 1..(NServers + 1)
  /\ clients \in [Servers -> SUBSET Socks]
  /\ buff \in [Servers -> Seq(Socks)]
  /\ locked \in [Servers -> BOOLEAN]
  /\ taken \in [Servers -> Nat]
  /\ spc \in [Servers -> NetPC]
  /\ cur \in [Servers -> Socks \cup {NoSock}]
  /\ from \in [Servers -> {"check", "event"}]
  /\ events \in [Servers -> SUBSET Socks]
  /\ tpc \in [Servers -> TaskPC]
  /\ open \in SUBSET Socks /\ closed \in SUBSET Socks /\ gone \in SUBSET Socks
  /\ mpc \in MainPC /\ midx \in Threads
  /\ starts \in 0..MaxStarts /\ pollFailures \in 0..MaxPollFailures

Init ==
  /\ ThreadInit
  /\ clientAccept = 0 /\ clientJoin = 0
  /\ abandoned = 0 /\ abandonedJoin = 0
  /\ apc = "none" /\ acur = NoSock /\ amin = 1 /\ anext = 1
  /\ clients = [s \in Servers |-> {}]
  /\ buff = [s \in Servers |-> <<>>]
  /\ locked = [s \in Servers |-> FALSE]
  /\ taken = [s \in Servers |-> 0]
  /\ spc = [s \in Servers |-> "none"]
  /\ cur = [s \in Servers |-> NoSock]
  /\ from = [s \in Servers |-> "check"]
  /\ events = [s \in Servers |-> {}]
  /\ tpc = [s \in Servers |-> "none"]
  /\ open = {} /\ closed = {} /\ gone = {}
  /\ mpc = "start" /\ midx = 2
  /\ starts = 0 /\ pollFailures = 0

\* ~Client closes the socket, and with it everything known about it.
Destroy(K) ==
  /\ open' = open \ K
  /\ closed' = closed \ K
  /\ gone' = gone \ K

\* The peer of an open socket closes its end.
PeerCloses(k) ==
  /\ k \in open \ gone
  /\ gone' = gone \cup {k}
  /\ UNCHANGED <<threadVars, acceptVars, queueVars, netVars, open, closed,
                 countVars, mainVars, tpc, pollFailures>>

-------------------------------------------------------------------------------
(* The accept thread: TcpEpollServer::OnRun, TcpServer::AcceptClient and   *)
(* addClientToCELLServer.                                                  *)

notAccept == <<queueVars, netVars, mainVars, tpc>>

\* accept() gives a descriptor that is not in use.
AcceptConnection ==
  /\ apc = "loop" /\ isRun[Accept]
  /\ \E k \in Socks \ open : open' = open \cup {k} /\ acur' = k
  /\ apc' = "limit"
  /\ UNCHANGED <<threadVars, notAccept, amin, anext, closed, gone, countVars,
                 pollFailures>>

\* Defect: the limit is tested with <= instead of <.
AcceptLimit_OffByOne ==
  /\ apc = "limit"
  /\ apc' = IF clientAccept <= MaxClient THEN "count" ELSE "refuse"
  /\ UNCHANGED <<threadVars, notAccept, acur, amin, anext, sockVars, countVars,
                 pollFailures>>

\* AcceptClient reads the counter ...
AcceptLimit ==
  /\ apc = "limit"
  /\ apc' = IF clientAccept < MaxClient THEN "count" ELSE "refuse"
  /\ UNCHANGED <<threadVars, notAccept, acur, amin, anext, sockVars, countVars,
                 pollFailures>>

\* ... and closes the socket when the limit is reached, ...
AcceptRefuse ==
  /\ apc = "refuse"
  /\ Destroy({acur})
  /\ acur' = NoSock
  /\ apc' = "loop"
  /\ UNCHANGED <<threadVars, notAccept, amin, anext, countVars, pollFailures>>

\* ... or counts the client, creates it and starts looking for a Server.
AcceptCount ==
  /\ apc = "count"
  /\ clientAccept' = clientAccept + 1
  /\ apc' = "scan"
  /\ UNCHANGED <<threadVars, notAccept, acur, amin, anext, sockVars, clientJoin, abandoned,
                 abandonedJoin, pollFailures>>

\* getClientCount: two sizes, read without any lock while they change.  Both are
\* read in one step here; the values only decide which Server is found, and the
\* steps between two calls already make it the wrong one.
ClientCount(s) == Cardinality(clients[s]) + Len(buff[s])

AcceptScan ==
  /\ apc = "scan" /\ anext \in Servers
  /\ amin' = IF ClientCount(amin) > ClientCount(anext) THEN anext ELSE amin
  /\ anext' = anext + 1
  /\ UNCHANGED <<threadVars, notAccept, apc, acur, sockVars, countVars, pollFailures>>

\* Server::addClient, which needs the lock of the Server that was found.
AcceptAdd ==
  /\ apc = "scan" /\ anext \notin Servers
  /\ ~locked[amin]
  /\ buff' = [buff EXCEPT ![amin] = Append(@, acur)]
  /\ acur' = NoSock /\ amin' = 1 /\ anext' = 1
  /\ apc' = "loop"
  /\ UNCHANGED <<threadVars, clients, locked, taken, netVars, sockVars,
                 countVars, mainVars, tpc, pollFailures>>

AcceptGoTo(pc, to) ==
  /\ apc = pc
  /\ apc' = to
  /\ UNCHANGED <<acur, amin, anext, notAccept, sockVars, countVars>>

\* epoll_wait fails: the work function calls Exit and breaks.
AcceptPollFails ==
  /\ isRun[Accept] /\ pollFailures < MaxPollFailures
  /\ pollFailures' = pollFailures + 1
  /\ AcceptGoTo("loop", "exit")
  /\ UNCHANGED threadVars

\* Exit(): the unlocked test of _isRun, then the store under the Thread's lock.
AcceptExitTest ==
  /\ AcceptGoTo("exit", IF isRun[Accept] THEN "exitLock" ELSE "wakeup")
  /\ UNCHANGED <<threadVars, pollFailures>>

AcceptExitStore ==
  /\ AcceptGoTo("exitLock", "wakeup")
  /\ ExitLocked(Accept)
  /\ UNCHANGED pollFailures

\* The loop test fails (the accept thread has no onDestory).
AcceptStop ==
  /\ ~isRun[Accept]
  /\ AcceptGoTo("loop", "wakeup")
  /\ UNCHANGED <<threadVars, pollFailures>>

AcceptSignal ==
  /\ AcceptGoTo("wakeup", "store")
  /\ Wakeup(Accept)
  /\ UNCHANGED pollFailures

AcceptLastStore ==
  /\ AcceptGoTo("store", "ended")
  /\ EndRun(Accept)
  /\ UNCHANGED pollFailures

AcceptThread ==
  \/ AcceptConnection \/ AcceptLimit \/ AcceptRefuse \/ AcceptCount
  \/ AcceptScan \/ AcceptAdd
  \/ AcceptPollFails \/ AcceptExitTest \/ AcceptExitStore
  \/ AcceptStop \/ AcceptSignal \/ AcceptLastStore

-------------------------------------------------------------------------------
(* The net thread of Server s: Server::OnRun.                              *)

notNet == <<acceptVars, mainVars, tpc>>

NetGoTo(s, pc, to) ==
  /\ spc[s] = pc
  /\ spc' = [spc EXCEPT ![s] = to]
  /\ UNCHANGED notNet

\* A step that changes nothing but where the net thread is.
NetStep(s, pc, to) ==
  /\ NetGoTo(s, pc, to)
  /\ UNCHANGED <<threadVars, queueVars, cur, from, events, sockVars, countVars, pollFailures>>

\* while (isRun): the flag is down, onDestory runs next.
NetStop(s) ==
  /\ ~isRun[Net(s)]
  /\ NetStep(s, "top", "clear")

\* Defect: the test for emptiness is the wrong way round.
NetTurn_Inverted(s) ==
  /\ isRun[Net(s)]
  /\ NetStep(s, "top", IF buff[s] = <<>> THEN "lock" ELSE "net")

\* One more turn; the emptiness of _clientsBuff is tested without the lock.
NetTurn(s) ==
  /\ isRun[Net(s)]
  /\ NetStep(s, "top", IF buff[s] = <<>> THEN "net" ELSE "lock")

NetLock(s) ==
  /\ NetGoTo(s, "lock", "take")
  /\ ~locked[s]
  /\ locked' = [locked EXCEPT ![s] = TRUE]
  /\ UNCHANGED <<threadVars, clients, buff, taken, cur, from, events, sockVars,
                 countVars, pollFailures>>

\* A waiting client enters _clients, OnNetJoin counts it, epoll watches it.
NetTake(s) ==
  /\ NetGoTo(s, "take", "take")
  /\ taken[s] < Len(buff[s])
  /\ LET k == buff[s][taken[s] + 1] IN
       /\ clients' = [clients EXCEPT ![s] = @ \cup {k}]
       /\ closed' = closed \ {k}
  /\ clientJoin' = clientJoin + 1
  /\ taken' = [taken EXCEPT ![s] = @ + 1]
  /\ UNCHANGED <<threadVars, buff, locked, cur, from, events, open, gone, clientAccept,
                 abandoned, abandonedJoin, pollFailures>>

\* Defect: the buffer is not cleared once its clients have been taken over.
NetTaken_NoClear(s) ==
  /\ NetGoTo(s, "take", "net")
  /\ taken[s] = Len(buff[s])
  /\ taken' = [taken EXCEPT ![s] = 0]
  /\ locked' = [locked EXCEPT ![s] = FALSE]
  /\ UNCHANGED <<threadVars, clients, buff, cur, from, events, sockVars, countVars,
                 pollFailures>>

NetTaken(s) ==
  /\ NetGoTo(s, "take", "net")
  /\ taken[s] = Len(buff[s])
  /\ buff' = [buff EXCEPT ![s] = <<>>]
  /\ taken' = [taken EXCEPT ![s] = 0]
  /\ locked' = [locked EXCEPT ![s] = FALSE]
  /\ UNCHANGED <<threadVars, clients, cur, from, events, sockVars, countVars, pollFailures>>

\* OnNetRun leaves this state alone; without clients the turn ends here.
NetRun(s) == NetStep(s, "net", IF clients[s] = {} THEN "top" ELSE "check")

\* Defect: CheckTime notices closed clients only, never a dead heartbeat.
NetExpire_ClosedOnly(s, k) ==
  /\ k \in clients[s] \cap closed
  /\ NetGoTo(s, "check", "leave")
  /\ cur' = [cur EXCEPT ![s] = k]
  /\ UNCHANGED <<threadVars, queueVars, from, events, sockVars, countVars, pollFailures>>

\* Defect: an expired client is deleted without OnNetLeave.
NetExpire_NoLeave(s, k) ==
  /\ k \in clients[s]
  /\ NetGoTo(s, "check", "erase")
  /\ Destroy({k})
  /\ cur' = [cur EXCEPT ![s] = k]
  /\ UNCHANGED <<threadVars, queueVars, from, events, countVars, pollFailures>>

\* CheckTime: a client in clientState_close, or one that has been silent for
\* CLIENT_HREAT_DEAD_TIME (any client may have been), is on its way out.
NetExpire(s, k) ==
  /\ k \in clients[s]
  /\ NetGoTo(s, "check", "leave")
  /\ cur' = [cur EXCEPT ![s] = k]
  /\ UNCHANGED <<threadVars, queueVars, from, events, sockVars, countVars, pollFailures>>

\* CheckTime has come to the end of _clients: nobody in it is closed.
NetChecked(s) ==
  /\ clients[s] \cap closed = {}
  /\ NetStep(s, "check", "poll")

\* epoll_wait reports some of the watched clients, and all whose peer is gone.
NetPoll(s) ==
  /\ NetGoTo(s, "poll", "event")
  /\ \E E \in SUBSET clients[s] :
       /\ clients[s] \cap gone \subseteq E
       /\ events' = [events EXCEPT ![s] = E]
  /\ UNCHANGED <<threadVars, queueVars, cur, from, sockVars, countVars, pollFailures>>

\* epoll_wait fails for another reason than EINTR: OnRun calls Exit and breaks.
NetPollFails(s) ==
  /\ pollFailures < MaxPollFailures
  /\ pollFailures' = pollFailures + 1
  /\ NetGoTo(s, "poll", "exit")
  /\ UNCHANGED <<threadVars, queueVars, cur, from, events, sockVars, countVars>>

\* The input part of the next event: recv finds the peer gone and the client is
\* removed, unless its buffer is full and recv is not even tried.
NetRecv(s) ==
  /\ \E k \in events[s] :
       /\ events' = [events EXCEPT ![s] = @ \ {k}]
       /\ cur' = [cur EXCEPT ![s] = k]
       /\ \/ NetGoTo(s, "event", "out")
          \/ k \in gone /\ NetGoTo(s, "event", "remove")
  /\ from' = [from EXCEPT ![s] = "event"]
  /\ UNCHANGED <<threadVars, queueVars, sockVars, countVars, pollFailures>>

\* The output part: nothing to write, or written; onSendComplete of an HTTP
\* client may close it.
NetSend(s) ==
  /\ NetGoTo(s, "out", "event")
  /\ closed' \in {closed, closed \cup {cur[s]}}
  /\ cur' = [cur EXCEPT ![s] = NoSock]
  /\ from' = [from EXCEPT ![s] = "check"]
  /\ UNCHANGED <<threadVars, queueVars, events, open, gone, countVars, pollFailures>>

NetSendFails(s) == NetStep(s, "out", "remove")

NetPolled(s) ==
  /\ events[s] = {}
  /\ NetStep(s, "event", "msg")

\* DoMsg: the handlers may close any of the clients they are called for.
NetMsg(s) ==
  /\ NetGoTo(s, "msg", "top")
  /\ \E C \in SUBSET clients[s] : closed' = closed \cup C
  /\ UNCHANGED <<threadVars, queueVars, cur, from, events, open, gone, countVars,
                 pollFailures>>

-------------------------------------------------------------------------------
(* Removal of a client: rmClient erases it from _clients first, CheckTime  *)
(* after it has been deleted.  OnNetLeave updates the two counters one     *)
(* after the other.                                                        *)

NetRemove(s) ==
  /\ NetGoTo(s, "remove", "leave")
  /\ clients' = [clients EXCEPT ![s] = @ \ {cur[s]}]
  /\ UNCHANGED <<threadVars, buff, locked, taken, cur, from, events, sockVars, countVars,
                 pollFailures>>

\* Defect: the first counter is forgotten.
NetLeave_NoCount(s) == NetStep(s, "leave", "unjoin")

NetLeave(s) ==
  /\ NetGoTo(s, "leave", "unjoin")
  /\ clientAccept' = clientAccept - 1
  /\ UNCHANGED <<threadVars, queueVars, cur, from, events, sockVars, clientJoin,
                 abandoned, abandonedJoin, pollFailures>>

NetUnjoin(s) ==
  /\ NetGoTo(s, "unjoin", "delete")
  /\ clientJoin' = clientJoin - 1
  /\ UNCHANGED <<threadVars, queueVars, cur, from, events, sockVars, clientAccept,
                 abandoned, abandonedJoin, pollFailures>>

NetDelete(s) ==
  /\ NetGoTo(s, "delete", IF from[s] = "check" THEN "erase" ELSE "event")
  /\ Destroy({cur[s]})
  /\ cur' = [cur EXCEPT ![s] = IF from[s] = "check" THEN @ ELSE NoSock]
  /\ from' = [from EXCEPT ![s] = "check"]
  /\ UNCHANGED <<threadVars, queueVars, events, countVars, pollFailures>>

\* Defect: the iterator moves on and the key stays in the map.
NetErase_Kept(s) ==
  /\ NetGoTo(s, "erase", "check")
  /\ cur' = [cur EXCEPT ![s] = NoSock]
  /\ UNCHANGED <<threadVars, queueVars, from, events, sockVars, countVars, pollFailures>>

NetErase(s) ==
  /\ NetGoTo(s, "erase", "check")
  /\ clients' = [clients EXCEPT ![s] = @ \ {cur[s]}]
  /\ cur' = [cur EXCEPT ![s] = NoSock]
  /\ UNCHANGED <<threadVars, buff, locked, taken, from, events, sockVars, countVars,
                 pollFailures>>

-------------------------------------------------------------------------------
(* The end of the net thread: Exit after a failed poll, ClearClients as    *)
(* onDestory (no OnNetLeave, and no lock around _clientsBuff), then the    *)
(* last two statements of OnWork.                                          *)

NetExitTest(s) == NetStep(s, "exit", IF isRun[Net(s)] THEN "exitLock" ELSE "clear")

NetExitStore(s) ==
  /\ NetGoTo(s, "exitLock", "clear")
  /\ ExitLocked(Net(s))
  /\ UNCHANGED <<queueVars, cur, from, events, sockVars, countVars, pollFailures>>

\* The clients of the map are deleted and the map cleared in one step: this
\* thread handles no more events, so the keys that a loop would leave behind for
\* a while are read by nobody but getClientCount.
NetClear(s) ==
  /\ NetGoTo(s, "clear", "clearBuff")
  /\ Destroy(clients[s])
  /\ abandoned' = abandoned + Cardinality(clients[s])
  /\ abandonedJoin' = abandonedJoin + Cardinality(clients[s])
  /\ clients' = [clients EXCEPT ![s] = {}]
  /\ UNCHANGED <<threadVars, buff, locked, taken, cur, from, events, clientAccept,
                 clientJoin, pollFailures>>

\* Defect: the buffered clients are forgotten without being deleted.
NetClearBuff_Leaks(s) == NetStep(s, "clearBuff", "clearEnd")

NetClearBuff(s) ==
  /\ NetGoTo(s, "clearBuff", "clearEnd")
  /\ Destroy(ToSet(buff[s]))
  /\ abandoned' = abandoned + Len(buff[s])
  /\ taken' = [taken EXCEPT ![s] = Len(buff[s])]
  /\ UNCHANGED <<threadVars, clients, buff, locked, cur, from, events, clientAccept,
                 clientJoin, abandonedJoin, pollFailures>>

\* _clientsBuff.clear(): an entry appended since the loop is forgotten, open.
NetClearEnd(s) ==
  /\ NetGoTo(s, "clearEnd", "wakeup")
  /\ buff' = [buff EXCEPT ![s] = <<>>]
  /\ taken' = [taken EXCEPT ![s] = 0]
  /\ UNCHANGED <<threadVars, clients, locked, cur, from, events, sockVars, countVars,
                 pollFailures>>

NetSignal(s) ==
  /\ NetGoTo(s, "wakeup", "store")
  /\ Wakeup(Net(s))
  /\ UNCHANGED <<queueVars, cur, from, events, sockVars, countVars, pollFailures>>

NetLastStore(s) ==
  /\ NetGoTo(s, "store", "ended")
  /\ EndRun(Net(s))
  /\ UNCHANGED <<queueVars, cur, from, events, sockVars, countVars, pollFailures>>

NetThread(s) ==
  \/ NetStop(s) \/ NetTurn(s) \/ NetLock(s) \/ NetTake(s) \/ NetTaken(s) \/ NetRun(s)
  \/ \E k \in Socks : NetExpire(s, k)
  \/ NetChecked(s) \/ NetPoll(s) \/ NetPollFails(s) \/ NetRecv(s) \/ NetSend(s)
  \/ NetSendFails(s) \/ NetPolled(s) \/ NetMsg(s)
  \/ NetRemove(s) \/ NetLeave(s) \/ NetUnjoin(s) \/ NetDelete(s) \/ NetErase(s)
  \/ NetExitTest(s) \/ NetExitStore(s)
  \/ NetClear(s) \/ NetClearBuff(s) \/ NetClearEnd(s) \/ NetSignal(s) \/ NetLastStore(s)

-------------------------------------------------------------------------------
(* The task thread of Server s.  Nothing in the library adds a task to it, *)
(* so its loop only waits for the flag; TaskServer has the whole of it.    *)

TaskGoTo(s, pc, to) ==
  /\ tpc[s] = pc
  /\ tpc' = [tpc EXCEPT ![s] = to]
  /\ UNCHANGED <<acceptVars, queueVars, netVars, sockVars, countVars, mainVars,
                 pollFailures>>

TaskStop(s) == ~isRun[Task(s)] /\ TaskGoTo(s, "loop", "wakeup") /\ UNCHANGED threadVars

TaskSignal(s) == TaskGoTo(s, "wakeup", "store") /\ Wakeup(Task(s))

TaskLastStore(s) == TaskGoTo(s, "store", "ended") /\ EndRun(Task(s))

TaskThread(s) == TaskStop(s) \/ TaskSignal(s) \/ TaskLastStore(s)

-------------------------------------------------------------------------------
(* Main: InitSocket, Start and Close.                                      *)

ServerOf(t) == t \div 2

\* Start makes the next Server (a new object, hence fresh threads and queues)
\* and starts its task thread, ...
StartTask(s) ==
  /\ mpc = "start" /\ midx = Task(s) /\ starts < MaxStarts
  /\ spc[s] \in {"none", "ended"} /\ tpc[s] \in {"none", "ended"}
  /\ isRun' = [isRun EXCEPT ![Task(s)] = TRUE, ![Net(s)] = FALSE]
  /\ holder' = [holder EXCEPT ![Task(s)] = Nobody, ![Net(s)] = Nobody]
  /\ semWait' = [semWait EXCEPT ![Task(s)] = 0, ![Net(s)] = 0]
  /\ semWakeup' = [semWakeup EXCEPT ![Task(s)] = 0, ![Net(s)] = 0]
  /\ clients' = [clients EXCEPT ![s] = {}]
  /\ buff' = [buff EXCEPT ![s] = <<>>]
  /\ spc' = [spc EXCEPT ![s] = "none"]
  /\ tpc' = [tpc EXCEPT ![s] = "loop"]
  /\ midx' = Net(s)
  /\ UNCHANGED <<acceptVars, locked, taken, cur, from, events, sockVars, countVars,
                 mpc, starts, pollFailures>>

\* ... then its net thread, ...
StartNet(s) ==
  /\ mpc = "start" /\ midx = Net(s)
  /\ StartThread(Net(s))
  /\ spc' = [spc EXCEPT ![s] = "top"]
  /\ midx' = IF s = NServers THEN Accept ELSE Task(s + 1)
  /\ mpc' = IF s = NServers THEN "listen" ELSE "start"
  /\ UNCHANGED <<acceptVars, queueVars, cur, from, events, sockVars, countVars, tpc,
                 starts, pollFailures>>

\* ... and at last the accept thread.
StartAccept ==
  /\ mpc = "listen" /\ apc \in {"none", "ended"}
  /\ StartThread(Accept)
  /\ apc' = "loop"
  /\ mpc' = "up"
  /\ starts' = starts + 1
  /\ UNCHANGED <<acur, amin, anext, queueVars, netVars, sockVars, countVars, tpc, midx,
                 pollFailures>>

notMain == <<acceptVars, queueVars, netVars, sockVars, countVars, tpc, starts,
             pollFailures>>

Close ==
  /\ mpc = "up"
  /\ mpc' = "close" /\ midx' = Accept
  /\ UNCHANGED <<threadVars, notMain>>

\* Defect: the loop over the Servers goes one too far.
NextThread_OffByOne ==
  IF midx > LastThread
  THEN mpc' = "start" /\ midx' = Task(1)
  ELSE mpc' = "close" /\ midx' = midx + 1

\* On to the next Thread; after the last Server the listening socket is closed
\* and the TcpServer may be started again.
NextThread ==
  IF midx = LastThread
  THEN mpc' = "start" /\ midx' = Task(1)
  ELSE mpc' = "close" /\ midx' = midx + 1

CloseThread ==
  /\ mpc = "close"
  /\ \/ CloseIdle(midx) /\ NextThread
     \/ CloseStop(midx, Main) /\ mpc' = "wait" /\ UNCHANGED midx
  /\ UNCHANGED notMain

CloseBlock ==
  /\ mpc = "wait"
  /\ WaitBlock(midx)
  /\ mpc' = "blocked"
  /\ UNCHANGED <<notMain, midx>>

CloseReturn ==
  /\ \/ mpc = "wait" /\ WaitPass(midx)
     \/ mpc = "blocked" /\ WaitResume(midx)
  /\ NextThread
  /\ UNCHANGED notMain

MainThread ==
  \/ \E s \in Servers : StartTask(s) \/ StartNet(s)
  \/ StartAccept \/ CloseThread \/ CloseBlock \/ CloseReturn

-------------------------------------------------------------------------------
Next ==
  \/ \E k \in Socks : PeerCloses(k)
  \/ AcceptThread
  \/ \E s \in Servers : NetThread(s) \/ TaskThread(s)
  \/ MainThread \/ Close

Spec == Init /\ [][Next]_vars

(***************************************************************************)
(* Every thread that can go on does.  Main has to finish a Close or Start  *)
(* it has begun, not to call one.  A client whose peer is gone sends       *)
(* nothing that would reset its heartbeat, so CheckTime, which keeps       *)
(* coming, ends up expiring it even when its full buffer hides the end of  *)
(* the stream from recv.                                                   *)
(***************************************************************************)
Fairness ==
  /\ WF_vars(AcceptThread)
  /\ \A s \in Servers : WF_vars(NetThread(s)) /\ WF_vars(TaskThread(s))
  /\ WF_vars(MainThread)
  /\ \A s \in Servers, k \in Socks : SF_vars(k \in gone /\ NetExpire(s, k))

FairSpec == Spec /\ Fairness

-------------------------------------------------------------------------------
(* Who is responsible for an open socket                                   *)

\* The key CheckTime still has to erase names a client that is deleted.
Stale(s) == IF spc[s] = "erase" THEN {cur[s]} ELSE {}

\* Clients of the map, entries of the buffer nobody has dealt with, and the
\* client rmClient has taken out of the map and not deleted yet.
Mapped(s) == clients[s] \ Stale(s)
Queue(s) == SubSeq(buff[s], taken[s] + 1, Len(buff[s]))
Leaving(s) == IF spc[s] \in {"leave", "unjoin", "delete"} THEN {cur[s]} ELSE {}
Held(s) == Mapped(s) \cup ToSet(Queue(s)) \cup Leaving(s)

InHand == IF apc \in {"limit", "refuse", "count", "scan"} THEN {acur} ELSE {}

\* The client between the two decrements of OnNetLeave, or past both.
Left(s) == IF spc[s] \in {"unjoin", "delete"} THEN {cur[s]} ELSE {}

\* Sockets for which _clientAccept does not count, or no longer.
Uncounted ==
  (IF apc \in {"limit", "refuse", "count"} THEN {acur} ELSE {})
    \cup UNION {Left(s) : s \in Servers}

Joined(s) ==
  (Mapped(s) \cup Leaving(s)) \ (IF spc[s] = "delete" THEN {cur[s]} ELSE {})

-------------------------------------------------------------------------------
(* Properties                                                              *)

\* No socket has two owners and everything a thread owns is open: the accept
\* thread and the Servers share no client, no client waits twice, and an event
\* or a removal never concerns a client that has been deleted.
OneOwner ==
  /\ InHand \subseteq open
  /\ \A s \in Servers :
       /\ Held(s) \subseteq open \ InHand
       /\ events[s] \subseteq Mapped(s) \ Leaving(s)
       /\ spc[s] \in {"out", "remove"} => cur[s] \in Mapped(s) \ events[s]
       /\ IsInjective(Queue(s)) /\ ToSet(Queue(s)) \cap clients[s] \subseteq Stale(s)
       /\ \A r \in Servers \ {s} : Held(s) \cap Held(r) = {}

\* The limit on clients is never exceeded by the counter, although each net
\* thread lowers it and the accept thread tests and raises it in two steps.
AcceptWithinLimit == clientAccept <= MaxClient

\* At any moment _clientAccept counts exactly the open sockets past the limit
\* test whose OnNetLeave has not begun, and _clientJoin the clients between
\* OnNetJoin and OnNetLeave, plus those deleted without OnNetLeave.
CountersExact ==
  /\ clientAccept = Cardinality(open \ Uncounted) + abandoned
  /\ clientJoin = Cardinality(UNION {Joined(s) : s \in Servers}) + abandonedJoin

\* ClearClients walks _clientsBuff without its lock; that is safe as long as
\* the accept thread has ended by then (no poll failed).
ClearIsAlone ==
  pollFailures = 0 =>
    \A s \in Servers :
      spc[s] \in {"clear", "clearBuff", "clearEnd"} => apc \in {"store", "ended"}

\* Close leaves no client socket open (no poll failed).
CloseReleasesAll == pollFailures = 0 /\ mpc = "start" => open = {}

\* A connection is turned away only when, at the time of the test, as many
\* clients as _nMaxClient allows are open beside it ("客户端连接上限", the upper
\* limit of client connections, TcpServer.hpp:33; the log line at 222).
RefusedOnlyWhenFull ==
  [][apc = "limit" /\ apc' = "refuse" => Cardinality(open) > MaxClient]_vars

\* The same as long as no client has been deleted without OnNetLeave.
RefusedOnlyWhenFullAtFirst ==
  [][apc = "limit" /\ apc' = "refuse" /\ abandoned = 0
       => Cardinality(open) > MaxClient]_vars

\* The phase of a socket, as the steps of the threads lead it through its life;
\* an open socket that is in no thread's hands any more is lost.
Phase(k) ==
  IF k \notin open THEN "free"
  ELSE IF k \in InHand THEN IF apc = "scan" THEN "accepted" ELSE "arrived"
  ELSE IF \E s \in Servers : k \in Left(s) THEN "left"
  ELSE IF \E s \in Servers : k \in Joined(s) THEN "joined"
  ELSE IF \E s \in Servers : k \in Held(s) THEN "waiting"
  ELSE "lost"

\* The Server that holds it, 0 when none does.
At(k) ==
  IF \E s \in Servers : k \in Held(s) THEN CHOOSE s \in Servers : k \in Held(s) ELSE 0

\* The Servers whose net thread is in its loop.
Serving ==
  {s \in Servers : spc[s] \in {"top", "lock", "take", "net", "check", "poll", "event", "out",
                               "msg", "remove", "leave", "unjoin", "delete", "erase"}}

\* All the threads together take every connection through the life Connections
\* describes: admitted below the limit, joined once, left once and closed after
\* that by the Server it waited at; only a Server out of its loop drops clients.
Conn == INSTANCE Connections WITH
          phase <- [k \in Socks |-> Phase(k)], at <- [k \in Socks |-> At(k)],
          serving <- Serving, Nowhere <- 0
ConnectionsKept == Conn!Spec

\* Server s serves nobody any more: its net thread has run out, or waits inside
\* Exit for the lock that Close holds while it waits for this thread.
OutOfService(s) ==
  spc[s] = "ended" \/ (spc[s] = "exitLock" /\ holder[Net(s)] = Main)

\* A client handed to a Server is joined or closed unless the Server goes out of
\* service: the unlocked test of _clientsBuff never strands it in the buffer.
HandedOverIsServed ==
  \A s \in Servers, k \in Socks :
    k \in ToSet(buff[s]) ~> k \in clients[s] \/ k \notin open \/ OutOfService(s)

\* A client whose peer has closed is removed and its socket closed, a failing
\* accept thread notwithstanding, unless a Server goes out of service.
GoneIsClosed ==
  \A k \in Socks : k \in gone ~> k \notin gone \/ \E s \in Servers : OutOfService(s)

\* A Close that has begun comes to its end, except when the worker it waits for
\* is inside Exit, on the lock that Close holds.
CloseEnds ==
  mpc = "close" ~>
    \/ mpc = "start"
    \/ apc = "exitLock" /\ holder[Accept] = Main
    \/ \E s \in Servers : spc[s] = "exitLock" /\ holder[Net(s)] = Main
===============================================================================
