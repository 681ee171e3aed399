# A TLA+ verification of doyou::io

`doyou::io` (src/network/depends/include) is a C++ header library for TCP
servers and clients: threads and queues, a multi-threaded server over epoll,
IOCP or select, HTTP and WebSocket on top of it, and a message layer with which
gate, link, login and group servers are built (src/v2engine). This directory
holds TLA+ modules for its concurrent core, for the IOCP engine, the HTTP client
and the message layer's servers, TLC runs over small instances and proofs checked
by TLAPS.

Paths below are relative to src/network/depends/include. PROJECT.json maps every
definition that models code to its lines.

## The system

| Part | State it keeps | Operations | What makes it correct |
|---|---|---|---|
| Semaphore (Semaphore.hpp) | `_wait`, `_wakeup` | wait, wakeup | no wakeup lost, none spent twice |
| Thread (Thread.hpp) | `_isRun`, `_mutex`, a Semaphore | Start, Close, Exit, OnWork | Close returns after the work, and returns |
| TaskServer (Task.hpp) | `_tasks`, `_tasksBuf` | addTask, Start, Close, OnRun | order, each task once, nothing after Close, Close flushes |
| TcpServer (TcpServer.hpp, TcpEpollServer.hpp) | `_clientAccept`, `_clientJoin`, the Servers | Start, Close, Accept, AcceptClient, addClientToCELLServer, OnNetJoin, OnNetLeave | the limit, exact counters, orderly shutdown |
| Server (Server.hpp, EpollServer.hpp) | `_clients`, `_clientsBuff` | OnRun, CheckTime, DoNetEvents, rmClient, DoMsg, addClient, ClearClients | every client has one owner, is served, and is closed when it leaves |
| Client, Buffer (Client.hpp, Buffer.hpp) | state, heartbeat, two buffers, IOCP flags | read, send, hasMsg, pop | no byte lost or repeated, posting flags agree with the engine |
| TaskTimer (TaskTimer.hpp) | list of timers | start, stop, OnRun | every due task runs, a stopped one does not |
| TCP and HTTP clients (TcpEpollClient.hpp, TcpHttpClient.hpp) | one connection, a request queue | get, post, OnNetMsg, OnDisconnect | each answer goes to the callback of its request |
| WebSocket (WebSocketClients.hpp) | frame header, state | hasMsgWS, handshake | a frame that arrives in pieces is the frame that was sent |
| INet nodes (INetClient.hpp, INetServer.hpp, INetTransfer.hpp) | callbacks by message id, listeners | request, answer, timeout, forward | each request ends once, in an answer or a timeout |
| Gate, Link (GateServer.hpp, LinkServer.hpp) | registered servers and their clients | register, forward, push, leave | an answer reaches the client that asked |
| Login (LoginServer.hpp, UserManager.hpp, DBUser.hpp) | users by id, by client, by token | login, logout, register, token login | the three maps agree |
| Groups (GroupServer.hpp, GroupManager.hpp, UserGroup.hpp) | members of a group, groups of a user | create, join, exit, say | the two relations agree |

How they interact. Main calls `TcpServer::Start`, which starts one net thread
and one task thread per Server and then the accept thread. The accept thread
counts a new client against `_nMaxClient`, finds the Server with the fewest
clients (reading sizes without locks) and appends the client to that Server's
`_clientsBuff` under its lock. The net thread moves the buffer to `_clients`,
calls back `OnNetJoin`, and from then on owns the client: it expires it
(`CheckTime`), reads and writes it (`DoNetEvents`), hands its messages to the
application (`DoMsg`) and deletes it. `TcpServer::Close` stops the accept thread,
then the threads of one Server after the other; a net thread deletes its clients
in `ClearClients` on its way out. All threads are `Thread` objects, and each
`Close` waits on the Thread's `Semaphore`.

Above that, a user's client talks to a LinkServer over WebSocket. The Link hands
what it does not handle itself to the Gate, its only connection (an `INetClient`),
under a message id of its own and with a callback; the Gate hands it to one of the
servers that registered for the command, again over connections the servers have
made. Answers and pushes find their way back by the `ClientId`, which packs the
descriptor of the Link at the Gate with that of the client at the Link. When a
client leaves, its Link broadcasts `ss_msg_client_exit` through the Gate; the
LoginServer and the GroupServer have registered for it. Each of these programs does its
message work in one net thread, so a handler is atomic, and what interleaves is
messages: requests, answers, departures, timeouts and connections that break.

What is hard to test here: reads outside the lock (`_isRun`, `_tasksBuf.empty()`,
`_clientsBuff.empty()`, the client counts), test and increment of `_clientAccept`
in two steps while other threads lower it, removal of clients in the middle of
loops over maps and event lists, a descriptor that the system hands out again
at once, shutdown while anything of this is going on, a poll that fails in one
thread only, and restarts; in the IOCP build, Buffers that the kernel and the
thread both work on; in the message layer, ids that are used again while messages
about their former owner are on their way, and pairs of maps kept in step by
hand. PROJECT.json lists the hazards, each at its line, with
the properties that cover it or the reason why none does yet.

## The modules

    Thread ----------- fields of Thread and Semaphore, one operator per critical section
      |-- ThreadLife ------ any sequence of Start, Close and Exit   --implements--> CountingSemaphore
      |-- TaskServer ------ the task queue and its worker
      `-- CellServer ------ main, accept thread, net and task threads --implements--> Connections
    IocpServer ------- net thread, kernel and Buffers of the IOCP build
    TcpHttpClient ---- the queue of HTTP requests over one connection
    Routing ---------- Link, Gate and servers: a request's way and its end
    Login ------------ LoginServer, UserManager and the sessions a Link keeps
    Groups ----------- GroupServer, GroupManager, UserGroup   --implements--> Membership
    MC...: values for TLC
    ThreadLife_proofs, TaskServer_proofs, CellServer_proofs, IocpServer_proofs,
    TcpHttpClient_proofs, Routing_proofs, Login_proofs, Groups_proofs: theorems

**Thread** holds `isRun`, `holder` (who keeps `_mutex` across a wait; only Close
does), `semWait` and `semWakeup` for a set of Thread objects. A critical section
that does not block is one step guarded by the lock being free. `Semaphore::wait`
is `WaitPass` (the counter stays non-negative) or `WaitBlock` followed by
`WaitResume`, whose guard is the predicate of the condition variable, so a
spurious wakeup is a step that is not taken. `Exit` is two steps, the unlocked
test of `_isRun` and the locked store. `EndRun` is the store that OnWork makes
after its wakeup, without the lock. `_isRun` is a plain bool, but each loop that
reads it makes an opaque call, so every read is a read of memory.

**ThreadLife** adds callers that Start and Close at will and the activations of
OnWork; a restarted Thread has several. Overlapping activations, which the late
store of `_isRun` can confuse, are in the model. A Start of a running Thread or a
Close of a stopped one returns at once and is a stuttering step.

**TaskServer** has the buffer, the private list and the position of the worker in
the list it walks. `Fetch` is the critical section of OnRun, `Turn` the unlocked
test, `DrainTask` one step of the unlocked walk at the end. `added`, `executed`
and `promised` are history variables.

**CellServer** is the server. One socket identity stands for the descriptor and
the Client that lives as long as it is open. The accept thread's variables are
`apc`, `acur`, `amin`, `anext`; a Server's are `clients` (keys of `_clients`),
`buff`, `locked`, `taken`, and its net thread's `spc`, `cur`, `from`, `events`.
The two counters are changed at the place where the code changes them, so every
intermediate state is visible. `CheckTime` deletes a client before it erases the
key (`NetDelete`, then `NetErase`); `rmClient` erases the key first (`NetRemove`).
`from` remembers which of the two it is. The end of a peer is an action of its
own; recv may fail to see it while the buffer of the client is full (`NetRecv`
going to "out"). DoMsg may close any of the Server's clients. `epoll_wait` may
report any subset of the watched clients that has all those whose peer is gone,
and may fail (`MaxPollFailures`), upon which the thread calls Exit and leaves.
StartTask makes the objects of a Server anew, as TcpServer::Start does.

**Connections** is what a TcpServer promises about each connection without any
thread: arrived, refused or admitted under the limit, waiting at one Server, joined
there, left, closed. It knows which Servers are `serving`. A Server that is serving
takes a connection from joined to free only by `Leave` and `Close`, one at a time; only
one that is not may `Drop`, and then all that had joined it, or all that wait at it.
What waits at a Server that is down may also be forgotten and stay open (`Forget`, phase
"lost"): that is what ClearClients does when the accept thread appends behind its walk of
`_clientsBuff`, which takes a failed poll. CellServer's refinement mapping is `Phase`, who has a
socket, `At`, the Server that has it, and `Serving`, the Servers whose net thread is in
its loop.

**IocpServer** is the same net thread in the IOCP build, on its own. A `Client`
object and its socket handle are two things here, because CheckTime closes the
handle of a client that has operations posted and deletes the object only later,
and the handle may be given to a new connection in between. `postRecv` and `postSend`
are the Client's flags, `recvAt` and `sendLen` what the kernel really has: where in
the receive Buffer it writes and how much of the send Buffer it reads. The Buffers are
their fill levels and the length of the message in front. `Post` is the loop over
all clients in DoNetEvents, `RecvDone` and the three actions beside it are one
completion each, `HandleMsg` one turn of the loop in DoMsg, whose handler may append
an answer while a send is posted.

**TcpHttpClient** is one thread, cut where the user may call `get`: between two calls
of OnRun and inside callbacks. `at` tells the first half of OnRun (nextRequest) from
the second (the engine's OnRun). `ConnectAnew` is hostname2ip from the test of the
old connection on: InitSocket closes the old Client, which calls OnDisconnect, and
the new one is connected or not.

**Routing** has the Link's `_map_request_call`, the Gate's `Listeners` and the messages
on each hop. A connection that breaks loses what it carries. The Link does not ask
whether it is connected: it writes through `_pWSClient`, which is never reset, so `wsClient` is
what that pointer stands for. A Client whose connect failed ("offline") takes a request
into its buffer, the request is recorded, and it times out once the Link is back. After a
break the pointer dangles ("freed"): the write is undefined behaviour, and here it succeeds or
fails and sends nothing. `WriteText` is that call, `Request` the recording of what was
written, made by clients (`Ask`), by the handshake (`Open`, which registers the Link) and by
a callback before its own entry is erased (`CallBack`). `Expire` is check_timeout for one request
that is due; the code does it only when connected. At the Gate a Link that has not
registered yet (`ssLink`) gets no answer (`GateDrops`). `Forward`, `ServerBusy` and
`ServerOff` are the three results of INetTransfer::on_net_msg_do.

**Login** has UserManager's three maps with the addresses of the records they point
to, because `_clientId2user` keeps pointers to deleted records: `offline` clears
`clientId`, by which `remove` would find the entry. `Replace` is the common end of
cs_msg_login and cs_msg_login_by_token. At the Link, the session of a client is
`userId` and `token`; both messages that change it carry only a client id. The field
`mine` of a message, `own`, `wild` and `lost` are history: whether a session was asked for by the
connection that has it, whether offline() has hit a wrong record, and whether a login or
logout did not reach the Link. `MaxUp` and `MaxDown` are the sizes of the send buffers:
nobody waits for room in them. `Pushed` sends the pushes that fit and drops the others, as
the LoginServer, which does not look at their results, goes on all the same; a request or a
departure that does not fit is dropped as well.

**Groups** has `GroupManager::_map_member` as `exists`, `member` and `key`, and
`UserGroup::_map_member` as `userGroup`, with one action per handler and outcome. A
client is <<link, sock>>, the two parts of its ClientId. The Gate computes it for
requests; for departures the Link does, with the link id it was told last, which is
`known`. A departure is lost (`Leave`) without a connection, with a full send buffer, and at a Gate
that has not registered the Link yet. **Membership** is the promise: a group has the key of its founder until its
last member leaves, is left by its members and is in no other way changed.

### Abstractions

- IocpServer has one net thread and no accept counter, which CellServer is about;
  a message's bytes are a number.
- Routing leaves out the clients: the Link's callback writes to whoever has the
  asker's descriptor and changes nothing of the Link. All servers register for the
  same command. Heartbeats and broadcasts, which nobody answers, are left out, and so
  is that a write through a dangling `_pWSClient` may end the program.
- CellServer: ClearClients deletes the clients of the map and clears it in one step
  (`NetClear`), and the two sizes that getClientCount adds are read in one (`AcceptScan`): the keys
  in between are read by nobody but getClientCount, whose value is stale anyhow.
- Login and Groups leave out answers and pushes, requests refused before a map is
  looked at, and (Login only) lost connections between servers. Passwords and the
  database are left out.
- TcpHttpClient: a connection answers in order, a request fits the send buffer.

- CellServer: message contents, buffers and time are left out. Any client may be expired at
  any CheckTime; a send may succeed, fail or (HTTP) close the client.
- `_recvCount`, `_msgCount` and log lines are left out, as are the epoll
  system calls other than wait and the limit on the number of events per wait.
- The task thread of a Server has no tasks, since nothing in the library adds
  one; TaskServer has the whole of it.
- A Server's Thread objects are new at each Start and the accept Thread is started
  again once its previous activation has ended. What an overlapping activation
  does is ThreadLife's subject.

## The runs

| Run | Instance | What it shows |
|---|---|---|
| thread_life | 1 Thread, 2 callers, 3 activations, Exit allowed | No wakeup is lost and none is left over (`NoLostWakeup`, `SemaphoreAtRest`), the two counters are a counting semaphore (`SemaphoreCounts`), Close waits for the first run (`CloseWaitsForFirstRun`) and returns unless its worker sits in Exit (`CloseReturns`) |
| thread_exit | the same with 2 activations | Violation of `ExitDoesNotBlock`, see Findings |
| task_server | 4 tasks | `RunsInOrder`, `CloseFlushes`, `QuietAfterClose`, and that a task added to a server that stays up is run (`AddedRuns`) |
| cell_server | 2 Servers, 3 descriptors, limit 2, 1 start | One owner per socket through hand-over and removal (`OneOwner`), the limit (`AcceptWithinLimit`), exact counters at every moment (`CountersExact`), order of shutdown (`ClearIsAlone`), nothing left open (`CloseReleasesAll`), and refusals only when the limit is reached (`RefusedOnlyWhenFullAtFirst`) |
| cell_server_live | 1 Server, 2 descriptors, limit 1, 1 start, 1 failing poll | Clients handed over are served (`HandedOverIsServed`), clients whose peer has gone are closed (`GoneIsClosed`), Close comes to its end (`CloseEnds`) |
| connections | 2 Servers, 2 descriptors, limit 1, 2 starts | CellServer implements Connections (`ConnectionsKept`), over a restart: clients of a Server in its loop leave before they are closed |
| cell_server_restart | 1 Server, 2 descriptors, limit 1, 2 starts | Violation of `RefusedOnlyWhenFull`, see Findings |
| iocp_server | 2 Client objects over 2 handles, Buffers of 3 and 2, messages of 1 and 3 | No operation is left to a deleted Client (`OpsHaveOwners`), none points at a place of the Buffer that has moved (`OpsInPlace`), closed clients leave, except in two cases (`ClosedLeaves`, see Observations) |
| routing | 4 requests, registrations of the Link included, 2 servers, 2 link ids, send buffers of 2, any connection breaking | Answer, error of the Gate and timeout exclude each other (`EndsOnce`), the Gate uses no connection that is gone (`ListenersLive`), each recorded request ends, those made without a connection included (`EveryRequestEnds`) |
| groups | 2 clients, 2 groups, 2 keys, 2 messages on their way | The two relations agree where it matters (`MemberKnown`), a member that has gone is on its way out unless its departure was lost, for a full buffer too, or sent under a stale id (`GhostsAreOrphans`), Groups implements Membership (`GroupsKept`) |
| login | 2 users, 2 clients, 2 addresses, 3 tokens, send buffers of 2 and 3 | The maps by user and by token agree and hold every record (`MapsAgree`); until a login or logout is lost for a full buffer, a user has one session (`OneSession`) and a logout ends the session it was sent for (`LogoutEndsItsSession`) |
| http_client | 4 requests, 2 hosts | Each request ends (`RequestEnds`), once and with its own answer or nullptr (`CalledBackOnce`), except after the cases both name |

Why the bounds are enough. Two callers are the least that compete for a Thread's
lock, and three activations allow a stale permit, a late store and a third run
that meets both. Four tasks fill the private list and the buffer with two each.
Two Servers make the choice between them matter; three descriptors under a limit
of two have one client in each Server, or two in one, and a third that is refused
while they leave; a descriptor is used again while its old key is being erased.
The two runs of CellServer that include a restart use fewer descriptors. Constants
`MaxStarts` and `MaxPollFailures` bound counters that the code does not bound; every other bound
is a size. In iocp_server, Buffers of 3 and 2 make a message of 3 one that never
fits (the receive leaves a byte free) and a message of 1 one that arrives beside another; two
Client objects let a handle be used again once. In routing, a registration and
two requests pass a send buffer of two by one, the fourth comes over another connection or
from a callback, and two servers make the turn matter. In
groups, the id that is allocated first is also one that a client may choose, and in login the
number of one client is also that of a user, because the ranges meet in the code.
Three tokens over two addresses let a record be replaced twice and an address be used again;
the buffers of login take two sessions' logins and a logout, and overflow with the next.
In http_client the third request changes the host, with two before it to keep a
connection or not. `MaxReq` and `MaxToken` bound what the code does not, and `MaxInbox` the requests on
their way; no departure waits for it. Descriptors are symmetric in the runs without liveness: nothing orders
them. Deadlock is not checked where the system really stops: after its last
permitted Close, in ThreadLife when Exit meets Close, in IocpServer when the thread
has ended, and in Login when the bound on tokens is reached.

Beyond the runs, all safety properties of CellServer were checked once each with
one Server, three descriptors, two starts and one failing poll.

### Fairness

A thread that can go on does (`WF` per thread): the operating system schedules
every thread, and no lock in this code is contended without end. Nobody has to
call Start, Close, addTask or Exit, no peer has to close, and no poll has to
fail. Main has to go on only with a Start or Close it has begun.
`CellServer` assumes strong fairness of one step: CheckTime expiring a client
whose peer is gone. Such a client sends nothing that would reset its heartbeat,
and CheckTime passes it again and again with more time gone by, so it expires.
`IocpServer` assumes that the net thread runs and that the kernel completes what it
has of a closed socket, strongly fair per client because `wait` may time out any number of times.
`Routing` assumes that a Link that is not connected comes to be, and for each request
strong fairness of `Expire`: whenever the Link is connected it looks for requests that
are due, and a pending one is due for good after five seconds. No fairness
is assumed of servers, of the Gate or of connections. `TcpHttpClient` assumes that OnRun
is called over and over, and that a connection with an unanswered request answers or breaks.

### What the properties leave out

`ClearIsAlone` and `CloseReleasesAll` are stated for executions in
which no poll fails. After a failed `epoll_wait` the worker calls Exit; Close then
finds `_isRun` down, returns at once, and the Server is deleted while its net
thread may still be in ClearClients. `HandedOverIsServed`, `GoneIsClosed` and
`CloseEnds` except Servers that have gone out of service (`OutOfService`).
`CloseWaitsForFirstRun` is about a Thread's first run: a permit that Exit left
behind lets a later Close return while the work is still running.
`ConnectionsKept` allows clients at a Server out of its loop to be dropped; `Forget` is part of the promise
because of failing polls, which its run has none of and the theorem has.
`OneSession` and `LogoutEndsItsSession` speak of runs in which every login and logout got into
the buffers (`lost`), and `OneSession` of clients that asked for their sessions.
`GroupsKept` does not know who is connected: that a client that has gone is still a member is the
subject of `GhostsAreOrphans`. No property says that the Server a client is given to is the
least loaded one: the sizes it is chosen by are stale when they are compared.

## Findings

- **Exit can wait for Close, and Close for Exit** (thread_exit). `Thread::Exit`
  reads `_isRun` without the lock and then takes `_mutex`. If Close lowers the flag
  in between, it keeps `_mutex` while it waits for the wakeup that only this worker
  gives. Thread.hpp:52-54 presents Exit as the call that does not block.
- **A restarted TcpServer refuses clients it has room for** (cell_server_restart).
  `ClearClients` deletes clients without OnNetLeave, so `_clientAccept` keeps
  counting them. `InitSocket` closes and reuses a TcpServer that is already up.

### Observations

Confirmed in the models, as exceptions that properties name; without the exception
the property is violated:

- A receive Buffer with one free byte refuses a receive after the Client has
  marked it as posted (Client.hpp:210): the client is neither read nor deleted any
  more (`Stuck` in IocpServer).
- CheckTime closes the socket of a client that has operations posted; a new
  connection with the same handle then replaces it in `_clients` (Server.hpp:59),
  and the Client never leaves: its memory and its place under the limit are lost
  (`Displaced` in IocpServer).
- A request to another host closes the connection there is, and OnDisconnect
  raises `_b_nextRequest` although a request has just been sent
  (TcpHttpClient.hpp:75): it has a second turn, is dropped from the queue while it is
  in flight, and the next request takes its callback's place, so that an answer is
  given to the wrong callback (`moved` in TcpHttpClient). So it is when a
  connection fails, or when a request is made while another is in flight and
  that one is to be answered after a second turn (`failed`, `overlapped`).
- UserManager::remove does not find the `_clientId2user` entry of a user who is
  offline; a later departure under that client id calls offline() on a deleted
  record, or on whatever record has its address by then (`wild` in Login).
- A departure that is lost, on a connection or because nobody looks at the result of a
  broadcast, or is announced under a stale link id, leaves its client in
  its groups for good, and a client that gets the same id inherits them (`orphan` in
  Groups).
- A push that does not fit the LoginServer's send buffer is dropped without a word
  (LoginServer.hpp:210, 230): the Link keeps a session that has been replaced, or has none
  that the LoginServer believes it has (`lost` in Login).
- A Link without a connection takes requests all the same (`_pWSClient`,
  TcpWebSocketClient.hpp:203): they sit in a Client that is deleted by the next connect, and
  their clients hear of a timeout, seconds after the Link is back. Right after a break the
  pointer is that of a deleted Client ("freed" in Routing).

Seen while modelling, without a run of their own: the third test of
UserManager::add (UserManager.hpp:54) looks the client id up among the user ids, so
a login may fail because of another user's number; ClearClients of the IOCP build
deletes clients whose operations the kernel still has; cs_msg_group_exit uses the
Group after the last member's exit has erased it (GroupServer.hpp:323); the store `_isRun = false`
after the wakeup (Thread.hpp:80-81) can lower the flag of a Thread that has been
started again, or write to a Thread that its owner has destroyed; a TaskServer
started again would run the tasks of its last drain once more (Task.hpp:82-85); a
Server whose poll failed has the fewest clients and attracts all new ones
(TcpServer.hpp:234-242).

## The proofs

TLAPS checks the theorems for every value of the constants that satisfies the
named assumptions (`LifeAssumption`, `TaskAssumption`, `CellAssumption`,
`IocpAssumption`, `HttpAssumption`, `RoutingAssumption`, `LoginAssumption`,
`GroupsAssumption`), which TLC evaluates in the runs. They say that sizes are natural
numbers, that what stands for a missing value is none of the values, and, where
something is counted or listed, that descriptors or servers are finite in number. Every
safety property of the passing runs, action property and refinement included, is a theorem.

**ThreadLife_proofs.** `LifeInvariant` proves `LifeInv` inductive. `NoLostWakeup` is
not inductive alone: that the sleeper's worker has still to signal depends on
there having been one when Close lowered the flag (`RunIsBacked`, `WaitIsBacked`),
on at most one caller being counted (`LockHeldWhileClosing`), and on no wakeup
being left over (`SemaphoreAtRest`). Each kind of step has a lemma. From it follow
`WakeupsKept` and `CountersAtRest`. `SemaphoreImplemented` is the refinement: every
step changes the permits of one Thread by one, or of none. `CloseWaits` needs
another invariant, `FirstRunInv`: while there has been one activation, a permit
exists only if it has signalled. `TypeCorrect` is the type invariant.

**TaskServer_proofs.** `TaskInvariant` proves `TaskInv` inductive: the tasks added
are those executed, then the rest of the private list, then the rest of the buffer
(`LengthsFit`, `ElementsFit`); where owner and worker can be together
(`ControlFits`); and that the worker passes the drain only with nothing left
(`PromiseFits`). `OrderKept`, `CloseIsABarrier` and `NothingRunsLate` follow.

**CellServer_proofs** is the longest, in four parts, each on top of the one before.

*Types and limit.* `TypeCorrect`, by `TypeInv`: what enters `_clientsBuff` is a
socket because of where the accept thread is. `LimitKept`, by `LimitInv`: between
the accept thread's test and its increment the net threads only lower the counter.

*Owners.* `OneOwnerKept`, by `OwnerInv`. `OneOwner` alone is not
inductive: that a client leaves the map once depends on where it came from
(`EventsFit`: from an event it is out of the map already, from CheckTime it is still
in it), that a buffered client is not taken twice on how far the loop over
`_clientsBuff` is (`TakenFits`), and that a started Server holds nothing on its net
thread not having run (`Fresh`). `Local` is what holds of one Server, with a lemma
for each kind of step of its net thread; `GivesUp` says what such a step may do to
the sockets: close some that the Server holds, and hold them no longer. `SharedKept`
concludes from it that nobody else is touched, once for all steps.

*Counters.* `CountersKept`, by `CountInv`. Each counter belongs to a set of sockets
(`Counted`, `AllJoined`), and `NetSets` says for each step of a net thread what enters
or leaves these sets: one client joins, ceases to be counted, ceases to be joined, is
deleted, or a set of clients is dropped. That this changes a cardinality by just so much
rests on `OwnerInv`, since no other thread holds any of them; the case of
`_clientsBuff` needs that a buffer without repetitions has as many elements as
positions (`InjectiveCount`). Over a restart, `Emptied` is what is needed: a
Server that is made anew had no client left in its map. `RefusalsJustified` and
`ConnectionsImplemented` follow. The refinement is proved from `InOrder`: a socket stands where
the one who has it says (`Stands`), which `OwnerInv` makes unique. `NetLives`, `AcceptLives` and
`RestLives` take the steps of each thread to one action of Connections or none
(`Lives`); the admission step uses that the counter is exact, and a step in which
a Server drops clients that it is out of its loop (`NetServes`).

*Shutdown.* `ClearedAlone` and `CloseReleases`, by `CloseInv`. Both are about who has
come how far, so `Stage` says for every Thread, by where main is, what its flag and
the two counters of its Semaphore are and which part of its work it is in: running until
main lowers the flag, then on its way out with the permit still to come, then out with the
permit given. A Close that has passed the wait therefore leaves the thread out of its
work. All of main's steps (`MainStage`) and of the workers (`WorkerStage`) keep this.
With it, `AllHeld` says that an open socket is always somebody's, except that
ClearClients forgets what is in `_clientsBuff` when it clears it; `Drained` says
that this is nothing. `ClearAlone` and `AcceptFirst` are the reason why: the accept
thread, which Close takes down first, appends nothing any more.

**IocpServer_proofs.** `TypeCorrect`, `OpsOwned` and `OpsStay`, by `OpsInv`. The properties
compare the kernel's view with the Buffers, and a handler does not see the kernel: it goes by
the flags `postRecv` and `postSend`. `Flagged` ties them to the operations the kernel has,
`InPlace` these to the fill levels: a receive under way is one at the end of the data, in a
Buffer with no whole message in it, so that no pop can move that end. `Handled` is what
lets the next receive be posted: when the thread comes to join, check and post, DoMsg has
left no whole message with any client it has entered.

**TcpHttpClient_proofs.** `TypeCorrect`, and `CallbacksKept` by `OnceInv`: as long as none of
the exceptions has happened, a callback that is set belongs to the one request in flight,
which is the front of the queue with its turn counted (`InFlight`); a front whose turn
is counted and whose callback is not set has ended and will only be dropped; all behind
it are untried and have been told nothing (`Untried`, `Untold`, `Ordered`). `PushedKept`,
`CountedKept`, `TailKept` and `ToldKept` are about the operations on the queue.

**Routing_proofs.** `RequestsEndOnce`, by `RequestInv`: `EndsOnce` needs to know that an
id is new when it is given out, so that a request not numbered yet is neither pending
nor over (`NumberedOnly`). `Requested` says what a request does to the map, whoever makes it, and
`CalledBackOnce` serves answers and timeouts alike, with the request a callback may make. The
proof reads nothing of the connection: whatever `WriteText` reports, what is recorded has
a new id. `TypeCorrect` and
`ListenersKept`, by `NodeInv`: a server that is not connected is in no list and has nothing
on its way to the Gate, where a registration would put it back. The removal of a
listener is the operator `Delete`; what it does to a list of distinct servers is proved
of its definition by positions (`Deleted`).

**Login_proofs.** `TypeCorrect` and `MapsByUserAndTokenAgree`, by `LoginInv`. The lemmas
`RemoveAgrees` and `AddAgrees` are about UserManager's operations on any maps;
`ReplaceAgrees` composes them for both logins. `ClientExitAgrees` shows why the dangling
map by client does the other two no harm: `offline()` changes a client id only.
`LogoutEndsItsOwn` and `OneSessionKept` are about messages as much as about maps. The first, by
`TokenInv`: a token is given out once, so a logout can name no session but its own,
wherever the two messages are (`SessionTold`). The second, by `OwnInv`: a session its
client asked for is the one of the user's record unless the logout for it is on its way
(`Kept`), and a user has one record. This needs that a client's departure reaches the Gate
after everything else of that connection (`NothingBefore`). Both invariants hold until a login or
logout is lost (`lost`); `PushedAll` says what is sent up to then. A departure may be lost
at any time: neither needs it.

**Groups_proofs.** `GroupInv` adds to `MemberKnown` that a group has a key exactly while it
has members (`KeyWhileMembers`), which the refinement needs. `MemberAdded` and
`MemberRemoved` are about the four maps, and every handler follows from one of them
(`StepFits`), with its step of Membership. `ListsAgree`, `TypeCorrect` and
`MembershipImplemented` rest on it. `GhostsAccounted` needs `OriginInv`:
`GhostsAreOrphans` says nothing of the requests in the inbox, which make members later,
so it is stated for every trace of a client (`Trace`), each with the departure *behind*
it; and a connection that breaks may lose any departure, so a trace from an earlier
connection must be an orphan's already (`FromLink`). The run has one descriptor for the
Link's connection; the theorem holds for any number of them, used again in any order.

Only model-checked: liveness (`CloseReturns`, `AddedRuns`, `HandedOverIsServed`,
`GoneIsClosed`, `CloseEnds`, `ClosedLeaves`, `EveryRequestEnds`, `RequestEnds`), which is
beyond the prover, and the two violations, which are counterexamples. The types of
TcpHttpClient are only proved.

## Not modelled, and the plan

Not modelled, and why:

- select engine: the same loops as the epoll engine over fd sets; CellServer stands for
  them. TcpIocpClient is the IOCP engine for a single client.
- HTTP server and WebSocket framing: parsing and writing of text and frames in
  one client's Buffers. Their state is bytes, which the models abstract.
- TaskTimer and UserClient: UserClient is the scripted client of the load test, and
  the only user of a TaskTimer. Routing, Login and Groups take the requests it makes
  from clients in any order.
- DBManager and DBUser: statements as text for SQLite.
- Configuration, logging, serialisation, clocks and string helpers keep no state worth a
  model.
- SQLite, cJSON, SHA-1 and base64 are third-party code, four fifths of all lines under
  src/; the example programs and web pages only use what is modelled.

The work to come: the byte streams of WebSocket frames and HTTP requests, cut anywhere,
as models of their own.
