------------------------------- MODULE IocpServer -------------------------------
(***************************************************************************)
(* One net thread of the IOCP build.  Where the epoll build asks whether a *)
(* socket is ready, this one hands the kernel a piece of a client's Buffer *)
(* and is told later how much of it was filled or sent, while the thread   *)
(* goes on to append to and pop from the same Buffers.  A client may       *)
(* therefore be deleted only when nothing is posted for it, which the two  *)
(* flags _isPostRecv and _isPostSend tell, and its socket is closed first  *)
(* to get the operations back.                                             *)
(*                                                                         *)
(* The net thread goes round the five parts of Server::OnRun; what it does *)
(* to the clients one after the other without waiting is one step.  The    *)
(* kernel completes an operation in the step in which the thread learns of *)
(* it.  A message is a number of bytes, known once its header is there.    *)
(***************************************************************************)
EXTENDS Integers, FiniteSets, Functions

CONSTANTS
  MaxClient, \* bound: the Client objects made; their ids are 1 to MaxClient
  Handles,   \* the socket handles the system gives out, again and again
  None,      \* INVALID_SOCKET, and no entry in _clients
  Size,      \* _nSize of a receive buffer
  SendSize,  \* _nSize of a send buffer
  MsgLens    \* the lengths a message may have

ASSUME IocpAssumption ==
  /\ MaxClient \in Nat /\ None \notin Handles \cup Int
  /\ Size \in Nat \ {0} /\ SendSize \in Nat
  /\ MsgLens \subseteq Nat \ {0} /\ MsgLens # {}

VARIABLES
  pc,        \* the part of OnRun the net thread is in
  life,      \* where each Client is between new and delete
  entry,     \* Server::_clients, by the handle it was entered with
  handle,    \* Client::_sockfd
  closed,    \* the clients in clientState_close
  postRecv, postSend,  \* the clients with _isPostRecv, with _isPostSend
  recvAt,    \* where in the Buffer a posted receive goes, or None
  sendLen,   \* the bytes a posted send covers, or None
  recvLast, sendLast,  \* Buffer::_nLast of the two Buffers
  need       \* length of the message at the front of the receive Buffer, 0 for none

posting == <<postRecv, postSend, recvAt, sendLen>>
vars == <<pc, life, entry, handle, closed, posting, recvLast, sendLast, need>>

Clients == 1 .. MaxClient
Live == {c \in Clients : life[c] = "live"}
Entered == {c \in Clients : \E h \in Handles : entry[h] = c}
Full(c) == (Size - recvLast[c]) - 1 <= 0

TypeOK ==
  /\ pc \in {"join", "check", "post", "poll", "msg", "done"}
  /\ life \in [Clients -> {"new", "buffered", "live", "deleted"}]
  /\ entry \in [Handles -> Clients \cup {None}] /\ Entered \subseteq Live
  /\ handle \in [Clients -> Handles \cup {None}]
  /\ closed \subseteq Clients /\ postRecv \subseteq Clients /\ postSend \subseteq Clients
  /\ recvAt \in [Clients -> (0 .. Size - 1) \cup {None}]
  /\ sendLen \in [Clients -> (1 .. SendSize) \cup {None}]
  /\ recvLast \in [Clients -> 0 .. Size - 1]
  /\ sendLast \in [Clients -> 0 .. SendSize]
  /\ need \in [Clients -> MsgLens \cup {0}]
  /\ \A c \in Clients : need[c] = 0 <=> recvLast[c] = 0

Init ==
  /\ pc = "join"
  /\ life = [c \in Clients |-> "new"]
  /\ entry = [h \in Handles |-> None] /\ handle = [c \in Clients |-> None]
  /\ closed = {} /\ postRecv = {} /\ postSend = {}
  /\ recvAt = [c \in Clients |-> None] /\ sendLen = [c \in Clients |-> None]
  /\ recvLast = [c \in Clients |-> 0] /\ sendLast = [c \in Clients |-> 0]
  /\ need = [c \in Clients |-> 0]

Update(f, S, v) == [c \in DOMAIN f |-> IF c \in S THEN v ELSE f[c]]

\* Defect: a deleted client keeps its entry.
Delete_KeepsEntry(D) ==
  /\ life' = Update(life, D, "deleted")
  /\ closed' = closed \ D
  /\ recvLast' = Update(recvLast, D, 0)
  /\ sendLast' = Update(sendLast, D, 0)
  /\ need' = Update(need, D, 0)
  /\ UNCHANGED entry

\* The clients D are deleted with their Buffers and leave _clients.
Delete(D) ==
  /\ life' = Update(life, D, "deleted")
  /\ entry' = [h \in Handles |-> IF entry[h] \in D THEN None ELSE entry[h]]
  /\ closed' = closed \ D
  /\ recvLast' = Update(recvLast, D, 0)
  /\ sendLast' = Update(sendLast, D, 0)
  /\ need' = Update(need, D, 0)

-------------------------------------------------------------------------------
\* The accept thread: the next Client object, with a handle that no open socket
\* has, goes to the buffer of the net thread.
Accept(c, h) ==
  /\ pc # "done" /\ life[c] = "new" /\ \A d \in 1 .. c - 1 : life[d] # "new"
  /\ \A d \in Clients : handle[d] # h
  /\ life' = [life EXCEPT ![c] = "buffered"]
  /\ handle' = [handle EXCEPT ![c] = h]
  /\ UNCHANGED <<pc, entry, closed, posting, recvLast, sendLast, need>>

\* OnRun: the buffered clients are entered by their handle, over whatever entry
\* that handle still has; without any client the thread starts over.
Join ==
  /\ pc = "join"
  /\ LET B == {c \in Clients : life[c] = "buffered"} IN
       /\ life' = Update(life, B, "live")
       /\ entry' = [h \in Handles |-> IF \E c \in B : handle[c] = h
                                        THEN CHOOSE c \in B : handle[c] = h ELSE entry[h]]
  /\ pc' = IF \A h \in Handles : entry'[h] = None THEN "join" ELSE "check"
  /\ UNCHANGED <<handle, closed, posting, recvLast, sendLast, need>>

\* Defect: only a posted receive keeps a client from being deleted.
Check_RecvOnly(D) ==
  /\ pc = "check" /\ closed \cap Entered \subseteq D
  /\ Delete(D \ postRecv)
  /\ handle' = Update(handle, D, None)
  /\ pc' = "post"
  /\ UNCHANGED posting

\* CheckTime: of the clients D that are closed or have not been heard of for too
\* long, those with nothing posted leave; the others only lose their socket.
Check(D) ==
  /\ pc = "check" /\ closed \cap Entered \subseteq D
  /\ Delete(D \ (postRecv \cup postSend))
  /\ handle' = Update(handle, D, None)
  /\ pc' = "post"
  /\ UNCHANGED posting

SendReady == {c \in Entered \ (postSend \cup closed) : sendLast[c] > 0 /\ handle[c] # None}
RecvReady == {c \in Entered \ (postRecv \cup closed) : handle[c] # None}

\* DoNetEvents, first part: a send for whoever has something to send, a receive
\* for everyone; F and G are those for which the system refuses the one or the
\* other.  A Buffer that is full refuses too, when the flag is already set.
Post(F, G) ==
  /\ pc = "post" /\ F \subseteq SendReady
  /\ LET sent == SendReady \ F
         asked == RecvReady \ F
         received == {c \in asked \ G : ~Full(c)}
     IN /\ G \subseteq {c \in asked : ~Full(c)}
        /\ postSend' = postSend \cup sent
        /\ sendLen' = [c \in Clients |-> IF c \in sent THEN sendLast[c] ELSE sendLen[c]]
        /\ postRecv' = postRecv \cup (asked \ G)
        /\ recvAt' = [c \in Clients |-> IF c \in received THEN recvLast[c] ELSE recvAt[c]]
  /\ closed' = closed \cup F \cup G
  /\ pc' = "poll"
  /\ UNCHANGED <<life, entry, handle, recvLast, sendLast, need>>

-------------------------------------------------------------------------------
(* DoIocpNetEvents: one completion at a time                               *)

\* The message at the front, when there is one and it is another than before.
FrontMsg(c) ==
  IF recvLast'[c] > 0 /\ (need[c] = 0 \/ recvLast'[c] < recvLast[c])
    THEN \E n \in MsgLens : need' = [need EXCEPT ![c] = n]
    ELSE need' = IF recvLast'[c] = 0 THEN [need EXCEPT ![c] = 0] ELSE need

\* The kernel has filled n bytes from recvAt on; recv4iocp counts them.
RecvDone(c, n) ==
  /\ pc = "poll" /\ recvAt[c] # None /\ n \in 1 .. (Size - recvAt[c]) - 1
  /\ recvAt' = [recvAt EXCEPT ![c] = None]
  /\ postRecv' = postRecv \ {c}
  /\ recvLast' = IF Size - recvLast[c] >= n THEN [recvLast EXCEPT ![c] = @ + n] ELSE recvLast
  /\ FrontMsg(c)
  /\ UNCHANGED <<pc, life, entry, handle, closed, postSend, sendLen, sendLast>>

\* Defect: the flag of a receive that failed is left set.
RecvFails_KeepsFlag(c) ==
  /\ pc = "poll" /\ recvAt[c] # None
  /\ recvAt' = [recvAt EXCEPT ![c] = None]
  /\ closed' = closed \cup {c}
  /\ UNCHANGED <<pc, life, entry, handle, postRecv, postSend, sendLen, recvLast, sendLast, need>>

\* The peer has closed, or the socket is closed on this side.
RecvFails(c) ==
  /\ pc = "poll" /\ recvAt[c] # None
  /\ recvAt' = [recvAt EXCEPT ![c] = None]
  /\ postRecv' = postRecv \ {c}
  /\ closed' = closed \cup {c}
  /\ UNCHANGED <<pc, life, entry, handle, postSend, sendLen, recvLast, sendLast, need>>

\* n bytes are sent; once the Buffer is empty onSendComplete may close the client.
SendDone(c, n) ==
  /\ pc = "poll" /\ sendLen[c] # None /\ n \in 1 .. sendLen[c]
  /\ sendLen' = [sendLen EXCEPT ![c] = None]
  /\ postSend' = postSend \ {c}
  /\ sendLast' = IF sendLast[c] < n THEN sendLast ELSE [sendLast EXCEPT ![c] = @ - n]
  /\ closed' \in {closed, IF sendLast'[c] = 0 THEN closed \cup {c} ELSE closed}
  /\ UNCHANGED <<pc, life, entry, handle, postRecv, recvAt, recvLast, need>>

SendFails(c) ==
  /\ pc = "poll" /\ sendLen[c] # None
  /\ sendLen' = [sendLen EXCEPT ![c] = None]
  /\ postSend' = postSend \ {c}
  /\ closed' = closed \cup {c}
  /\ UNCHANGED <<pc, life, entry, handle, postRecv, recvAt, recvLast, sendLast, need>>

\* wait finds nothing within its millisecond.
PollQuiet ==
  /\ pc = "poll" /\ pc' = "msg"
  /\ UNCHANGED <<life, entry, handle, closed, posting, recvLast, sendLast, need>>

-------------------------------------------------------------------------------
HasMsg(c) == need[c] # 0 /\ recvLast[c] >= need[c]

\* DoMsg: the message at the front is handled and popped.  The handler may append
\* an answer to the send Buffer, posted or not, and may close the client.
HandleMsg(c, answer, close) ==
  /\ pc = "msg" /\ c \in Entered /\ HasMsg(c)
  /\ recvLast' = [recvLast EXCEPT ![c] = @ - need[c]]
  /\ FrontMsg(c)
  /\ sendLast' = IF sendLast[c] + answer <= SendSize
                   THEN [sendLast EXCEPT ![c] = @ + answer] ELSE sendLast
  /\ closed' = IF close THEN closed \cup {c} ELSE closed
  /\ UNCHANGED <<pc, life, entry, handle, posting>>

\* Defect: a client's messages are not handled to the last.
MsgEnd_Early ==
  /\ pc = "msg" /\ pc' = "join"
  /\ UNCHANGED <<life, entry, handle, closed, posting, recvLast, sendLast, need>>

\* No client has a whole message any more.
MsgEnd ==
  /\ pc = "msg" /\ \A c \in Entered : ~HasMsg(c)
  /\ pc' = "join"
  /\ UNCHANGED <<life, entry, handle, closed, posting, recvLast, sendLast, need>>

\* The thread ends, at its loop test or because wait failed, and ClearClients
\* deletes what it has, posted operations or not.
Stop ==
  /\ pc \in {"join", "poll"} /\ pc' = "done"
  /\ LET D == Entered \cup {c \in Clients : life[c] = "buffered"} IN
       Delete(D) /\ handle' = Update(handle, D, None)
  /\ UNCHANGED posting

-------------------------------------------------------------------------------
RecvCompletes(c) == (\E n \in 1 .. Size : RecvDone(c, n)) \/ RecvFails(c)
SendCompletes(c) == (\E n \in 1 .. SendSize : SendDone(c, n)) \/ SendFails(c)

Net ==
  \/ Join \/ (\E D \in SUBSET Entered : Check(D))
  \/ \E F, G \in SUBSET Entered : Post(F, G)
  \/ \E c \in Clients : RecvCompletes(c) \/ SendCompletes(c)
  \/ PollQuiet
  \/ \E c \in Clients, a \in 0 .. 1, b \in BOOLEAN : HandleMsg(c, a, b)
  \/ MsgEnd

Next ==
  \/ \E c \in Clients, h \in Handles : Accept(c, h)
  \/ Net
  \/ Stop

Spec == Init /\ [][Next]_vars

\* The thread runs; the kernel gives back every operation of a closed socket, and
\* wait reports it in one of the turns in which the thread asks.
Fairness ==
  /\ WF_vars(Net)
  /\ \A c \in Clients : SF_vars(handle[c] = None /\ (RecvCompletes(c) \/ SendCompletes(c)))

FairSpec == Spec /\ Fairness

-------------------------------------------------------------------------------
(* Properties                                                              *)

\* As long as the thread runs, the kernel has no operation of a deleted Client:
\* the two flags cover everything that is posted.
OpsHaveOwners ==
  pc # "done" => \A c \in Clients :
    life[c] # "live" => recvAt[c] = None /\ sendLen[c] = None

\* What the kernel works on stays where it was posted: a receive is at the end of
\* the data it continues, since DoMsg pops nothing while one is under way, and a
\* send lies within the data, since its bytes leave the Buffer only through it.
OpsInPlace ==
  pc # "done" => \A c \in Clients :
    /\ recvAt[c] # None => recvAt[c] = recvLast[c]
    /\ sendLen[c] # None => sendLen[c] <= sendLast[c]

\* A receive is marked as posted that the full Buffer refused.
Stuck(c) == c \in postRecv /\ recvAt[c] = None /\ Full(c)

\* The Client's entry was taken over by a connection that got its handle, which
\* CheckTime had closed, before the Client could leave.
Displaced(c) == life[c] = "live" /\ c \notin Entered

\* A closed client leaves and is deleted, unless its receive was refused by a full
\* Buffer, or its entry was taken over, or the thread ended.
ClosedLeaves ==
  \A c \in Clients :
    c \in closed ~> life[c] = "deleted" \/ Stuck(c) \/ Displaced(c) \/ pc = "done"
===============================================================================
