--------------------------------- MODULE Routing ---------------------------------
(***************************************************************************)
(* A client's request on its way through the INet nodes: the LinkServer    *)
(* gives it a message id of its own and keeps a callback for it in         *)
(* _map_request_call, the Gate hands it to one of the servers registered   *)
(* for the command (INetTransfer, in turn), the server's answer goes back  *)
(* by the link id packed into the ClientId, and the Link runs the callback *)
(* once: with an answer, an error of the Gate or a timeout.                *)
(*                                                                         *)
(* The Link writes through TcpWebSocketClient::_pWSClient, a pointer that  *)
(* no code ever resets: it may stand for a Client whose connect failed,    *)
(* which buffers what it is given, and for one that has been deleted.      *)
(* Writing to the latter is undefined behaviour: here it succeeds or       *)
(* fails, and sends nothing; that the program ends is left out.            *)
(*                                                                         *)
(* The callback writes to whichever client has the asker's descriptor by   *)
(* then, if any; clients are left out.  The Link's own callbacks make no   *)
(* request, those UserClient gives to its INetClient do: CallBack allows   *)
(* one.  A command is registered by all Servers alike, so one Listeners    *)
(* object is modelled.  Messages nobody answers and no callback waits for  *)
(* (heartbeats, broadcasts) are left out.  A server's answer and its way   *)
(* to the Gate are one step with the Gate's forwarding.  Messages of a     *)
(* broken connection are lost.                                             *)
(***************************************************************************)
EXTENDS Naturals, Sequences, FiniteSets, SequencesExt

CONSTANTS
  Links,    \* descriptors the Link's connection may have at the Gate
  Servers,  \* descriptors of the servers' connections at the Gate
  MaxReq,   \* bound: requests the Link numbers
  MaxQ      \* messages that fit a send buffer

ASSUME RoutingAssumption ==
  /\ 0 \notin Links /\ IsFiniteSet(Servers)
  /\ MaxReq \in Nat /\ MaxQ \in Nat \ {0}

VARIABLES
  msgId,      \* INetClient::_msgId of the Link
  pending,    \* _map_request_call: the ids with a callback
  wsClient,   \* what _pWSClient stands for: see ClientStates
  link,       \* descriptor of the Link's connection at the Gate, 0 for none
  ssLink,     \* is_ss_link of that connection, at the Gate
  toGate,     \* requests in the Link's send buffer and on their way to the Gate
  toLink,     \* ids of the requests whose answers are on their way to the Link
  connected,  \* servers connected to the Gate
  listeners,  \* Listeners::_listeners
  index,      \* Listeners::index
  atServer,   \* requests each server has to answer
  accepted,   \* history: requests that the Link recorded
  ends        \* history: how often the callback of each request was called

linkVars == <<msgId, pending, accepted, ends>>
connVars == <<wsClient, link, ssLink>>
gateVars == <<connected, listeners, index, atServer>>
vars == <<linkVars, connVars, toGate, toLink, gateVars>>

Ids == 1 .. MaxReq

\* The Link registers at the Gate; all other commands are the servers' business.
Frames == [id : Ids, cmd : {"ss_reg_server", "other"}]

\* No Client yet; one whose connect failed; one in clientState_join, waiting for
\* the handshake; one in clientState_run; one that has been deleted.
ClientStates == {"null", "offline", "join", "run", "freed"}

Registered == ToSet(listeners)

TypeOK ==
  /\ msgId \in 0 .. MaxReq
  /\ pending \subseteq Ids
  /\ wsClient \in ClientStates
  /\ link \in {0} \cup Links /\ ssLink \in BOOLEAN
  /\ toGate \in Seq(Frames) /\ Len(toGate) <= MaxQ
  /\ toLink \in Seq(Ids) /\ Len(toLink) <= MaxQ
  /\ connected \subseteq Servers
  /\ listeners \in Seq(Servers)
  /\ index \in 0 .. Cardinality(Servers)
  /\ atServer \in [Servers -> Seq([id : Ids, link : Links])]
  /\ accepted \subseteq 1 .. msgId
  /\ ends \in [Ids -> Nat]

Init ==
  /\ msgId = 0 /\ pending = {}
  /\ wsClient = "null" /\ link = 0 /\ ssLink = FALSE
  /\ toGate = <<>> /\ toLink = <<>>
  /\ connected = {} /\ listeners = <<>> /\ index = 0
  /\ atServer = [s \in Servers |-> <<>>]
  /\ accepted = {} /\ ends = [n \in Ids |-> 0]

-------------------------------------------------------------------------------
(* The Link                                                                *)

\* writeText, with its result: a Client buffers what fits, connected or not.
WriteText(frame, sent) ==
  \/ /\ wsClient \in {"offline", "join", "run"}
     /\ sent = (Len(toGate) < MaxQ)
     /\ toGate' = IF sent THEN Append(toGate, frame) ELSE toGate
  \/ wsClient = "null" /\ ~sent /\ UNCHANGED toGate
  \/ wsClient = "freed" /\ UNCHANGED toGate

\* Defect: the result of the send is not looked at.
Request_Unchecked(cmd, erased) ==
  /\ msgId < MaxReq
  /\ msgId' = msgId + 1
  /\ toGate' = Append(toGate, [id |-> msgId', cmd |-> cmd])
  /\ pending' = (pending \ erased) \cup {msgId'}
  /\ accepted' = accepted \cup {msgId'}

\* request: the id is used up in any case; only what was written is recorded.
\* erased: the requests whose callbacks are removed in the same step.
Request(cmd, erased) ==
  /\ msgId < MaxReq
  /\ msgId' = msgId + 1
  /\ \E sent \in BOOLEAN :
       LET new == IF sent THEN {msgId'} ELSE {} IN
         /\ WriteText([id |-> msgId', cmd |-> cmd], sent)
         /\ pending' = (pending \ erased) \cup new
         /\ accepted' = accepted \cup new

\* on_other_msg: a client's request.
Ask ==
  /\ Request("other", {})
  /\ UNCHANGED <<connVars, toLink, gateVars, ends>>

\* The callbacks of N run, with an answer or a timeout, and are erased after it; a
\* callback may make a request before its own entry is gone.
CallBack(N) ==
  /\ ends' = [n \in Ids |-> IF n \in N THEN ends[n] + 1 ELSE ends[n]]
  /\ \/ pending' = pending \ N /\ UNCHANGED <<msgId, accepted, toGate>>
     \/ N # {} /\ Request("other", N)

\* Defect: a request that has timed out stays in the map.
Expire_Kept(n) ==
  /\ link # 0 /\ n \in pending
  /\ ends' = [ends EXCEPT ![n] = @ + 1]
  /\ UNCHANGED <<msgId, pending, accepted, connVars, toGate, toLink, gateVars>>

\* check_timeout, called only while isRun: one step for each request that is due.
Expire(n) ==
  /\ link # 0 /\ n \in pending
  /\ CallBack({n})
  /\ UNCHANGED <<connVars, toLink, gateVars>>

\* An answer arrives; one that nobody waits for any more is dropped.
Answered ==
  /\ wsClient = "run" /\ toLink # <<>>
  /\ CallBack({Head(toLink)} \cap pending)
  /\ toLink' = Tail(toLink)
  /\ UNCHANGED <<connVars, gateVars>>

\* run() while there is no connection: InitSocket deletes the Client there is, with
\* what it has buffered, and makes another, which connects ...
Connect(l) ==
  /\ link = 0 /\ link' = l
  /\ wsClient' = "join"
  /\ toGate' = <<>>
  /\ UNCHANGED <<linkVars, ssLink, toLink, gateVars>>

\* ... or not; when socket() fails, there is not even another.
ConnectFails ==
  /\ link = 0
  /\ wsClient' \in {"offline", IF wsClient = "null" THEN "null" ELSE "freed"}
  /\ toGate' = <<>>
  /\ UNCHANGED <<linkVars, link, ssLink, toLink, gateVars>>

\* The handshake is done: onopen registers the Link at the Gate.
Open ==
  /\ wsClient = "join" /\ wsClient' = "run"
  /\ Request("ss_reg_server", {})
  /\ UNCHANGED <<link, ssLink, toLink, gateVars, ends>>

\* Defect: what waits for an answer is forgotten with the connection.
Break_Forgets ==
  /\ link # 0 /\ link' = 0
  /\ wsClient' = "freed" /\ ssLink' = FALSE
  /\ toGate' = <<>> /\ toLink' = <<>> /\ pending' = {}
  /\ UNCHANGED <<msgId, accepted, ends, gateVars>>

\* The connection breaks and its Client is deleted; what is pending stays so until
\* the Link is back.
Break ==
  /\ link # 0 /\ link' = 0
  /\ wsClient' = "freed" /\ ssLink' = FALSE
  /\ toGate' = <<>> /\ toLink' = <<>>
  /\ UNCHANGED <<linkVars, gateVars>>

-------------------------------------------------------------------------------
(* The Gate and the servers                                                *)

ServerConnects(s) ==
  /\ s \notin connected /\ connected' = connected \cup {s}
  /\ UNCHANGED <<linkVars, connVars, toGate, toLink, listeners, index, atServer>>

\* ss_reg_server: the server becomes a listener, at most once.
Register(s) ==
  /\ s \in connected \ Registered
  /\ listeners' = Append(listeners, s)
  /\ UNCHANGED <<linkVars, connVars, toGate, toLink, connected, index, atServer>>

\* Defect: a server that leaves stays a listener.
ServerLeaves_Listed(s) ==
  /\ s \in connected /\ connected' = connected \ {s}
  /\ atServer' = [atServer EXCEPT ![s] = <<>>]
  /\ UNCHANGED <<linkVars, connVars, toGate, toLink, listeners, index>>

\* Listeners::del: the first place of the server is erased; index is left as it is.
Delete(s) ==
  IF s \in Registered
    THEN \E i \in DOMAIN listeners :
           /\ listeners[i] = s /\ \A j \in 1 .. i - 1 : listeners[j] # s
           /\ listeners' = RemoveAt(listeners, i)
    ELSE UNCHANGED listeners

\* on_client_leave: a server with what it had to answer, and its place.
ServerLeaves(s) ==
  /\ s \in connected /\ connected' = connected \ {s}
  /\ Delete(s)
  /\ atServer' = [atServer EXCEPT ![s] = <<>>]
  /\ UNCHANGED <<linkVars, connVars, toGate, toLink, index>>

\* Listeners::get: the position that has its turn, from 0; a single listener is
\* taken without looking at the index.
Turn == IF Len(listeners) = 1 \/ index >= Len(listeners) THEN 0 ELSE index

\* writeText to the Link: dropped when it does not fit.
SendToLink(n) == toLink' = IF Len(toLink) < MaxQ THEN Append(toLink, n) ELSE toLink

\* The Gate takes the next frame of the Link with command cmd.
Receive(cmd) ==
  /\ link # 0 /\ toGate # <<>> /\ Head(toGate).cmd = cmd
  /\ toGate' = Tail(toGate)

\* ss_reg_server of the Link itself, a server link from now on; the commands it
\* offers have Listeners of their own.
GateRegisters ==
  /\ Receive("ss_reg_server")
  /\ ssLink' = TRUE
  /\ SendToLink(Head(toGate).id)
  /\ UNCHANGED <<linkVars, wsClient, link, gateVars>>

\* OnNetMsgWS: a command that is not the Gate's own is passed on for links that have
\* registered only; it gets no answer otherwise.
GateDrops ==
  /\ Receive("other") /\ ~ssLink
  /\ UNCHANGED <<linkVars, connVars, toLink, gateVars>>

\* on_other_msg: the request goes to the listener whose turn it is.
Forward ==
  /\ Receive("other") /\ ssLink /\ listeners # <<>>
  /\ LET s == listeners[Turn + 1] IN
       /\ Len(atServer[s]) < MaxQ
       /\ atServer' = [atServer EXCEPT ![s] = Append(@, [id |-> Head(toGate).id, link |-> link])]
  /\ index' = IF Len(listeners) = 1 THEN index ELSE Turn + 1
  /\ UNCHANGED <<linkVars, connVars, toLink, connected, listeners>>

\* server busy: its send buffer is full; it has had its turn all the same.
ServerBusy ==
  /\ Receive("other") /\ ssLink /\ listeners # <<>>
  /\ Len(atServer[listeners[Turn + 1]]) = MaxQ
  /\ index' = IF Len(listeners) = 1 THEN index ELSE Turn + 1
  /\ SendToLink(Head(toGate).id)
  /\ UNCHANGED <<linkVars, connVars, connected, listeners, atServer>>

\* undefine cmd or server offline: there is no listener.
ServerOff ==
  /\ Receive("other") /\ ssLink /\ listeners = <<>>
  /\ SendToLink(Head(toGate).id)
  /\ UNCHANGED <<linkVars, connVars, gateVars>>

\* The server answers; the Gate finds the Link by the link id in the ClientId, if
\* it still has that descriptor.  An answer to an earlier connection that comes
\* before the handshake of this one is not understood.
ServerAnswers(s) ==
  /\ s \in connected /\ atServer[s] # <<>>
  /\ LET m == Head(atServer[s]) IN
       \/ m.link = link /\ SendToLink(m.id)
       \/ (m.link # link \/ wsClient = "join") /\ UNCHANGED toLink
  /\ atServer' = [atServer EXCEPT ![s] = Tail(@)]
  /\ UNCHANGED <<linkVars, connVars, toGate, connected, listeners, index>>

-------------------------------------------------------------------------------
LinkNext ==
  \/ Ask \/ Answered \/ \E n \in Ids : Expire(n)
  \/ Open \/ Break \/ ConnectFails \/ \E l \in Links : Connect(l)

GateNext ==
  \/ \E s \in Servers : ServerConnects(s) \/ Register(s) \/ ServerLeaves(s) \/ ServerAnswers(s)
  \/ GateRegisters \/ GateDrops \/ Forward \/ ServerBusy \/ ServerOff

Next == LinkNext \/ GateNext

Spec == Init /\ [][Next]_vars

\* run() tries to connect for as long as it is not, to a Gate that is there in the
\* end, and whenever it is it first looks for requests that are due, as every
\* request is after _timeout_dt.
Fairness ==
  /\ WF_vars(\E l \in Links : Connect(l))
  /\ \A n \in Ids : SF_vars(Expire(n))

FairSpec == Spec /\ Fairness

-------------------------------------------------------------------------------
(* Properties                                                              *)

\* A request is over once: whichever of its answer, an error of the Gate and the
\* timeout comes second finds nothing to call back.
EndsOnce == \A n \in Ids : ends[n] <= 1 /\ (n \in pending => ends[n] = 0)

\* The Gate keeps listeners by pointer: each is a server that is connected, and
\* it is listed once, so that none is used after its connection object is gone.
ListenersLive ==
  /\ Registered \subseteq connected
  /\ IsInjective(listeners)

\* Every request that the Link recorded is over at some time, whatever breaks: also
\* one that went into a Client without a connection, or into a deleted one.
EveryRequestEnds == \A n \in Ids : n \in accepted ~> ends[n] = 1
===============================================================================
