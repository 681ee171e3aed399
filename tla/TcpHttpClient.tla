----------------------------- MODULE TcpHttpClient -----------------------------
(***************************************************************************)
(* The HTTP client: requests wait in _eventQueue, one connection is made   *)
(* to whatever host the next of them names, and the answer that arrives is *)
(* given to _onRespCall, the callback of the request that was sent last.   *)
(* A flag, _b_nextRequest, tells OnRun that it is time for the next one;   *)
(* the front of the queue stays there until its answer is in, and is       *)
(* dropped if its turn comes a second time (maxQusetCount is 1).           *)
(*                                                                         *)
(* One thread: the user calls get between two calls of OnRun or from a     *)
(* callback.  get and post differ in the text they send.  A connection     *)
(* answers in order.  A request always fits the send buffer.               *)
(***************************************************************************)
EXTENDS Integers, Sequences

CONSTANTS
  MaxReq,  \* bound: requests the user makes; they are 1, 2, ... in this order
  Host     \* the host each request names

ASSUME HttpAssumption == MaxReq \in Nat /\ DOMAIN Host = 1 .. MaxReq

Ids == 1 .. MaxReq

\* What a callback is called with when there is no answer.
Null == 0

VARIABLES
  at,         \* between two calls of OnRun, or in the second half of one
  queue,      \* _eventQueue: the request and its qusetCount
  next,       \* _b_nextRequest
  call,       \* the request whose callback _onRespCall is, 0 for none
  conn,       \* _pClient: none, made but not connected, or up
  host0,      \* _host0, the host that was connected last
  inflight,   \* requests on the connection that are not answered
  issued,     \* history: how many requests the user has made
  told,       \* history: what each request's callback was called with
  overlapped, \* history: a request was made while another's callback was set
  failed,     \* history: a host was not found, or an address did not answer
  moved       \* history: a request to another host closed the connection there was

hist == <<issued, told, overlapped, failed, moved>>
vars == <<at, queue, next, call, conn, host0, inflight, hist>>

TypeOK ==
  /\ at \in {"user", "poll"}
  /\ queue \in Seq([id : 1 .. issued, count : 0 .. 1])
  /\ next \in BOOLEAN
  /\ call \in 0 .. issued
  /\ conn \in {"none", "made", "up"} /\ (conn # "up" => inflight = <<>>)
  /\ host0 \in {Null} \cup {Host[r] : r \in Ids}
  /\ inflight \in Seq(1 .. issued)
  /\ issued \in 0 .. MaxReq
  /\ told \in [Ids -> Seq(Ids \cup {Null})]
  /\ {overlapped, failed, moved} \subseteq BOOLEAN

Init ==
  /\ at = "user" /\ queue = <<>> /\ next = FALSE /\ call = 0
  /\ conn = "none" /\ host0 = Null /\ inflight = <<>>
  /\ issued = 0 /\ told = [r \in Ids |-> <<>>]
  /\ overlapped = FALSE /\ failed = FALSE /\ moved = FALSE

\* get pushes the next request; next is raised by the caller of this operator.
Pushed(q) == Append(q, [id |-> issued + 1, count |-> 0])

\* The user's get between two calls of OnRun.
Get ==
  /\ at = "user" /\ issued < MaxReq
  /\ issued' = issued + 1
  /\ queue' = Pushed(queue) /\ next' = TRUE
  /\ overlapped' = (overlapped \/ call # 0)
  /\ UNCHANGED <<at, call, conn, host0, inflight, told, failed, moved>>

\* The callback that is set, if one is, is called with what; it may get one
\* request more.
CallBack(what, more) ==
  /\ more => call # 0 /\ issued < MaxReq
  /\ told' = IF call = 0 THEN told ELSE [told EXCEPT ![call] = Append(@, what)]
  /\ issued' = IF more THEN issued + 1 ELSE issued
  /\ UNCHANGED overlapped

After(more) == IF more THEN Pushed(queue) ELSE queue

-------------------------------------------------------------------------------
(* OnRun, first half: nextRequest, if it is time                           *)

Front == Head(queue)
Counted(q) == [q EXCEPT ![1].count = @ + 1]

\* hostname2ip keeps the connection if it is to the same host.
Reusable == conn = "up" /\ host0 = Host[Front.id]

NotNow ==
  /\ at = "user" /\ ~next /\ at' = "poll"
  /\ UNCHANGED <<queue, next, call, conn, host0, inflight, hist>>

NothingQueued ==
  /\ at = "user" /\ next /\ queue = <<>>
  /\ at' = "poll" /\ next' = FALSE
  /\ UNCHANGED <<queue, call, conn, host0, inflight, hist>>

\* Defect: the request is dropped, but the next one waits for another event.
GiveUp_Waits ==
  /\ at = "user" /\ next /\ queue # <<>> /\ Front.count = 1
  /\ at' = "poll" /\ queue' = Tail(queue) /\ next' = FALSE
  /\ UNCHANGED <<call, conn, host0, inflight, hist>>

\* A second turn of the same request: it is dropped.
GiveUp ==
  /\ at = "user" /\ next /\ queue # <<>> /\ Front.count = 1
  /\ at' = "poll" /\ queue' = Tail(queue) /\ next' = TRUE
  /\ UNCHANGED <<call, conn, host0, inflight, hist>>

\* Defect: a request's turns are counted but not limited.
Turn_Unlimited == at = "user" /\ next /\ queue # <<>> /\ at' = "poll"

Turn == at = "user" /\ next /\ queue # <<>> /\ Front.count = 0 /\ at' = "poll"

SendOn ==
  /\ Turn /\ Reusable
  /\ queue' = Counted(queue) /\ next' = FALSE
  /\ call' = Front.id /\ inflight' = Append(inflight, Front.id)
  /\ UNCHANGED <<conn, host0, hist>>

\* The name is not resolved: nothing is sent and no callback set.
Unresolved ==
  /\ Turn /\ ~Reusable
  /\ queue' = Counted(queue) /\ next' = FALSE
  /\ failed' = TRUE
  /\ UNCHANGED <<call, conn, host0, inflight, issued, told, overlapped, moved>>

\* InitSocket closes the Client there is, which calls the callback that is set
\* and raises the flag; then the addresses are tried: bad says that one did not
\* answer before the last, ok that the last one did.  The request counts as sent
\* in any case.
ConnectAnew(more, bad, ok) ==
  /\ Turn /\ ~Reusable
  /\ (more => conn # "none")
  /\ IF conn = "none" THEN UNCHANGED <<issued, told, overlapped>> ELSE CallBack(Null, more)
  /\ queue' = Counted(After(more))
  /\ next' = (conn # "none" \/ bad)
  /\ call' = Front.id
  /\ conn' = IF ok THEN "up" ELSE "made"
  /\ host0' = IF ok THEN Host[Front.id] ELSE host0
  /\ inflight' = IF ok THEN <<Front.id>> ELSE <<>>
  /\ failed' = (failed \/ bad \/ ~ok)
  /\ moved' = (moved \/ conn # "none")

-------------------------------------------------------------------------------
(* OnRun, second half: the engine's OnRun                                  *)

Quiet ==
  /\ at = "poll" /\ at' = "user"
  /\ UNCHANGED <<queue, next, call, conn, host0, inflight, hist>>

\* OnNetMsg: the callback, which is then cleared, and the front of the queue goes;
\* unless the answer keeps the connection alive, DoMsg closes it afterwards.
Answer(more, keep) ==
  /\ at = "poll" /\ inflight # <<>>
  /\ CallBack(Head(inflight), more)
  /\ call' = 0
  /\ queue' = IF After(more) = <<>> THEN <<>> ELSE Tail(After(more))
  /\ next' = TRUE
  /\ IF keep THEN conn' = conn /\ inflight' = Tail(inflight) /\ at' \in {"poll", "user"}
             ELSE conn' = "none" /\ inflight' = <<>> /\ at' = "user"
  /\ UNCHANGED <<host0, failed, moved>>

\* The connection breaks: Close, and OnDisconnect calls the callback with nullptr.
Disconnect(more) ==
  /\ at = "poll" /\ conn = "up" /\ at' = "user"
  /\ conn' = "none" /\ inflight' = <<>>
  /\ CallBack(Null, more)
  /\ call' = 0
  /\ queue' = After(more) /\ next' = TRUE
  /\ UNCHANGED <<host0, failed, moved>>

-------------------------------------------------------------------------------
NextRequest ==
  \/ NotNow \/ NothingQueued \/ GiveUp \/ SendOn \/ Unresolved
  \/ \E more, bad, ok \in BOOLEAN : ConnectAnew(more, bad, ok)

Peer == \E more, keep \in BOOLEAN : Answer(more, keep) \/ Disconnect(more)

Next == Get \/ NextRequest \/ Quiet \/ Peer

Spec == Init /\ [][Next]_vars

\* OnRun is called over and over; a request that was sent is answered in the end,
\* or its connection breaks.
Fairness ==
  /\ WF_vars(NextRequest \/ Quiet)
  /\ SF_vars(inflight # <<>> /\ Peer)

FairSpec == Spec /\ Fairness

-------------------------------------------------------------------------------
(* Properties                                                              *)

\* A request's callback is called once, with its own answer or with nullptr.
Ends(r) == told[r] \in {<<r>>, <<Null>>}

\* No callback is called twice or with the answer to another request, as long as
\* every connection succeeds, no request is made while a callback is set, and none
\* asks for another host while the connection to the last one is up.
CalledBackOnce == overlapped \/ failed \/ moved \/ \A r \in Ids : told[r] = <<>> \/ Ends(r)

\* Each request ends with its own answer or nullptr, also one made from a callback,
\* with the same exceptions.
RequestEnds == \A r \in Ids : r <= issued ~> Ends(r) \/ overlapped \/ failed \/ moved
===============================================================================
