----------------------------- MODULE Routing_proofs -----------------------------
(***************************************************************************)
(* Proof about Routing, for any numbers of links, servers and requests and *)
(* any size of buffer: a request ends at most once, the types, and that    *)
(* the Gate's listeners are servers that are connected, each listed once.  *)
(***************************************************************************)
EXTENDS Routing, SequenceTheorems, FiniteSetTheorems, TLAPS

(***************************************************************************)
(* The inductive invariant: a message id is new when it is given out, so   *)
(* a request that is not numbered yet is neither pending nor over.         *)
(***************************************************************************)
NumberedOnly ==
  /\ msgId \in 0 .. MaxReq
  /\ pending \subseteq 1 .. msgId
  /\ ends \in [Ids -> Nat]
  /\ \A n \in Ids : n > msgId => ends[n] = 0

RequestInv == NumberedOnly /\ EndsOnce

\* A request takes the next id and is recorded or not.
LEMMA Requested ==
  ASSUME RequestInv, NEW cmd, NEW N, Request(cmd, N)
  PROVE  /\ msgId \in Nat /\ msgId' = msgId + 1 /\ msgId' \in 0 .. MaxReq /\ msgId' \in Ids
         /\ pending' = pending \ N \/ pending' = (pending \ N) \cup {msgId'}
         /\ pending' \subseteq 1 .. msgId'
<1>1. /\ msgId \in Nat /\ pending \subseteq 1 .. msgId
      /\ msgId' = msgId + 1 /\ msgId' \in 0 .. MaxReq /\ msgId' \in Ids
  BY RoutingAssumption DEF Request, RequestInv, NumberedOnly, Ids
<1>2. pending' = pending \ N \/ pending' = (pending \ N) \cup {msgId'}
  BY DEF Request
<1>3. 1 .. msgId \subseteq 1 .. msgId' /\ msgId' \in 1 .. msgId'
  BY <1>1
<1> QED BY <1>1, <1>2, <1>3

\* Calling back requests that are pending, and only once, ends them at most once; a
\* request that the callback makes has a new id.
LEMMA CalledBackOnce ==
  ASSUME RequestInv, NEW N, N \subseteq pending, CallBack(N)
  PROVE  RequestInv'
<1> USE RoutingAssumption DEF RequestInv, NumberedOnly, Ids
<1>1. \A n \in Ids : ends'[n] = IF n \in N THEN ends[n] + 1 ELSE ends[n]
  BY DEF CallBack
<1>2. ends' \in [Ids -> Nat]
  BY DEF CallBack
<1>3. \A n \in Ids : n > msgId => n \notin N
  OBVIOUS
<1>4. /\ msgId \in Nat /\ msgId' \in 0 .. MaxReq /\ msgId' >= msgId
      /\ pending' \subseteq 1 .. msgId'
      /\ \A n \in pending' : n \in pending \ N \/ n > msgId
  <2>1. CASE pending' = pending \ N /\ msgId' = msgId
    BY <2>1
  <2>2. CASE Request("other", N)
    BY <2>2, Requested
  <2> QED BY <2>1, <2>2 DEF CallBack
<1>5. NumberedOnly'
  <2>1. \A n \in Ids : n > msgId' => ends'[n] = 0
    BY <1>1, <1>3, <1>4
  <2> QED BY <1>2, <1>4, <2>1
<1>6. EndsOnce'
  <2>1. \A n \in Ids : ends'[n] <= 1
    BY <1>1 DEF EndsOnce
  <2>2. \A n \in Ids : n \in pending' => ends'[n] = 0
    BY <1>1, <1>3, <1>4 DEF EndsOnce
  <2> QED BY <2>1, <2>2 DEF EndsOnce
<1> QED BY <1>5, <1>6

\* The invariant reads the Link's own state and nothing of the connection or the Gate.
LEMMA RequestInvariant == Spec => []RequestInv
<1> USE RoutingAssumption
<1>1. Init => RequestInv
  BY DEF Init, RequestInv, NumberedOnly, EndsOnce, Ids
<1>2. RequestInv /\ [Next]_vars => RequestInv'
  <2> SUFFICES ASSUME RequestInv, [Next]_vars PROVE RequestInv'
    OBVIOUS
  <2>1. ASSUME NEW cmd, Request(cmd, {}), ends' = ends PROVE RequestInv'
    <3>1. /\ msgId \in Nat /\ msgId' = msgId + 1 /\ msgId' \in 0 .. MaxReq /\ msgId' \in Ids
          /\ pending' = pending \/ pending' = pending \cup {msgId'}
          /\ pending' \subseteq 1 .. msgId'
      BY <2>1, Requested
    <3>2. NumberedOnly'
      <4>1. \A n \in Ids : n > msgId' => ends'[n] = 0
        BY <2>1, <3>1 DEF RequestInv, NumberedOnly, Ids
      <4> QED BY <2>1, <3>1, <4>1 DEF RequestInv, NumberedOnly
    <3>3. EndsOnce'
      BY <2>1, <3>1 DEF RequestInv, NumberedOnly, EndsOnce, Ids
    <3> QED BY <3>2, <3>3 DEF RequestInv
  <2>2. CASE Ask
    BY <2>1, <2>2 DEF Ask
  <2>3. CASE Open
    BY <2>1, <2>3 DEF Open
  <2>4. ASSUME NEW n \in Ids, Expire(n) PROVE RequestInv'
    BY <2>4, CalledBackOnce DEF Expire
  <2>5. CASE Answered
    <3>1. PICK N : N = {Head(toLink)} \cap pending
      OBVIOUS
    <3>2. N \subseteq pending /\ CallBack(N)
      BY <2>5, <3>1 DEF Answered
    <3> QED BY <3>2, CalledBackOnce
  <2>6. ASSUME UNCHANGED linkVars PROVE RequestInv'
    BY <2>6 DEF linkVars, RequestInv, NumberedOnly, EndsOnce
  <2>7. CASE Break \/ ConnectFails \/ \E l \in Links : Connect(l)
    BY <2>6, <2>7 DEF Break, ConnectFails, Connect
  <2>8. CASE GateNext
    BY <2>6, <2>8 DEF GateNext, ServerConnects, Register, ServerLeaves, ServerAnswers,
                      GateRegisters, GateDrops, Forward, ServerBusy, ServerOff
  <2>9. CASE UNCHANGED vars
    BY <2>6, <2>9 DEF vars
  <2> QED BY <2>2, <2>3, <2>4, <2>5, <2>7, <2>8, <2>9 DEF Next, LinkNext
<1> QED BY <1>1, <1>2, PTL DEF Spec

\* A request is over once, whichever of its answer, an error of the Gate and the
\* timeout comes first, however the connections break in between, whatever the
\* request was written into, and although callbacks make requests themselves.
THEOREM RequestsEndOnce == Spec => []EndsOnce
<1>1. RequestInv => EndsOnce
  BY DEF RequestInv
<1> QED BY <1>1, RequestInvariant, PTL

-------------------------------------------------------------------------------
(* The Gate's listeners                                                    *)

\* erase moves what stands behind the place one place forward.
LEMMA Removed ==
  ASSUME NEW S, NEW q \in Seq(S), NEW i \in 1 .. Len(q)
  PROVE  /\ RemoveAt(q, i) \in Seq(S)
         /\ Len(q) \in Nat /\ Len(RemoveAt(q, i)) = Len(q) - 1
         /\ \A k \in 1 .. Len(q) - 1 : RemoveAt(q, i)[k] = IF k < i THEN q[k] ELSE q[k + 1]
<1> DEFINE front == SubSeq(q, 1, i - 1)
           back == SubSeq(q, i + 1, Len(q))
<1>1. Len(q) \in Nat /\ \A k \in 1 .. Len(q) : q[k] \in S
  OBVIOUS
<1>2. /\ front \in Seq(S) /\ Len(front) = i - 1
      /\ \A k \in 1 .. i - 1 : front[k] = q[k]
  <2>1. 1 \in Int /\ i - 1 \in Int /\ \A k \in 1 .. i - 1 : q[k] \in S
    BY <1>1
  <2>2. /\ front \in Seq(S) /\ Len(front) = IF 1 <= i - 1 THEN (i - 1) - 1 + 1 ELSE 0
        /\ \A k \in 1 .. (i - 1) - 1 + 1 : front[k] = q[1 + k - 1]
    BY <2>1, SubSeqProperties
  <2> HIDE DEF front
  <2> QED BY <1>1, <2>2
<1>3. /\ back \in Seq(S) /\ Len(back) = Len(q) - i
      /\ \A k \in 1 .. Len(q) - i : back[k] = q[i + k]
  <2>1. i + 1 \in Int /\ Len(q) \in Int /\ \A k \in i + 1 .. Len(q) : q[k] \in S
    BY <1>1
  <2>2. /\ back \in Seq(S) /\ Len(back) = IF i + 1 <= Len(q) THEN Len(q) - (i + 1) + 1 ELSE 0
        /\ \A k \in 1 .. Len(q) - (i + 1) + 1 : back[k] = q[(i + 1) + k - 1]
    BY <2>1, SubSeqProperties
  <2> HIDE DEF back
  <2> QED BY <1>1, <2>2
<1>4. RemoveAt(q, i) = front \o back
  BY DEF RemoveAt
<1> HIDE DEF front, back
<1>5. /\ front \o back \in Seq(S) /\ Len(front \o back) = Len(front) + Len(back)
      /\ \A k \in 1 .. Len(front) + Len(back) :
           (front \o back)[k] = IF k <= Len(front) THEN front[k] ELSE back[k - Len(front)]
  BY <1>2, <1>3, ConcatProperties
<1>6. PICK r : r = front \o back
  OBVIOUS
<1>7. ASSUME NEW k \in 1 .. Len(q) - 1 PROVE r[k] = IF k < i THEN q[k] ELSE q[k + 1]
  <2>1. r[k] = IF k <= i - 1 THEN front[k] ELSE back[k - (i - 1)]
    BY <1>1, <1>2, <1>3, <1>5, <1>6
  <2>2. CASE k < i
    BY <1>1, <1>2, <2>1, <2>2
  <2>3. CASE k >= i
    <3>1. PICK m : m = k - (i - 1)
      OBVIOUS
    <3>2. m \in 1 .. Len(q) - i /\ i + m = k + 1
      BY <1>1, <2>3, <3>1
    <3>3. back[m] = q[k + 1]
      BY <1>3, <3>2
    <3>4. ~(k <= i - 1) /\ ~(k < i)
      BY <1>1, <2>3
    <3> QED BY <2>1, <3>1, <3>3, <3>4
  <2> QED BY <1>1, <2>2, <2>3
<1>8. Len(r) = Len(q) - 1
  <2>1. Len(r) = Len(front) + Len(back)
    BY <1>5, <1>6, Zenon
  <2>2. Len(front) = i - 1 /\ Len(back) = Len(q) - i /\ i \in Int
    BY <1>2, <1>3
  <2> QED BY <1>1, <2>1, <2>2
<1> QED BY <1>1, <1>4, <1>5, <1>6, <1>7, <1>8

\* A server that is listed once is not listed any more, the others are as before.
LEMMA Deleted ==
  ASSUME listeners \in Seq(Servers), IsInjective(listeners), NEW s, Delete(s)
  PROVE  /\ listeners' \in Seq(Servers) /\ IsInjective(listeners')
         /\ ToSet(listeners') \subseteq ToSet(listeners) \ {s}
<1>1. CASE s \notin Registered
  BY <1>1 DEF Delete, Registered
<1>2. CASE s \in Registered
  <2>1. DOMAIN listeners = 1 .. Len(listeners) /\ Len(listeners) \in Nat
    OBVIOUS
  <2>2. PICK i \in 1 .. Len(listeners) : listeners[i] = s /\ listeners' = RemoveAt(listeners, i)
    BY <1>2, <2>1 DEF Delete
  <2>3. /\ listeners' \in Seq(Servers) /\ Len(listeners') = Len(listeners) - 1
        /\ DOMAIN listeners' = 1 .. Len(listeners) - 1
        /\ \A k \in 1 .. Len(listeners) - 1 :
             listeners'[k] = IF k < i THEN listeners[k] ELSE listeners[k + 1]
    <3>1. PICK r : r = RemoveAt(listeners, i)
      OBVIOUS
    <3>2. /\ r \in Seq(Servers) /\ Len(r) = Len(listeners) - 1
          /\ \A k \in 1 .. Len(listeners) - 1 : r[k] = IF k < i THEN listeners[k] ELSE listeners[k + 1]
      BY <2>1, <3>1, Removed, Zenon
    <3>3. DOMAIN r = 1 .. Len(r)
      BY <3>2
    <3>4. listeners' = r
      BY <2>2, <3>1
    <3> QED BY <3>2, <3>3, <3>4, Zenon
  <2>4. \A k, m \in 1 .. Len(listeners) : listeners[k] = listeners[m] => k = m
    BY <2>1 DEF IsInjective
  <2>5. ASSUME NEW k \in 1 .. Len(listeners) - 1, NEW m \in 1 .. Len(listeners) - 1,
               listeners'[k] = listeners'[m]
        PROVE  k = m
    BY <2>1, <2>3, <2>4, <2>5
  <2>6. IsInjective(listeners')
    BY <2>3, <2>5 DEF IsInjective
  <2>7. ASSUME NEW k \in 1 .. Len(listeners) - 1
        PROVE  listeners'[k] \in ToSet(listeners) \ {s}
    <3>1. PICK m \in 1 .. Len(listeners) : m # i /\ listeners'[k] = listeners[m]
      <4>1. CASE k < i
        BY <2>1, <2>3, <4>1
      <4>2. CASE k >= i
        BY <2>1, <2>3, <4>2
      <4> QED BY <2>1, <4>1, <4>2
    <3> QED BY <2>1, <2>2, <2>4, <3>1 DEF ToSet
  <2> QED BY <2>3, <2>6, <2>7 DEF ToSet
<1> QED BY <1>1, <1>2

\* Servers that are listed once are no more than there are.
LEMMA ListenersFit ==
  ASSUME listeners \in Seq(Servers), IsInjective(listeners)
  PROVE  Len(listeners) \in Nat /\ Len(listeners) <= Cardinality(Servers)
<1>1. listeners \in [1 .. Len(listeners) -> Servers] /\ Len(listeners) \in Nat
  OBVIOUS
<1>2. listeners \in Injection(1 .. Len(listeners), Servers)
  BY <1>1 DEF Injection
<1>3. Cardinality(1 .. Len(listeners)) <= Cardinality(Servers)
  BY <1>2, RoutingAssumption, FS_Injection
<1>4. Cardinality(1 .. Len(listeners)) = Len(listeners)
  <2>1. PICK n \in Nat : n = Len(listeners)
    BY <1>1
  <2>2. Cardinality(1 .. n) = IF 1 > n THEN 0 ELSE n - 1 + 1
    BY FS_Interval
  <2>3. Cardinality(1 .. n) = n
    BY <2>2
  <2> QED BY <2>1, <2>3, ZenonT(30)
<1> QED BY <1>1, <1>3, <1>4

-------------------------------------------------------------------------------
(* The types and the listeners                                             *)

\* The inductive invariant.
NodeInv == TypeOK /\ ListenersLive

\* The shares of TypeOK.
RequestTypes ==
  /\ msgId \in 0 .. MaxReq /\ pending \subseteq Ids
  /\ accepted \subseteq 1 .. msgId /\ ends \in [Ids -> Nat]

WayTypes ==
  /\ wsClient \in ClientStates
  /\ link \in {0} \cup Links /\ ssLink \in BOOLEAN
  /\ toGate \in Seq(Frames) /\ Len(toGate) <= MaxQ
  /\ toLink \in Seq(Ids) /\ Len(toLink) <= MaxQ

GateTypes ==
  /\ connected \subseteq Servers
  /\ listeners \in Seq(Servers)
  /\ index \in 0 .. Cardinality(Servers)
  /\ atServer \in [Servers -> Seq([id : Ids, link : Links])]
  /\ ListenersLive

LEMMA NodeParts == NodeInv <=> RequestTypes /\ WayTypes /\ GateTypes
BY DEF NodeInv, TypeOK, RequestTypes, WayTypes, GateTypes

LEMMA Taken ==
  ASSUME NEW S, NEW q \in Seq(S), q # <<>>, NEW n \in Nat, Len(q) <= n
  PROVE  Head(q) \in S /\ Tail(q) \in Seq(S) /\ Len(Tail(q)) <= n
BY HeadTailProperties

LEMMA Added ==
  ASSUME NEW S, NEW q \in Seq(S), NEW x \in S, NEW n \in Nat, Len(q) < n
  PROVE  Append(q, x) \in Seq(S) /\ Len(Append(q, x)) <= n
OBVIOUS

\* A request that is written fits the buffer, in whatever state its Client is.
LEMMA RequestTyped ==
  ASSUME RequestTypes, WayTypes, NEW cmd \in {"ss_reg_server", "other"}, NEW N, Request(cmd, N)
  PROVE  /\ msgId' \in 0 .. MaxReq /\ pending' \subseteq Ids /\ accepted' \subseteq 1 .. msgId'
         /\ toGate' \in Seq(Frames) /\ Len(toGate') <= MaxQ
<1> USE RoutingAssumption
<1>1. PICK sent \in BOOLEAN :
        LET new == IF sent THEN {msgId'} ELSE {} IN
          /\ WriteText([id |-> msgId', cmd |-> cmd], sent)
          /\ pending' = (pending \ N) \cup new
          /\ accepted' = accepted \cup new
  BY DEF Request
<1>2. /\ msgId' = msgId + 1 /\ msgId' \in 0 .. MaxReq /\ msgId' \in Ids
      /\ msgId \in Nat /\ 1 .. msgId \subseteq 1 .. msgId' /\ msgId' \in 1 .. msgId'
  BY DEF Request, RequestTypes, Ids
<1>3. pending' \subseteq Ids /\ accepted' \subseteq 1 .. msgId'
  BY <1>1, <1>2 DEF RequestTypes
<1>4. PICK frame : frame = [id |-> msgId', cmd |-> cmd]
  OBVIOUS
<1>5. frame \in Frames
  BY <1>2, <1>4 DEF Frames
<1>6. toGate' = toGate \/ (Len(toGate) < MaxQ /\ toGate' = Append(toGate, frame))
  BY <1>1, <1>4 DEF WriteText
<1>7. toGate' \in Seq(Frames) /\ Len(toGate') <= MaxQ
  <2>1. toGate \in Seq(Frames) /\ Len(toGate) <= MaxQ /\ MaxQ \in Nat
    BY DEF WayTypes
  <2>2. CASE Len(toGate) < MaxQ /\ toGate' = Append(toGate, frame)
    BY <1>5, <2>1, <2>2, Added
  <2> QED BY <1>6, <2>1, <2>2
<1> QED BY <1>2, <1>3, <1>7

LEMMA CallBackTyped ==
  ASSUME RequestTypes, WayTypes, NEW N, CallBack(N)
  PROVE  RequestTypes' /\ toGate' \in Seq(Frames) /\ Len(toGate') <= MaxQ
<1>1. ends' \in [Ids -> Nat]
  BY DEF CallBack, RequestTypes
<1>2. CASE pending' = pending \ N /\ UNCHANGED <<msgId, accepted, toGate>>
  BY <1>1, <1>2 DEF RequestTypes, WayTypes
<1>3. CASE Request("other", N)
  BY <1>1, <1>3, RequestTyped DEF RequestTypes
<1> QED BY <1>2, <1>3 DEF CallBack

LEMMA LinkTyped ==
  ASSUME RequestTypes, WayTypes, LinkNext
  PROVE  RequestTypes' /\ WayTypes' /\ UNCHANGED gateVars
<1> USE RoutingAssumption
<1>1. <<>> \in Seq(Frames) /\ <<>> \in Seq(Ids) /\ Len(<<>>) <= MaxQ
  OBVIOUS
<1>2. CASE Ask
  BY <1>2, RequestTyped DEF Ask, connVars, RequestTypes, WayTypes
<1>3. CASE Open
  BY <1>3, RequestTyped DEF Open, ClientStates, RequestTypes, WayTypes
<1>4. ASSUME NEW n \in Ids, Expire(n) PROVE RequestTypes' /\ WayTypes' /\ UNCHANGED gateVars
  BY <1>4, CallBackTyped DEF Expire, connVars, WayTypes
<1>5. CASE Answered
  <2>1. PICK N : N = {Head(toLink)} \cap pending
    OBVIOUS
  <2>2. /\ toLink # <<>> /\ toLink' = Tail(toLink) /\ CallBack(N)
        /\ UNCHANGED <<connVars, gateVars>>
    BY <1>5, <2>1 DEF Answered
  <2>3. toLink' \in Seq(Ids) /\ Len(toLink') <= MaxQ
    BY <2>2, Taken DEF WayTypes
  <2> QED BY <2>2, <2>3, CallBackTyped DEF connVars, WayTypes
<1>6. CASE ConnectFails \/ \E l \in Links : Connect(l)
  BY <1>1, <1>6 DEF ConnectFails, Connect, linkVars, ClientStates, RequestTypes, WayTypes
<1>7. CASE Break
  BY <1>1, <1>7 DEF Break, linkVars, ClientStates, RequestTypes, WayTypes
<1> QED BY <1>2, <1>3, <1>4, <1>5, <1>6, <1>7 DEF LinkNext

\* An answer is dropped when it does not fit.
LEMMA AnswerFits ==
  ASSUME WayTypes, NEW n \in Ids, SendToLink(n)
  PROVE  toLink' \in Seq(Ids) /\ Len(toLink') <= MaxQ
<1>1. CASE Len(toLink) < MaxQ
  BY <1>1, Added, RoutingAssumption DEF SendToLink, WayTypes
<1>2. CASE ~(Len(toLink) < MaxQ)
  BY <1>2 DEF SendToLink, WayTypes
<1> QED BY <1>1, <1>2

\* A listener has the turn, and the index does not leave the list.
LEMMA TurnInList ==
  ASSUME GateTypes, listeners # <<>>
  PROVE  /\ Turn + 1 \in 1 .. Len(listeners) /\ listeners[Turn + 1] \in Servers
         /\ (IF Len(listeners) = 1 THEN index ELSE Turn + 1) \in 0 .. Cardinality(Servers)
<1>1. /\ Len(listeners) \in Nat /\ Len(listeners) > 0 /\ Len(listeners) <= Cardinality(Servers)
      /\ listeners \in Seq(Servers)
  BY ListenersFit DEF GateTypes, ListenersLive
<1>2. index \in Nat /\ index \in 0 .. Cardinality(Servers) /\ Cardinality(Servers) \in Nat
  BY RoutingAssumption, FS_CardinalityType DEF GateTypes
<1>3. Turn \in Nat /\ Turn + 1 \in 1 .. Len(listeners)
  BY <1>1, <1>2 DEF Turn
<1>4. Turn + 1 \in 0 .. Cardinality(Servers)
  BY <1>1, <1>2, <1>3
<1> QED BY <1>1, <1>2, <1>3, <1>4

LEMMA GateTyped ==
  ASSUME WayTypes, GateTypes, GateNext
  PROVE  WayTypes' /\ GateTypes' /\ UNCHANGED linkVars
<1> USE RoutingAssumption
<1>1. ASSUME NEW s \in Servers, ServerConnects(s) PROVE WayTypes' /\ GateTypes' /\ UNCHANGED linkVars
  BY <1>1 DEF ServerConnects, connVars, WayTypes, GateTypes, ListenersLive, Registered
<1>2. ASSUME NEW s \in Servers, Register(s) PROVE WayTypes' /\ GateTypes' /\ UNCHANGED linkVars
  <2>1. /\ s \in connected /\ s \notin ToSet(listeners) /\ listeners' = Append(listeners, s)
        /\ UNCHANGED <<linkVars, connVars, toGate, toLink, connected, index, atServer>>
        /\ listeners \in Seq(Servers) /\ IsInjective(listeners) /\ ToSet(listeners) \subseteq connected
    BY <1>2 DEF Register, Registered, GateTypes, ListenersLive
  <2>2. /\ listeners' \in Seq(Servers) /\ Len(listeners) \in Nat
        /\ DOMAIN listeners = 1 .. Len(listeners)
        /\ DOMAIN listeners' = 1 .. Len(listeners) + 1
        /\ listeners'[Len(listeners) + 1] = s
        /\ \A k \in 1 .. Len(listeners) : listeners'[k] = listeners[k]
    BY <2>1
  <2>3. \A k \in 1 .. Len(listeners) + 1 : k \in 1 .. Len(listeners) \/ k = Len(listeners) + 1
    BY <2>2
  <2>4. \A k \in 1 .. Len(listeners) : listeners'[k] \in ToSet(listeners)
    BY <2>2 DEF ToSet
  <2>5. IsInjective(listeners')
    BY <2>1, <2>2, <2>3, <2>4 DEF IsInjective
  <2>6. ToSet(listeners') \subseteq connected
    BY <2>1, <2>2, <2>3, <2>4 DEF ToSet
  <2> QED BY <2>1, <2>2, <2>5, <2>6 DEF connVars, WayTypes, GateTypes, ListenersLive, Registered
<1>3. ASSUME NEW s \in Servers, ServerLeaves(s) PROVE WayTypes' /\ GateTypes' /\ UNCHANGED linkVars
  <2>1. /\ connected' = connected \ {s} /\ Delete(s) /\ atServer' = [atServer EXCEPT ![s] = <<>>]
        /\ UNCHANGED <<linkVars, connVars, toGate, toLink, index>>
    BY <1>3 DEF ServerLeaves
  <2>2. /\ listeners' \in Seq(Servers) /\ IsInjective(listeners')
        /\ ToSet(listeners') \subseteq ToSet(listeners) \ {s}
    BY <2>1, Deleted DEF GateTypes, ListenersLive
  <2>3. ToSet(listeners') \subseteq connected'
    BY <2>1, <2>2 DEF GateTypes, ListenersLive, Registered
  <2>4. atServer' \in [Servers -> Seq([id : Ids, link : Links])]
    <3>1. <<>> \in Seq([id : Ids, link : Links])
      OBVIOUS
    <3> QED BY <2>1, <3>1 DEF GateTypes
  <2> QED BY <2>1, <2>2, <2>3, <2>4 DEF connVars, WayTypes, GateTypes, ListenersLive, Registered
<1>4. ASSUME NEW s \in Servers, ServerAnswers(s) PROVE WayTypes' /\ GateTypes' /\ UNCHANGED linkVars
  <2>1. PICK m : m = Head(atServer[s])
    OBVIOUS
  <2>2. /\ atServer[s] # <<>> /\ atServer' = [atServer EXCEPT ![s] = Tail(atServer[s])]
        /\ SendToLink(m.id) \/ toLink' = toLink
        /\ UNCHANGED <<linkVars, connVars, toGate, connected, listeners, index>>
    BY <1>4, <2>1 DEF ServerAnswers
  <2>3. m \in [id : Ids, link : Links] /\ Tail(atServer[s]) \in Seq([id : Ids, link : Links])
    <3>1. PICK M : M = [id : Ids, link : Links]
      OBVIOUS
    <3>2. atServer[s] \in Seq(M)
      BY <3>1 DEF GateTypes
    <3> QED BY <2>1, <2>2, <3>1, <3>2, HeadTailProperties
  <2>4. toLink' \in Seq(Ids) /\ Len(toLink') <= MaxQ
    BY <2>2, <2>3, AnswerFits DEF WayTypes
  <2> QED BY <2>2, <2>3, <2>4 DEF connVars, WayTypes, GateTypes, ListenersLive, Registered
<1>5. ASSUME NEW cmd, Receive(cmd)
      PROVE  /\ toGate # <<>> /\ Head(toGate).id \in Ids /\ link \in Links
             /\ toGate' \in Seq(Frames) /\ Len(toGate') <= MaxQ
  <2>1. toGate # <<>> /\ link # 0 /\ toGate' = Tail(toGate)
    BY <1>5 DEF Receive
  <2>2. Head(toGate) \in Frames /\ toGate' \in Seq(Frames) /\ Len(toGate') <= MaxQ
    BY <2>1, Taken DEF WayTypes
  <2>3. Head(toGate).id \in Ids
    BY <2>2 DEF Frames
  <2> QED BY <2>1, <2>2, <2>3 DEF WayTypes
<1>6. CASE Forward
  <2>1. PICK s : s = listeners[Turn + 1]
    OBVIOUS
  <2>2. PICK m : m = [id |-> Head(toGate).id, link |-> link]
    OBVIOUS
  <2>3. /\ Receive("other") /\ listeners # <<>>
        /\ atServer' = [atServer EXCEPT ![s] = Append(atServer[s], m)]
        /\ index' = IF Len(listeners) = 1 THEN index ELSE Turn + 1
        /\ UNCHANGED <<linkVars, connVars, toLink, connected, listeners>>
    BY <1>6, <2>1, <2>2 DEF Forward
  <2>4. s \in Servers /\ index' \in 0 .. Cardinality(Servers)
    BY <2>1, <2>3, TurnInList
  <2>5. m \in [id : Ids, link : Links]
    BY <1>5, <2>2, <2>3
  <2>6. atServer' \in [Servers -> Seq([id : Ids, link : Links])]
    <3>1. PICK M : M = [id : Ids, link : Links]
      OBVIOUS
    <3>2. atServer \in [Servers -> Seq(M)] /\ m \in M
      BY <2>5, <3>1 DEF GateTypes
    <3>3. Append(atServer[s], m) \in Seq(M)
      BY <2>4, <3>2
    <3>4. atServer' \in [Servers -> Seq(M)]
      BY <2>3, <2>4, <3>2, <3>3
    <3> QED BY <3>1, <3>4
  <2> QED BY <1>5, <2>3, <2>4, <2>6 DEF connVars, WayTypes, GateTypes, ListenersLive, Registered
<1>7. CASE ServerBusy
  <2>1. /\ Receive("other") /\ listeners # <<>>
        /\ index' = IF Len(listeners) = 1 THEN index ELSE Turn + 1
        /\ SendToLink(Head(toGate).id)
        /\ UNCHANGED <<linkVars, connVars, connected, listeners, atServer>>
    BY <1>7 DEF ServerBusy
  <2>2. index' \in 0 .. Cardinality(Servers)
    BY <2>1, TurnInList
  <2> QED BY <1>5, <2>1, <2>2, AnswerFits DEF connVars, WayTypes, GateTypes, ListenersLive, Registered
<1>8. CASE ServerOff
  <2>1. /\ Receive("other") /\ SendToLink(Head(toGate).id)
        /\ UNCHANGED <<linkVars, connVars, connected, listeners, index, atServer>>
    BY <1>8 DEF ServerOff, gateVars
  <2> QED BY <1>5, <2>1, AnswerFits DEF connVars, WayTypes, GateTypes, ListenersLive, Registered
<1>9. CASE GateRegisters
  <2>1. /\ Receive("ss_reg_server") /\ SendToLink(Head(toGate).id) /\ ssLink' = TRUE
        /\ UNCHANGED <<linkVars, wsClient, link, gateVars>>
    BY <1>9 DEF GateRegisters
  <2> QED BY <1>5, <2>1, AnswerFits DEF gateVars, WayTypes, GateTypes, ListenersLive, Registered
<1>10. CASE GateDrops
  BY <1>5, <1>10 DEF GateDrops, connVars, gateVars, WayTypes, GateTypes, ListenersLive, Registered
<1> QED BY <1>1, <1>2, <1>3, <1>4, <1>6, <1>7, <1>8, <1>9, <1>10 DEF GateNext

LEMMA NodeInvariant == Spec => []NodeInv
<1>1. Init => NodeInv
  <2> SUFFICES ASSUME Init PROVE RequestTypes /\ WayTypes /\ GateTypes
    BY NodeParts
  <2>1. RequestTypes
    BY RoutingAssumption DEF Init, RequestTypes, Ids
  <2>2. WayTypes
    <3>1. <<>> \in Seq(Frames) /\ <<>> \in Seq(Ids) /\ Len(<<>>) = 0
      OBVIOUS
    <3>2. toGate = <<>> /\ toLink = <<>> /\ 0 <= MaxQ
      BY RoutingAssumption DEF Init
    <3>3. /\ wsClient \in ClientStates /\ link \in {0} \cup Links /\ ssLink \in BOOLEAN
      BY DEF Init, ClientStates
    <3> QED BY <3>1, <3>2, <3>3 DEF WayTypes
  <2>3. index \in 0 .. Cardinality(Servers)
    BY RoutingAssumption, FS_CardinalityType DEF Init
  <2>4. listeners \in Seq(Servers) /\ IsInjective(listeners) /\ ToSet(listeners) = {}
    BY DEF Init, IsInjective, ToSet
  <2>5. atServer \in [Servers -> Seq([id : Ids, link : Links])]
    BY DEF Init
  <2>6. GateTypes
    BY <2>3, <2>4, <2>5 DEF Init, GateTypes, ListenersLive, Registered
  <2> QED BY <2>1, <2>2, <2>6
<1>2. NodeInv /\ [Next]_vars => NodeInv'
  <2> SUFFICES ASSUME RequestTypes, WayTypes, GateTypes, [Next]_vars
               PROVE  RequestTypes' /\ WayTypes' /\ GateTypes'
    BY NodeParts DEF NodeInv, TypeOK, RequestTypes, WayTypes, GateTypes
  <2>1. UNCHANGED linkVars => RequestTypes'
    BY DEF linkVars, RequestTypes
  <2>2. UNCHANGED gateVars => GateTypes'
    BY DEF gateVars, GateTypes, ListenersLive, Registered
  <2>3. CASE UNCHANGED vars
    BY <2>1, <2>2, <2>3 DEF vars, connVars, WayTypes
  <2> QED BY <2>1, <2>2, <2>3, LinkTyped, GateTyped DEF Next
<1> QED BY <1>1, <1>2, PTL DEF Spec

\* Every variable of Routing stays in its set, for any numbers of links, servers and
\* requests: no buffer holds more than it can, every request at a server has a link
\* id that an answer can go to, and the index never counts more than the servers.
THEOREM TypeCorrect == Spec => []TypeOK
<1>1. NodeInv => TypeOK
  BY DEF NodeInv
<1> QED BY <1>1, NodeInvariant, PTL

\* The Gate's listeners are connected servers, each listed once, whichever register,
\* leave and come back under the same descriptor.
THEOREM ListenersKept == Spec => []ListenersLive
<1>1. NodeInv => ListenersLive
  BY DEF NodeInv
<1> QED BY <1>1, NodeInvariant, PTL
===============================================================================
