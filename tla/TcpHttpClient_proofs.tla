------------------------- MODULE TcpHttpClient_proofs -------------------------
(***************************************************************************)
(* TcpHttpClient, for any number of requests and any hosts: its types, and *)
(* that a callback is called once, with the answer to its own request or   *)
(* with nullptr, outside the cases in which it is not.                     *)
(***************************************************************************)
EXTENDS TcpHttpClient, SequenceTheorems, TLAPS

Events(n) == [id : 1 .. n, count : 0 .. 1]

-------------------------------------------------------------------------------
(* The queue: what get, pop and the count of a turn do to it.              *)

LEMMA PushedQueue ==
  ASSUME NEW n \in Nat, NEW q \in Seq(Events(n))
  PROVE  LET p == Append(q, [id |-> n + 1, count |-> 0])
         IN  /\ p \in Seq(Events(n + 1)) /\ p # <<>> /\ Len(p) = Len(q) + 1
             /\ \A i \in 1 .. Len(q) : p[i] = q[i]
             /\ p[Len(p)] = [id |-> n + 1, count |-> 0]
<1>1. Events(n) \subseteq Events(n + 1) /\ [id |-> n + 1, count |-> 0] \in Events(n + 1)
  BY DEF Events
<1>2. q \in Seq(Events(n + 1))
  BY <1>1, SeqMonotonic
<1> HIDE DEF Events
<1> QED BY <1>1, <1>2

LEMMA CountedQueue ==
  ASSUME NEW n \in Nat, NEW q \in Seq(Events(n)), q # <<>>, Head(q).count = 0
  PROVE  /\ Counted(q) \in Seq(Events(n)) /\ Len(Counted(q)) = Len(q)
         /\ Counted(q)[1] = [id |-> q[1].id, count |-> 1]
         /\ \A i \in 2 .. Len(q) : Counted(q)[i] = q[i]
<1>1. Len(q) \in Nat /\ Len(q) > 0 /\ Head(q) = q[1] /\ q \in [1 .. Len(q) -> Events(n)]
  OBVIOUS
<1>2. q[1] \in Events(n) /\ q[1].count = 0
  BY <1>1
<1>3. [q[1] EXCEPT !.count = @ + 1] = [id |-> q[1].id, count |-> 1]
  BY <1>2 DEF Events
<1>4. [id |-> q[1].id, count |-> 1] \in Events(n)
  BY <1>2 DEF Events
<1>5. Counted(q) = [i \in 1 .. Len(q) |-> IF i = 1 THEN [id |-> q[1].id, count |-> 1] ELSE q[i]]
  BY <1>1, <1>3 DEF Counted
<1> HIDE DEF Events
<1>6. Counted(q) \in [1 .. Len(q) -> Events(n)]
  BY <1>1, <1>4, <1>5
<1>7. Counted(q) \in Seq(Events(n)) /\ Len(Counted(q)) = Len(q)
  BY <1>1, <1>6
<1> QED BY <1>1, <1>5, <1>7

LEMMA TailQueue ==
  ASSUME NEW S, NEW q \in Seq(S), q # <<>>
  PROVE  /\ Tail(q) \in Seq(S) /\ Len(Tail(q)) = Len(q) - 1 /\ Len(q) \in Nat \ {0}
         /\ Head(q) = q[1] /\ q[1] \in S
         /\ \A i \in 1 .. Len(Tail(q)) : Tail(q)[i] = q[i + 1]
OBVIOUS
-------------------------------------------------------------------------------
(* Types                                                                   *)

ListsTyped ==
  /\ queue \in Seq(Events(issued)) /\ inflight \in Seq(1 .. issued)
  /\ told \in [Ids -> Seq(Ids \cup {Null})]

FlagsTyped == next \in BOOLEAN /\ overlapped \in BOOLEAN /\ failed \in BOOLEAN /\ moved \in BOOLEAN

RestTyped ==
  /\ at \in {"user", "poll"} /\ call \in 0 .. issued
  /\ conn \in {"none", "made", "up"} /\ (conn # "up" => inflight = <<>>)
  /\ host0 \in {Null} \cup {Host[r] : r \in Ids}
  /\ issued \in 0 .. MaxReq

LEMMA TypeOKParts ==
  /\ TypeOK <=> ListsTyped /\ FlagsTyped /\ RestTyped
  /\ TypeOK' <=> ListsTyped' /\ FlagsTyped' /\ RestTyped'
<1>1. TypeOK <=> ListsTyped /\ FlagsTyped /\ RestTyped
  BY Zenon DEF TypeOK, ListsTyped, FlagsTyped, RestTyped, Events
<1>2. TypeOK' <=> ListsTyped' /\ FlagsTyped' /\ RestTyped'
  BY Zenon DEF TypeOK, ListsTyped, FlagsTyped, RestTyped, Events
<1> QED BY <1>1, <1>2

LEMMA TypedParts ==
  ASSUME TypeOK
  PROVE  /\ issued \in Nat /\ issued <= MaxReq /\ MaxReq \in Nat
         /\ queue \in Seq(Events(issued)) /\ inflight \in Seq(1 .. issued)
         /\ call \in 0 .. issued /\ 1 .. issued \subseteq Ids
         /\ told \in [Ids -> Seq(Ids \cup {Null})]
BY TypeOKParts, HttpAssumption DEF ListsTyped, RestTyped, Ids

\* get: the queue is one longer, and so is the range of the requests.
LEMMA PushedTyped ==
  ASSUME TypeOK, issued < MaxReq
  PROVE  /\ Pushed(queue) \in Seq(Events(issued + 1)) /\ Pushed(queue) # <<>>
         /\ inflight \in Seq(1 .. (issued + 1)) /\ issued + 1 \in 1 .. MaxReq
<1>1. Pushed(queue) \in Seq(Events(issued + 1)) /\ Pushed(queue) # <<>>
  BY TypedParts, PushedQueue DEF Pushed
<1>2. 1 .. issued \subseteq 1 .. (issued + 1)
  BY TypedParts
<1>3. inflight \in Seq(1 .. (issued + 1))
  BY <1>2, TypedParts, SeqMonotonic
<1> QED BY <1>1, <1>3, TypedParts

\* The callback, and the request it may make.
LEMMA CallBackTyped ==
  ASSUME TypeOK, NEW what \in Ids \cup {Null}, NEW more \in BOOLEAN, CallBack(what, more)
  PROVE  /\ issued' \in Nat /\ issued' <= MaxReq /\ 1 .. issued \subseteq 1 .. issued'
         /\ After(more) \in Seq(Events(issued')) /\ inflight \in Seq(1 .. issued')
         /\ told' \in [Ids -> Seq(Ids \cup {Null})]
         /\ UNCHANGED overlapped
<1>1. told' \in [Ids -> Seq(Ids \cup {Null})]
  <2>1. CASE call = 0
    BY <2>1, TypedParts DEF CallBack
  <2>2. CASE call # 0
    <3>1. call \in Ids /\ told[call] \in Seq(Ids \cup {Null})
      BY <2>2, TypedParts
    <3>2. Append(told[call], what) \in Seq(Ids \cup {Null})
      BY <3>1
    <3> QED BY <2>2, <3>2, TypedParts DEF CallBack
  <2> QED BY <2>1, <2>2
<1>2. CASE more
  <2>1. issued < MaxReq /\ issued' = issued + 1 /\ After(more) = Pushed(queue)
    BY <1>2 DEF CallBack, After
  <2> QED BY <1>1, <2>1, TypedParts, PushedTyped DEF CallBack
<1>3. CASE ~more
  <2>1. issued' = issued /\ After(more) = queue
    BY <1>3 DEF CallBack, After
  <2> QED BY <1>1, <2>1, TypedParts DEF CallBack
<1> QED BY <1>2, <1>3

LEMMA FrontTyped ==
  ASSUME TypeOK, queue # <<>>
  PROVE  /\ Front \in Events(issued) /\ Front.id \in 1 .. issued /\ Front = queue[1]
         /\ Host[Front.id] \in {Host[r] : r \in Ids}
<1>1. Front \in Events(issued) /\ Front = queue[1]
  BY TypedParts, TailQueue DEF Front
<1>2. Front.id \in 1 .. issued
  BY <1>1 DEF Events
<1> QED BY <1>1, <1>2, TypedParts

LEMMA ConnectTyped ==
  ASSUME TypeOK, NEW more \in BOOLEAN, NEW bad \in BOOLEAN, NEW ok \in BOOLEAN,
         ConnectAnew(more, bad, ok)
  PROVE  TypeOK'
<1>1. queue # <<>> /\ Front.count = 0 /\ at' = "poll" /\ (conn = "none" => ~more)
  BY DEF ConnectAnew, Turn
<1>2. /\ issued' \in Nat /\ issued' <= MaxReq /\ 1 .. issued \subseteq 1 .. issued'
      /\ After(more) \in Seq(Events(issued'))
      /\ told' \in [Ids -> Seq(Ids \cup {Null})] /\ overlapped' = overlapped
  <2>1. CASE conn = "none"
    BY <1>1, <2>1, TypedParts DEF ConnectAnew, After, TypeOK
  <2>2. CASE conn # "none"
    BY <2>2, CallBackTyped DEF ConnectAnew
  <2> QED BY <2>1, <2>2
<1>3. After(more) # <<>> /\ Head(After(more)) = Front
  <2>1. CASE more
    <3>1. /\ After(more) \in Seq(Events(issued + 1)) /\ After(more) # <<>>
          /\ \A i \in 1 .. Len(queue) : After(more)[i] = queue[i]
      <4>1. After(more) = Append(queue, [id |-> issued + 1, count |-> 0])
        BY <2>1 DEF After, Pushed
      <4>2. issued \in Nat /\ queue \in Seq(Events(issued))
        BY TypedParts
      <4> QED BY <4>1, <4>2, PushedQueue
    <3>2. 1 \in 1 .. Len(queue)
      BY <1>1, TypedParts, TailQueue
    <3> QED BY <3>1, <3>2, <1>1, FrontTyped, TailQueue
  <2>2. CASE ~more
    BY <1>1, <2>2 DEF After, Front
  <2> QED BY <2>1, <2>2
<1>4. queue' \in Seq(Events(issued'))
  BY <1>1, <1>2, <1>3, CountedQueue DEF ConnectAnew
<1>5. Front.id \in 1 .. issued' /\ Host[Front.id] \in {Host[r] : r \in Ids}
  BY <1>1, <1>2, FrontTyped
<1>6. /\ inflight' \in Seq(1 .. issued') /\ (conn' # "up" => inflight' = <<>>)
      /\ call' \in 0 .. issued' /\ conn' \in {"made", "up"}
  <2> PICK k \in 1 .. issued' : k = Front.id
    BY <1>5
  <2>1. <<k>> \in Seq(1 .. issued')
    OBVIOUS
  <2>2. call' = k /\ conn' = (IF ok THEN "up" ELSE "made")
        /\ inflight' = (IF ok THEN <<k>> ELSE <<>>)
    BY DEF ConnectAnew
  <2>3. k \in 0 .. issued'
    BY <1>2
  <2>4. CASE ok
    BY <2>1, <2>2, <2>3, <2>4
  <2>5. CASE ~ok
    BY <2>2, <2>3, <2>5
  <2> QED BY <2>4, <2>5
<1>7. host0' \in {Null} \cup {Host[r] : r \in Ids}
  BY <1>5 DEF ConnectAnew, TypeOK
<1>8. FlagsTyped'
  BY <1>2, TypeOKParts DEF ConnectAnew, FlagsTyped
<1>9. ListsTyped' /\ RestTyped'
  BY <1>1, <1>2, <1>4, <1>6, <1>7 DEF ListsTyped, RestTyped
<1> QED BY <1>8, <1>9, TypeOKParts

LEMMA PeerTyped ==
  ASSUME TypeOK, NEW more \in BOOLEAN, NEW keep \in BOOLEAN,
         Answer(more, keep) \/ Disconnect(more)
  PROVE  TypeOK'
<1> DEFINE what == IF Answer(more, keep) THEN Head(inflight) ELSE Null
<1>1. what \in Ids \cup {Null} /\ CallBack(what, more)
  <2>1. CASE Answer(more, keep)
    <3>1. inflight # <<>> /\ CallBack(Head(inflight), more)
      BY <2>1 DEF Answer
    <3>2. Head(inflight) \in 1 .. issued
      BY <3>1, TypedParts, TailQueue
    <3> QED BY <2>1, <3>1, <3>2, TypedParts
  <2>2. CASE ~Answer(more, keep)
    BY <2>2 DEF Disconnect
  <2> QED BY <2>1, <2>2
<1> HIDE DEF what
<1>2. /\ issued' \in Nat /\ issued' <= MaxReq /\ 1 .. issued \subseteq 1 .. issued'
      /\ After(more) \in Seq(Events(issued')) /\ inflight \in Seq(1 .. issued')
      /\ told' \in [Ids -> Seq(Ids \cup {Null})] /\ overlapped' = overlapped
  BY <1>1, CallBackTyped
<1>3. /\ queue' \in Seq(Events(issued'))
      /\ inflight' \in Seq(1 .. issued') /\ (conn' # "up" => inflight' = <<>>)
      /\ conn' \in {"none", "made", "up"} /\ at' \in {"user", "poll"}
  <2>1. CASE Answer(more, keep)
    <3>1. queue' \in Seq(Events(issued'))
      BY <1>2, <2>1, TailQueue DEF Answer
    <3>2. inflight # <<>> /\ Tail(inflight) \in Seq(1 .. issued')
      BY <1>2, <2>1, TailQueue DEF Answer
    <3>3. CASE keep
      BY <2>1, <3>1, <3>2, <3>3, TypeOKParts DEF Answer, RestTyped
    <3>4. CASE ~keep
      <4>1. inflight' = <<>> /\ conn' = "none" /\ at' = "user"
        BY <2>1, <3>4 DEF Answer
      <4> QED BY <3>1, <4>1
    <3> QED BY <3>3, <3>4
  <2>2. CASE Disconnect(more)
    <3>1. inflight' = <<>> /\ conn' = "none" /\ at' = "user" /\ queue' = After(more)
      BY <2>2 DEF Disconnect
    <3> QED BY <1>2, <3>1
  <2> QED BY <2>1, <2>2
<1>4. call' = 0 /\ next' = TRUE /\ UNCHANGED <<host0, failed, moved>>
  BY DEF Answer, Disconnect
<1>5. FlagsTyped'
  BY <1>2, <1>4, TypeOKParts DEF FlagsTyped
<1>6. ListsTyped' /\ RestTyped'
  BY <1>2, <1>3, <1>4, TypeOKParts DEF ListsTyped, RestTyped
<1> QED BY <1>5, <1>6, TypeOKParts

LEMMA TypeStep == TypeOK /\ [Next]_vars => TypeOK'
<1> SUFFICES ASSUME TypeOK, [Next]_vars PROVE TypeOK'
  OBVIOUS
<1>1. CASE Get
  <2>1. /\ queue' \in Seq(Events(issued')) /\ inflight' \in Seq(1 .. issued')
        /\ issued' \in 1 .. MaxReq /\ issued' = issued + 1 /\ issued \in Nat
    BY <1>1, PushedTyped, TypedParts DEF Get
  <2> QED BY <1>1, <2>1, TypeOKParts DEF Get, ListsTyped, FlagsTyped, RestTyped
<1>2. CASE NotNow \/ NothingQueued \/ Unresolved \/ Quiet \/ UNCHANGED vars
  <2>1. queue' \in Seq(Events(issued)) /\ issued' = issued
    <3>1. CASE Unresolved
      BY <3>1, TypedParts, CountedQueue DEF Unresolved, Turn, Front
    <3>2. CASE ~Unresolved
      BY <1>2, <3>2, TypedParts DEF NotNow, NothingQueued, Quiet, vars, hist
    <3> QED BY <1>2, <3>1, <3>2 DEF Unresolved
  <2> QED BY <1>2, <2>1, TypeOKParts DEF NotNow, NothingQueued, Unresolved, Turn, Quiet, vars, hist,
                                   ListsTyped, FlagsTyped, RestTyped
<1>3. CASE GiveUp
  <2>1. queue' \in Seq(Events(issued)) /\ issued' = issued
    BY <1>3, TypedParts, TailQueue DEF GiveUp, hist
  <2> QED BY <1>3, <2>1, TypeOKParts DEF GiveUp, hist, ListsTyped, FlagsTyped, RestTyped
<1>4. CASE SendOn
  <2>1. queue' \in Seq(Events(issued)) /\ issued' = issued /\ queue # <<>>
    BY <1>4, TypedParts, CountedQueue DEF SendOn, Turn, Front, hist
  <2>2. call' \in 1 .. issued /\ inflight' \in Seq(1 .. issued) /\ conn = "up"
    BY <1>4, <2>1, TypedParts, FrontTyped DEF SendOn, Reusable
  <2>3. at' = "poll" /\ next' = FALSE /\ UNCHANGED <<conn, host0, told, overlapped, failed, moved>>
    BY <1>4 DEF SendOn, Turn, hist
  <2>4. ListsTyped' /\ RestTyped'
    BY <2>1, <2>2, <2>3, TypeOKParts DEF ListsTyped, RestTyped
  <2> QED BY <2>3, <2>4, TypeOKParts DEF FlagsTyped
<1>5. ASSUME NEW more \in BOOLEAN, NEW bad \in BOOLEAN, NEW ok \in BOOLEAN,
             ConnectAnew(more, bad, ok)
      PROVE  TypeOK'
  BY <1>5, ConnectTyped
<1>6. CASE Peer
  BY <1>6, PeerTyped DEF Peer
<1> QED BY <1>1, <1>2, <1>3, <1>4, <1>5, <1>6 DEF Next, NextRequest

LEMMA TypeInit == Init => TypeOK
<1> SUFFICES ASSUME Init PROVE ListsTyped /\ FlagsTyped /\ RestTyped
  BY TypeOKParts
<1>1. <<>> \in Seq(Events(issued)) /\ <<>> \in Seq(1 .. issued) /\ <<>> \in Seq(Ids \cup {Null})
  OBVIOUS
<1>2. ListsTyped
  BY <1>1 DEF Init, ListsTyped
<1>3. FlagsTyped
  BY DEF Init, FlagsTyped
<1>4. RestTyped
  BY HttpAssumption DEF Init, RestTyped
<1> QED BY <1>2, <1>3, <1>4

\* The queue and the connection hold requests the user has made, and a turn is
\* counted once, whatever fails and whatever the callbacks request.
THEOREM TypeCorrect == Spec => []TypeOK
<1> QED BY TypeInit, TypeStep, PTL DEF Spec
-------------------------------------------------------------------------------
(***************************************************************************)
(* One call of each callback.  What keeps answers and callbacks together   *)
(* is that the request in flight is the front of the queue, with its turn  *)
(* counted, as long as its callback is set; a front whose turn is counted  *)
(* and whose callback is not set has ended and waits to be dropped.        *)
(***************************************************************************)
Ordered(q) == \A i, j \in 1 .. Len(q) : i < j => q[i].id < q[j].id
Untried(q) == \A i \in 2 .. Len(q) : q[i].count = 0
Untold(q, t) == \A i \in 1 .. Len(q) : q[i].count = 0 => t[q[i].id] = <<>>

InFlight ==
  /\ inflight = <<call>> /\ conn = "up" /\ ~next /\ told[call] = <<>>
  /\ queue # <<>> /\ Front.id = call /\ Front.count = 1

Kept ==
  /\ Ordered(queue) /\ Untried(queue) /\ Untold(queue, told)
  /\ \A r \in Ids : told[r] = <<>> \/ Ends(r)
  /\ \A r \in Ids : r > issued => told[r] = <<>>
  /\ conn # "made"
  /\ IF call = 0 THEN inflight = <<>> ELSE InFlight

OnceInv == overlapped \/ failed \/ moved \/ Kept

LEMMA PushedKept ==
  ASSUME NEW n \in Nat, NEW q \in Seq(Events(n)), NEW t, t[n + 1] = <<>>,
         Ordered(q), Untried(q), Untold(q, t)
  PROVE  LET p == Append(q, [id |-> n + 1, count |-> 0])
         IN  Ordered(p) /\ Untried(p) /\ Untold(p, t)
<1> DEFINE p == Append(q, [id |-> n + 1, count |-> 0])
<1>1. /\ Len(p) = Len(q) + 1 /\ Len(q) \in Nat /\ \A i \in 1 .. Len(q) : p[i] = q[i]
      /\ p[Len(p)].id = n + 1 /\ p[Len(p)].count = 0
  BY PushedQueue
<1>2. \A i \in 1 .. Len(q) : q[i].id \in 1 .. n
  <2>1. \A i \in 1 .. Len(q) : q[i] \in Events(n)
    OBVIOUS
  <2> QED BY <2>1 DEF Events
<1> HIDE DEF p
<1>3. \A i \in 1 .. Len(p) : i \in 1 .. Len(q) \/ i = Len(p)
  BY <1>1
<1>4. Ordered(p)
  <2> SUFFICES ASSUME NEW i \in 1 .. Len(p), NEW j \in 1 .. Len(p), i < j
               PROVE  p[i].id < p[j].id
    BY DEF Ordered
  <2>1. i \in 1 .. Len(q) /\ p[i].id = q[i].id /\ q[i].id \in 1 .. n
    BY <1>1, <1>2
  <2>2. CASE j = Len(p)
    BY <1>1, <2>1, <2>2
  <2>3. CASE j \in 1 .. Len(q)
    BY <1>1, <2>1, <2>3 DEF Ordered
  <2> QED BY <1>3, <2>2, <2>3
<1>5. Untried(p)
  <2> SUFFICES ASSUME NEW i \in 2 .. Len(p) PROVE p[i].count = 0
    BY DEF Untried
  <2>1. i = Len(p) \/ i \in 2 .. Len(q)
    BY <1>1
  <2> QED BY <1>1, <2>1 DEF Untried
<1>6. Untold(p, t)
  BY <1>1, <1>3 DEF Untold
<1> QED BY <1>4, <1>5, <1>6 DEF p

LEMMA CountedKept ==
  ASSUME NEW n \in Nat, NEW q \in Seq(Events(n)), q # <<>>, Head(q).count = 0, NEW t,
         Ordered(q), Untried(q), Untold(q, t)
  PROVE  /\ Ordered(Counted(q)) /\ Untried(Counted(q)) /\ Untold(Counted(q), t)
         /\ Counted(q) # <<>> /\ Head(Counted(q)) = [id |-> Head(q).id, count |-> 1]
<1> DEFINE p == Counted(q)
<1>1. /\ p \in Seq(Events(n)) /\ Len(p) = Len(q) /\ Len(q) \in Nat \ {0} /\ Head(q) = q[1]
      /\ p[1] = [id |-> q[1].id, count |-> 1] /\ \A i \in 2 .. Len(q) : p[i] = q[i]
  BY CountedQueue, TailQueue
<1> HIDE DEF p
<1>2. \A i \in 1 .. Len(q) : p[i].id = q[i].id /\ (i = 1 \/ i \in 2 .. Len(q))
  BY <1>1
<1>3. Ordered(p)
  BY <1>1, <1>2 DEF Ordered
<1>4. Untried(p)
  BY <1>1 DEF Untried
<1>5. Untold(p, t)
  BY <1>1, <1>2 DEF Untold
<1>6. p # <<>> /\ Head(p) = [id |-> Head(q).id, count |-> 1]
  BY <1>1
<1> QED BY <1>3, <1>4, <1>5, <1>6 DEF p

LEMMA TailKept ==
  ASSUME NEW n \in Nat, NEW q \in Seq(Events(n)), q # <<>>, NEW t,
         Ordered(q), Untried(q), Untold(q, t)
  PROVE  Ordered(Tail(q)) /\ Untried(Tail(q)) /\ Untold(Tail(q), t)
<1>1. /\ Len(Tail(q)) = Len(q) - 1 /\ Len(q) \in Nat
      /\ \A i \in 1 .. Len(Tail(q)) : Tail(q)[i] = q[i + 1] /\ i + 1 \in 1 .. Len(q)
  BY TailQueue
<1>2. Ordered(Tail(q))
  BY <1>1 DEF Ordered
<1>3. Untried(Tail(q))
  BY <1>1 DEF Untried
<1>4. Untold(Tail(q), t)
  BY <1>1 DEF Untold
<1> QED BY <1>2, <1>3, <1>4

\* Nothing else in the queue is about the request at its front.
LEMMA ToldKept ==
  ASSUME NEW n \in Nat, NEW q \in Seq(Events(n)), q # <<>>, Head(q).count = 1,
         Ordered(q), NEW t, NEW u, \A r \in 1 .. n : r # Head(q).id => u[r] = t[r],
         Untold(q, t)
  PROVE  Untold(q, u)
<1>1. Len(q) \in Nat \ {0} /\ Head(q) = q[1] /\ q[1].count = 1
  BY TailQueue
<1> SUFFICES ASSUME NEW i \in 1 .. Len(q), q[i].count = 0 PROVE u[q[i].id] = <<>>
  BY DEF Untold
<1>2. i # 1 /\ q[1].id < q[i].id
  BY <1>1 DEF Ordered
<1>3. q[i].id \in 1 .. n /\ q[1].id \in 1 .. n
  <2>1. q[i] \in Events(n) /\ q[1] \in Events(n)
    BY <1>1
  <2> QED BY <2>1 DEF Events
<1>4. u[q[i].id] = t[q[i].id]
  BY <1>1, <1>2, <1>3
<1> QED BY <1>4 DEF Untold
-------------------------------------------------------------------------------
LEMMA ExceptionsStay ==
  ASSUME [Next]_vars
  PROVE  (overlapped => overlapped') /\ (failed => failed') /\ (moved => moved')
<1>1. overlapped => overlapped'
  BY Zenon DEF Next, Get, NextRequest, NotNow, NothingQueued, GiveUp, SendOn, Unresolved,
               ConnectAnew, CallBack, Peer, Answer, Disconnect, Quiet, hist, vars
<1>2. failed => failed'
  BY Zenon DEF Next, Get, NextRequest, NotNow, NothingQueued, GiveUp, SendOn, Unresolved,
               ConnectAnew, CallBack, Peer, Answer, Disconnect, Quiet, hist, vars
<1>3. moved => moved'
  BY Zenon DEF Next, Get, NextRequest, NotNow, NothingQueued, GiveUp, SendOn, Unresolved,
               ConnectAnew, CallBack, Peer, Answer, Disconnect, Quiet, hist, vars
<1> QED BY <1>1, <1>2, <1>3

\* Nothing is set: the front of the queue may have its turn.
LEMMA TurnFound ==
  ASSUME TypeOK, Kept, Turn
  PROVE  /\ call = 0 /\ queue # <<>> /\ queue \in Seq(Events(issued)) /\ issued \in Nat
         /\ Front.count = 0 /\ Front.id \in Ids /\ Front.id # 0 /\ told[Front.id] = <<>>
<1>1. queue # <<>> /\ Front.count = 0 /\ next
  BY DEF Turn
<1>2. call = 0
  BY <1>1 DEF Kept, InFlight
<1>3. Front.id \in 1 .. issued /\ Front = queue[1] /\ 1 \in 1 .. Len(queue)
  BY <1>1, FrontTyped, TypedParts, TailQueue
<1>4. told[Front.id] = <<>>
  BY <1>1, <1>3 DEF Kept, Untold
<1> QED BY <1>1, <1>2, <1>3, <1>4, TypedParts

\* A request is sent: its callback is set and its turn counted.
LEMMA SentKept ==
  ASSUME TypeOK, Kept, Turn, queue' = Counted(queue), next' = FALSE, call' = Front.id,
         inflight' = <<Front.id>>, conn' = "up", UNCHANGED <<told, issued>>
  PROVE  Kept'
<1>1. /\ Ordered(queue)' /\ Untried(queue)' /\ Untold(queue, told)'
      /\ queue' # <<>> /\ Head(queue') = [id |-> Front.id, count |-> 1]
  BY TurnFound, CountedKept DEF Kept, Front
<1>2. call' # 0 /\ InFlight'
  BY <1>1, TurnFound DEF InFlight, Front
<1> QED BY <1>1, <1>2 DEF Kept, Ends

LEMMA PeerKept ==
  ASSUME TypeOK, Kept, NEW more \in BOOLEAN, NEW keep \in BOOLEAN,
         Answer(more, keep) \/ Disconnect(more)
  PROVE  Kept'
<1>1. call' = 0
  BY DEF Answer, Disconnect
<1>2. CASE call = 0
  <2>1. inflight = <<>>
    BY <1>2 DEF Kept
  <2>2. Disconnect(more)
    BY <2>1 DEF Answer
  <2>3. /\ UNCHANGED <<told, issued, queue>> /\ conn' = "none" /\ inflight' = <<>>
    BY <1>2, <2>2 DEF Disconnect, CallBack, After
  <2> QED BY <1>1, <2>3 DEF Kept, Ends
<1>3. CASE call # 0
  <2> PICK k \in 1 .. issued : k = call
    BY <1>3, TypedParts
  <2>1. /\ inflight = <<k>> /\ conn = "up" /\ told[k] = <<>> /\ k \in Ids
        /\ queue # <<>> /\ Head(queue).id = k /\ Head(queue).count = 1
        /\ queue \in Seq(Events(issued)) /\ issued \in Nat
    BY <1>3, TypedParts DEF Kept, InFlight, Front
  <2>2. PICK what \in {k, Null} : CallBack(what, more)
    BY <2>1 DEF Answer, Disconnect
  <2>3. /\ told'[k] = <<what>> /\ \A r \in Ids \ {k} : told'[r] = told[r]
        /\ issued' = (IF more THEN issued + 1 ELSE issued) /\ (more => issued < MaxReq)
    <3>1. told' = [told EXCEPT ![k] = Append(told[k], what)]
      BY <1>3, <2>2 DEF CallBack
    <3> QED BY <2>1, <2>2, <3>1, TypedParts DEF CallBack
  <2>4. \A r \in Ids : told'[r] = <<>> \/ Ends(r)'
    BY <2>2, <2>3 DEF Kept, Ends
  <2>5. \A r \in Ids : r > issued' => told'[r] = <<>>
    BY <2>1, <2>3, HttpAssumption DEF Kept, Ids
  <2>6. Ordered(queue) /\ Untried(queue) /\ Untold(queue, told')
    <3>1. \A r \in 1 .. issued : r # Head(queue).id => told'[r] = told[r]
      BY <2>1, <2>3, TypedParts
    <3> QED BY <2>1, <3>1, ToldKept DEF Kept
  <2>7. /\ Ordered(After(more)) /\ Untried(After(more)) /\ Untold(After(more), told')
        /\ After(more) # <<>> /\ After(more) \in Seq(Events(issued')) /\ issued' \in Nat
    <3>1. CASE more
      <4>1. After(more) = Append(queue, [id |-> issued + 1, count |-> 0])
        BY <3>1 DEF After, Pushed
      <4>2. issued + 1 \in Ids /\ issued + 1 > issued /\ issued + 1 # k /\ issued' = issued + 1
        BY <2>1, <2>3, <3>1, TypedParts DEF Ids
      <4>3. told'[issued + 1] = <<>>
        BY <2>3, <4>2 DEF Kept
      <4> QED BY <2>1, <2>6, <4>1, <4>2, <4>3, PushedKept, PushedQueue
    <3>2. CASE ~more
      BY <2>1, <2>3, <2>6, <3>2 DEF After
    <3> QED BY <3>1, <3>2
  <2>8. Ordered(queue)' /\ Untried(queue)' /\ Untold(queue, told)'
    <3>1. CASE Answer(more, keep)
      <4>1. queue' = Tail(After(more))
        BY <2>7, <3>1 DEF Answer
      <4> QED BY <2>7, <4>1, TailKept
    <3>2. CASE Disconnect(more)
      <4>1. queue' = After(more)
        BY <3>2 DEF Disconnect
      <4> QED BY <2>7, <4>1
    <3> QED BY <3>1, <3>2
  <2>9. inflight' = <<>> /\ conn' \in {"none", "up"}
    BY <2>1 DEF Answer, Disconnect
  <2> QED BY <1>1, <2>4, <2>5, <2>8, <2>9 DEF Kept
<1> QED BY <1>2, <1>3

LEMMA OnceStep == TypeOK /\ OnceInv /\ [Next]_vars => OnceInv'
<1> SUFFICES ASSUME TypeOK, Kept, [Next]_vars, ~overlapped', ~failed', ~moved' PROVE Kept'
  BY ExceptionsStay DEF OnceInv
<1>1. CASE Get
  <2>0. call = 0
    <3>1. overlapped' = (overlapped \/ call # 0)
      BY <1>1 DEF Get
    <3> QED BY <3>1, Zenon
  <2>1. /\ call = 0 /\ call' = 0 /\ issued + 1 \in Ids /\ issued' = issued + 1 /\ issued \in Nat
        /\ queue' = Append(queue, [id |-> issued + 1, count |-> 0])
        /\ UNCHANGED <<conn, inflight, told>>
    BY <1>1, <2>0, TypedParts DEF Get, Pushed, Ids
  <2>2. told[issued + 1] = <<>> /\ \A r \in Ids : r > issued' => told[r] = <<>>
    BY <2>1, HttpAssumption DEF Kept, Ids
  <2>3. Ordered(queue)' /\ Untried(queue)' /\ Untold(queue, told)'
    BY <2>1, <2>2, TypedParts, PushedKept DEF Kept
  <2> QED BY <2>1, <2>2, <2>3 DEF Kept, Ends
<1>2. CASE NotNow \/ Quiet \/ UNCHANGED vars
  BY <1>2 DEF NotNow, Quiet, vars, hist, Kept, InFlight, Front, Ends
<1>3. CASE NothingQueued
  <2>1. call = 0 /\ UNCHANGED <<queue, call, conn, inflight, told, issued>>
    BY <1>3 DEF NothingQueued, hist, Kept, InFlight
  <2> QED BY <2>1 DEF Kept, Ends
<1>4. CASE GiveUp
  <2>1. /\ call = 0 /\ queue # <<>> /\ queue' = Tail(queue)
        /\ UNCHANGED <<call, conn, inflight, told, issued>>
    BY <1>4 DEF GiveUp, hist, Kept, InFlight
  <2>2. Ordered(queue)' /\ Untried(queue)' /\ Untold(queue, told)'
    BY <2>1, TypedParts, TailKept DEF Kept
  <2> QED BY <2>1, <2>2 DEF Kept, Ends
<1>5. CASE SendOn
  <2>1. Turn /\ inflight = <<>> /\ inflight' = Append(inflight, Front.id)
    BY <1>5, TurnFound DEF SendOn, Kept
  <2>2. inflight' = <<Front.id>>
    BY <2>1
  <2>3. /\ queue' = Counted(queue) /\ next' = FALSE /\ call' = Front.id /\ conn' = "up"
        /\ UNCHANGED <<told, issued>>
    BY <1>5 DEF SendOn, Reusable, hist
  <2> QED BY <2>1, <2>2, <2>3, SentKept
<1>6. ASSUME NEW more \in BOOLEAN, NEW bad \in BOOLEAN, NEW ok \in BOOLEAN,
             ConnectAnew(more, bad, ok)
      PROVE  Kept'
  <2>1. conn = "none" /\ ok /\ ~bad
    BY <1>6 DEF ConnectAnew
  <2>2. Turn /\ After(more) = queue /\ UNCHANGED <<told, issued>>
    BY <1>6, <2>1 DEF ConnectAnew, After
  <2> QED BY <1>6, <2>1, <2>2, SentKept DEF ConnectAnew
<1>7. CASE Peer
  BY <1>7, PeerKept DEF Peer
<1> QED BY <1>1, <1>2, <1>3, <1>4, <1>5, <1>6, <1>7 DEF Next, NextRequest, Unresolved

\* However answers, broken connections and requests made from callbacks follow on
\* each other, no callback is called twice or with another request's answer, unless
\* one of the exceptions has happened.
THEOREM CallbacksKept == Spec => []CalledBackOnce
<1>1. Init => OnceInv
  <2> SUFFICES ASSUME Init PROVE Kept
    BY DEF OnceInv
  <2> QED BY DEF Init, Kept, Ordered, Untried, Untold
<1>2. OnceInv => CalledBackOnce
  BY DEF OnceInv, Kept, CalledBackOnce
<1> QED BY <1>1, <1>2, TypeInit, TypeStep, OnceStep, PTL DEF Spec
===============================================================================
