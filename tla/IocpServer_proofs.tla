--------------------------- MODULE IocpServer_proofs ---------------------------
(***************************************************************************)
(* Proofs about IocpServer, for any number of Client objects and handles,  *)
(* any sizes of the Buffers and any lengths of messages.                   *)
(***************************************************************************)
EXTENDS IocpServer, TLAPS

(***************************************************************************)
(* Neither property is inductive.  That a deleted Client has nothing       *)
(* posted rests on the two flags, which only live Clients have; that a     *)
(* receive stays at the end of the data rests on DoMsg having handled      *)
(* every whole message before the next receive is posted: while one is     *)
(* under way there is no message to pop.                                   *)
(***************************************************************************)
Flagged ==
  \A c \in Clients :
    /\ recvAt[c] # None => c \in postRecv
    /\ sendLen[c] # None => c \in postSend
    /\ c \in postRecv \cup postSend => life[c] = "live"
    /\ life[c] # "live" => recvLast[c] = 0

InPlace ==
  \A c \in Clients :
    /\ recvAt[c] # None => recvAt[c] = recvLast[c] /\ ~HasMsg(c)
    /\ sendLen[c] # None => sendLen[c] <= sendLast[c]

Handled == pc \in {"join", "check", "post"} => \A c \in Entered : ~HasMsg(c)

OpsInv == TypeOK /\ (pc # "done" => Flagged /\ InPlace /\ Handled)
-------------------------------------------------------------------------------
(* The helpers of the model.                                               *)

\* Deleted Clients are empty and in nobody's table; nothing else changes.
LEMMA Deleted ==
  ASSUME TypeOK, NEW D \in SUBSET Clients, Delete(D)
  PROVE  /\ life' \in [Clients -> {"new", "buffered", "live", "deleted"}]
         /\ entry' \in [Handles -> Clients \cup {None}]
         /\ closed' \subseteq Clients
         /\ recvLast' \in [Clients -> 0 .. Size - 1] /\ sendLast' \in [Clients -> 0 .. SendSize]
         /\ need' \in [Clients -> MsgLens \cup {0}]
         /\ \A c \in Clients : need'[c] = 0 <=> recvLast'[c] = 0
         /\ Entered' \subseteq Live'
         /\ Entered' \subseteq Entered
         /\ \A c \in D : life'[c] = "deleted" /\ recvLast'[c] = 0 /\ sendLast'[c] = 0 /\ need'[c] = 0
         /\ \A c \in Clients \ D :
              /\ life'[c] = life[c] /\ recvLast'[c] = recvLast[c] /\ sendLast'[c] = sendLast[c]
              /\ need'[c] = need[c]
<1>1. 0 \in 0 .. Size - 1 /\ 0 \in 0 .. SendSize /\ 0 \in MsgLens \cup {0}
  BY IocpAssumption
<1>2. /\ life' \in [Clients -> {"new", "buffered", "live", "deleted"}]
      /\ recvLast' \in [Clients -> 0 .. Size - 1] /\ sendLast' \in [Clients -> 0 .. SendSize]
      /\ need' \in [Clients -> MsgLens \cup {0}]
      /\ \A c \in Clients :
           /\ life'[c] = IF c \in D THEN "deleted" ELSE life[c]
           /\ recvLast'[c] = IF c \in D THEN 0 ELSE recvLast[c]
           /\ sendLast'[c] = IF c \in D THEN 0 ELSE sendLast[c]
           /\ need'[c] = IF c \in D THEN 0 ELSE need[c]
  <2>1. life' \in [Clients -> {"new", "buffered", "live", "deleted"}]
        /\ \A c \in Clients : life'[c] = IF c \in D THEN "deleted" ELSE life[c]
    BY DEF TypeOK, Delete, Update
  <2>2. recvLast' \in [Clients -> 0 .. Size - 1]
        /\ \A c \in Clients : recvLast'[c] = IF c \in D THEN 0 ELSE recvLast[c]
    BY <1>1 DEF TypeOK, Delete, Update
  <2>3. sendLast' \in [Clients -> 0 .. SendSize]
        /\ \A c \in Clients : sendLast'[c] = IF c \in D THEN 0 ELSE sendLast[c]
    BY <1>1 DEF TypeOK, Delete, Update
  <2>4. need' \in [Clients -> MsgLens \cup {0}]
        /\ \A c \in Clients : need'[c] = IF c \in D THEN 0 ELSE need[c]
    BY <1>1 DEF TypeOK, Delete, Update
  <2> QED BY <2>1, <2>2, <2>3, <2>4
<1>3. /\ entry' \in [Handles -> Clients \cup {None}]
      /\ \A h \in Handles : entry'[h] = IF entry[h] \in D THEN None ELSE entry[h]
  BY DEF TypeOK, Delete
<1>4. None \notin Clients
  BY IocpAssumption DEF Clients
<1>5. Entered' \subseteq Entered \ D
  BY <1>3, <1>4 DEF Entered
<1>6. Entered' \subseteq Live'
  BY <1>2, <1>5 DEF Live, TypeOK
<1>7. closed' \subseteq Clients
  BY DEF TypeOK, Delete
<1>8. \A c \in Clients : need'[c] = 0 <=> recvLast'[c] = 0
  BY <1>2 DEF TypeOK
<1> QED BY <1>2, <1>3, <1>5, <1>6, <1>7, <1>8

\* A Client whose data did not change has a whole message if it had one.
LEMMA SameMsg ==
  ASSUME NEW c \in Clients, recvLast'[c] = recvLast[c], need'[c] = need[c]
  PROVE  HasMsg(c)' <=> HasMsg(c)
BY DEF HasMsg

\* What FrontMsg leaves at the front.
LEMMA FrontTyped ==
  ASSUME TypeOK, NEW c \in Clients, FrontMsg(c), recvLast' \in [Clients -> 0 .. Size - 1],
         \A d \in Clients \ {c} : recvLast'[d] = recvLast[d]
  PROVE  /\ need' \in [Clients -> MsgLens \cup {0}]
         /\ \A d \in Clients : need'[d] = 0 <=> recvLast'[d] = 0
         /\ \A d \in Clients \ {c} : need'[d] = need[d]
<1>1. recvLast'[c] \in Nat /\ recvLast[c] \in Nat /\ MsgLens \subseteq Nat \ {0}
  BY IocpAssumption DEF TypeOK
<1>2. \/ \E n \in MsgLens : need' = [need EXCEPT ![c] = n] /\ recvLast'[c] > 0
      \/ need' = [need EXCEPT ![c] = 0] /\ recvLast'[c] = 0
      \/ need' = need /\ recvLast'[c] # 0 /\ need[c] # 0
  BY <1>1 DEF FrontMsg, TypeOK
<1>3. ASSUME NEW n \in MsgLens \cup {0}, need' = [need EXCEPT ![c] = n], n = 0 <=> recvLast'[c] = 0
      PROVE  /\ need' \in [Clients -> MsgLens \cup {0}]
             /\ \A d \in Clients : need'[d] = 0 <=> recvLast'[d] = 0
             /\ \A d \in Clients \ {c} : need'[d] = need[d]
  BY <1>3 DEF TypeOK
<1>4. CASE need' = need /\ recvLast'[c] # 0 /\ need[c] # 0
  BY <1>4 DEF TypeOK
<1> QED BY <1>1, <1>2, <1>3, <1>4
-------------------------------------------------------------------------------
(* The steps of the accept thread and of the net thread.                   *)

LEMMA AcceptStep ==
  ASSUME OpsInv, NEW c \in Clients, NEW h \in Handles, Accept(c, h)
  PROVE  OpsInv'
<1>1. /\ TypeOK /\ Flagged /\ InPlace /\ Handled
      /\ pc' = pc /\ life[c] = "new" /\ life' = [life EXCEPT ![c] = "buffered"]
      /\ handle' = [handle EXCEPT ![c] = h]
      /\ UNCHANGED <<entry, closed, postRecv, postSend, recvAt, sendLen, recvLast, sendLast, need>>
  BY DEF OpsInv, Accept, posting
<1>2. Entered' = Entered /\ \A d \in Clients : HasMsg(d)' <=> HasMsg(d)
  BY <1>1, SameMsg DEF Entered
<1>3. \A d \in Clients : life[d] = "live" <=> life'[d] = "live"
  BY <1>1 DEF TypeOK
<1>4. TypeOK'
  BY <1>1, <1>2, <1>3 DEF TypeOK, Live
<1>5. Flagged'
  BY <1>1, <1>3 DEF Flagged
<1>6. InPlace'
  BY <1>1, <1>2 DEF InPlace
<1>7. Handled'
  BY <1>1, <1>2 DEF Handled, Entered
<1> QED BY <1>4, <1>5, <1>6, <1>7 DEF OpsInv

\* Only buffered Clients are entered; they are empty and have nothing posted.
LEMMA JoinStep ==
  ASSUME OpsInv, Join
  PROVE  OpsInv'
<1> DEFINE B == {c \in Clients : life[c] = "buffered"}
<1>1. /\ TypeOK /\ Flagged /\ InPlace /\ Handled
      /\ pc = "join" /\ pc' \in {"join", "check"}
      /\ UNCHANGED <<handle, closed, postRecv, postSend, recvAt, sendLen, recvLast, sendLast, need>>
  BY DEF OpsInv, Join, posting
<1>2. /\ life' \in [Clients -> {"new", "buffered", "live", "deleted"}]
      /\ \A c \in Clients : life'[c] = IF c \in B THEN "live" ELSE life[c]
  BY <1>1 DEF Join, Update, TypeOK
<1>3. /\ entry' \in [Handles -> Clients \cup {None}]
      /\ \A h \in Handles : entry'[h] \in B \cup {entry[h]}
  <2>1. entry' = [h \in Handles |-> IF \E c \in B : handle[c] = h
                                      THEN CHOOSE c \in B : handle[c] = h ELSE entry[h]]
    BY DEF Join
  <2>2. ASSUME NEW h \in Handles, \E c \in B : handle[c] = h
        PROVE  (CHOOSE c \in B : handle[c] = h) \in B
    BY <2>2
  <2>3. \A h \in Handles : entry'[h] \in B \cup {entry[h]}
    BY <2>1, <2>2
  <2> QED BY <1>1, <2>1, <2>3 DEF TypeOK
<1>4. Entered' \subseteq Entered \cup B
  BY <1>3 DEF Entered
<1>5. TypeOK'
  <2>1. Entered' \subseteq Live'
    BY <1>1, <1>2, <1>4 DEF TypeOK, Live
  <2> QED BY <1>1, <1>2, <1>3, <2>1 DEF TypeOK
<1>6. \A c \in Clients : HasMsg(c)' <=> HasMsg(c)
  BY <1>1, SameMsg
<1>7. \A c \in B : ~HasMsg(c)
  BY <1>1 DEF Flagged, TypeOK, HasMsg
<1>8. Handled'
  BY <1>1, <1>4, <1>6, <1>7 DEF Handled, Entered
<1>9. Flagged' /\ InPlace'
  BY <1>1, <1>2, <1>6 DEF Flagged, InPlace
<1> QED BY <1>5, <1>8, <1>9 DEF OpsInv

\* CheckTime deletes none for which something is posted.
LEMMA CheckStep ==
  ASSUME OpsInv, NEW D \in SUBSET Entered, Check(D)
  PROVE  OpsInv'
<1> DEFINE K == D \ (postRecv \cup postSend)
<1>1. /\ TypeOK /\ Flagged /\ InPlace /\ Handled
      /\ pc = "check" /\ pc' = "post" /\ Delete(K) /\ handle' = Update(handle, D, None)
      /\ UNCHANGED <<postRecv, postSend, recvAt, sendLen>>
  BY DEF OpsInv, Check, posting
<1>2. K \in SUBSET Clients
  BY DEF Entered
<1> HIDE DEF K
<1>3. handle' \in [Clients -> Handles \cup {None}]
  BY <1>1 DEF TypeOK, Update
<1>4. TypeOK'
  BY <1>1, <1>2, <1>3, Deleted DEF TypeOK
<1>5. \A c \in Clients \ K : HasMsg(c)' <=> HasMsg(c)
  BY <1>1, <1>2, SameMsg, Deleted
<1>6. \A c \in K : recvAt[c] = None /\ sendLen[c] = None /\ c \notin postRecv \cup postSend
                   /\ ~HasMsg(c)'
  <2>1. \A c \in K : recvAt[c] = None /\ sendLen[c] = None /\ c \notin postRecv \cup postSend
    BY <1>1, <1>2 DEF K, Flagged
  <2>2. \A c \in K : ~HasMsg(c)'
    BY <1>1, <1>2, Deleted DEF HasMsg
  <2> QED BY <2>1, <2>2
<1>7. Flagged'
  <2> SUFFICES ASSUME NEW c \in Clients
               PROVE  /\ recvAt'[c] # None => c \in postRecv'
                      /\ sendLen'[c] # None => c \in postSend'
                      /\ c \in postRecv' \cup postSend' => life'[c] = "live"
                      /\ life'[c] # "live" => recvLast'[c] = 0
    BY DEF Flagged
  <2>1. CASE c \in K
    BY <1>1, <1>2, <1>6, <2>1, Deleted
  <2>2. CASE c \notin K
    BY <1>1, <1>2, <2>2, Deleted DEF Flagged
  <2> QED BY <2>1, <2>2
<1>8. InPlace'
  <2> SUFFICES ASSUME NEW c \in Clients
               PROVE  /\ recvAt'[c] # None => recvAt'[c] = recvLast'[c] /\ ~HasMsg(c)'
                      /\ sendLen'[c] # None => sendLen'[c] <= sendLast'[c]
    BY DEF InPlace
  <2>1. CASE c \in K
    BY <1>1, <1>6, <2>1
  <2>2. CASE c \notin K
    BY <1>1, <1>2, <1>5, <2>2, Deleted DEF InPlace
  <2> QED BY <2>1, <2>2
<1>9. Handled'
  <2>1. ASSUME NEW c \in Entered' PROVE c \in Entered /\ c \in Clients /\ ~HasMsg(c)'
    <3>1. c \in Entered /\ c \in Clients
      BY <1>1, <1>2, Deleted DEF Entered
    <3> QED BY <1>1, <1>5, <1>6, <3>1 DEF Handled
  <2> QED BY <2>1 DEF Handled
<1> QED BY <1>4, <1>7, <1>8, <1>9 DEF OpsInv

\* What is posted is posted at the end of the data, of which nothing is a message.
LEMMA PostStep ==
  ASSUME OpsInv, NEW F, NEW G, Post(F, G)
  PROVE  OpsInv'
<1> DEFINE sent == SendReady \ F
           asked == RecvReady \ F
           received == {c \in asked \ G : ~Full(c)}
<1>1. /\ TypeOK /\ Flagged /\ InPlace /\ Handled
      /\ pc = "post" /\ pc' = "poll" /\ F \subseteq SendReady /\ G \subseteq asked
      /\ postSend' = postSend \cup sent
      /\ sendLen' = [c \in Clients |-> IF c \in sent THEN sendLast[c] ELSE sendLen[c]]
      /\ postRecv' = postRecv \cup (asked \ G)
      /\ recvAt' = [c \in Clients |-> IF c \in received THEN recvLast[c] ELSE recvAt[c]]
      /\ closed' = closed \cup F \cup G
      /\ UNCHANGED <<life, entry, handle, recvLast, sendLast, need>>
  BY DEF OpsInv, Post
<1>2. /\ sent \subseteq Entered /\ asked \subseteq Entered /\ received \subseteq asked \ G
      /\ Entered \subseteq Live /\ Live \subseteq Clients /\ F \subseteq Entered
      /\ \A c \in sent : sendLast[c] > 0 /\ \A d \in received : ~Full(d)
  BY <1>1 DEF SendReady, RecvReady, TypeOK, Live
<1> HIDE DEF sent, asked, received
<1>3. Entered' = Entered /\ Live' = Live /\ \A c \in Clients : HasMsg(c)' <=> HasMsg(c)
  BY <1>1, SameMsg DEF Entered, Live
<1>4. sendLen' \in [Clients -> (1 .. SendSize) \cup {None}]
  <2>1. \A c \in sent : sendLast[c] \in 1 .. SendSize
    BY <1>1, <1>2, IocpAssumption DEF TypeOK
  <2> QED BY <1>1, <2>1 DEF TypeOK
<1>5. recvAt' \in [Clients -> (0 .. Size - 1) \cup {None}]
  BY <1>1 DEF TypeOK
<1>6. TypeOK'
  <2>1. closed' \subseteq Clients /\ postRecv' \subseteq Clients /\ postSend' \subseteq Clients
    BY <1>1, <1>2 DEF TypeOK
  <2> QED BY <1>1, <1>3, <1>4, <1>5, <2>1 DEF TypeOK
<1>7. Flagged'
  BY <1>1, <1>2 DEF Flagged, Live
<1>8. InPlace'
  <2>1. \A c \in received : ~HasMsg(c)
    BY <1>1, <1>2 DEF Handled
  <2>2. \A c \in Clients : sendLast[c] \in Int
    BY <1>1, IocpAssumption DEF TypeOK
  <2> QED BY <1>1, <1>3, <2>1, <2>2 DEF InPlace
<1>9. Handled'
  BY <1>1 DEF Handled
<1> QED BY <1>6, <1>7, <1>8, <1>9 DEF OpsInv

\* The bytes of a receive go to the end of the data, where there is room for them.
LEMMA RecvDoneStep ==
  ASSUME OpsInv, NEW c \in Clients, NEW n \in 1 .. Size, RecvDone(c, n)
  PROVE  OpsInv'
<1>1. /\ TypeOK /\ Flagged /\ InPlace
      /\ pc = "poll" /\ pc' = "poll" /\ recvAt[c] # None /\ n \in 1 .. (Size - recvAt[c]) - 1
      /\ recvAt' = [recvAt EXCEPT ![c] = None] /\ postRecv' = postRecv \ {c}
      /\ recvLast' = IF Size - recvLast[c] >= n THEN [recvLast EXCEPT ![c] = @ + n] ELSE recvLast
      /\ FrontMsg(c)
      /\ UNCHANGED <<life, entry, handle, closed, postSend, sendLen, sendLast>>
  BY DEF OpsInv, RecvDone
<1>2. /\ recvLast' \in [Clients -> 0 .. Size - 1]
      /\ \A d \in Clients \ {c} : recvLast'[d] = recvLast[d]
  <2>1. recvAt[c] = recvLast[c] /\ recvLast[c] \in 0 .. Size - 1 /\ Size \in Nat
    BY <1>1, IocpAssumption DEF InPlace, TypeOK
  <2>2. recvLast[c] + n \in 0 .. Size - 1
    BY <1>1, <2>1
  <2> QED BY <1>1, <2>2 DEF TypeOK
<1>3. /\ need' \in [Clients -> MsgLens \cup {0}]
      /\ \A d \in Clients : need'[d] = 0 <=> recvLast'[d] = 0
      /\ \A d \in Clients \ {c} : need'[d] = need[d]
  BY <1>1, <1>2, FrontTyped
<1>4. Entered' = Entered /\ Live' = Live
  BY <1>1 DEF Entered, Live
<1>5. TypeOK'
  BY <1>1, <1>2, <1>3, <1>4 DEF TypeOK
<1>6. \A d \in Clients \ {c} : HasMsg(d)' <=> HasMsg(d)
  BY <1>2, <1>3, SameMsg
<1>7. Flagged'
  <2>1. life[c] = "live"
    BY <1>1 DEF Flagged
  <2> QED BY <1>1, <1>2, <2>1 DEF Flagged, TypeOK
<1>8. InPlace'
  <2> SUFFICES ASSUME NEW d \in Clients
               PROVE  /\ recvAt'[d] # None => recvAt'[d] = recvLast'[d] /\ ~HasMsg(d)'
                      /\ sendLen'[d] # None => sendLen'[d] <= sendLast'[d]
    BY DEF InPlace
  <2>1. CASE d = c
    BY <1>1, <2>1 DEF InPlace, TypeOK
  <2>2. CASE d # c
    BY <1>1, <1>2, <1>6, <2>2 DEF InPlace, TypeOK
  <2> QED BY <2>1, <2>2
<1> QED BY <1>1, <1>5, <1>7, <1>8 DEF OpsInv, Handled

\* An operation is given back, and its flag with it.
LEMMA GivenBackStep ==
  ASSUME OpsInv, NEW c \in Clients,
         RecvFails(c) \/ SendFails(c) \/ \E n \in 1 .. SendSize : SendDone(c, n)
  PROVE  OpsInv'
<1>1. /\ TypeOK /\ Flagged /\ InPlace
      /\ pc = "poll" /\ pc' = "poll" /\ closed' \subseteq Clients
      /\ UNCHANGED <<life, entry, handle, recvLast, need>>
  BY DEF OpsInv, RecvFails, SendFails, SendDone, TypeOK
<1>2. \/ /\ recvAt' = [recvAt EXCEPT ![c] = None] /\ postRecv' = postRecv \ {c}
         /\ UNCHANGED <<postSend, sendLen, sendLast>>
      \/ /\ sendLen' = [sendLen EXCEPT ![c] = None] /\ postSend' = postSend \ {c}
         /\ sendLast' \in [Clients -> 0 .. SendSize]
         /\ \A d \in Clients \ {c} : sendLast'[d] = sendLast[d]
         /\ UNCHANGED <<postRecv, recvAt>>
  <2>1. CASE RecvFails(c)
    BY <2>1 DEF RecvFails
  <2>2. CASE SendFails(c)
    BY <1>1, <2>2 DEF SendFails, TypeOK
  <2>3. ASSUME NEW n \in 1 .. SendSize, SendDone(c, n)
        PROVE  /\ sendLen' = [sendLen EXCEPT ![c] = None] /\ postSend' = postSend \ {c}
               /\ sendLast' \in [Clients -> 0 .. SendSize]
               /\ \A d \in Clients \ {c} : sendLast'[d] = sendLast[d]
               /\ UNCHANGED <<postRecv, recvAt>>
    <3>1. sendLast[c] \in 0 .. SendSize /\ SendSize \in Nat
      BY <1>1, IocpAssumption DEF TypeOK
    <3>2. ~(sendLast[c] < n) => sendLast[c] - n \in 0 .. SendSize
      BY <3>1
    <3>3. sendLast' = IF sendLast[c] < n THEN sendLast ELSE [sendLast EXCEPT ![c] = @ - n]
      BY <2>3 DEF SendDone
    <3>4. sendLast' \in [Clients -> 0 .. SendSize] /\ \A d \in Clients \ {c} : sendLast'[d] = sendLast[d]
      BY <1>1, <3>2, <3>3 DEF TypeOK
    <3> QED BY <2>3, <3>4 DEF SendDone
  <2> QED BY <2>1, <2>2, <2>3
<1>3. Entered' = Entered /\ Live' = Live /\ \A d \in Clients : HasMsg(d)' <=> HasMsg(d)
  BY <1>1, SameMsg DEF Entered, Live
<1>4. TypeOK'
  <2>1. /\ recvAt' \in [Clients -> (0 .. Size - 1) \cup {None}]
        /\ sendLen' \in [Clients -> (1 .. SendSize) \cup {None}]
        /\ sendLast' \in [Clients -> 0 .. SendSize]
        /\ postRecv' \subseteq Clients /\ postSend' \subseteq Clients
    BY <1>1, <1>2 DEF TypeOK
  <2> QED BY <1>1, <1>3, <2>1 DEF TypeOK
<1>5. Flagged'
  BY <1>1, <1>2 DEF Flagged, TypeOK
<1>6. InPlace'
  BY <1>1, <1>2, <1>3 DEF InPlace, TypeOK
<1> QED BY <1>1, <1>4, <1>5, <1>6 DEF OpsInv, Handled

\* A message is popped only where no receive is under way.
LEMMA HandleMsgStep ==
  ASSUME OpsInv, NEW c \in Clients, NEW a \in 0 .. 1, NEW b \in BOOLEAN, HandleMsg(c, a, b)
  PROVE  OpsInv'
<1>1. /\ TypeOK /\ Flagged /\ InPlace
      /\ pc = "msg" /\ pc' = "msg" /\ c \in Entered /\ HasMsg(c) /\ FrontMsg(c)
      /\ recvLast' = [recvLast EXCEPT ![c] = @ - need[c]]
      /\ sendLast' = IF sendLast[c] + a <= SendSize
                       THEN [sendLast EXCEPT ![c] = @ + a] ELSE sendLast
      /\ closed' = IF b THEN closed \cup {c} ELSE closed
      /\ UNCHANGED <<life, entry, handle, postRecv, postSend, recvAt, sendLen>>
  BY DEF OpsInv, HandleMsg, posting
<1>2. life[c] = "live" /\ recvAt[c] = None
  BY <1>1 DEF TypeOK, Live, InPlace
<1>3. /\ recvLast' \in [Clients -> 0 .. Size - 1]
      /\ \A d \in Clients \ {c} : recvLast'[d] = recvLast[d]
  <2>1. need[c] \in Nat /\ recvLast[c] \in 0 .. Size - 1 /\ recvLast[c] >= need[c] /\ Size \in Nat
    BY <1>1, IocpAssumption DEF TypeOK, HasMsg
  <2>2. recvLast[c] - need[c] \in 0 .. Size - 1
    BY <2>1
  <2> QED BY <1>1, <2>2 DEF TypeOK
<1>4. /\ sendLast' \in [Clients -> 0 .. SendSize]
      /\ \A d \in Clients : sendLast'[d] >= sendLast[d]
  <2>1. \A d \in Clients : sendLast[d] \in 0 .. SendSize
    BY <1>1 DEF TypeOK
  <2>2. SendSize \in Nat
    BY IocpAssumption
  <2>3. sendLast[c] + a <= SendSize => sendLast[c] + a \in 0 .. SendSize /\ sendLast[c] + a >= sendLast[c]
    BY <2>1, <2>2
  <2> QED BY <1>1, <2>1, <2>2, <2>3 DEF TypeOK
<1>5. /\ need' \in [Clients -> MsgLens \cup {0}]
      /\ \A d \in Clients : need'[d] = 0 <=> recvLast'[d] = 0
      /\ \A d \in Clients \ {c} : need'[d] = need[d]
  BY <1>1, <1>3, FrontTyped
<1>6. Entered' = Entered /\ Live' = Live /\ \A d \in Clients \ {c} : HasMsg(d)' <=> HasMsg(d)
  BY <1>1, <1>3, <1>5, SameMsg DEF Entered, Live
<1>7. TypeOK'
  BY <1>1, <1>3, <1>4, <1>5, <1>6 DEF TypeOK
<1>8. Flagged'
  BY <1>1, <1>2, <1>3 DEF Flagged
<1>9. InPlace'
  <2> SUFFICES ASSUME NEW d \in Clients
               PROVE  /\ recvAt'[d] # None => recvAt'[d] = recvLast'[d] /\ ~HasMsg(d)'
                      /\ sendLen'[d] # None => sendLen'[d] <= sendLast'[d]
    BY DEF InPlace
  <2>1. recvAt'[d] # None => recvAt'[d] = recvLast'[d] /\ ~HasMsg(d)'
    BY <1>1, <1>2, <1>3, <1>6 DEF InPlace
  <2>2. sendLen'[d] # None => sendLen'[d] <= sendLast'[d]
    <3>1. sendLen'[d] = sendLen[d] /\ (sendLen[d] # None => sendLen[d] <= sendLast[d])
      BY <1>1 DEF InPlace
    <3>2. (sendLen[d] # None => sendLen[d] \in Int) /\ sendLast[d] \in Int /\ sendLast'[d] \in Int
      BY <1>1, <1>4, IocpAssumption DEF TypeOK
    <3>3. sendLast'[d] >= sendLast[d]
      BY <1>4
    <3> QED BY <3>1, <3>2, <3>3
  <2> QED BY <2>1, <2>2
<1> QED BY <1>1, <1>7, <1>8, <1>9 DEF OpsInv, Handled

\* The round goes on; the next posts find every whole message handled.
LEMMA QuietStep ==
  ASSUME OpsInv, PollQuiet \/ MsgEnd \/ UNCHANGED vars
  PROVE  OpsInv'
<1>1. UNCHANGED <<life, entry, handle, closed, postRecv, postSend, recvAt, sendLen, recvLast, sendLast, need>>
  BY DEF PollQuiet, MsgEnd, vars, posting
<1>2. Entered' = Entered /\ Live' = Live /\ \A d \in Clients : HasMsg(d)' <=> HasMsg(d)
  BY <1>1, SameMsg DEF Entered, Live
<1>3. pc' \in {"join", "check", "post", "poll", "msg", "done"} /\ (pc' # "done" => pc # "done")
  BY DEF PollQuiet, MsgEnd, vars, OpsInv, TypeOK
<1>4. TypeOK'
  BY <1>1, <1>2, <1>3 DEF OpsInv, TypeOK
<1>5. pc' # "done" => Flagged' /\ InPlace'
  BY <1>1, <1>2, <1>3 DEF OpsInv, Flagged, InPlace
<1>6. pc' # "done" => Handled'
  BY <1>1, <1>2 DEF PollQuiet, MsgEnd, vars, OpsInv, Handled, Entered
<1> QED BY <1>4, <1>5, <1>6 DEF OpsInv

\* The end: every entered or buffered Client is deleted.
LEMMA StopStep ==
  ASSUME OpsInv, Stop
  PROVE  OpsInv'
<1> DEFINE D == Entered \cup {c \in Clients : life[c] = "buffered"}
<1>1. /\ TypeOK /\ pc' = "done" /\ Delete(D) /\ handle' = Update(handle, D, None)
      /\ UNCHANGED <<postRecv, postSend, recvAt, sendLen>>
  BY DEF OpsInv, Stop, posting
<1>2. D \in SUBSET Clients
  BY DEF Entered
<1> HIDE DEF D
<1>3. handle' \in [Clients -> Handles \cup {None}]
  BY <1>1 DEF TypeOK, Update
<1>4. TypeOK'
  BY <1>1, <1>2, <1>3, Deleted DEF TypeOK
<1> QED BY <1>1, <1>4 DEF OpsInv
-------------------------------------------------------------------------------
(* All together.                                                           *)

LEMMA OpsStep ==
  ASSUME OpsInv, [Next]_vars
  PROVE  OpsInv'
BY AcceptStep, JoinStep, CheckStep, PostStep, RecvDoneStep, GivenBackStep, HandleMsgStep,
   QuietStep, StopStep DEF Next, Net, RecvCompletes, SendCompletes

LEMMA OpsInit ==
  ASSUME Init
  PROVE  OpsInv
<1>1. TypeOK
  BY IocpAssumption DEF Init, TypeOK, Entered, Clients
<1>2. \A c \in Clients : ~HasMsg(c)
  BY DEF Init, HasMsg
<1>3. Flagged /\ InPlace /\ Handled
  BY <1>2 DEF Init, Flagged, InPlace, Handled, Entered
<1> QED BY <1>1, <1>3 DEF OpsInv

\* The variables always have their types: only live Clients have an entry, no
\* receive goes past the end of its Buffer, no Buffer exceeds its size.
THEOREM TypeCorrect == Spec => []TypeOK
<1>1. OpsInv => TypeOK
  BY DEF OpsInv
<1>2. OpsInv /\ [Next]_vars => OpsInv'
  BY OpsStep
<1>3. Init => OpsInv
  BY OpsInit
<1> QED BY <1>1, <1>2, <1>3, PTL DEF Spec

\* As long as the net thread runs, a Client that CheckTime deletes has no
\* operation with the kernel left (Server::CheckTime, Client::isPostIoAction).
THEOREM OpsOwned == Spec => []OpsHaveOwners
<1>1. OpsInv => OpsHaveOwners
  BY DEF OpsInv, OpsHaveOwners, Flagged
<1>2. OpsInv /\ [Next]_vars => OpsInv'
  BY OpsStep
<1>3. Init => OpsInv
  BY OpsInit
<1> QED BY <1>1, <1>2, <1>3, PTL DEF Spec

\* What the kernel fills or sends stays where it was posted, although DoMsg pops
\* and appends to the same Buffers (Buffer::makeRecvIoData, pop, write4socket).
THEOREM OpsStay == Spec => []OpsInPlace
<1>1. OpsInv => OpsInPlace
  BY DEF OpsInv, OpsInPlace, InPlace
<1>2. OpsInv /\ [Next]_vars => OpsInv'
  BY OpsStep
<1>3. Init => OpsInv
  BY OpsInit
<1> QED BY <1>1, <1>2, <1>3, PTL DEF Spec
===============================================================================
