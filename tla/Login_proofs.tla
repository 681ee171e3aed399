------------------------------ MODULE Login_proofs ------------------------------
(***************************************************************************)
(* Proofs about Login, for any numbers of users, clients, addresses and    *)
(* tokens: the types, that the maps of UserManager by user and by token    *)
(* hold the same records although its map by client dangles, that a logout *)
(* ends the session it was sent for, and that a user has one session.      *)
(***************************************************************************)
EXTENDS Login, TLAPS

Record == [token : {0} \cup Tokens, userId : {0} \cup Users, clientId : {0} \cup Clients]

\* The tables of UserManager, and their agreement, for any value of the maps
\* m = [heap, token, user, client].
Managers ==
  [heap : [Addr -> Record], token : [Tokens -> {0} \cup Addr],
   user : [Users -> {0} \cup Addr], client : [Clients -> {0} \cup Addr]]

Agree(m) ==
  \A a \in Addr :
    IF m.heap[a] = Freed
      THEN (\A u \in Users : m.user[u] # a) /\ (\A t \in Tokens : m.token[t] # a)
      ELSE /\ m.heap[a].userId \in Users /\ m.heap[a].token \in Tokens
           /\ \A u \in Users : m.user[u] = a <=> u = m.heap[a].userId
           /\ \A t \in Tokens : m.token[t] = a <=> t = m.heap[a].token

LoginInv == TypeOK /\ Agree(Manager)

LEMMA FreedRecord == Freed \in Record
BY DEF Freed, Record

\* A record that is removed leaves nothing behind in the maps by user and by token.
LEMMA RemoveAgrees ==
  ASSUME NEW m \in Managers, Agree(m), NEW a \in Addr, m.heap[a] # Freed
  PROVE  Remove(m, a) \in Managers /\ Agree(Remove(m, a))
<1> DEFINE n == Remove(m, a)
           r == m.heap[a]
<1>1. r \in Record /\ r.userId \in Users /\ r.token \in Tokens
  BY DEF Managers, Agree
<1>2. /\ n.heap = [m.heap EXCEPT ![a] = Freed]
      /\ n.token = [m.token EXCEPT ![r.token] = 0]
      /\ n.user = [m.user EXCEPT ![r.userId] = 0]
      /\ n.client = [c \in Clients |-> IF c = r.clientId THEN 0 ELSE m.client[c]]
  BY DEF Remove
<1>3. n.client \in [Clients -> {0} \cup Addr]
  BY <1>2 DEF Managers
<1>4. /\ n.heap \in [Addr -> Record]
      /\ n.token \in [Tokens -> {0} \cup Addr]
      /\ n.user \in [Users -> {0} \cup Addr]
  BY <1>1, <1>2, FreedRecord DEF Managers
<1>5. n = [heap |-> n.heap, token |-> n.token, user |-> n.user, client |-> n.client]
  BY DEF Remove
<1>6. n \in Managers
  BY <1>3, <1>4, <1>5 DEF Managers
<1>7. /\ \A b \in Addr : n.heap[b] = IF b = a THEN Freed ELSE m.heap[b]
      /\ \A t \in Tokens : n.token[t] = IF t = r.token THEN 0 ELSE m.token[t]
      /\ \A u \in Users : n.user[u] = IF u = r.userId THEN 0 ELSE m.user[u]
  BY <1>1, <1>2 DEF Managers
<1>8. /\ \A u \in Users : m.user[u] = a <=> u = r.userId
      /\ \A t \in Tokens : m.token[t] = a <=> t = r.token
  BY DEF Agree
<1> HIDE DEF n, r
<1>9. Agree(n)
  BY <1>7, <1>8, LoginAssumption DEF Agree
<1> QED BY <1>6, <1>9 DEF n

\* A record with a new token, for a user without a record, keeps them in agreement.
LEMMA AddAgrees ==
  ASSUME NEW m \in Managers, Agree(m),
         NEW b \in Addr, NEW t \in Tokens, NEW u \in Users, NEW c \in Clients,
         m.heap[b] = Freed, m.token[t] = 0, m.user[u] = 0
  PROVE  Add(m, b, t, u, c) \in Managers /\ Agree(Add(m, b, t, u, c))
<1> DEFINE n == Add(m, b, t, u, c)
           r == [token |-> t, userId |-> u, clientId |-> c]
<1>1. r \in Record /\ r # Freed /\ r.token = t /\ r.userId = u
  <2>1. t # 0
    BY DEF Tokens
  <2> QED BY <2>1 DEF Record, Freed
<1>2. /\ n.heap = [m.heap EXCEPT ![b] = r]
      /\ n.token = [m.token EXCEPT ![t] = b]
      /\ n.user = [m.user EXCEPT ![u] = b]
      /\ n.client = [m.client EXCEPT ![c] = b]
  BY DEF Add
<1>3. n = [heap |-> n.heap, token |-> n.token, user |-> n.user, client |-> n.client]
  BY DEF Add
<1> HIDE DEF n, r
<1>4. /\ n.heap \in [Addr -> Record]
      /\ n.token \in [Tokens -> {0} \cup Addr]
      /\ n.user \in [Users -> {0} \cup Addr]
      /\ n.client \in [Clients -> {0} \cup Addr]
  BY <1>1, <1>2 DEF Managers
<1>5. n \in Managers
  BY <1>3, <1>4 DEF Managers
<1>6. /\ \A a \in Addr : n.heap[a] = IF a = b THEN r ELSE m.heap[a]
      /\ \A s \in Tokens : n.token[s] = IF s = t THEN b ELSE m.token[s]
      /\ \A v \in Users : n.user[v] = IF v = u THEN b ELSE m.user[v]
  BY <1>2 DEF Managers
<1>7. (\A v \in Users : m.user[v] # b) /\ (\A s \in Tokens : m.token[s] # b)
  BY DEF Agree
<1>8. Agree(n)
  BY <1>1, <1>6, <1>7, LoginAssumption DEF Agree
<1> QED BY <1>5, <1>8 DEF n
-------------------------------------------------------------------------------
(* The LoginServer                                                         *)

LEMMA ManagerTyped == TypeOK <=> /\ Manager \in Managers
                                 /\ open \subseteq Clients /\ own \subseteq Clients
                                 /\ userId \in [Clients -> {0} \cup Users]
                                 /\ token \in [Clients -> {0} \cup Tokens]
                                 /\ up \in Seq(Upward) /\ down \in Seq(Downward)
                                 /\ issued \in 0 .. MaxToken /\ wild \in BOOLEAN
                                 /\ lost \in BOOLEAN
BY DEF TypeOK, Manager, Managers, Record

LEMMA BecomesManager ==
  ASSUME NEW m \in Managers, Becomes(m)
  PROVE  Manager' = m
<1>1. m = [heap |-> m.heap, token |-> m.token, user |-> m.user, client |-> m.client]
  BY DEF Managers
<1> QED BY <1>1 DEF Manager, Becomes

LEMMA NoticeTyped ==
  ASSUME NEW type \in {"login", "logout"}, NEW r \in Record, NEW mine \in BOOLEAN,
         r.token \in Tokens, r.userId \in Users, r.clientId \in Clients
  PROVE  ToLink(type, r, mine) \in Downward
BY DEF ToLink, Downward

LEMMA PushTyped ==
  ASSUME NEW S, NEW q \in Seq(S), NEW m \in Seq(S)
  PROVE  Push(q, m) \in Seq(S) /\ Len(Push(q, m)) \in Nat
<1>1. q \o m \in Seq(S)
  OBVIOUS
<1> QED BY <1>1 DEF Push

LEMMA PushedTyped ==
  ASSUME down \in Seq(Downward), lost \in BOOLEAN,
         NEW out \in Seq(Downward), NEW in \in Seq(Downward), Pushed(out, in)
  PROVE  down' \in Seq(Downward) /\ lost' \in BOOLEAN
BY PushTyped DEF Pushed

\* Nothing is lost just if everything is sent.
LEMMA PushedAll ==
  ASSUME NEW S, down \in Seq(S), NEW out \in Seq(S), NEW in \in Seq(S),
         Pushed(out, in), ~lost'
  PROVE  ~lost /\ down' = down \o out \o in
<1>1. ~lost /\ Len(down') = Len(down) + Len(out) + Len(in)
  BY DEF Pushed
<1>2. PICK q : q = Push(down, out)
  OBVIOUS
<1>3. q \in Seq(S) /\ (q = down \o out \/ q = down)
  BY <1>2, PushTyped DEF Push
<1>4. down' = q \o in \/ down' = q
  BY <1>2 DEF Pushed, Push
<1>5. /\ Len(down \o out) = Len(down) + Len(out)
      /\ Len(q \o in) = Len(q) + Len(in)
      /\ Len(down) \in Nat /\ Len(out) \in Nat /\ Len(in) \in Nat /\ Len(q) \in Nat
  BY <1>3
<1>6. Len(q) = Len(down) + Len(out)
  BY <1>1, <1>3, <1>4, <1>5
<1>7. q = down \o out
  <2>1. Len(out) = 0 => out = <<>> /\ down \o out = down
    OBVIOUS
  <2> QED BY <1>3, <1>5, <1>6, <2>1
<1>8. down' = q \o in
  <2>1. Len(in) = 0 => in = <<>> /\ q \o in = q
    BY <1>3
  <2> QED BY <1>1, <1>4, <1>5, <1>6, <2>1
<1> QED BY <1>1, <1>7, <1>8

LEMMA ReplaceAgrees ==
  ASSUME LoginInv, NEW u \in Users, NEW c \in Clients, NEW mine \in BOOLEAN,
         Replace(u, c, mine)
  PROVE  /\ Manager' \in Managers /\ Agree(Manager')
         /\ down' \in Seq(Downward)
         /\ issued' \in 0 .. MaxToken /\ wild' = wild /\ lost' \in BOOLEAN
<1> DEFINE a == byUserId[u]
           m == IF a = 0 THEN Manager ELSE Remove(Manager, a)
           t == issued + 1
           out == IF a # 0 /\ heap[a].clientId # 0
                    THEN <<ToLink("logout", heap[a], FALSE)>> ELSE <<>>
           added == [token |-> t, userId |-> u, clientId |-> c]
           news == <<ToLink("login", added, mine)>>
<1>1. /\ Manager \in Managers /\ Agree(Manager) /\ down \in Seq(Downward) /\ lost \in BOOLEAN
      /\ Manager.user = byUserId /\ Manager.heap = heap
  BY ManagerTyped DEF LoginInv, Manager
<1>2. a = 0 \/ (a \in Addr /\ heap[a] # Freed)
  BY <1>1 DEF Managers, Agree
<1>3. m \in Managers /\ Agree(m)
  <2>1. CASE a = 0
    BY <1>1, <2>1
  <2>2. CASE a # 0
    BY <1>1, <1>2, <2>2, RemoveAgrees
  <2> QED BY <2>1, <2>2
<1>4. t \in Tokens /\ issued' = t /\ wild' = wild
  BY DEF Replace
<1>5. out \in Seq(Downward)
  <2>1. CASE a # 0 /\ heap[a].clientId # 0
    <3>1. /\ heap[a] \in Record /\ heap[a].token \in Tokens /\ heap[a].userId \in Users
      BY <1>1, <1>2, <2>1 DEF Managers, Agree
    <3>2. heap[a].clientId \in Clients
      BY <2>1, <3>1 DEF Record
    <3>3. ToLink("logout", heap[a], FALSE) \in Downward
      BY <3>1, <3>2, NoticeTyped
    <3>4. PICK d \in Downward : out = <<d>>
      BY <2>1, <3>3, Zenon
    <3> HIDE DEF out
    <3> QED BY <3>4
  <2>2. CASE ~(a # 0 /\ heap[a].clientId # 0)
    <3>1. out = <<>>
      BY <2>2, Zenon
    <3> HIDE DEF out
    <3> QED BY <3>1
  <2> QED BY <2>1, <2>2, Zenon
<1>6. news \in Seq(Downward)
  <2>1. added \in Record /\ added.token \in Tokens /\ added.userId \in Users /\ added.clientId \in Clients
    BY <1>4 DEF Record
  <2>2. ToLink("login", added, mine) \in Downward
    <3> HIDE DEF added
    <3> QED BY <2>1, NoticeTyped
  <2> HIDE DEF added
  <2> QED BY <2>2
<1>7. \/ Refused(m, t, u, c) /\ Becomes(m) /\ Pushed(out, <<>>)
      \/ /\ ~Refused(m, t, u, c)
         /\ \E b \in Addr :
              /\ m.heap[b] = Freed
              /\ Becomes(Add(m, b, t, u, c))
              /\ Pushed(out, news)
  BY DEF Replace
<1>8. issued' \in 0 .. MaxToken
  BY <1>4, LoginAssumption DEF Tokens
<1> HIDE DEF a, m, t, out, news
<1>9. CASE Refused(m, t, u, c) /\ Becomes(m) /\ Pushed(out, <<>>)
  <2>1. Manager' = m
    BY <1>3, <1>9, BecomesManager
  <2>2. down' \in Seq(Downward) /\ lost' \in BOOLEAN
    <3>1. <<>> \in Seq(Downward)
      OBVIOUS
    <3> QED BY <1>1, <1>5, <1>9, <3>1, PushedTyped
  <2> QED BY <1>3, <1>4, <1>8, <2>1, <2>2
<1>10. ASSUME NEW b \in Addr, ~Refused(m, t, u, c), m.heap[b] = Freed,
              Becomes(Add(m, b, t, u, c)), Pushed(out, news)
       PROVE  /\ Manager' \in Managers /\ Agree(Manager')
              /\ down' \in Seq(Downward) /\ lost' \in BOOLEAN
  <2>1. m.token[t] = 0 /\ m.user[u] = 0
    BY <1>10 DEF Refused
  <2>2. Add(m, b, t, u, c) \in Managers /\ Agree(Add(m, b, t, u, c))
    BY <1>3, <1>4, <1>10, <2>1, AddAgrees
  <2>3. Manager' = Add(m, b, t, u, c)
    BY <1>10, <2>2, BecomesManager
  <2>4. down' \in Seq(Downward) /\ lost' \in BOOLEAN
    BY <1>1, <1>5, <1>6, <1>10, PushedTyped
  <2> QED BY <2>2, <2>3, <2>4
<1> QED BY <1>4, <1>7, <1>8, <1>9, <1>10

\* offline() through a pointer that may dangle changes no more than a client id.
LEMMA ClientExitAgrees ==
  ASSUME LoginInv, ClientExit
  PROVE  Manager' \in Managers /\ Agree(Manager') /\ wild' \in BOOLEAN
<1> DEFINE a == byClient[Head(up).client]
<1>1. /\ Manager \in Managers /\ Agree(Manager) /\ wild \in BOOLEAN
  BY ManagerTyped DEF LoginInv
<1>2. UNCHANGED <<byToken, byUserId, byClient>>
  BY DEF ClientExit
<1>3. \/ heap' = heap /\ wild' = wild
      \/ /\ heap' = [heap EXCEPT ![a] = [@ EXCEPT !.clientId = 0]]
         /\ wild' = (wild \/ heap[a].clientId \notin {0, Head(up).client})
  BY DEF ClientExit
<1> HIDE DEF a
<1>4. wild' \in BOOLEAN
  BY <1>1, <1>3
<1>5. heap \in [Addr -> Record]
  BY <1>1 DEF Manager, Managers
<1>6. \A r \in Record : /\ [r EXCEPT !.clientId = 0] \in Record
                        /\ [r EXCEPT !.clientId = 0].token = r.token
                        /\ [r EXCEPT !.clientId = 0].userId = r.userId
  BY DEF Record
<1>7. /\ heap' \in [Addr -> Record]
      /\ \A b \in Addr : heap'[b].token = heap[b].token /\ heap'[b].userId = heap[b].userId
      /\ \A b \in Addr : heap'[b] = heap[b] \/ heap'[b] = [heap[b] EXCEPT !.clientId = 0]
  <2>1. CASE heap' = heap
    BY <1>5, <2>1
  <2>2. CASE heap' = [heap EXCEPT ![a] = [@ EXCEPT !.clientId = 0]]
    <3>1. \A b \in Addr : heap'[b] = IF b = a THEN [heap[b] EXCEPT !.clientId = 0] ELSE heap[b]
      BY <1>5, <2>2
    <3>2. heap' = [b \in Addr |-> heap'[b]] /\ \A b \in Addr : heap'[b] \in Record
      BY <1>5, <1>6, <2>2, <3>1
    <3> QED BY <1>5, <1>6, <3>1, <3>2
  <2> QED BY <1>3, <2>1, <2>2
<1>8. \A b \in Addr : heap[b] = Freed <=> heap'[b] = Freed
  <2>1. \A r \in Record : r.token # 0 => r # Freed /\ [r EXCEPT !.clientId = 0] # Freed
    BY <1>6 DEF Freed
  <2>2. \A b \in Addr : heap[b] # Freed => heap[b].token # 0
    BY <1>1 DEF Agree, Manager, Tokens
  <2>3. [Freed EXCEPT !.clientId = 0] = Freed
    BY DEF Freed
  <2> QED BY <1>5, <1>7, <2>1, <2>2, <2>3
<1>9. Manager' \in Managers
  BY <1>1, <1>2, <1>7 DEF Manager, Managers
<1>10. Agree(Manager')
  BY <1>1, <1>2, <1>7, <1>8 DEF Manager, Agree
<1> QED BY <1>4, <1>9, <1>10

-------------------------------------------------------------------------------
(* The messages                                                            *)

LEMMA OrphanedTyped ==
  ASSUME NEW M, NEW q \in Seq(M), NEW c,
         \A x \in M : [x EXCEPT !.mine = FALSE] \in M
  PROVE  Orphaned(q, c) \in Seq(M)
<1>1. \A i \in 1 .. Len(q) : q[i] \in M
  OBVIOUS
<1>2. DOMAIN q = 1 .. Len(q) /\ Len(q) \in Nat
  OBVIOUS
<1>3. Orphaned(q, c) = [i \in 1 .. Len(q) |->
                          IF q[i].client = c THEN [q[i] EXCEPT !.mine = FALSE] ELSE q[i]]
  BY <1>2 DEF Orphaned
<1>4. \A i \in 1 .. Len(q) :
        (IF q[i].client = c THEN [q[i] EXCEPT !.mine = FALSE] ELSE q[i]) \in M
  BY <1>1
<1>5. Orphaned(q, c) \in [1 .. Len(q) -> M]
  BY <1>3, <1>4
<1> QED BY <1>2, <1>5

LEMMA UpwardOrphan == \A x \in Upward : [x EXCEPT !.mine = FALSE] \in Upward
<1> TAKE x \in Upward
<1>1. CASE x \in [type : {"login"}, client : Clients, user : Users, mine : BOOLEAN]
  BY <1>1 DEF Upward
<1>2. CASE x \in [type : {"by_token"}, client : Clients, token : Tokens, mine : BOOLEAN]
  BY <1>2 DEF Upward
<1>3. CASE x \in [type : {"exit"}, client : Clients, mine : BOOLEAN]
  BY <1>3 DEF Upward
<1> QED BY <1>1, <1>2, <1>3 DEF Upward

LEMMA DownwardOrphan == \A x \in Downward : [x EXCEPT !.mine = FALSE] \in Downward
BY DEF Downward

LEMMA HeadUp ==
  ASSUME LoginInv, up # <<>>
  PROVE  /\ Head(up) \in Upward /\ Tail(up) \in Seq(Upward)
         /\ Head(up).client \in Clients /\ Head(up).mine \in BOOLEAN
         /\ Head(up).type = "login" => Head(up).user \in Users
         /\ Head(up).type = "by_token" => Head(up).token \in Tokens
<1>1. Head(up) \in Upward /\ Tail(up) \in Seq(Upward)
  BY DEF LoginInv, TypeOK
<1>2. \A x \in Upward : /\ x.client \in Clients /\ x.mine \in BOOLEAN
                        /\ x.type = "login" => x.user \in Users
                        /\ x.type = "by_token" => x.token \in Tokens
  BY DEF Upward
<1> QED BY <1>1, <1>2, Zenon

-------------------------------------------------------------------------------
(* The invariant                                                           *)

\* The Link's share of the types, with what it sends.
LinkTypes ==
  /\ open \subseteq Clients /\ own \subseteq Clients
  /\ userId \in [Clients -> {0} \cup Users]
  /\ token \in [Clients -> {0} \cup Tokens]
  /\ up \in Seq(Upward) /\ down \in Seq(Downward)

LEMMA LinkStep ==
  ASSUME LoginInv, LinkNext
  PROVE  LinkTypes' /\ UNCHANGED managerVars
<1> USE DEF LoginInv, TypeOK
<1>1. ASSUME NEW c \in Clients, Connect(c) PROVE LinkTypes' /\ UNCHANGED managerVars
  BY <1>1 DEF Connect, LinkTypes
<1>2. ASSUME NEW c \in Clients, Leave(c) PROVE LinkTypes' /\ UNCHANGED managerVars
  <2>1. Orphaned(up, c) \in Seq(Upward) /\ down' \in Seq(Downward)
    BY <1>2, OrphanedTyped, UpwardOrphan, DownwardOrphan DEF Leave
  <2>2. [type |-> "exit", client |-> c, mine |-> FALSE] \in Upward
    BY DEF Upward
  <2>3. up' \in Seq(Upward)
    <3>1. PICK q \in Seq(Upward), m \in Upward :
            q = Orphaned(up, c) /\ m = [type |-> "exit", client |-> c, mine |-> FALSE]
      BY <2>1, <2>2
    <3>2. up' = q \/ up' = Append(q, m)
      BY <1>2, <3>1 DEF Leave
    <3> HIDE DEF LoginInv, TypeOK
    <3> QED BY <3>2
  <2> QED BY <1>2, <2>1, <2>3 DEF Leave, LinkTypes
<1>3. ASSUME NEW m \in Upward, Ask(m) PROVE LinkTypes' /\ UNCHANGED managerVars
  <2>1. up' \in Seq(Upward)
    BY <1>3 DEF Ask
  <2> QED BY <1>3, <2>1 DEF Ask, LinkTypes, linkVars
<1>4. ASSUME NEW c \in Clients, NEW u \in Users, AskLogin(c, u)
      PROVE  LinkTypes' /\ UNCHANGED managerVars
  <2>1. [type |-> "login", client |-> c, user |-> u, mine |-> TRUE] \in Upward
    BY DEF Upward
  <2> QED BY <1>3, <1>4, <2>1 DEF AskLogin
<1>5. ASSUME NEW c \in Clients, NEW t \in Tokens, AskByToken(c, t)
      PROVE  LinkTypes' /\ UNCHANGED managerVars
  <2>1. [type |-> "by_token", client |-> c, token |-> t, mine |-> TRUE] \in Upward
    BY DEF Upward
  <2> QED BY <1>3, <1>5, <2>1 DEF AskByToken
<1>6. CASE UserLogin \/ UserLogout
  <2>1. down # <<>> /\ down' = Tail(down) /\ UNCHANGED <<open, up, managerVars>>
    BY <1>6 DEF UserLogin, UserLogout, LinkReceives
  <2>2. Head(down) \in Downward /\ down' \in Seq(Downward)
    BY <2>1
  <2>3. Head(down).client \in Clients /\ Head(down).user \in Users /\ Head(down).token \in Tokens
    BY <2>2 DEF Downward
  <2>4. /\ userId' \in [Clients -> {0} \cup Users] /\ token' \in [Clients -> {0} \cup Tokens]
        /\ own' \subseteq Clients
    BY <1>6, <2>3 DEF UserLogin, UserLogout
  <2> QED BY <2>1, <2>2, <2>4 DEF LinkTypes
<1> QED BY <1>1, <1>2, <1>4, <1>5, <1>6 DEF LinkNext

LEMMA LoginStep ==
  ASSUME LoginInv, LoginNext
  PROVE  LinkTypes' /\ issued' \in 0 .. MaxToken /\ wild' \in BOOLEAN /\ lost' \in BOOLEAN
         /\ Manager' \in Managers /\ Agree(Manager')
<1>1. up # <<>> /\ up' = Tail(up) /\ UNCHANGED linkVars
  BY DEF LoginNext, LoginByName, LoginByToken, InvalidToken, ClientExit, LoginReceives
<1>2. wild \in BOOLEAN /\ lost \in BOOLEAN /\ issued \in 0 .. MaxToken /\ down \in Seq(Downward)
      /\ Manager \in Managers /\ Agree(Manager)
  BY ManagerTyped DEF LoginInv
<1>3. ASSUME down' \in Seq(Downward) PROVE LinkTypes'
  BY <1>1, <1>3, HeadUp DEF LinkTypes, linkVars, LoginInv, TypeOK
<1>4. CASE LoginByName
  <2>1. Head(up).user \in Users /\ Head(up).client \in Clients /\ Head(up).mine \in BOOLEAN
    BY <1>1, <1>4, HeadUp DEF LoginByName, LoginReceives
  <2>2. Replace(Head(up).user, Head(up).client, Head(up).mine)
    BY <1>4 DEF LoginByName
  <2> QED BY <1>2, <1>3, <2>1, <2>2, ReplaceAgrees
<1>5. CASE LoginByToken
  <2> DEFINE a == byToken[Head(up).token]
  <2>1. Head(up).token \in Tokens /\ Head(up).client \in Clients /\ Head(up).mine \in BOOLEAN
    BY <1>1, <1>5, HeadUp DEF LoginByToken, LoginReceives
  <2>2. a # 0 /\ Replace(heap[a].userId, Head(up).client, Head(up).mine)
    BY <1>5 DEF LoginByToken
  <2>3. heap[a].userId \in Users
    BY <1>2, <2>1, <2>2 DEF Manager, Managers, Agree
  <2> HIDE DEF a
  <2> QED BY <1>2, <1>3, <2>1, <2>2, <2>3, ReplaceAgrees
<1>6. CASE InvalidToken
  <2>1. UNCHANGED <<down, managerVars>>
    BY <1>6 DEF InvalidToken
  <2>2. Manager' = Manager
    BY <2>1 DEF Manager, managerVars
  <2> QED BY <1>2, <1>3, <2>1, <2>2 DEF managerVars
<1>7. CASE ClientExit
  BY <1>2, <1>3, <1>7, ClientExitAgrees DEF ClientExit
<1> QED BY <1>4, <1>5, <1>6, <1>7 DEF LoginNext

LEMMA LoginInvariant == Spec => []LoginInv
<1>1. Init => LoginInv
  <2> SUFFICES ASSUME Init PROVE LoginInv
    OBVIOUS
  <2>1. heap \in [Addr -> Record]
    BY FreedRecord DEF Init
  <2>2. issued \in 0 .. MaxToken
    BY LoginAssumption DEF Init
  <2>3. TypeOK
    <3>1. /\ byToken \in [Tokens -> {0} \cup Addr]
          /\ byUserId \in [Users -> {0} \cup Addr]
          /\ byClient \in [Clients -> {0} \cup Addr]
      BY DEF Init
    <3>2. /\ open \subseteq Clients /\ own \subseteq Clients
          /\ userId \in [Clients -> {0} \cup Users]
          /\ token \in [Clients -> {0} \cup Tokens]
      BY DEF Init
    <3>3. up \in Seq(Upward) /\ down \in Seq(Downward)
      BY DEF Init
    <3>4. wild \in BOOLEAN /\ lost \in BOOLEAN
      BY DEF Init
    <3> QED BY <2>1, <2>2, <3>1, <3>2, <3>3, <3>4, Zenon DEF TypeOK, Record
  <2>4. \A a \in Addr : /\ heap[a] = Freed
                        /\ \A u \in Users : byUserId[u] # a
                        /\ \A t \in Tokens : byToken[t] # a
    BY LoginAssumption DEF Init
  <2>5. Agree(Manager)
    BY <2>4 DEF Agree, Manager
  <2> QED BY <2>3, <2>5 DEF LoginInv
<1>2. LoginInv /\ [Next]_vars => LoginInv'
  <2> SUFFICES ASSUME LoginInv, [Next]_vars PROVE LoginInv'
    OBVIOUS
  <2>1. CASE LinkNext
    <3>1. LinkTypes' /\ UNCHANGED managerVars
      BY <2>1, LinkStep
    <3> QED BY <3>1 DEF LinkTypes, managerVars, LoginInv, TypeOK, Agree, Manager
  <2>2. CASE LoginNext
    <3>1. /\ LinkTypes' /\ issued' \in 0 .. MaxToken /\ wild' \in BOOLEAN /\ lost' \in BOOLEAN
          /\ Manager' \in Managers /\ Agree(Manager)'
      BY <2>2, LoginStep DEF Agree
    <3> QED BY <3>1 DEF LinkTypes, LoginInv, TypeOK, Manager, Managers, Record
  <2>3. CASE UNCHANGED vars
    BY <2>3 DEF vars, linkVars, managerVars, LoginInv, TypeOK, Agree, Manager
  <2> QED BY <2>1, <2>2, <2>3 DEF Next
<1> QED BY <1>1, <1>2, PTL DEF Spec

\* Every variable of Login stays in its set, whatever the numbers of users,
\* clients, addresses and tokens.
THEOREM TypeCorrect == Spec => []TypeOK
<1>1. LoginInv => TypeOK
  BY DEF LoginInv
<1> QED BY <1>1, LoginInvariant, PTL

\* Every User record is found by its own user id and its own token and by nothing
\* else, and no entry of these two maps leads to freed memory, although
\* _clientId2user keeps pointers to records that are gone.
THEOREM MapsByUserAndTokenAgree == Spec => []MapsAgree
<1>1. LoginInv => MapsAgree
  BY DEF LoginInv, Agree, Manager, MapsAgree
<1> QED BY <1>1, LoginInvariant, PTL

-------------------------------------------------------------------------------
(* What a login does to the records and to the messages on their way       *)

NewRecord(t, u, c) == [token |-> t, userId |-> u, clientId |-> c]

\* The user's record, if any, is gone and its client, if it is online, gets a logout;
\* a login follows exactly if there is a new record.  Nothing else changes.
Outcome(u, c, mine) ==
  /\ issued' \in Tokens
  /\ Len(down') >= Len(down)
  /\ \A i \in 1 .. Len(down) : down'[i] = down[i]
  /\ \A i \in Len(down) + 1 .. Len(down') :
       \/ /\ i = Len(down) + 1
          /\ \E a \in Addr : /\ heap[a].clientId # 0 /\ heap[a].userId = u
                             /\ down'[i] = ToLink("logout", heap[a], FALSE)
       \/ /\ i = Len(down')
          /\ down'[i] = ToLink("login", NewRecord(issued', u, c), mine)
          /\ \E b \in Addr : heap'[b] = NewRecord(issued', u, c)
  /\ \A a \in Addr : heap[a].clientId # 0 /\ heap[a].userId = u =>
       \E i \in Len(down) + 1 .. Len(down') : down'[i] = ToLink("logout", heap[a], FALSE)
  /\ \A a \in Addr : heap[a].clientId # 0 /\ heap[a].userId # u => heap'[a] = heap[a]
  /\ \A b \in Addr : heap'[b].clientId # 0 =>
       \/ heap'[b] = heap[b] /\ heap[b].userId # u
       \/ /\ heap'[b] = NewRecord(issued', u, c)
          /\ Len(down') > Len(down)
          /\ down'[Len(down')] = ToLink("login", NewRecord(issued', u, c), mine)

LEMMA SaidLast ==
  ASSUME NEW S, NEW q \in Seq(S), NEW x
  PROVE  /\ Len(q) \in Nat /\ Len(q \o <<x>>) = Len(q) + 1
         /\ \A i \in 1 .. Len(q) : (q \o <<x>>)[i] = q[i]
         /\ (q \o <<x>>)[Len(q) + 1] = x
         /\ q \o <<x>> \in Seq(S \cup {x})
<1> DEFINE T == S \cup {x}
<1>1. x \in T /\ q \in Seq(T)
  OBVIOUS
<1> HIDE DEF T
<1>2. <<x>> \in Seq(T) /\ Len(<<x>>) = 1 /\ <<x>>[1] = x
  BY <1>1
<1>3. q \o <<x>> \in Seq(T) /\ Len(q \o <<x>>) = Len(q) + 1 /\ Len(q) \in Nat
  BY <1>1, <1>2
<1>4. \A i \in 1 .. Len(q) : (q \o <<x>>)[i] = q[i]
  BY <1>1, <1>2
<1>5. (q \o <<x>>)[Len(q) + 1] = x
  BY <1>1, <1>2, <1>3
<1> QED BY <1>3, <1>4, <1>5 DEF T

\* What Replace sends to the client that the record at a is for.
LogoutFor(a) ==
  IF a # 0 /\ heap[a].clientId # 0 THEN <<ToLink("logout", heap[a], FALSE)>> ELSE <<>>

LEMMA LogoutAtMost ==
  ASSUME LoginInv, NEW u \in Users, NEW a, a = byUserId[u]
  PROVE  \/ /\ LogoutFor(a) = <<>>
            /\ \A b \in Addr : heap[b].userId = u => heap[b].clientId = 0
         \/ /\ a \in Addr /\ heap[a].clientId # 0 /\ heap[a].userId = u
            /\ LogoutFor(a) = <<ToLink("logout", heap[a], FALSE)>>
            /\ \A b \in Addr : heap[b].clientId # 0 /\ heap[b].userId = u => b = a
<1>1. /\ Manager \in Managers /\ Agree(Manager)
      /\ Manager.user = byUserId /\ Manager.heap = heap
  BY ManagerTyped DEF LoginInv, Manager
<1>2. a = 0 \/ (a \in Addr /\ heap[a].userId = u)
  BY <1>1 DEF Managers, Agree
<1>3. \A b \in Addr : heap[b].clientId # 0 /\ heap[b].userId = u => b = a
  BY <1>1 DEF Agree, Freed
<1>4. a = 0 => a \notin Addr
  BY LoginAssumption
<1>5. CASE a = 0 \/ heap[a].clientId = 0
  <2>1. LogoutFor(a) = <<>>
    BY <1>5 DEF LogoutFor
  <2> QED BY <1>3, <1>4, <1>5, <2>1
<1>6. CASE a # 0 /\ heap[a].clientId # 0
  <2>1. LogoutFor(a) = <<ToLink("logout", heap[a], FALSE)>>
    BY <1>6 DEF LogoutFor
  <2> QED BY <1>2, <1>3, <1>6, <2>1
<1> QED BY <1>5, <1>6

\* Outcome with its messages counted: o logouts for the record at a, then n logins
\* with the new record at d.
Sent(u, c, mine, o, a, n, d) ==
  /\ issued' \in Tokens
  /\ \A b \in Addr : heap[b].clientId # 0 /\ heap[b].userId # u => heap'[b] = heap[b]
  /\ \A b \in Addr : heap[b].clientId # 0 /\ heap[b].userId = u => o = 1 /\ b = a
  /\ o = 1 => /\ a \in Addr /\ heap[a].clientId # 0 /\ heap[a].userId = u
              /\ down'[Len(down) + 1] = ToLink("logout", heap[a], FALSE)
  /\ \A b \in Addr : heap'[b].clientId # 0 =>
       (heap'[b] = heap[b] /\ heap[b].userId # u) \/ (n = 1 /\ heap'[b] = NewRecord(issued', u, c))
  /\ n = 1 => /\ d \in Addr /\ heap'[d] = NewRecord(issued', u, c)
              /\ down'[Len(down')] = ToLink("login", NewRecord(issued', u, c), mine)
  /\ Len(down) \in Nat /\ Len(down') = Len(down) + o + n
  /\ \A i \in 1 .. Len(down) : down'[i] = down[i]

LEMMA OutcomeOf ==
  ASSUME NEW u, NEW c, NEW mine, NEW o \in 0 .. 1, NEW a, NEW n \in 0 .. 1, NEW d,
         Sent(u, c, mine, o, a, n, d)
  PROVE  Outcome(u, c, mine)
<1> USE DEF Sent
<1>1. /\ Len(down') \in Nat /\ Len(down') >= Len(down) /\ (n = 1 => Len(down') > Len(down))
      /\ \A i \in Len(down) + 1 .. Len(down') :
           (i = Len(down) + 1 /\ o = 1) \/ (i = Len(down') /\ n = 1)
      /\ o = 1 => Len(down) + 1 \in Len(down) + 1 .. Len(down')
  <2>1. CASE o = 0
    BY <2>1
  <2>2. CASE o = 1
    BY <2>2
  <2> QED BY <2>1, <2>2
<1>2. \A i \in Len(down) + 1 .. Len(down') :
       \/ /\ i = Len(down) + 1
          /\ \E b \in Addr : /\ heap[b].clientId # 0 /\ heap[b].userId = u
                             /\ down'[i] = ToLink("logout", heap[b], FALSE)
       \/ /\ i = Len(down')
          /\ down'[i] = ToLink("login", NewRecord(issued', u, c), mine)
          /\ \E b \in Addr : heap'[b] = NewRecord(issued', u, c)
  <2> TAKE i \in Len(down) + 1 .. Len(down')
  <2>1. CASE i = Len(down) + 1 /\ o = 1
    BY <2>1, Zenon
  <2>2. CASE i = Len(down') /\ n = 1
    BY <2>2, Zenon
  <2> QED BY <1>1, <2>1, <2>2
<1>3. \A b \in Addr : heap[b].clientId # 0 /\ heap[b].userId = u =>
        \E i \in Len(down) + 1 .. Len(down') : down'[i] = ToLink("logout", heap[b], FALSE)
  BY <1>1, Zenon
<1>4. \A b \in Addr : heap'[b].clientId # 0 =>
        \/ heap'[b] = heap[b] /\ heap[b].userId # u
        \/ /\ heap'[b] = NewRecord(issued', u, c)
           /\ Len(down') > Len(down)
           /\ down'[Len(down')] = ToLink("login", NewRecord(issued', u, c), mine)
  BY <1>1, Zenon
<1> QED BY <1>1, <1>2, <1>3, <1>4, Zenon DEF Outcome

LEMMA ReplaceOutcome ==
  ASSUME LoginInv, NEW u \in Users, NEW c \in Clients, NEW mine \in BOOLEAN,
         Replace(u, c, mine), ~lost'
  PROVE  Outcome(u, c, mine)
<1> DEFINE m(a) == IF a = 0 THEN Manager ELSE Remove(Manager, a)
           added == NewRecord(issued', u, c)
           login == ToLink("login", added, mine)
<1>1. PICK a : a = byUserId[u]
  OBVIOUS
<1>2. PICK o : o = LogoutFor(a)
  OBVIOUS
<1>3. PICK n : n = m(a)
  OBVIOUS
<1>4. /\ heap \in [Addr -> Record] /\ down \in Seq(Downward)
      /\ Manager.heap = heap /\ Len(down) \in Nat
  BY DEF LoginInv, TypeOK, Record, Manager
<1>5. issued' \in Tokens
  BY DEF Replace
<1>6. \/ Becomes(n) /\ Pushed(o, <<>>)
      \/ \E b \in Addr : /\ n.heap[b] = Freed
                         /\ Becomes(Add(n, b, issued', u, c))
                         /\ Pushed(o, <<login>>)
  BY <1>1, <1>2, <1>3 DEF Replace, NewRecord, LogoutFor
<1>7. \/ o = <<>> /\ \A b \in Addr : heap[b].userId = u => heap[b].clientId = 0
      \/ /\ a \in Addr /\ heap[a].clientId # 0 /\ heap[a].userId = u
         /\ o = <<ToLink("logout", heap[a], FALSE)>>
         /\ \A b \in Addr : heap[b].clientId # 0 /\ heap[b].userId = u => b = a
  <2>1. \/ /\ LogoutFor(a) = <<>>
           /\ \A b \in Addr : heap[b].userId = u => heap[b].clientId = 0
        \/ /\ a \in Addr /\ heap[a].clientId # 0 /\ heap[a].userId = u
           /\ LogoutFor(a) = <<ToLink("logout", heap[a], FALSE)>>
           /\ \A b \in Addr : heap[b].clientId # 0 /\ heap[b].userId = u => b = a
    BY <1>1, LogoutAtMost, ZenonT(60)
  <2> QED BY <1>2, <2>1, Zenon
<1>8. /\ n.heap \in [Addr -> Record]
      /\ \A b \in Addr : n.heap[b] = IF b = a THEN Freed ELSE heap[b]
  <2>1. CASE a = 0
    BY <1>3, <1>4, <2>1, LoginAssumption
  <2>2. CASE a # 0
    <3>1. n.heap = [heap EXCEPT ![a] = Freed]
      BY <1>3, <1>4, <2>2 DEF Remove
    <3> QED BY <1>4, <3>1, FreedRecord
  <2> QED BY <2>1, <2>2
<1>9. \A b \in Addr : heap[b].userId = u /\ heap[b].clientId # 0 => b = a
  BY <1>7
<1>10. a \in Addr => heap[a].userId = u
  <2>1. Manager \in Managers /\ Agree(Manager) /\ Manager.user = byUserId
    BY ManagerTyped DEF LoginInv, Manager
  <2> QED BY <1>1, <1>4, <2>1 DEF Agree
<1>11. Freed.clientId = 0 /\ added.clientId = c /\ c # 0
  BY LoginAssumption DEF Freed, NewRecord
<1> HIDE DEF m, added, login
<1>12. PICK note : note = ToLink("logout", heap[a], FALSE)
  OBVIOUS
<1>13. PICK S : S = Downward \cup {note, login}
  OBVIOUS
<1>14. down \in Seq(S) /\ o \in Seq(S) /\ <<>> \in Seq(S) /\ <<login>> \in Seq(S)
  <2>1. note \in S /\ login \in S /\ Downward \subseteq S
    BY <1>13
  <2>2. o = <<>> \/ o = <<note>>
    BY <1>7, <1>12
  <2>3. <<>> \in Seq(S) /\ <<login>> \in Seq(S) /\ <<note>> \in Seq(S)
    BY <2>1
  <2>4. down \in Seq(S)
    BY <1>4, <2>1
  <2> QED BY <2>2, <2>3, <2>4
<1>15. CASE Becomes(n) /\ Pushed(o, <<>>)
  <2>1. heap' = n.heap
    BY <1>15 DEF Becomes
  <2>6. down' = down \o o
    <3>1. down' = down \o o \o <<>>
      BY <1>14, <1>15, PushedAll
    <3>2. down \o o \in Seq(S)
      BY <1>14
    <3> QED BY <3>1, <3>2
  <2>2. \A b \in Addr : heap'[b].clientId # 0 => heap'[b] = heap[b] /\ heap[b].userId # u
    BY <1>8, <1>9, <1>11, <2>1
  <2>3. \A b \in Addr : heap[b].clientId # 0 /\ heap[b].userId # u => heap'[b] = heap[b]
    BY <1>8, <1>10, <2>1
  <2>4. CASE o = <<>> /\ \A b \in Addr : heap[b].userId = u => heap[b].clientId = 0
    <3>1. down' = down
      BY <1>4, <2>4, <2>6
    <3>2. Len(down') = Len(down) + 0 + 0 /\ \A i \in 1 .. Len(down) : down'[i] = down[i]
      BY <1>4, <3>1
    <3>3. Sent(u, c, mine, 0, a, 0, 0)
      BY <1>4, <1>5, <2>2, <2>3, <2>4, <3>2 DEF Sent
    <3> QED BY <3>3, OutcomeOf
  <2>5. CASE /\ a \in Addr /\ heap[a].clientId # 0 /\ heap[a].userId = u
             /\ o = <<ToLink("logout", heap[a], FALSE)>>
             /\ \A b \in Addr : heap[b].clientId # 0 /\ heap[b].userId = u => b = a
    <3>1. down' = down \o <<note>>
      BY <1>12, <2>5, <2>6
    <3>2. /\ Len(down') = Len(down) + 1
          /\ \A i \in 1 .. Len(down) : down'[i] = down[i]
          /\ down'[Len(down) + 1] = note
      BY <1>4, <3>1, SaidLast
    <3>3. Len(down') = Len(down) + 1 + 0
      BY <1>4, <3>2
    <3>4. Sent(u, c, mine, 1, a, 0, 0)
      BY <1>4, <1>5, <1>12, <2>2, <2>3, <2>5, <3>2, <3>3 DEF Sent
    <3> QED BY <3>4, OutcomeOf
  <2> QED BY <1>7, <2>4, <2>5
<1>16. ASSUME NEW d \in Addr, n.heap[d] = Freed, Becomes(Add(n, d, issued', u, c)),
              Pushed(o, <<login>>)
       PROVE  Outcome(u, c, mine)
  <2>8. down' = down \o o \o <<login>>
    BY <1>16, <1>14, PushedAll
  <2>1. heap' = [n.heap EXCEPT ![d] = added]
    BY <1>16 DEF Becomes, Add, added, NewRecord
  <2>2. \A b \in Addr : heap'[b] = IF b = d THEN added ELSE n.heap[b]
    BY <1>8, <2>1
  <2>3. \A b \in Addr : heap[b].clientId # 0 /\ heap[b].userId # u => heap'[b] = heap[b]
    BY <1>8, <1>10, <1>11, <1>16, <2>2
  <2>4. \A b \in Addr : heap'[b].clientId # 0 =>
          (heap'[b] = heap[b] /\ heap[b].userId # u) \/ heap'[b] = NewRecord(issued', u, c)
    BY <1>8, <1>9, <1>11, <2>2 DEF added
  <2>5. heap'[d] = NewRecord(issued', u, c)
    BY <2>2 DEF added
  <2>6. CASE o = <<>> /\ \A b \in Addr : heap[b].userId = u => heap[b].clientId = 0
    <3>1. down' = down \o <<login>>
      <4>1. down \o o = down
        BY <1>4, <2>6
      <4> QED BY <2>8, <4>1
    <3>2. /\ Len(down') = Len(down) + 1 /\ down'[Len(down) + 1] = login
          /\ \A i \in 1 .. Len(down) : down'[i] = down[i]
      BY <1>4, <3>1, SaidLast
    <3>3. Len(down') = Len(down) + 0 + 1 /\ down'[Len(down')] = login
      BY <1>4, <3>2
    <3>4. Sent(u, c, mine, 0, a, 1, d)
      BY <1>4, <1>5, <2>3, <2>4, <2>5, <2>6, <3>2, <3>3 DEF Sent, added, login
    <3> QED BY <3>4, OutcomeOf
  <2>7. CASE /\ a \in Addr /\ heap[a].clientId # 0 /\ heap[a].userId = u
             /\ o = <<ToLink("logout", heap[a], FALSE)>>
             /\ \A b \in Addr : heap[b].clientId # 0 /\ heap[b].userId = u => b = a
    <3>1. PICK first : first = down \o <<note>>
      OBVIOUS
    <3>2. PICK F : F = Downward \cup {note}
      OBVIOUS
    <3>3. /\ Len(first) = Len(down) + 1
          /\ \A i \in 1 .. Len(down) : first[i] = down[i]
          /\ first[Len(down) + 1] = note
          /\ first \in Seq(F)
      BY <1>4, <3>1, <3>2, SaidLast
    <3>4. down' = first \o <<login>>
      BY <1>12, <2>7, <2>8, <3>1
    <3>5. /\ Len(down') = Len(first) + 1
          /\ \A i \in 1 .. Len(first) : down'[i] = first[i]
          /\ down'[Len(first) + 1] = login
      BY <3>3, <3>4, SaidLast
    <3>6. /\ Len(down') = Len(down) + 1 + 1 /\ down'[Len(down')] = login
          /\ down'[Len(down) + 1] = note
          /\ \A i \in 1 .. Len(down) : down'[i] = down[i]
      <4>1. Len(first) \in Nat /\ Len(down) + 1 \in 1 .. Len(first)
        BY <1>4, <3>3
      <4>2. \A i \in 1 .. Len(down) : i \in 1 .. Len(first)
        BY <1>4, <3>3
      <4> QED BY <1>4, <3>3, <3>5, <4>1, <4>2
    <3>7. Sent(u, c, mine, 1, a, 1, d)
      BY <1>4, <1>5, <1>12, <2>3, <2>4, <2>5, <2>7, <3>6 DEF Sent, added, login
    <3> QED BY <3>7, OutcomeOf
  <2> QED BY <1>7, <2>6, <2>7
<1> QED BY <1>6, <1>15, <1>16


-------------------------------------------------------------------------------
(* Which session a logout ends                                             *)

IsLogin(m, u) == m.type = "login" /\ m.user = u

\* After the first n messages of q, to a Link that has uid and tok, a client c that is
\* logged in as u has token t: the last login of u among them says so or, if there is
\* none, the Link does.
SessionTold(q, n, uid, tok, c, u, t) ==
  \/ \E i \in 1 .. n :
       /\ IsLogin(q[i], u) /\ q[i].client = c /\ q[i].token = t
       /\ \A k \in i + 1 .. n : ~IsLogin(q[k], u)
  \/ /\ \A k \in 1 .. n : ~IsLogin(q[k], u)
     /\ uid[c] = u => tok[c] = t

\* The inductive invariant: the client of every record, and of every logout on its
\* way, will by then have the token the record has or the logout is for, if it is
\* still that user.
TokenInv ==
  /\ \A c \in Clients \ open : userId[c] = 0
  /\ \A a \in Addr : heap[a].clientId # 0 =>
       SessionTold(down, Len(down), userId, token, heap[a].clientId, heap[a].userId, heap[a].token)
  /\ \A j \in 1 .. Len(down) : down[j].type = "logout" =>
       SessionTold(down, j - 1, userId, token, down[j].client, down[j].user, down[j].token)

\* Messages with the same content, and a Link that at most forgets the user of c.
LEMMA ToldKept ==
  ASSUME NEW q, NEW r, NEW n \in Nat, NEW uid, NEW tok, NEW uid2, NEW tok2,
         NEW c, NEW u, NEW t, SessionTold(q, n, uid, tok, c, u, t),
         \A i \in 1 .. n : /\ IsLogin(r[i], u) <=> IsLogin(q[i], u)
                           /\ r[i].client = q[i].client /\ r[i].token = q[i].token,
         uid2[c] = u => uid[c] = u /\ tok2[c] = tok[c]
  PROVE  SessionTold(r, n, uid2, tok2, c, u, t)
<1>1. CASE \E i \in 1 .. n :
             /\ IsLogin(q[i], u) /\ q[i].client = c /\ q[i].token = t
             /\ \A k \in i + 1 .. n : ~IsLogin(q[k], u)
  <2>1. PICK i \in 1 .. n : /\ IsLogin(q[i], u) /\ q[i].client = c /\ q[i].token = t
                            /\ \A k \in i + 1 .. n : ~IsLogin(q[k], u)
    BY <1>1
  <2>2. \A k \in i + 1 .. n : k \in 1 .. n
    OBVIOUS
  <2> QED BY <2>1, <2>2 DEF SessionTold
<1>2. CASE /\ \A k \in 1 .. n : ~IsLogin(q[k], u)
           /\ uid[c] = u => tok[c] = t
  BY <1>2 DEF SessionTold
<1> QED BY <1>1, <1>2 DEF SessionTold

LEMMA ToldSame ==
  ASSUME NEW q, NEW r, NEW n \in Nat, NEW uid, NEW tok, NEW c, NEW u, NEW t,
         SessionTold(q, n, uid, tok, c, u, t), \A i \in 1 .. n : r[i] = q[i]
  PROVE  SessionTold(r, n, uid, tok, c, u, t)
BY ToldKept

\* The first message has arrived: if it was a login of u, c has what it said.
LEMMA ToldArrives ==
  ASSUME NEW M, NEW q \in Seq(M), q # <<>>, NEW n \in 1 .. Len(q),
         NEW uid, NEW tok, NEW uid2, NEW tok2, NEW c, NEW u, NEW t,
         SessionTold(q, n, uid, tok, c, u, t),
         IsLogin(Head(q), u) /\ Head(q).client = c => (uid2[c] = u => tok2[c] = Head(q).token),
         ~IsLogin(Head(q), u) => (uid2[c] = u => uid[c] = u /\ tok2[c] = tok[c])
  PROVE  SessionTold(Tail(q), n - 1, uid2, tok2, c, u, t)
<1>1. /\ Head(q) = q[1] /\ n \in Nat /\ n - 1 \in Nat /\ Len(q) \in Nat
      /\ \A i \in 1 .. n - 1 : Tail(q)[i] = q[i + 1] /\ i + 1 \in 2 .. n
      /\ \A i \in 2 .. n : i - 1 \in 1 .. n - 1 /\ Tail(q)[i - 1] = q[i]
  OBVIOUS
<1>2. CASE \A k \in 1 .. n : ~IsLogin(q[k], u)
  <2>1. \A k \in 1 .. n - 1 : ~IsLogin(Tail(q)[k], u)
    BY <1>1, <1>2
  <2>2. uid[c] = u => tok[c] = t
    BY <1>2 DEF SessionTold
  <2>3. ~IsLogin(Head(q), u)
    BY <1>1, <1>2
  <2> QED BY <2>1, <2>2, <2>3 DEF SessionTold
<1>3. ASSUME NEW i \in 1 .. n, IsLogin(q[i], u), q[i].client = c, q[i].token = t,
             \A k \in i + 1 .. n : ~IsLogin(q[k], u)
      PROVE  SessionTold(Tail(q), n - 1, uid2, tok2, c, u, t)
  <2>1. CASE i = 1
    <3>1. \A k \in 1 .. n - 1 : ~IsLogin(Tail(q)[k], u)
      BY <1>1, <1>3, <2>1
    <3> QED BY <1>1, <1>3, <2>1, <3>1 DEF SessionTold
  <2>2. CASE i # 1
    <3>1. i \in 2 .. n /\ i - 1 \in 1 .. n - 1 /\ Tail(q)[i - 1] = q[i]
      BY <1>1, <2>2
    <3>2. \A k \in (i - 1) + 1 .. n - 1 : ~IsLogin(Tail(q)[k], u)
      <4> TAKE k \in (i - 1) + 1 .. n - 1
      <4>1. k \in 1 .. n - 1 /\ k + 1 \in i + 1 .. n
        BY <3>1
      <4> QED BY <1>1, <1>3, <4>1
    <3> QED BY <1>3, <3>1, <3>2 DEF SessionTold
  <2> QED BY <2>1, <2>2
<1> QED BY <1>2, <1>3 DEF SessionTold

\* Whose connection a message came from is all that a departure changes.
LEMMA OrphanedKeeps ==
  ASSUME NEW c, NEW q \in Seq(Downward) \cup Seq(Upward)
  PROVE  /\ Len(Orphaned(q, c)) = Len(q) /\ Len(q) \in Nat
         /\ \A i \in 1 .. Len(q) :
              /\ Orphaned(q, c)[i].type = q[i].type
              /\ Orphaned(q, c)[i].client = q[i].client
              /\ q \in Seq(Downward) =>
                   Orphaned(q, c)[i].user = q[i].user /\ Orphaned(q, c)[i].token = q[i].token
              /\ Orphaned(q, c)[i].mine => q[i].mine /\ q[i].client # c
<1>1. /\ DOMAIN q = 1 .. Len(q) /\ Len(q) \in Nat
      /\ \A i \in 1 .. Len(q) : q[i] \in Downward \cup Upward
      /\ q \in Seq(Downward) => \A i \in 1 .. Len(q) : q[i] \in Downward
  OBVIOUS
<1>2. Orphaned(q, c) = [i \in 1 .. Len(q) |->
                          IF q[i].client = c THEN [q[i] EXCEPT !.mine = FALSE] ELSE q[i]]
  BY <1>1 DEF Orphaned
<1>3. \A x \in Downward \cup Upward : /\ [x EXCEPT !.mine = FALSE].type = x.type
                                      /\ [x EXCEPT !.mine = FALSE].client = x.client
                                      /\ [x EXCEPT !.mine = FALSE].mine = FALSE
  BY DEF Downward, Upward
<1>4. \A x \in Downward : /\ [x EXCEPT !.mine = FALSE].user = x.user
                          /\ [x EXCEPT !.mine = FALSE].token = x.token
  BY DEF Downward
<1>5. Len(Orphaned(q, c)) = Len(q)
  BY <1>1, <1>2
<1> QED BY <1>1, <1>2, <1>3, <1>4, <1>5

LEMMA ToldExtended ==
  ASSUME NEW q, NEW r, NEW n \in Nat, NEW l \in Nat, l >= n, NEW uid, NEW tok,
         NEW c, NEW u, NEW t, SessionTold(q, n, uid, tok, c, u, t),
         \A i \in 1 .. n : r[i] = q[i],
         \A k \in n + 1 .. l : ~IsLogin(r[k], u)
  PROVE  SessionTold(r, l, uid, tok, c, u, t)
<1>1. \A k \in 1 .. l : k \in 1 .. n \/ k \in n + 1 .. l
  OBVIOUS
<1>2. CASE \A k \in 1 .. n : ~IsLogin(q[k], u)
  <2>1. \A k \in 1 .. l : ~IsLogin(r[k], u)
    BY <1>1, <1>2
  <2>2. uid[c] = u => tok[c] = t
    BY <1>2 DEF SessionTold
  <2> QED BY <2>1, <2>2 DEF SessionTold
<1>3. ASSUME NEW i \in 1 .. n, IsLogin(q[i], u), q[i].client = c, q[i].token = t,
             \A k \in i + 1 .. n : ~IsLogin(q[k], u)
      PROVE  SessionTold(r, l, uid, tok, c, u, t)
  <2>1. \A k \in i + 1 .. l : k \in 1 .. l /\ (k \in 1 .. n => k \in i + 1 .. n)
    OBVIOUS
  <2>2. \A k \in i + 1 .. l : ~IsLogin(r[k], u)
    BY <1>1, <1>3, <2>1
  <2>3. i \in 1 .. l /\ r[i] = q[i]
    OBVIOUS
  <2> QED BY <1>3, <2>2, <2>3 DEF SessionTold
<1> QED BY <1>2, <1>3 DEF SessionTold

LEMMA RecordTyped ==
  ASSUME LoginInv, NEW a \in Addr, heap[a].clientId # 0
  PROVE  heap[a].clientId \in Clients /\ heap[a].userId \in Users /\ heap[a].token \in Tokens
<1>1. Manager \in Managers /\ Agree(Manager) /\ Manager.heap = heap
  BY ManagerTyped DEF LoginInv, Manager
<1> QED BY <1>1 DEF Managers, Agree, Record, Freed

LEMMA DownTyped ==
  ASSUME LoginInv
  PROVE  /\ down \in Seq(Downward) /\ Len(down) \in Nat
         /\ \A i \in 1 .. Len(down) :
              /\ down[i].client \in Clients /\ down[i].user \in Users /\ down[i].token \in Tokens
              /\ down[i].type \in {"login", "logout"} /\ down[i].mine \in BOOLEAN
<1>1. down \in Seq(Downward)
  BY DEF LoginInv, TypeOK
<1>2. \A i \in 1 .. Len(down) : down[i] \in Downward
  BY <1>1
<1> QED BY <1>1, <1>2 DEF Downward

LEMMA ArrivalTold ==
  ASSUME LoginInv, TokenInv, UserLogin \/ UserLogout, NEW n \in 1 .. Len(down),
         NEW c \in Clients, NEW u \in Users, NEW t,
         SessionTold(down, n, userId, token, c, u, t)
  PROVE  SessionTold(down', n - 1, userId', token', c, u, t)
<1>1. /\ down \in Seq(Downward) /\ down # <<>> /\ down' = Tail(down)
      /\ userId \in [Clients -> {0} \cup Users] /\ token \in [Clients -> {0} \cup Tokens]
      /\ c \notin open => userId[c] = 0
      /\ u # 0
  BY LoginAssumption DEF LoginInv, TypeOK, TokenInv, UserLogin, UserLogout, LinkReceives
<1>2. CASE UserLogin
  <2>1. PICK m : m = Head(down)
    OBVIOUS
  <2>2. /\ m.type = "login"
        /\ IF m.client \in open
             THEN /\ userId' = [userId EXCEPT ![m.client] = m.user]
                  /\ token' = [token EXCEPT ![m.client] = m.token]
             ELSE userId' = userId /\ token' = token
    BY <1>2, <2>1 DEF UserLogin, LinkReceives
  <2>3. IsLogin(m, u) <=> m.user = u
    BY <2>2 DEF IsLogin
  <2>4. /\ IsLogin(m, u) /\ m.client = c => (userId'[c] = u => token'[c] = m.token)
        /\ ~IsLogin(m, u) => (userId'[c] = u => userId[c] = u /\ token'[c] = token[c])
    BY <1>1, <2>2, <2>3
  <2> QED BY <1>1, <2>1, <2>4, ToldArrives
<1>3. CASE UserLogout
  <2>1. PICK m : m = Head(down)
    OBVIOUS
  <2>2. /\ m.type = "logout"
        /\ IF m.client \in open /\ userId[m.client] = m.user
             THEN /\ userId' = [userId EXCEPT ![m.client] = 0]
                  /\ token' = [token EXCEPT ![m.client] = 0]
             ELSE userId' = userId /\ token' = token
    BY <1>3, <2>1 DEF UserLogout, LinkReceives
  <2>3. ~IsLogin(m, u)
    BY <2>2 DEF IsLogin
  <2>4. userId'[c] = u => userId[c] = u /\ token'[c] = token[c]
    BY <1>1, <2>2
  <2> QED BY <1>1, <2>1, <2>3, <2>4, ToldArrives
<1> QED BY <1>2, <1>3

LEMMA TokenLinkStep ==
  ASSUME LoginInv, TokenInv, LinkNext
  PROVE  TokenInv'
<1>1. ASSUME UNCHANGED <<userId, token, down, heap>>, open \subseteq open' PROVE TokenInv'
  BY <1>1 DEF TokenInv
<1>2. ASSUME NEW c \in Clients, Leave(c) PROVE TokenInv'
  <2>1. /\ open' = open \ {c} /\ down' = Orphaned(down, c) /\ heap' = heap
        /\ userId' = [userId EXCEPT ![c] = 0] /\ token' = [token EXCEPT ![c] = 0]
        /\ userId \in [Clients -> {0} \cup Users] /\ token \in [Clients -> {0} \cup Tokens]
    BY <1>2 DEF Leave, managerVars, LoginInv, TypeOK
  <2>2. /\ Len(down') = Len(down) /\ Len(down) \in Nat
        /\ \A i \in 1 .. Len(down) :
             /\ down'[i].type = down[i].type /\ down'[i].client = down[i].client
             /\ down'[i].user = down[i].user /\ down'[i].token = down[i].token
    BY <2>1, DownTyped, OrphanedKeeps
  <2>3. ASSUME NEW n \in 0 .. Len(down), NEW d, NEW u \in Users, NEW t, d \in Clients,
               SessionTold(down, n, userId, token, d, u, t)
        PROVE  SessionTold(down', n, userId', token', d, u, t)
    <3>1. userId'[d] = u => userId[d] = u /\ token'[d] = token[d]
      BY <2>1, <2>3, LoginAssumption
    <3>2. n \in Nat /\ \A i \in 1 .. n : i \in 1 .. Len(down)
      BY <2>2
    <3>3. \A i \in 1 .. n : /\ IsLogin(down'[i], u) <=> IsLogin(down[i], u)
                            /\ down'[i].client = down[i].client /\ down'[i].token = down[i].token
      BY <2>2, <3>2 DEF IsLogin
    <3> QED BY <2>3, <3>1, <3>2, <3>3, ToldKept
  <2>4. \A d \in Clients \ open' : userId'[d] = 0
    BY <2>1 DEF TokenInv
  <2>5. \A a \in Addr : heap'[a].clientId # 0 =>
          SessionTold(down', Len(down'), userId', token', heap'[a].clientId, heap'[a].userId, heap'[a].token)
    <3> TAKE a \in Addr
    <3>1. Len(down) \in 0 .. Len(down)
      BY <2>2
    <3>2. heap[a].clientId # 0 => SessionTold(down', Len(down), userId', token',
                                    heap[a].clientId, heap[a].userId, heap[a].token)
      BY <2>3, <3>1, RecordTyped DEF TokenInv
    <3> QED BY <2>1, <2>2, <3>2
  <2>6. \A j \in 1 .. Len(down') : down'[j].type = "logout" =>
          SessionTold(down', j - 1, userId', token', down'[j].client, down'[j].user, down'[j].token)
    <3> TAKE j \in 1 .. Len(down')
    <3>1. j \in 1 .. Len(down) /\ j - 1 \in 0 .. Len(down)
      BY <2>2
    <3> QED BY <2>2, <2>3, <3>1, DownTyped DEF TokenInv
  <2> QED BY <2>4, <2>5, <2>6 DEF TokenInv
<1>3. CASE UserLogin \/ UserLogout
  <2>1. /\ down \in Seq(Downward) /\ down # <<>> /\ down' = Tail(down)
        /\ open' = open /\ heap' = heap
    BY <1>3, DownTyped DEF UserLogin, UserLogout, LinkReceives, managerVars
  <2>2. /\ Len(down) \in Nat \ {0} /\ Len(down') = Len(down) - 1 /\ Head(down) = down[1]
        /\ \A j \in 1 .. Len(down') : down'[j] = down[j + 1] /\ j + 1 \in 1 .. Len(down)
    BY <2>1
  <2>3. Len(down) \in 1 .. Len(down)
    BY <2>2
  <2>4. \A d \in Clients \ open' : userId'[d] = 0
    <3>1. /\ userId \in [Clients -> {0} \cup Users] /\ \A d \in Clients \ open : userId[d] = 0
      BY DEF LoginInv, TypeOK, TokenInv
    <3> QED BY <1>3, <2>1, <3>1 DEF UserLogin, UserLogout
  <2>5. \A a \in Addr : heap'[a].clientId # 0 =>
          SessionTold(down', Len(down'), userId', token', heap'[a].clientId, heap'[a].userId, heap'[a].token)
    BY <1>3, <2>1, <2>2, <2>3, RecordTyped, ArrivalTold DEF TokenInv
  <2>6. \A j \in 1 .. Len(down') : down'[j].type = "logout" =>
          SessionTold(down', j - 1, userId', token', down'[j].client, down'[j].user, down'[j].token)
    <3> TAKE j \in 1 .. Len(down')
    <3>1. /\ down'[j] = down[j + 1] /\ j + 1 \in 1 .. Len(down) /\ j \in 1 .. Len(down)
          /\ (j + 1) - 1 = j
      BY <2>2
    <3>2. down'[j].type = "logout" =>
            SessionTold(down, j, userId, token, down'[j].client, down'[j].user, down'[j].token)
      BY <3>1 DEF TokenInv
    <3> QED BY <1>3, <3>1, <3>2, DownTyped, ArrivalTold
  <2> QED BY <2>4, <2>5, <2>6 DEF TokenInv
<1>4. ASSUME NEW m, Ask(m) PROVE TokenInv'
  BY <1>1, <1>4 DEF Ask, linkVars, managerVars
<1> QED BY <1>1, <1>2, <1>3, <1>4 DEF LinkNext, Connect, AskLogin, AskByToken, managerVars

LEMMA NoticeFields ==
  ASSUME NEW type, NEW r, NEW mine
  PROVE  /\ ToLink(type, r, mine).type = type /\ ToLink(type, r, mine).client = r.clientId
         /\ ToLink(type, r, mine).user = r.userId /\ ToLink(type, r, mine).token = r.token
         /\ ToLink(type, r, mine).mine = mine
BY DEF ToLink

LEMMA TokenReplace ==
  ASSUME LoginInv, TokenInv, NEW u \in Users, NEW c \in Clients, NEW mine \in BOOLEAN,
         Outcome(u, c, mine), UNCHANGED linkVars, down' \in Seq(Downward)
  PROVE  TokenInv'
<1>1. /\ Len(down) \in Nat /\ Len(down') \in Nat /\ Len(down') >= Len(down)
      /\ \A i \in 1 .. Len(down) : down'[i] = down[i]
      /\ UNCHANGED <<open, userId, token>>
  BY DownTyped DEF Outcome, linkVars
<1>2. PICK new : new = NewRecord(issued', u, c)
  OBVIOUS
<1>3. new.userId = u /\ new.clientId = c /\ new.token = issued'
  BY <1>2 DEF NewRecord
<1>4. \A i \in Len(down) + 1 .. Len(down') :
        \/ /\ i = Len(down) + 1 /\ down'[i].type = "logout"
           /\ \E a \in Addr : /\ heap[a].clientId # 0
                              /\ down'[i].client = heap[a].clientId
                              /\ down'[i].user = heap[a].userId
                              /\ down'[i].token = heap[a].token
        \/ down'[i].type = "login" /\ down'[i].user = u
  <2> TAKE i \in Len(down) + 1 .. Len(down')
  <2>1. CASE /\ i = Len(down) + 1
             /\ \E a \in Addr : /\ heap[a].clientId # 0 /\ heap[a].userId = u
                                /\ down'[i] = ToLink("logout", heap[a], FALSE)
    <3>1. PICK a \in Addr : heap[a].clientId # 0 /\ down'[i] = ToLink("logout", heap[a], FALSE)
      BY <2>1
    <3>2. /\ down'[i].type = "logout" /\ down'[i].client = heap[a].clientId
          /\ down'[i].user = heap[a].userId /\ down'[i].token = heap[a].token
      BY <3>1 DEF ToLink
    <3> QED BY <2>1, <3>1, <3>2, Zenon
  <2>2. CASE down'[i] = ToLink("login", new, mine)
    BY <1>3, <2>2, NoticeFields
  <2> QED BY <1>2, <2>1, <2>2, Zenon DEF Outcome
<1>5. \A d \in Clients \ open' : userId'[d] = 0
  BY <1>1 DEF TokenInv
<1>6. ASSUME NEW b \in Addr, heap'[b].clientId # 0
      PROVE  SessionTold(down', Len(down'), userId', token', heap'[b].clientId, heap'[b].userId, heap'[b].token)
  <2>1. CASE heap'[b] = heap[b] /\ heap[b].userId # u
    <3>1. SessionTold(down, Len(down), userId, token, heap[b].clientId, heap[b].userId, heap[b].token)
      BY <1>6, <2>1 DEF TokenInv
    <3>2. \A k \in Len(down) + 1 .. Len(down') : ~IsLogin(down'[k], heap[b].userId)
      BY <1>4, <2>1 DEF IsLogin
    <3>3. SessionTold(down', Len(down'), userId, token, heap[b].clientId, heap[b].userId, heap[b].token)
      BY <1>1, <3>1, <3>2, ToldExtended
    <3> QED BY <1>1, <2>1, <3>3
  <2>2. CASE /\ heap'[b] = new /\ Len(down') > Len(down)
             /\ down'[Len(down')] = ToLink("login", new, mine)
    <3>1. /\ Len(down') \in 1 .. Len(down')
          /\ \A k \in Len(down') + 1 .. Len(down') : FALSE
      BY <1>1, <2>2
    <3>2. /\ IsLogin(down'[Len(down')], u) /\ down'[Len(down')].client = c
          /\ down'[Len(down')].token = issued'
      BY <1>3, <2>2, NoticeFields DEF IsLogin
    <3>3. SessionTold(down', Len(down'), userId', token', c, u, issued')
      BY <3>1, <3>2 DEF SessionTold
    <3> QED BY <1>3, <2>2, <3>3
  <2> QED BY <1>2, <1>6, <2>1, <2>2 DEF Outcome
<1>7. ASSUME NEW j \in 1 .. Len(down'), down'[j].type = "logout"
      PROVE  SessionTold(down', j - 1, userId', token', down'[j].client, down'[j].user, down'[j].token)
  <2>1. j - 1 \in Nat
    BY <1>1
  <2>2. CASE j \in 1 .. Len(down)
    <3>1. /\ SessionTold(down, j - 1, userId, token, down[j].client, down[j].user, down[j].token)
          /\ down'[j] = down[j]
          /\ \A i \in 1 .. j - 1 : down'[i] = down[i]
      BY <1>1, <1>7, <2>2 DEF TokenInv
    <3>2. SessionTold(down', j - 1, userId, token, down[j].client, down[j].user, down[j].token)
      BY <2>1, <3>1, ToldSame, Zenon
    <3> QED BY <1>1, <3>1, <3>2
  <2>3. CASE j \in Len(down) + 1 .. Len(down')
    <3>1. PICK a \in Addr : /\ heap[a].clientId # 0
                            /\ down'[j].client = heap[a].clientId
                            /\ down'[j].user = heap[a].userId
                            /\ down'[j].token = heap[a].token
      BY <1>4, <1>7, <2>3
    <3>2. j - 1 = Len(down)
      BY <1>1, <1>4, <1>7, <2>3
    <3>3. SessionTold(down, Len(down), userId, token, heap[a].clientId, heap[a].userId, heap[a].token)
      BY <3>1 DEF TokenInv
    <3>4. SessionTold(down', Len(down), userId, token, heap[a].clientId, heap[a].userId, heap[a].token)
      <4>1. Len(down) \in Nat /\ \A i \in 1 .. Len(down) : down'[i] = down[i]
        BY <1>1
      <4> QED BY <3>3, <4>1, ToldSame, Zenon
    <3> QED BY <1>1, <3>1, <3>2, <3>4
  <2> QED BY <1>1, <2>2, <2>3
<1> QED BY <1>5, <1>6, <1>7 DEF TokenInv

\* What a step of the LoginServer does, for what both invariants need of it.
LEMMA LoginOutcome ==
  ASSUME LoginInv, LoginNext, ~lost'
  PROVE  /\ ~lost /\ up # <<>> /\ up' = Tail(up) /\ UNCHANGED linkVars
         /\ \/ /\ Head(up).type # "exit" /\ wild' = wild
               /\ \E u \in Users : Outcome(u, Head(up).client, Head(up).mine)
            \/ Head(up).type # "exit" /\ UNCHANGED <<down, heap, wild>>
            \/ /\ Head(up).type = "exit" /\ down' = down
               /\ \/ UNCHANGED <<heap, wild>>
                  \/ \E a \in Addr :
                       /\ heap' = [heap EXCEPT ![a].clientId = 0]
                       /\ wild' = (wild \/ heap[a].clientId \notin {0, Head(up).client})
<1>1. up # <<>> /\ up' = Tail(up) /\ UNCHANGED linkVars
  BY DEF LoginNext, LoginByName, LoginByToken, InvalidToken, ClientExit, LoginReceives
<1>2. Head(up).client \in Clients /\ Head(up).mine \in BOOLEAN
  BY <1>1, HeadUp
<1>3. ASSUME NEW u \in Users, Head(up).type # "exit", Replace(u, Head(up).client, Head(up).mine)
      PROVE  /\ Head(up).type # "exit" /\ wild' = wild /\ ~lost
             /\ \E v \in Users : Outcome(v, Head(up).client, Head(up).mine)
  <2>1. ~lost
    BY <1>3 DEF Replace, Pushed
  <2> QED BY <1>2, <1>3, <2>1, ReplaceOutcome, ReplaceAgrees
<1>4. CASE LoginByName
  <2>1. Head(up).type = "login"
    BY <1>4 DEF LoginByName, LoginReceives
  <2>2. Head(up).user \in Users /\ Replace(Head(up).user, Head(up).client, Head(up).mine)
    BY <1>1, <1>4, <2>1, HeadUp DEF LoginByName
  <2> QED BY <1>1, <1>3, <2>1, <2>2
<1>5. CASE LoginByToken
  <2>1. PICK a : a = byToken[Head(up).token]
    OBVIOUS
  <2>2. Head(up).type = "by_token" /\ a # 0 /\ Replace(heap[a].userId, Head(up).client, Head(up).mine)
    BY <1>5, <2>1 DEF LoginByToken, LoginReceives
  <2>3. heap[a].userId \in Users
    <3>1. /\ Manager \in Managers /\ Agree(Manager)
          /\ Manager.heap = heap /\ Manager.token = byToken
      BY ManagerTyped DEF LoginInv, Manager
    <3>2. Head(up).token \in Tokens
      BY <1>1, <2>2, HeadUp
    <3> QED BY <2>1, <2>2, <3>1, <3>2 DEF Managers, Agree
  <2> QED BY <1>1, <1>3, <2>2, <2>3
<1>6. CASE InvalidToken
  BY <1>1, <1>6 DEF InvalidToken, LoginReceives, managerVars
<1>7. CASE ClientExit
  <2>1. PICK a : a = byClient[Head(up).client]
    OBVIOUS
  <2>2. a = 0 \/ a \in Addr
    BY <1>2, <2>1 DEF LoginInv, TypeOK
  <2> QED BY <1>1, <1>7, <2>1, <2>2 DEF ClientExit, LoginReceives
<1> QED BY <1>4, <1>5, <1>6, <1>7 DEF LoginNext

\* offline() takes a record from its client and changes no other.
LEMMA OfflineKeeps ==
  ASSUME LoginInv, NEW a \in Addr, heap' = [heap EXCEPT ![a].clientId = 0]
  PROVE  /\ \A b \in Addr \ {a} : heap'[b] = heap[b]
         /\ heap'[a].clientId = 0
<1>1. heap \in [Addr -> Record]
  BY DEF LoginInv, TypeOK, Record
<1> QED BY <1>1 DEF Record

LEMMA TokenLoginStep ==
  ASSUME LoginInv, TokenInv, LoginNext, ~lost'
  PROVE  TokenInv'
<1>1. down' \in Seq(Downward) /\ Head(up).client \in Clients /\ Head(up).mine \in BOOLEAN
  BY LoginStep, LoginOutcome, HeadUp DEF LinkTypes
<1>2. ASSUME NEW u \in Users, Outcome(u, Head(up).client, Head(up).mine) PROVE TokenInv'
  BY <1>1, <1>2, LoginOutcome, TokenReplace
<1>3. ASSUME UNCHANGED <<down, heap>> PROVE TokenInv'
  BY <1>3, LoginOutcome DEF TokenInv, linkVars
<1>4. ASSUME NEW a \in Addr, heap' = [heap EXCEPT ![a].clientId = 0], down' = down PROVE TokenInv'
  <2>1. \A b \in Addr : heap'[b].clientId # 0 => heap'[b] = heap[b]
    BY <1>4, OfflineKeeps
  <2> QED BY <1>4, <2>1, LoginOutcome DEF TokenInv, linkVars
<1> QED BY <1>2, <1>3, <1>4, LoginOutcome

LEMMA TokenInvariant == Spec => [](LoginInv /\ (~lost => TokenInv))
<1>1. Init => TokenInv
  <2> SUFFICES ASSUME Init PROVE TokenInv
    OBVIOUS
  <2>1. /\ \A a \in Addr : heap[a] = Freed
        /\ Len(down) = 0
        /\ \A c \in Clients : userId[c] = 0
    BY DEF Init
  <2> QED BY <2>1 DEF TokenInv, Freed
<1>2. LoginInv /\ (~lost => TokenInv) /\ [Next]_vars => (~lost => TokenInv)'
  <2> SUFFICES ASSUME LoginInv, ~lost => TokenInv, [Next]_vars, ~lost' PROVE TokenInv'
    OBVIOUS
  <2>1. CASE UNCHANGED vars
    BY <2>1 DEF vars, linkVars, managerVars, TokenInv
  <2>2. CASE LinkNext
    <3>1. ~lost
      BY <2>2, LinkStep DEF managerVars
    <3> QED BY <2>2, <3>1, TokenLinkStep
  <2>3. CASE LoginNext
    BY <2>3, LoginOutcome, TokenLoginStep
  <2> QED BY <2>1, <2>2, <2>3 DEF Next
<1> QED BY <1>1, <1>2, LoginInvariant, PTL DEF Spec

\* A logout that the Link carries out has the token of the session it ends, for any
\* users, clients and tokens and whatever reconnects in between, although the code
\* compares only the user id; until a login or a logout is lost.
THEOREM LogoutEndsItsOwn == Spec => LogoutEndsItsSession
<1> DEFINE Ends == ~lost => \A c \in Clients :
                     (c \in open /\ userId[c] # 0 /\ userId'[c] = 0 /\ c \in open')
                       => token[c] = Head(down).token
<1>1. LoginInv /\ (~lost => TokenInv) /\ [Next]_vars => Ends
  <2> SUFFICES ASSUME LoginInv, TokenInv, [Next]_vars, NEW c \in Clients,
                      c \in open, userId[c] # 0, userId'[c] = 0, c \in open'
               PROVE  token[c] = Head(down).token
    OBVIOUS
  <2>1. CASE UserLogout
    <3>1. /\ down # <<>> /\ Head(down).type = "logout"
          /\ userId[Head(down).client] = Head(down).user /\ c = Head(down).client
      BY <2>1 DEF UserLogout, LinkReceives, LoginInv, TypeOK
    <3>2. Head(down) = down[1] /\ 1 \in 1 .. Len(down) /\ 1 - 1 = 0
      BY <3>1, DownTyped
    <3>3. SessionTold(down, 0, userId, token, Head(down).client, Head(down).user, Head(down).token)
      BY <3>1, <3>2 DEF TokenInv
    <3> QED BY <3>1, <3>3 DEF SessionTold
  <2>2. CASE UserLogin
    <3>1. down # <<>> /\ Head(down) = down[1] /\ 1 \in 1 .. Len(down)
      BY <2>2, DownTyped DEF UserLogin, LinkReceives
    <3>2. Head(down).user # 0
      BY <3>1, DownTyped, LoginAssumption
    <3> QED BY <2>2, <3>2 DEF UserLogin, LoginInv, TypeOK
  <2>3. ASSUME NEW d \in Clients, Leave(d) PROVE FALSE
    BY <2>3 DEF Leave, LoginInv, TypeOK
  <2>4. CASE UNCHANGED userId
    BY <2>4
  <2>5. CASE LoginNext
    BY <2>4, <2>5
       DEF LoginNext, LoginByName, LoginByToken, InvalidToken, ClientExit, LoginReceives, linkVars
  <2>6. ASSUME NEW m, Ask(m) PROVE UNCHANGED userId
    BY <2>6 DEF Ask, linkVars
  <2> QED BY <2>1, <2>2, <2>3, <2>4, <2>5, <2>6
       DEF Next, LinkNext, Connect, AskLogin, AskByToken, vars, linkVars
<1> QED BY <1>1, TokenInvariant, PTL DEF Spec, LogoutEndsItsSession


-------------------------------------------------------------------------------
(* One session for a user                                                  *)

\* Client c as user u, once the first n messages of q have arrived, is the client of
\* the user's record in h, or a logout comes after them.
Kept(h, q, n, c, u) ==
  \/ \E a \in Addr : h[a].clientId = c /\ h[a].userId = u
  \/ \E j \in n + 1 .. Len(q) : q[j].type = "logout" /\ q[j].client = c /\ q[j].user = u

\* Before the j-th message of p, the departure of c, nothing of an open connection of
\* c comes, and neither the clients o nor the messages d are of one.
NothingBefore(o, d, p, j, c) ==
  /\ c \notin o
  /\ \A i \in 1 .. Len(d) : d[i].mine => d[i].client # c
  /\ \A i \in 1 .. j - 1 : p[i].mine => p[i].client # c

ExitsFirst ==
  \A j \in 1 .. Len(up) : up[j].type = "exit" => NothingBefore(own, down, up, j, up[j].client)

AllKept ==
  /\ \A c \in own : Kept(heap, down, 0, c, userId[c])
  /\ \A i \in 1 .. Len(down) : down[i].type = "login" /\ down[i].mine =>
       Kept(heap, down, i, down[i].client, down[i].user)

\* The inductive invariant: a session that its client asked for, at the Link or on its
\* way to it, is the one of the user's record unless a logout for it follows.
OwnInv ==
  /\ own \subseteq open /\ \A c \in own : userId[c] # 0
  /\ ExitsFirst
  /\ ~wild => AllKept

LEMMA KeptArrives ==
  ASSUME NEW M, NEW q \in Seq(M), q # <<>>, NEW h, NEW c, NEW u,
         NEW n \in 0 .. Len(q), Kept(h, q, n, c, u), NEW k \in Nat,
         \/ k + 1 = n
         \/ /\ k = 0 /\ n = 0
            /\ ~(Head(q).type = "logout" /\ Head(q).client = c /\ Head(q).user = u)
  PROVE  Kept(h, Tail(q), k, c, u)
<1>1. CASE \E a \in Addr : h[a].clientId = c /\ h[a].userId = u
  BY <1>1 DEF Kept
<1>2. ASSUME NEW j \in n + 1 .. Len(q), q[j].type = "logout", q[j].client = c, q[j].user = u
      PROVE  Kept(h, Tail(q), k, c, u)
  <2>1. Head(q) = q[1] /\ Len(q) \in Nat /\ Len(Tail(q)) = Len(q) - 1
    OBVIOUS
  <2>2. j > k + 1
    <3>1. CASE k + 1 = n
      BY <2>1, <3>1
    <3>2. CASE k = 0 /\ n = 0 /\ ~(Head(q).type = "logout" /\ Head(q).client = c /\ Head(q).user = u)
      BY <1>2, <2>1, <3>2
    <3> QED BY <3>1, <3>2
  <2>3. j - 1 \in k + 1 .. Len(Tail(q)) /\ j - 1 \in 1 .. Len(Tail(q))
    BY <2>1, <2>2
  <2>4. Tail(q)[j - 1] = q[j]
    BY <2>1, <2>3
  <2> QED BY <1>2, <2>3, <2>4 DEF Kept
<1> QED BY <1>1, <1>2 DEF Kept

LEMMA UpTyped ==
  ASSUME LoginInv
  PROVE  up \in Seq(Upward) /\ Len(up) \in Nat
BY DEF LoginInv, TypeOK

LEMMA OwnAsk ==
  ASSUME LoginInv, OwnInv, NEW m, m.type # "exit", Ask(m)
  PROVE  OwnInv'
<1>1. /\ up' = Append(up, m) /\ UNCHANGED <<open, userId, own, down, heap, wild>>
      /\ up \in Seq(Upward)
  BY UpTyped DEF Ask, linkVars, managerVars
<1>2. /\ Len(up) \in Nat /\ Len(up') = Len(up) + 1 /\ up'[Len(up) + 1] = m
      /\ \A i \in 1 .. Len(up) : up'[i] = up[i]
  BY <1>1
<1>3. \A j \in 1 .. Len(up') : up'[j].type = "exit" =>
        j \in 1 .. Len(up) /\ \A i \in 1 .. j - 1 : i \in 1 .. Len(up)
  BY <1>2
<1>4. ExitsFirst'
  <2> SUFFICES ASSUME NEW j \in 1 .. Len(up'), up'[j].type = "exit"
               PROVE  NothingBefore(own', down', up', j, up'[j].client)
    BY DEF ExitsFirst
  <2>1. j \in 1 .. Len(up) /\ up'[j] = up[j]
    BY <1>2, <1>3
  <2>2. NothingBefore(own, down, up, j, up[j].client)
    BY <2>1 DEF OwnInv, ExitsFirst
  <2> QED BY <1>1, <1>2, <1>3, <2>1, <2>2 DEF NothingBefore
<1>5. AllKept <=> AllKept'
  BY <1>1 DEF AllKept
<1> QED BY <1>1, <1>4, <1>5 DEF OwnInv

LEMMA OwnLeave ==
  ASSUME LoginInv, OwnInv, NEW c \in Clients, Leave(c)
  PROVE  OwnInv'
<1> DEFINE exit == [type |-> "exit", client |-> c, mine |-> FALSE]
<1>1. /\ open' = open \ {c} /\ own' = own \ {c}
      /\ userId' = [userId EXCEPT ![c] = 0] /\ userId \in [Clients -> {0} \cup Users]
      /\ up' = Orphaned(up, c) \/ up' = Append(Orphaned(up, c), exit)
      /\ down' = Orphaned(down, c)
      /\ UNCHANGED <<heap, wild>>
      /\ own \subseteq Clients
  BY DEF Leave, managerVars, LoginInv, TypeOK
<1>2. Orphaned(up, c) \in Seq(Upward)
  BY UpTyped, OrphanedTyped, UpwardOrphan
<1>3. /\ Len(Orphaned(up, c)) = Len(up) /\ Len(up) \in Nat
      /\ \A i \in 1 .. Len(up) :
           /\ Orphaned(up, c)[i].type = up[i].type /\ Orphaned(up, c)[i].client = up[i].client
           /\ Orphaned(up, c)[i].mine => up[i].mine /\ up[i].client # c
  BY UpTyped, OrphanedKeeps
<1>4. /\ Len(up') = Len(up) \/ (Len(up') = Len(up) + 1 /\ up'[Len(up) + 1] = exit)
      /\ \A i \in 1 .. Len(up) :
           /\ up'[i].type = up[i].type /\ up'[i].client = up[i].client
           /\ up'[i].mine => up[i].mine /\ up[i].client # c
  <2> HIDE DEF exit
  <2>1. PICK q : q = Orphaned(up, c)
    OBVIOUS
  <2>2. /\ Len(up') = Len(q) \/ (Len(up') = Len(q) + 1 /\ up'[Len(q) + 1] = exit)
        /\ \A i \in 1 .. Len(q) : up'[i] = q[i]
    BY <1>1, <1>2, <2>1
  <2> QED BY <1>3, <2>1, <2>2
<1>5. /\ Len(down') = Len(down) /\ Len(down) \in Nat
      /\ \A i \in 1 .. Len(down) :
           /\ down'[i].type = down[i].type /\ down'[i].client = down[i].client
           /\ down'[i].user = down[i].user
           /\ down'[i].mine => down[i].mine /\ down[i].client # c
  BY <1>1, DownTyped, OrphanedKeeps
<1>6. ASSUME NEW n \in Nat, NEW d, NEW u, Kept(heap, down, n, d, u)
      PROVE  Kept(heap', down', n, d, u)
  <2>1. \A j \in n + 1 .. Len(down) : j \in 1 .. Len(down)
    BY <1>5
  <2> QED BY <1>1, <1>5, <1>6, <2>1 DEF Kept
<1>7. ~wild' => AllKept'
  <2>1. \A d \in own' : d \in own /\ userId'[d] = userId[d]
    BY <1>1
  <2>2. \A i \in 1 .. Len(down') : i \in 1 .. Len(down) /\ i \in Nat
    BY <1>5
  <2> QED BY <1>1, <1>5, <1>6, <2>1, <2>2 DEF OwnInv, AllKept
<1>8. ExitsFirst'
  <2> SUFFICES ASSUME NEW j \in 1 .. Len(up'), up'[j].type = "exit"
               PROVE  NothingBefore(own', down', up', j, up'[j].client)
    BY DEF ExitsFirst
  <2>1. CASE j = Len(up) + 1
    <3>1. up'[j] = exit
      BY <1>3, <1>4, <2>1
    <3>2. up'[j].client = c /\ \A i \in 1 .. j - 1 : i \in 1 .. Len(up)
      BY <1>3, <1>4, <2>1, <3>1
    <3> QED BY <1>1, <1>4, <1>5, <3>2, SMTT(40) DEF NothingBefore
  <2>2. CASE j \in 1 .. Len(up)
    <3>1. /\ up[j].type = "exit" /\ up'[j].client = up[j].client
          /\ \A i \in 1 .. j - 1 : i \in 1 .. Len(up)
      BY <1>3, <1>4, <2>2
    <3>2. NothingBefore(own, down, up, j, up[j].client)
      BY <2>2, <3>1 DEF OwnInv, ExitsFirst
    <3> QED BY <1>1, <1>4, <1>5, <3>1, <3>2, SMTT(40) DEF NothingBefore
  <2> QED BY <1>3, <1>4, <2>1, <2>2
<1>9. own' \subseteq open' /\ \A d \in own' : userId'[d] # 0
  BY <1>1 DEF OwnInv
<1> QED BY <1>7, <1>8, <1>9 DEF OwnInv

\* What becomes of the session at the Link when the first message arrives.
LEMMA Arrival ==
  ASSUME LoginInv, OwnInv, UserLogin \/ UserLogout
  PROVE  /\ down # <<>> /\ down' = Tail(down)
         /\ UNCHANGED <<open, up, heap, wild>>
         /\ own' \subseteq open /\ \A d \in own' : userId'[d] # 0
         /\ \A d \in own' :
              \/ /\ Head(down).type = "login" /\ Head(down).mine
                 /\ d = Head(down).client /\ userId'[d] = Head(down).user
              \/ /\ d \in own /\ userId'[d] = userId[d]
                 /\ ~(Head(down).type = "logout" /\ Head(down).client = d /\ Head(down).user = userId[d])
<1>1. PICK m : m = Head(down)
  OBVIOUS
<1>2. /\ down # <<>> /\ down' = Tail(down) /\ UNCHANGED <<open, up, heap, wild>>
      /\ userId \in [Clients -> {0} \cup Users]
      /\ own \subseteq open /\ own \subseteq Clients /\ \A d \in own : userId[d] # 0
  BY DEF UserLogin, UserLogout, LinkReceives, managerVars, OwnInv, LoginInv, TypeOK
<1>3. m = down[1] /\ 1 \in 1 .. Len(down)
  BY <1>1, <1>2, DownTyped
<1>4. m.client \in Clients /\ m.user # 0
  BY <1>3, DownTyped, LoginAssumption
<1>5. CASE UserLogin
  <2>1. /\ m.type = "login"
        /\ IF m.client \in open
             THEN /\ userId' = [userId EXCEPT ![m.client] = m.user]
                  /\ own' = IF m.mine THEN own \cup {m.client} ELSE own \ {m.client}
             ELSE userId' = userId /\ own' = own
    BY <1>1, <1>5 DEF UserLogin, LinkReceives
  <2> QED BY <1>1, <1>2, <1>4, <2>1
<1>6. CASE UserLogout
  <2>1. /\ m.type = "logout"
        /\ IF m.client \in open /\ userId[m.client] = m.user
             THEN /\ userId' = [userId EXCEPT ![m.client] = 0]
                  /\ own' = own \ {m.client}
             ELSE userId' = userId /\ own' = own
    BY <1>1, <1>6 DEF UserLogout, LinkReceives
  <2> QED BY <1>1, <1>2, <1>4, <2>1
<1> QED BY <1>5, <1>6

LEMMA OwnArrival ==
  ASSUME LoginInv, OwnInv, UserLogin \/ UserLogout
  PROVE  OwnInv'
<1>1. PICK m : m = Head(down)
  OBVIOUS
<1>2. /\ down \in Seq(Downward) /\ down # <<>> /\ down' = Tail(down)
      /\ UNCHANGED <<open, up, heap, wild>>
      /\ own' \subseteq open /\ \A d \in own' : userId'[d] # 0
  BY Arrival, DownTyped
<1>3. \A d \in own' :
        \/ m.type = "login" /\ m.mine /\ d = m.client /\ userId'[d] = m.user
        \/ /\ d \in own /\ userId'[d] = userId[d]
           /\ ~(m.type = "logout" /\ m.client = d /\ m.user = userId[d])
  BY <1>1, Arrival
<1>4. /\ m = down[1] /\ 1 \in 1 .. Len(down) /\ Len(down) \in Nat /\ Len(down') = Len(down) - 1
      /\ \A i \in 1 .. Len(down') : down'[i] = down[i + 1] /\ i + 1 \in 1 .. Len(down)
  BY <1>1, <1>2
<1>5. ExitsFirst'
  <2> SUFFICES ASSUME NEW j \in 1 .. Len(up'), up'[j].type = "exit"
               PROVE  NothingBefore(own', down', up', j, up'[j].client)
    BY DEF ExitsFirst
  <2>1. NothingBefore(own, down, up, j, up[j].client)
    BY <1>2 DEF OwnInv, ExitsFirst
  <2>2. up[j].client \notin own'
    BY <1>3, <1>4, <2>1 DEF NothingBefore
  <2> QED BY <1>2, <1>4, <2>1, <2>2 DEF NothingBefore
<1>6. ASSUME ~wild, NEW d \in own' PROVE Kept(heap, down', 0, d, userId'[d])
  <2>1. CASE m.type = "login" /\ m.mine /\ d = m.client /\ userId'[d] = m.user
    <3>1. Kept(heap, down, 1, d, m.user)
      BY <1>4, <1>6, <2>1 DEF OwnInv, AllKept
    <3> QED BY <1>2, <1>4, <2>1, <3>1, KeptArrives
  <2>2. CASE /\ d \in own /\ userId'[d] = userId[d]
             /\ ~(m.type = "logout" /\ m.client = d /\ m.user = userId[d])
    <3>1. Kept(heap, down, 0, d, userId[d])
      BY <1>6, <2>2 DEF OwnInv, AllKept
    <3>2. 0 \in 0 .. Len(down)
      BY <1>4
    <3> QED BY <1>1, <1>2, <1>4, <2>2, <3>1, <3>2, KeptArrives
  <2> QED BY <1>3, <2>1, <2>2
<1>7. ASSUME ~wild, NEW i \in 1 .. Len(down'), down'[i].type = "login", down'[i].mine
      PROVE  Kept(heap, down', i, down'[i].client, down'[i].user)
  <2>1. i + 1 \in 1 .. Len(down) /\ i + 1 \in 0 .. Len(down) /\ down'[i] = down[i + 1] /\ i \in Nat
    BY <1>4
  <2>2. Kept(heap, down, i + 1, down[i + 1].client, down[i + 1].user)
    BY <1>7, <2>1 DEF OwnInv, AllKept
  <2> QED BY <1>2, <2>1, <2>2, KeptArrives
<1>8. ~wild' => AllKept'
  BY <1>2, <1>6, <1>7 DEF AllKept
<1> QED BY <1>2, <1>5, <1>8 DEF OwnInv

\* The exits that are still to come, after the LoginServer has taken a message.
LEMMA ExitsTaken ==
  ASSUME LoginInv, ExitsFirst, up # <<>>, up' = Tail(up), own' = own,
         \A i \in 1 .. Len(down') : down'[i].mine =>
           \/ i \in 1 .. Len(down) /\ down'[i] = down[i]
           \/ Head(up).mine /\ down'[i].client = Head(up).client
  PROVE  ExitsFirst'
<1> SUFFICES ASSUME NEW j \in 1 .. Len(up'), up'[j].type = "exit"
             PROVE  NothingBefore(own', down', up', j, up'[j].client)
  BY DEF ExitsFirst
<1>1. /\ Len(up) \in Nat /\ Len(up') = Len(up) - 1 /\ Head(up) = up[1]
      /\ \A i \in 1 .. Len(up') : up'[i] = up[i + 1] /\ i + 1 \in 1 .. Len(up)
  BY UpTyped
<1>2. NothingBefore(own, down, up, j + 1, up'[j].client)
  BY <1>1 DEF ExitsFirst
<1>3. \A i \in 1 .. (j + 1) - 1 : up[i].mine => up[i].client # up'[j].client
  BY <1>2 DEF NothingBefore
<1>4. /\ 1 \in 1 .. (j + 1) - 1
      /\ \A i \in 1 .. j - 1 : i + 1 \in 1 .. (j + 1) - 1 /\ i \in 1 .. Len(up')
  BY <1>1
<1>5. \A i \in 1 .. j - 1 : up'[i].mine => up'[i].client # up'[j].client
  BY <1>1, <1>3, <1>4
<1>6. \A i \in 1 .. Len(down') : down'[i].mine => down'[i].client # up'[j].client
  BY <1>1, <1>2, <1>3, <1>4 DEF NothingBefore
<1> QED BY <1>2, <1>5, <1>6 DEF NothingBefore

LEMMA OutcomeMessages ==
  ASSUME NEW u, NEW c, NEW mine, Outcome(u, c, mine), NEW i \in Len(down) + 1 .. Len(down')
  PROVE  \/ \E a \in Addr : down'[i] = ToLink("logout", heap[a], FALSE)
         \/ /\ down'[i] = ToLink("login", NewRecord(issued', u, c), mine)
            /\ \E b \in Addr : heap'[b] = NewRecord(issued', u, c)
BY ZenonT(60) DEF Outcome

LEMMA OwnReplace ==
  ASSUME LoginInv, OwnInv, NEW u \in Users, up # <<>>, up' = Tail(up),
         Outcome(u, Head(up).client, Head(up).mine), UNCHANGED linkVars, wild' = wild
  PROVE  OwnInv'
<1>1. /\ Len(down) \in Nat /\ Len(down') \in Nat /\ Len(down') >= Len(down)
      /\ \A i \in 1 .. Len(down) : down'[i] = down[i]
      /\ UNCHANGED <<open, userId, own>>
      /\ own \subseteq Clients
  BY DownTyped DEF Outcome, linkVars, LoginInv, TypeOK
<1>2. PICK c, mine : c = Head(up).client /\ mine = Head(up).mine
  OBVIOUS
<1>3. c \in Clients /\ Outcome(u, c, mine)
  BY <1>2, HeadUp
<1>4. \A i \in Len(down) + 1 .. Len(down') :
        \/ down'[i].type = "logout" /\ ~down'[i].mine
        \/ /\ down'[i].type = "login" /\ down'[i].mine = mine
           /\ down'[i].client = c /\ down'[i].user = u
           /\ \E b \in Addr : heap'[b].clientId = c /\ heap'[b].userId = u
  <2> TAKE i \in Len(down) + 1 .. Len(down')
  <2>1. CASE \E a \in Addr : down'[i] = ToLink("logout", heap[a], FALSE)
    BY <2>1 DEF ToLink
  <2>2. CASE /\ down'[i] = ToLink("login", NewRecord(issued', u, c), mine)
             /\ \E b \in Addr : heap'[b] = NewRecord(issued', u, c)
    BY <2>2 DEF ToLink, NewRecord
  <2> QED BY <1>3, <2>1, <2>2, OutcomeMessages
<1>5. \A i \in 1 .. Len(down') : i \in 1 .. Len(down) \/ i \in Len(down) + 1 .. Len(down')
  BY <1>1
<1>6. ExitsFirst'
  <2>1. \A i \in 1 .. Len(down') : down'[i].mine =>
           \/ i \in 1 .. Len(down) /\ down'[i] = down[i]
           \/ mine /\ down'[i].client = c
    BY <1>1, <1>4, <1>5
  <2> QED BY <1>1, <1>2, <2>1, ExitsTaken DEF OwnInv
<1>7. ASSUME NEW n \in 0 .. Len(down), NEW d \in Clients, NEW v, Kept(heap, down, n, d, v)
      PROVE  Kept(heap', down', n, d, v)
  <2>1. ASSUME NEW a \in Addr, heap[a].clientId = d, heap[a].userId = v
        PROVE  Kept(heap', down', n, d, v)
    <3>1. heap[a].clientId # 0
      BY <2>1, LoginAssumption
    <3>2. CASE v # u
      <4>1. heap'[a] = heap[a]
        BY <1>3, <2>1, <3>1, <3>2 DEF Outcome
      <4> QED BY <2>1, <4>1 DEF Kept
    <3>3. CASE v = u
      <4>1. PICK i \in Len(down) + 1 .. Len(down') : down'[i] = ToLink("logout", heap[a], FALSE)
        <5>1. heap[a].userId = u
          BY <2>1, <3>3
        <5> QED BY <1>3, <3>1, <5>1, Zenon DEF Outcome
      <4>2. down'[i].type = "logout" /\ down'[i].client = d /\ down'[i].user = v
        BY <2>1, <4>1 DEF ToLink
      <4>3. i \in n + 1 .. Len(down')
        BY <1>1
      <4> QED BY <4>2, <4>3 DEF Kept
    <3> QED BY <3>2, <3>3
  <2>2. ASSUME NEW j \in n + 1 .. Len(down), down[j].type = "logout", down[j].client = d, down[j].user = v
        PROVE  Kept(heap', down', n, d, v)
    <3>1. j \in n + 1 .. Len(down') /\ down'[j] = down[j]
      BY <1>1
    <3> QED BY <2>2, <3>1 DEF Kept
  <2> QED BY <1>7, <2>1, <2>2 DEF Kept
<1>8. ~wild' => AllKept'
  <2> SUFFICES ASSUME ~wild PROVE AllKept'
    OBVIOUS
  <2>1. AllKept
    BY DEF OwnInv
  <2>2. ASSUME NEW d \in own' PROVE Kept(heap', down', 0, d, userId'[d])
    <3>1. d \in own /\ d \in Clients /\ userId'[d] = userId[d] /\ 0 \in 0 .. Len(down)
      BY <1>1
    <3> QED BY <1>7, <2>1, <3>1 DEF AllKept
  <2>3. ASSUME NEW i \in 1 .. Len(down'), down'[i].type = "login", down'[i].mine
        PROVE  Kept(heap', down', i, down'[i].client, down'[i].user)
    <3>1. CASE i \in 1 .. Len(down)
      <4>1. down'[i] = down[i] /\ i \in 0 .. Len(down) /\ down[i].client \in Clients
        BY <1>1, <3>1, DownTyped
      <4> QED BY <1>7, <2>1, <2>3, <3>1, <4>1 DEF AllKept
    <3>2. CASE i \in Len(down) + 1 .. Len(down')
      BY <1>4, <2>3, <3>2 DEF Kept
    <3> QED BY <1>5, <3>1, <3>2
  <2> QED BY <2>2, <2>3 DEF AllKept
<1>9. own' \subseteq open' /\ \A d \in own' : userId'[d] # 0
  BY <1>1 DEF OwnInv
<1> QED BY <1>6, <1>8, <1>9 DEF OwnInv

\* A departure is taken when no session is left that rests on the record it changes.
LEMMA OwnOffline ==
  ASSUME LoginInv, OwnInv, up # <<>>, up' = Tail(up), Head(up).type = "exit",
         UNCHANGED linkVars, down' = down, NEW a \in Addr,
         heap' = [heap EXCEPT ![a].clientId = 0],
         wild' = (wild \/ heap[a].clientId \notin {0, Head(up).client})
  PROVE  OwnInv'
<1>1. /\ UNCHANGED <<open, userId, own>> /\ own \subseteq Clients
      /\ Len(down) \in Nat /\ \A i \in 1 .. Len(down) : down[i].client \in Clients
  BY DownTyped DEF linkVars, LoginInv, TypeOK
<1>2. \A b \in Addr \ {a} : heap'[b] = heap[b]
  BY OfflineKeeps
<1>3. NothingBefore(own, down, up, 1, Head(up).client)
  <2>1. 1 \in 1 .. Len(up) /\ Head(up) = up[1]
    BY UpTyped
  <2> QED BY <2>1 DEF OwnInv, ExitsFirst
<1>4. ASSUME ~wild', NEW n, NEW d \in Clients, NEW v, d # Head(up).client, Kept(heap, down, n, d, v)
      PROVE  Kept(heap', down', n, d, v)
  <2>1. heap[a].clientId \in {0, Head(up).client} /\ d # 0
    BY <1>4, LoginAssumption
  <2> QED BY <1>2, <1>4, <2>1 DEF Kept
<1>5. ~wild' => AllKept'
  <2> SUFFICES ASSUME ~wild' PROVE AllKept'
    OBVIOUS
  <2>1. AllKept
    BY DEF OwnInv
  <2>2. \A d \in own : d \in Clients /\ d # Head(up).client
    BY <1>1, <1>3 DEF NothingBefore
  <2>3. \A i \in 1 .. Len(down) : down[i].mine => down[i].client # Head(up).client
    BY <1>3 DEF NothingBefore
  <2> QED BY <1>1, <1>4, <2>1, <2>2, <2>3 DEF AllKept
<1>6. ExitsFirst'
  BY <1>1, ExitsTaken DEF OwnInv
<1> QED BY <1>1, <1>5, <1>6 DEF OwnInv

LEMMA OwnStep ==
  ASSUME LoginInv, OwnInv, [Next]_vars, ~lost'
  PROVE  OwnInv'
<1>1. CASE UNCHANGED vars
  BY <1>1 DEF vars, linkVars, managerVars, OwnInv, ExitsFirst, AllKept
<1>2. CASE LinkNext
  <2>1. ASSUME NEW c \in Clients, Connect(c) PROVE OwnInv'
    BY <2>1 DEF Connect, managerVars, OwnInv, ExitsFirst, AllKept
  <2>2. ASSUME NEW c \in Clients, NEW u \in Users, AskLogin(c, u) PROVE OwnInv'
    BY <2>2, OwnAsk DEF AskLogin
  <2>3. ASSUME NEW c \in Clients, NEW t \in Tokens, AskByToken(c, t) PROVE OwnInv'
    BY <2>3, OwnAsk DEF AskByToken
  <2> QED BY <1>2, <2>1, <2>2, <2>3, OwnLeave, OwnArrival DEF LinkNext
<1>3. CASE LoginNext
  <2>1. up # <<>> /\ up' = Tail(up) /\ UNCHANGED linkVars
    BY <1>3, LoginOutcome
  <2>2. ASSUME UNCHANGED <<down, heap, wild>> PROVE OwnInv'
    <3>1. ExitsFirst'
      BY <2>1, <2>2, ExitsTaken DEF OwnInv, linkVars
    <3> QED BY <2>1, <2>2, <3>1 DEF OwnInv, AllKept, linkVars
  <2> QED BY <1>3, <2>1, <2>2, LoginOutcome, OwnReplace, OwnOffline
<1> QED BY <1>1, <1>2, <1>3 DEF Next

LEMMA OwnInvariant == Spec => [](LoginInv /\ (~lost => OwnInv))
<1>1. Init => OwnInv
  <2> SUFFICES ASSUME Init PROVE OwnInv
    OBVIOUS
  <2>1. own = {} /\ Len(up) = 0 /\ Len(down) = 0
    BY DEF Init
  <2> QED BY <2>1 DEF OwnInv, ExitsFirst, AllKept
<1>2. LoginInv /\ (~lost => OwnInv) /\ [Next]_vars => (~lost => OwnInv)'
  <2> SUFFICES ASSUME LoginInv, ~lost => OwnInv, [Next]_vars, ~lost' PROVE OwnInv'
    OBVIOUS
  <2>1. ~lost
    <3>1. CASE LinkNext
      BY <3>1, LinkStep DEF managerVars
    <3>2. CASE LoginNext
      BY <3>2, LoginOutcome
    <3> QED BY <3>1, <3>2 DEF Next, vars, managerVars
  <2> QED BY <2>1, OwnStep
<1> QED BY <1>1, <1>2, LoginInvariant, PTL DEF Spec

\* Two clients that asked for their sessions are not logged in as the same user once
\* the logouts on their way have arrived, whichever logins, tokens, departures and
\* descriptors used again came before, unless a login or a logout was lost or
\* offline() has hit the wrong record.
THEOREM OneSessionKept == Spec => []OneSession
<1>1. LoginInv /\ (~lost => OwnInv) => OneSession
  <2> SUFFICES ASSUME LoginInv, OwnInv, ~wild, ~lost, \A i \in DOMAIN down : down[i].type # "logout",
                      NEW c \in own, NEW d \in own, userId[c] = userId[d]
               PROVE  c = d
    BY DEF OneSession
  <2>1. DOMAIN down = 1 .. Len(down) /\ Len(down) \in Nat
    BY DownTyped
  <2>2. ASSUME NEW e \in own
        PROVE  \E a \in Addr : heap[a].clientId = e /\ heap[a].userId = userId[e]
    <3>1. Kept(heap, down, 0, e, userId[e])
      BY DEF OwnInv, AllKept
    <3> QED BY <2>1, <3>1 DEF Kept
  <2>3. PICK a \in Addr : heap[a].clientId = c /\ heap[a].userId = userId[c]
    BY <2>2
  <2>4. PICK b \in Addr : heap[b].clientId = d /\ heap[b].userId = userId[d]
    BY <2>2
  <2>5. c # 0 /\ d # 0
    BY LoginAssumption DEF LoginInv, TypeOK
  <2>6. /\ Agree(Manager) /\ Manager.heap = heap
        /\ heap[a] # Freed /\ heap[b] # Freed
    BY <2>3, <2>4, <2>5 DEF LoginInv, Manager, Freed
  <2>7. a = b
    BY <2>3, <2>4, <2>6 DEF Agree
  <2> QED BY <2>3, <2>4, <2>7
<1> QED BY <1>1, OwnInvariant, PTL
===============================================================================
