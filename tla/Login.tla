---------------------------------- MODULE Login ----------------------------------
(***************************************************************************)
(* doyou::io::LoginServer with its UserManager, and what one LinkServer    *)
(* keeps of it: the userId and token of each connected client.  Requests   *)
(* and departures go up to the LoginServer, ss_msg_user_login and          *)
(* ss_msg_user_logout come back, each way in order (Link, Gate and         *)
(* LoginServer are one thread each and share one connection per hop).      *)
(*                                                                         *)
(* UserManager owns User records through raw pointers in three maps.  They *)
(* are modelled with their addresses, because _clientId2user keeps         *)
(* pointers to records that have been deleted and an address may be used   *)
(* again: offline() called through such a pointer hits whatever record     *)
(* lives there, or none.                                                   *)
(*                                                                         *)
(* Left out: requests refused before UserManager is asked (malformed, wrong *)
(* password), answers, the sc_msg_logout shown to a user, and lost         *)
(* connections between the servers, which Groups is about.  A message that *)
(* does not fit the send buffers is lost without a word.                   *)
(***************************************************************************)
EXTENDS Naturals, Sequences

CONSTANTS
  Users,     \* user ids
  Clients,   \* client ids, as the LoginServer sees them; numbers like the user ids
  Addr,      \* addresses at which new User() may place a record
  MaxToken,  \* bound: tokens issued
  MaxUp,     \* messages that fit the send buffers on the way to the LoginServer
  MaxDown    \* messages that fit the send buffers on the way to the Link

ASSUME LoginAssumption ==
  /\ Users \subseteq Nat \ {0} /\ Clients \subseteq Nat \ {0}
  /\ 0 \notin Addr
  /\ {MaxToken, MaxUp, MaxDown} \subseteq Nat

VARIABLES
  open,      \* clients connected to the Link
  userId,    \* INetClientS::_userId at the Link, 0 when not logged in
  token,     \* INetClientS::_token at the Link, 0 for none
  up,        \* messages to the LoginServer
  down,      \* messages to the Link
  heap,      \* the User at each address, or Freed
  byToken,   \* UserManager::_token2user; 0 is no entry
  byUserId,  \* UserManager::_userId2user
  byClient,  \* UserManager::_clientId2user
  issued,    \* number of tokens make_token has made
  own,       \* history: clients that asked for their session themselves
  wild,      \* history: offline() hit a User that was not at the client that left
  lost       \* history: a login or a logout did not get to the Link

linkVars == <<open, userId, token, own>>
managerVars == <<heap, byToken, byUserId, byClient, issued, wild, lost>>
vars == <<linkVars, up, down, managerVars>>

Freed == [token |-> 0, userId |-> 0, clientId |-> 0]

Tokens == 1 .. MaxToken

\* "mine" is history: the connection that the message came from is still open.
Upward ==
       [type : {"login"}, client : Clients, user : Users, mine : BOOLEAN]
  \cup [type : {"by_token"}, client : Clients, token : Tokens, mine : BOOLEAN]
  \cup [type : {"exit"}, client : Clients, mine : BOOLEAN]

Downward ==
  [type : {"login", "logout"}, client : Clients, user : Users, token : Tokens, mine : BOOLEAN]

TypeOK ==
  /\ open \subseteq Clients /\ own \subseteq Clients
  /\ userId \in [Clients -> {0} \cup Users]
  /\ token \in [Clients -> {0} \cup Tokens]
  /\ up \in Seq(Upward) /\ down \in Seq(Downward)
  /\ heap \in [Addr -> [token : {0} \cup Tokens, userId : {0} \cup Users, clientId : {0} \cup Clients]]
  /\ byToken \in [Tokens -> {0} \cup Addr]
  /\ byUserId \in [Users -> {0} \cup Addr]
  /\ byClient \in [Clients -> {0} \cup Addr]
  /\ issued \in 0 .. MaxToken
  /\ wild \in BOOLEAN /\ lost \in BOOLEAN

Init ==
  /\ open = {} /\ own = {}
  /\ userId = [c \in Clients |-> 0] /\ token = [c \in Clients |-> 0]
  /\ up = <<>> /\ down = <<>>
  /\ heap = [a \in Addr |-> Freed]
  /\ byToken = [t \in Tokens |-> 0]
  /\ byUserId = [u \in Users |-> 0]
  /\ byClient = [c \in Clients |-> 0]
  /\ issued = 0 /\ wild = FALSE /\ lost = FALSE

-------------------------------------------------------------------------------
(* The Link                                                                *)

Connect(c) ==
  /\ c \notin open
  /\ open' = open \cup {c}
  /\ UNCHANGED <<userId, token, own, up, down, managerVars>>

\* Only a request that fits changes anything.
Ask(m) ==
  /\ m.client \in open /\ m.mine /\ Len(up) < MaxUp
  /\ up' = Append(up, m)
  /\ UNCHANGED <<linkVars, down, managerVars>>

AskLogin(c, u) == Ask([type |-> "login", client |-> c, user |-> u, mine |-> TRUE])

AskByToken(c, t) ==
  /\ t <= issued
  /\ Ask([type |-> "by_token", client |-> c, token |-> t, mine |-> TRUE])

\* What came from client c came from a connection that is over.
Orphaned(q, c) ==
  [i \in DOMAIN q |-> IF q[i].client = c THEN [q[i] EXCEPT !.mine = FALSE] ELSE q[i]]

\* on_client_leave, and the end of the INetClientS; the descriptor is free again.
Leave(c) ==
  /\ c \in open
  /\ open' = open \ {c}
  /\ userId' = [userId EXCEPT ![c] = 0]
  /\ token' = [token EXCEPT ![c] = 0]
  /\ own' = own \ {c}
  /\ LET q == Orphaned(up, c) IN
       up' = IF Len(q) < MaxUp THEN Append(q, [type |-> "exit", client |-> c, mine |-> FALSE]) ELSE q
  /\ down' = Orphaned(down, c)
  /\ UNCHANGED managerVars

LinkReceives(type) ==
  /\ down # <<>> /\ Head(down).type = type
  /\ down' = Tail(down)
  /\ UNCHANGED <<open, up, managerVars>>

\* Defect: the two values of the message end up in each other's place.
UserLogin_Swapped ==
  /\ LinkReceives("login")
  /\ LET m == Head(down) c == m.client IN
       IF c \in open
         THEN /\ userId' = [userId EXCEPT ![c] = m.token]
              /\ token' = [token EXCEPT ![c] = m.user]
              /\ own' = IF m.mine THEN own \cup {c} ELSE own \ {c}
         ELSE UNCHANGED <<userId, token, own>>

\* ss_msg_user_login: whoever has the client id now is logged in.
UserLogin ==
  /\ LinkReceives("login")
  /\ LET m == Head(down) c == m.client IN
       IF c \in open
         THEN /\ userId' = [userId EXCEPT ![c] = m.user]
              /\ token' = [token EXCEPT ![c] = m.token]
              /\ own' = IF m.mine THEN own \cup {c} ELSE own \ {c}
         ELSE UNCHANGED <<userId, token, own>>

\* Defect: the session is ended whoever is logged in.
UserLogout_AnyUser ==
  /\ LinkReceives("logout")
  /\ LET m == Head(down) c == m.client IN
       IF c \in open
         THEN /\ userId' = [userId EXCEPT ![c] = 0]
              /\ token' = [token EXCEPT ![c] = 0]
              /\ own' = own \ {c}
         ELSE UNCHANGED <<userId, token, own>>

\* ss_msg_user_logout: only if that user is logged in; the token is not compared.
UserLogout ==
  /\ LinkReceives("logout")
  /\ LET m == Head(down) c == m.client IN
       IF c \in open /\ userId[c] = m.user
         THEN /\ userId' = [userId EXCEPT ![c] = 0]
              /\ token' = [token EXCEPT ![c] = 0]
              /\ own' = own \ {c}
         ELSE UNCHANGED <<userId, token, own>>

-------------------------------------------------------------------------------
(* UserManager, as functions of its maps m = [heap, token, user, client]   *)

\* Defect: the entry of the token is forgotten.
Remove_KeepsToken(m, a) ==
  LET r == m.heap[a] IN
  [heap |-> [m.heap EXCEPT ![a] = Freed],
   token |-> m.token,
   user |-> [m.user EXCEPT ![r.userId] = 0],
   client |-> [c \in Clients |-> IF c = r.clientId THEN 0 ELSE m.client[c]]]

\* remove: by clientId, which offline() has made 0 for a user who is not online.
Remove(m, a) ==
  LET r == m.heap[a] IN
  [heap |-> [m.heap EXCEPT ![a] = Freed],
   token |-> [m.token EXCEPT ![r.token] = 0],
   user |-> [m.user EXCEPT ![r.userId] = 0],
   client |-> [c \in Clients |-> IF c = r.clientId THEN 0 ELSE m.client[c]]]

\* add refuses what is known already; its third test takes the client id for a user id.
Refused(m, t, u, c) ==
  \/ m.token[t] # 0
  \/ m.user[u] # 0
  \/ c \in Users /\ m.user[c] # 0

Add(m, a, t, u, c) ==
  [heap |-> [m.heap EXCEPT ![a] = [token |-> t, userId |-> u, clientId |-> c]],
   token |-> [m.token EXCEPT ![t] = a],
   user |-> [m.user EXCEPT ![u] = a],
   client |-> [m.client EXCEPT ![c] = a]]

Manager == [heap |-> heap, token |-> byToken, user |-> byUserId, client |-> byClient]

Becomes(m) == heap' = m.heap /\ byToken' = m.token /\ byUserId' = m.user /\ byClient' = m.client

-------------------------------------------------------------------------------
(* The handlers of the LoginServer                                         *)

LoginReceives(type) ==
  /\ up # <<>> /\ Head(up).type = type
  /\ up' = Tail(up)
  /\ UNCHANGED linkVars

ToLink(type, r, mine) ==
  [type |-> type, client |-> r.clientId, user |-> r.userId, token |-> r.token, mine |-> mine]

\* push: messages that fit are sent, others are dropped; nobody looks at the result.
Push(q, m) == IF Len(q) + Len(m) <= MaxDown THEN q \o m ELSE q

\* The pushes out and then in go to the Link.
Pushed(out, in) ==
  /\ down' = Push(Push(down, out), in)
  /\ lost' = (lost \/ Len(down') # Len(down) + Len(out) + Len(in))

\* Defect: a user who is online elsewhere is not logged out there.
Replace_Silently(u, c, mine) ==
  LET a == byUserId[u]
      m == IF a = 0 THEN Manager ELSE Remove(Manager, a)
      t == issued + 1
  IN /\ t \in Tokens
     /\ issued' = t
     /\ \E b \in Addr :
          /\ m.heap[b] = Freed /\ ~Refused(m, t, u, c)
          /\ Becomes(Add(m, b, t, u, c))
          /\ Pushed(<<>>, <<ToLink("login", [token |-> t, userId |-> u, clientId |-> c], mine)>>)
     /\ UNCHANGED wild

\* The end of both logins: the record that user u has, if any, is replaced by one
\* for client c with a new token.  A user who is online is logged out first.
Replace(u, c, mine) ==
  LET a == byUserId[u]
      m == IF a = 0 THEN Manager ELSE Remove(Manager, a)
      t == issued + 1
      out == IF a # 0 /\ heap[a].clientId # 0
               THEN <<ToLink("logout", heap[a], FALSE)>> ELSE <<>>
  IN /\ t \in Tokens
     /\ issued' = t
     /\ IF Refused(m, t, u, c)
          THEN Becomes(m) /\ Pushed(out, <<>>)
          ELSE \E b \in Addr :
                 /\ m.heap[b] = Freed
                 /\ Becomes(Add(m, b, t, u, c))
                 /\ Pushed(out, <<ToLink("login", [token |-> t, userId |-> u, clientId |-> c], mine)>>)
     /\ UNCHANGED wild

LoginByName ==
  /\ LoginReceives("login")
  /\ LET m == Head(up) IN Replace(m.user, m.client, m.mine)

LoginByToken ==
  /\ LoginReceives("by_token")
  /\ LET m == Head(up) a == byToken[m.token] IN
       /\ a # 0
       /\ Replace(heap[a].userId, m.client, m.mine)

InvalidToken ==
  /\ LoginReceives("by_token") /\ byToken[Head(up).token] = 0
  /\ UNCHANGED <<down, managerVars>>

\* ss_msg_client_exit: offline() on the record the client's entry points to.
ClientExit ==
  /\ LoginReceives("exit")
  /\ LET c == Head(up).client a == byClient[c] IN
       IF a = 0
         THEN UNCHANGED <<heap, wild>>
         ELSE /\ heap' = [heap EXCEPT ![a].clientId = 0]
              /\ wild' = (wild \/ heap[a].clientId \notin {0, c})
  /\ UNCHANGED <<down, byToken, byUserId, byClient, issued, lost>>

-------------------------------------------------------------------------------
LinkNext ==
  \/ \E c \in Clients :
       \/ Connect(c) \/ Leave(c)
       \/ \E u \in Users : AskLogin(c, u)
       \/ \E t \in Tokens : AskByToken(c, t)
  \/ UserLogin \/ UserLogout

LoginNext == LoginByName \/ LoginByToken \/ InvalidToken \/ ClientExit

Next == LinkNext \/ LoginNext

Spec == Init /\ [][Next]_vars

-------------------------------------------------------------------------------
(* Properties                                                              *)

\* The maps by user and by token hold the same records, each under its own keys,
\* and every record that exists is in both: none leaks and none is found twice.
MapsAgree ==
  \A a \in Addr :
    IF heap[a] = Freed
      THEN a \notin {byUserId[u] : u \in Users} \cup {byToken[t] : t \in Tokens}
      ELSE /\ {u \in Users : byUserId[u] = a} = {heap[a].userId}
           /\ {t \in Tokens : byToken[t] = a} = {heap[a].token}

\* A user has one session: two clients of the Link that asked for theirs are not
\* logged in as the same user once the logouts on their way have arrived, unless
\* one was lost or offline() has hit the wrong record.
OneSession ==
  (~wild /\ ~lost /\ \A i \in DOMAIN down : down[i].type # "logout") =>
    \A c, d \in own : userId[c] = userId[d] => c = d

\* A logout that the Link carries out ends the very session it was sent for, not a
\* later one of the same user from the same client, though no token is compared,
\* unless a login or logout has been lost before.
LogoutEndsItsSession ==
  [][~lost => \A c \in Clients :
       (c \in open /\ userId[c] # 0 /\ userId'[c] = 0 /\ c \in open')
         => token[c] = Head(down).token]_vars
===============================================================================
