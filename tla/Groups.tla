--------------------------------- MODULE Groups ---------------------------------
(***************************************************************************)
(* doyou::io::GroupServer with its GroupManager and UserGroup, fed by the  *)
(* clients of one LinkServer through the Gate.  The Link sends what its    *)
(* clients ask and, when one leaves, broadcasts ss_msg_client_exit; both   *)
(* travel over the same two connections and so arrive in order.  Either    *)
(* connection may break and takes what it carries with it.                 *)
(*                                                                         *)
(* A client is known to the GroupServer as <<link, sock>>: ClientId packs  *)
(* the descriptor of the Link at the Gate with the descriptor of the       *)
(* client at the Link.  The Gate computes it for a request, the Link       *)
(* itself for a departure, from the link id it was told last.              *)
(*                                                                         *)
(* Requests refused before any group is looked at (a missing field, a      *)
(* client that is not logged in), the answers to requests and what is      *)
(* pushed to members, cs_msg_group_say included, are left out.             *)
(***************************************************************************)
EXTENDS Naturals, Sequences

CONSTANTS
  Socks,       \* descriptors that the Link's clients may have
  Links,       \* descriptors that the Link's connection may have at the Gate
  GroupIds,    \* ids that groups may have; bound: allocation stops after the last
  Named,       \* those that clients name in their requests; 0 asks for a new one
  Keys,        \* keys of groups
  NoKey,       \* stands for the key of a group that does not exist
  IndexStart,  \* _index_id at the start: allocated ids come after it
  MaxInbox     \* bound: messages on their way to the GroupServer

ASSUME GroupsAssumption ==
  /\ 0 \notin Links /\ Links \subseteq Nat
  /\ 0 \notin GroupIds /\ GroupIds \subseteq Nat /\ Named \subseteq GroupIds
  /\ NoKey \notin Keys
  /\ IndexStart \in Nat /\ MaxInbox \in Nat

VARIABLES
  open,       \* descriptors of the clients connected to the Link
  link,       \* descriptor of the Link's connection at the Gate, 0 when there is none
  known,      \* INetClient::_clientId of the Link: the link id it was told last
  inbox,      \* messages on their way to the GroupServer
  exists,     \* keys of GroupManager::_map_member
  member,     \* Group::_member of each group
  key,        \* Group::_key of each group
  index,      \* GroupManager::_index_id
  userGroup,  \* UserGroup::_map_member: groups of each client; {} is no entry
  orphan      \* history: clients whose departure the GroupServer cannot have heard of

linkVars == <<open, link, known>>
groupVars == <<exists, member, key, index>>
vars == <<linkVars, inbox, groupVars, userGroup, orphan>>

Ids == ({0} \cup Links) \X Socks

\* Every id that belonged to the Link when its connection was l.
IdsOf(l) == {l} \X Socks

Requests ==
       [type : {"create"}, id : Ids, group : {0} \cup Named, key : Keys]
  \cup [type : {"join"}, id : Ids, group : Named, key : Keys]
  \cup [type : {"exit"}, id : Ids, group : Named]

Departure(id) == [type |-> "client_exit", id |-> id]

Messages == Requests \cup {Departure(id) : id \in Ids}

TypeOK ==
  /\ open \subseteq Socks
  /\ link \in {0} \cup Links /\ known \in {0} \cup Links
  /\ inbox \in Seq(Messages)
  /\ exists \subseteq GroupIds
  /\ member \in [GroupIds -> SUBSET Ids]
  /\ key \in [GroupIds -> Keys \cup {NoKey}]
  /\ index \in Nat
  /\ userGroup \in [Ids -> SUBSET GroupIds]
  /\ orphan \subseteq Ids

Init ==
  /\ open = {} /\ link = 0 /\ known = 0 /\ inbox = <<>>
  /\ exists = {} /\ member = [g \in GroupIds |-> {}]
  /\ key = [g \in GroupIds |-> NoKey]
  /\ index = IndexStart
  /\ userGroup = [id \in Ids |-> {}]
  /\ orphan = {}

-------------------------------------------------------------------------------
(* The Link and its clients                                                *)

Arrive(s) ==
  /\ s \notin open
  /\ open' = open \cup {s}
  /\ UNCHANGED <<link, known, inbox, groupVars, userGroup, orphan>>

\* A client's request, tagged by the Gate with the Link's descriptor.  One that does
\* not get to the Gate or past it, for the reasons a departure may not, changes nothing.
Ask(s, m) ==
  /\ s \in open /\ link # 0 /\ Len(inbox) < MaxInbox
  /\ m.id = <<link, s>>
  /\ inbox' = Append(inbox, m)
  /\ UNCHANGED <<linkVars, groupVars, userGroup, orphan>>

\* Defect: the departure is announced under the client's bare descriptor.
Leave_Bare(s) ==
  /\ s \in open
  /\ open' = open \ {s}
  /\ IF link = 0 THEN UNCHANGED inbox ELSE inbox' = Append(inbox, Departure(s))
  /\ UNCHANGED <<link, known, groupVars, userGroup, orphan>>

\* on_client_leave: the broadcast carries the link id the Link believes it has.  It
\* is lost when it does not fit the send buffer, which nobody looks at, and when the
\* Gate has not registered the Link yet.
Leave(s) ==
  /\ s \in open
  /\ open' = open \ {s}
  /\ \/ link = 0 /\ UNCHANGED <<inbox, orphan>>
     \/ /\ link # 0 /\ Len(inbox) < MaxInbox
        /\ inbox' = Append(inbox, Departure(<<known, s>>))
        /\ orphan' = IF known = link THEN orphan ELSE orphan \cup {<<link, s>>}
     \/ /\ link # 0
        /\ orphan' = orphan \cup {<<link, s>>}
        /\ UNCHANGED inbox
  /\ UNCHANGED <<link, known, groupVars, userGroup>>

\* The Link reaches the Gate, under any descriptor, and is told which one only
\* when the answer to ss_reg_server comes.
Connect(l) ==
  /\ link = 0 /\ link' = l
  /\ UNCHANGED <<open, known, inbox, groupVars, userGroup, orphan>>

Registered ==
  /\ link # 0 /\ known # link /\ known' = link
  /\ UNCHANGED <<open, link, inbox, groupVars, userGroup, orphan>>

\* The Link loses the Gate, and with it the messages the Gate does not have yet.
Break ==
  /\ link # 0 /\ link' = 0
  /\ \E n \in 0 .. Len(inbox) : inbox' = SubSeq(inbox, 1, n)
  /\ orphan' = orphan \cup IdsOf(link)
  /\ UNCHANGED <<open, known, groupVars, userGroup>>

\* The GroupServer loses the Gate: what it had not received is lost.
Lose ==
  /\ inbox # <<>>
  /\ \E n \in 0 .. Len(inbox) - 1 :
       /\ inbox' = SubSeq(inbox, 1, n)
       /\ orphan' = orphan \cup
            {id \in Ids : \E i \in n + 1 .. Len(inbox) : inbox[i] = Departure(id)}
  /\ UNCHANGED <<linkVars, groupVars, userGroup>>

-------------------------------------------------------------------------------
(* The handlers of the GroupServer, one message at a time                  *)

Receive(type) ==
  /\ inbox # <<>> /\ Head(inbox).type = type
  /\ inbox' = Tail(inbox)
  /\ UNCHANGED linkVars

\* Defect: a group that has lost its last member stays in the map with its key.
RemoveMember_Keeps(id, G) ==
  /\ member' = [g \in GroupIds |-> IF g \in G THEN member[g] \ {id} ELSE member[g]]
  /\ UNCHANGED <<exists, key, index>>

\* Group::del, and the end of the group and its key when it was the last member.
RemoveMember(id, G) ==
  /\ member' = [g \in GroupIds |-> IF g \in G THEN member[g] \ {id} ELSE member[g]]
  /\ LET over == {g \in G : member[g] \subseteq {id}} IN
       /\ exists' = exists \ over
       /\ key' = [g \in GroupIds |-> IF g \in over THEN NoKey ELSE key[g]]
  /\ UNCHANGED index

\* Defect: the group's list keeps its member but the client's list forgets the group.
AddMember_NoUserGroup(id, g) ==
  /\ member' = [member EXCEPT ![g] = @ \cup {id}]
  /\ UNCHANGED userGroup

\* The client enters the group's list and the group the client's.
AddMember(id, g) ==
  /\ member' = [member EXCEPT ![g] = @ \cup {id}]
  /\ userGroup' = [userGroup EXCEPT ![id] = @ \cup {g}]

\* The id of the group a create is about: the next one if the request has none.
GroupFor(m) == IF m.group = 0 THEN index + 1 ELSE m.group

CountId(m) == index' = IF m.group = 0 THEN index + 1 ELSE index

Found ==
  /\ Receive("create")
  /\ LET m == Head(inbox) g == GroupFor(m) IN
       /\ g \in GroupIds \ exists
       /\ CountId(m)
       /\ exists' = exists \cup {g}
       /\ key' = [key EXCEPT ![g] = m.key]
       /\ AddMember(m.id, g)
  /\ UNCHANGED orphan

\* A create that finds its group joins it, with the right key, even when the id
\* was allocated.
CreateJoins ==
  /\ Receive("create")
  /\ LET m == Head(inbox) g == GroupFor(m) IN
       /\ g \in exists /\ key[g] = m.key
       /\ CountId(m)
       /\ AddMember(m.id, g)
  /\ UNCHANGED <<exists, key, orphan>>

CreateFails ==
  /\ Receive("create")
  /\ LET m == Head(inbox) g == GroupFor(m) IN
       /\ g \in exists /\ key[g] # m.key
       /\ CountId(m)
  /\ UNCHANGED <<exists, member, key, userGroup, orphan>>

Join ==
  /\ Receive("join")
  /\ LET m == Head(inbox) g == m.group IN
       /\ g \in exists /\ key[g] = m.key
       /\ AddMember(m.id, g)
  /\ UNCHANGED <<exists, key, index, orphan>>

JoinFails ==
  /\ Receive("join")
  /\ LET m == Head(inbox) IN m.group \notin exists \/ key[m.group] # m.key
  /\ UNCHANGED <<groupVars, userGroup, orphan>>

\* The push that follows reads the Group that del has freed if its last member
\* left; whom it reaches is not modelled.
Exit ==
  /\ Receive("exit")
  /\ LET id == Head(inbox).id g == Head(inbox).group IN
       /\ g \in exists /\ id \in member[g]
       /\ RemoveMember(id, {g})
       /\ userGroup' = [userGroup EXCEPT ![id] = @ \ {g}]
  /\ UNCHANGED orphan

ExitFails ==
  /\ Receive("exit")
  /\ LET m == Head(inbox) IN m.group \notin exists \/ m.id \notin member[m.group]
  /\ UNCHANGED <<groupVars, userGroup, orphan>>

\* History: the departure of id has been heard, and nothing it sent comes after it.
Heard(id) ==
  orphan' = IF \E i \in 2 .. Len(inbox) : inbox[i].id = id THEN orphan ELSE orphan \ {id}

\* Defect: a group the client has left already ends the loop instead of being skipped.
ClientExit_StopsAtMiss ==
  /\ Receive("client_exit")
  /\ LET id == Head(inbox).id
         G == {g \in userGroup[id] : g \in exists /\ id \in member[g]}
     IN /\ IF G = userGroup[id] THEN RemoveMember(id, G) ELSE UNCHANGED groupVars
        /\ Heard(id)
  /\ UNCHANGED userGroup

\* ss_msg_client_exit: the groups in the client's own list, which is kept; those
\* of them it is not in any more are skipped.
ClientExit ==
  /\ Receive("client_exit")
  /\ LET id == Head(inbox).id
         G == {g \in userGroup[id] : g \in exists /\ id \in member[g]}
     IN /\ RemoveMember(id, G)
        /\ Heard(id)
  /\ UNCHANGED userGroup

-------------------------------------------------------------------------------
Handle ==
  \/ Found \/ CreateJoins \/ CreateFails
  \/ Join \/ JoinFails
  \/ Exit \/ ExitFails
  \/ ClientExit

Next ==
  \/ \E s \in Socks : Arrive(s) \/ Leave(s) \/ \E m \in Requests : Ask(s, m)
  \/ \E l \in Links : Connect(l)
  \/ Registered \/ Break \/ Lose
  \/ Handle

Spec == Init /\ [][Next]_vars

-------------------------------------------------------------------------------
(* Properties                                                              *)

\* GroupManager and UserGroup are kept in step by hand: every member of a group
\* has the group in its own list, and a group is in the map while it has members.
MemberKnown ==
  /\ \A g \in GroupIds, id \in Ids : id \in member[g] => g \in userGroup[id]
  /\ exists = {g \in GroupIds : member[g] # {}}

\* A member of a group that is not a connected client of the Link is on its way
\* out, unless its departure was lost or announced under a stale link id: the
\* forwarded requests and the broadcast departures of one client arrive in order.
GhostsAreOrphans ==
  \A g \in GroupIds : \A id \in member[g] :
    \/ id[1] = link /\ id[2] \in open
    \/ \E i \in DOMAIN inbox : inbox[i] = Departure(id)
    \/ id \in orphan

\* The groups behave as Membership describes.
Promise == INSTANCE Membership WITH roster <- member

GroupsKept == Promise!Spec
===============================================================================
