------------------------------ MODULE Groups_proofs ------------------------------
(***************************************************************************)
(* Proofs about Groups, for any numbers of clients, links, groups and keys *)
(* and any length of the inbox: the group lists and the clients' lists     *)
(* agree, the groups implement Membership, and a member that is no client  *)
(* of the Link is on its way out or an orphan.                             *)
(***************************************************************************)
EXTENDS Groups, TLAPS

\* A group has a key as long as it has members.
KeyWhileMembers == \A g \in GroupIds : key[g] = NoKey <=> member[g] = {}

GroupInv == TypeOK /\ MemberKnown /\ KeyWhileMembers

(***************************************************************************)
(* The GroupServer has a trace of a client: as a member, at 0, or by a     *)
(* request at n in the inbox.                                              *)
(***************************************************************************)
Trace(id, n) ==
  \/ n = 0 /\ \E g \in GroupIds : id \in member[g]
  \/ n \in DOMAIN inbox /\ inbox[n].type # "client_exit" /\ inbox[n].id = id

\* Such a client is connected, or announced as gone behind its trace, or an orphan.
Tracked(id, n) ==
  \/ id[1] = link /\ id[2] \in open
  \/ \E i \in DOMAIN inbox : i > n /\ inbox[i] = Departure(id)
  \/ id \in orphan

\* Its id stems from a descriptor of the Link, and from the present one unless it
\* is an orphan: a connection that breaks makes orphans of all its ids.
FromLink(id) == id[1] # 0 /\ (id[1] = link \/ id \in orphan)

OriginInv ==
  \A id \in Ids, n \in 0 .. Len(inbox) : Trace(id, n) => Tracked(id, n) /\ FromLink(id)

-------------------------------------------------------------------------------
(* Types                                                                   *)

LEMMA MessageFields ==
  ASSUME NEW m \in Messages
  PROVE  /\ m.id \in Ids
         /\ m.type = "create" => m \in [type : {"create"}, id : Ids, group : {0} \cup Named, key : Keys]
         /\ m.type = "join" => m \in [type : {"join"}, id : Ids, group : Named, key : Keys]
         /\ m.type = "exit" => m \in [type : {"exit"}, id : Ids, group : Named]
BY DEF Messages, Requests, Departure

LEMMA HeadOfInbox ==
  ASSUME TypeOK, inbox # <<>>
  PROVE  Head(inbox) \in Messages /\ Tail(inbox) \in Seq(Messages)
BY DEF TypeOK

LEMMA GroupTypes ==
  ASSUME GroupInv
  PROVE  /\ exists \subseteq GroupIds
         /\ member \in [GroupIds -> SUBSET Ids]
         /\ key \in [GroupIds -> Keys \cup {NoKey}]
         /\ userGroup \in [Ids -> SUBSET GroupIds]
BY DEF GroupInv, TypeOK

\* What the four maps of the groups must satisfy after a step.
GroupsFit ==
  /\ exists \subseteq GroupIds
  /\ member \in [GroupIds -> SUBSET Ids]
  /\ key \in [GroupIds -> Keys \cup {NoKey}]
  /\ userGroup \in [Ids -> SUBSET GroupIds]
  /\ MemberKnown
  /\ KeyWhileMembers

LEMMA FitBefore == GroupInv => GroupsFit
BY DEF GroupInv, TypeOK, GroupsFit

LEMMA GroupsUntouched ==
  ASSUME GroupsFit, UNCHANGED <<groupVars, userGroup>>
  PROVE  GroupsFit'
BY DEF groupVars, GroupsFit, MemberKnown, KeyWhileMembers

-------------------------------------------------------------------------------
(* A member more, members fewer                                            *)

LEMMA MemberAdded ==
  ASSUME GroupsFit, NEW id \in Ids, NEW g \in GroupIds, NEW k \in Keys,
         AddMember(id, g), exists' = exists \cup {g}, key' = [key EXCEPT ![g] = k]
  PROVE  GroupsFit'
<1>1. /\ member' = [member EXCEPT ![g] = @ \cup {id}]
      /\ userGroup' = [userGroup EXCEPT ![id] = @ \cup {g}]
  BY DEF AddMember
<1>2. /\ exists' \subseteq GroupIds
      /\ member' \in [GroupIds -> SUBSET Ids]
      /\ key' \in [GroupIds -> Keys \cup {NoKey}]
      /\ userGroup' \in [Ids -> SUBSET GroupIds]
  BY <1>1 DEF GroupsFit
<1>3. \A h \in GroupIds, c \in Ids :
        c \in member'[h] <=> c \in member[h] \/ (h = g /\ c = id)
  BY <1>1 DEF GroupsFit
<1>4. \A h \in GroupIds, c \in Ids :
        h \in userGroup'[c] <=> h \in userGroup[c] \/ (h = g /\ c = id)
  BY <1>1 DEF GroupsFit
<1>5. \A h \in GroupIds, c \in Ids : c \in member'[h] => h \in userGroup'[c]
  BY <1>3, <1>4 DEF GroupsFit, MemberKnown
<1>6. \A h \in GroupIds : member'[h] # {} <=> member[h] # {} \/ h = g
  BY <1>2, <1>3 DEF GroupsFit
<1>7. exists' = {h \in GroupIds : member'[h] # {}}
  BY <1>6 DEF GroupsFit, MemberKnown
<1>8. \A h \in GroupIds : key'[h] = IF h = g THEN k ELSE key[h]
  BY DEF GroupsFit
<1>9. KeyWhileMembers'
  BY <1>6, <1>8, GroupsAssumption DEF GroupsFit, KeyWhileMembers
<1> QED BY <1>2, <1>5, <1>7, <1>9 DEF GroupsFit, MemberKnown

\* A client's list may keep a group that the client has left, but not the reverse.
LEMMA MemberRemoved ==
  ASSUME GroupsFit, NEW id \in Ids, NEW G \in SUBSET GroupIds,
         RemoveMember(id, G),
         userGroup' \in [Ids -> SUBSET GroupIds],
         \A c \in Ids : c # id => userGroup'[c] = userGroup[c],
         userGroup[id] \ G \subseteq userGroup'[id]
  PROVE  /\ GroupsFit'
         /\ \A h \in GroupIds : member'[h] = IF h \in G THEN member[h] \ {id} ELSE member[h]
         /\ key' = [h \in GroupIds |-> IF member'[h] = {} THEN NoKey ELSE key[h]]
<1>1. PICK over \in SUBSET GroupIds :
        /\ over = {h \in G : member[h] \subseteq {id}}
        /\ exists' = exists \ over
        /\ key' = [h \in GroupIds |-> IF h \in over THEN NoKey ELSE key[h]]
  BY DEF RemoveMember
<1>2. member' = [h \in GroupIds |-> IF h \in G THEN member[h] \ {id} ELSE member[h]]
  BY DEF RemoveMember
<1>3. \A h \in GroupIds : member'[h] = IF h \in G THEN member[h] \ {id} ELSE member[h]
  BY <1>2
<1>4. member' \in [GroupIds -> SUBSET Ids]
  BY <1>2 DEF GroupsFit
<1>5. \A h \in GroupIds : member'[h] = {} <=> h \in over \/ member[h] = {}
  BY <1>1, <1>3 DEF GroupsFit
<1>6. \A h \in GroupIds, c \in Ids : c \in member'[h] => h \in userGroup'[c]
  BY <1>3 DEF GroupsFit, MemberKnown
<1>7. exists' = {h \in GroupIds : member'[h] # {}}
  BY <1>1, <1>5 DEF GroupsFit, MemberKnown
<1>8. \A h \in GroupIds : key'[h] = IF h \in over THEN NoKey ELSE key[h]
  BY <1>1
<1>9. \A h \in GroupIds : key'[h] = IF member'[h] = {} THEN NoKey ELSE key[h]
  BY <1>5, <1>8 DEF GroupsFit, KeyWhileMembers
<1>10. KeyWhileMembers'
  BY <1>5, <1>8 DEF GroupsFit, KeyWhileMembers
<1>11. key' \in [GroupIds -> Keys \cup {NoKey}]
  BY <1>1 DEF GroupsFit
<1>12. key' = [h \in GroupIds |-> IF member'[h] = {} THEN NoKey ELSE key[h]]
  BY <1>9, <1>11
<1>13. GroupsFit'
  BY <1>1, <1>4, <1>6, <1>7, <1>10, <1>11 DEF GroupsFit, MemberKnown
<1> QED BY <1>3, <1>12, <1>13
-------------------------------------------------------------------------------
(* The handlers                                                            *)

\* What every handler does to the groups: they fit again, and Membership sees one
\* of its steps or nothing.
HandledWell == GroupsFit' /\ (Promise!Next \/ UNCHANGED <<member, key>>)

LEMMA MemberEnters ==
  ASSUME GroupsFit, NEW id \in Ids, NEW g \in exists, NEW k \in Keys,
         key[g] = k, AddMember(id, g), UNCHANGED <<exists, key>>
  PROVE  HandledWell
<1>1. g \in GroupIds /\ member[g] # {}
  BY DEF GroupsFit, MemberKnown
<1>2. exists' = exists \cup {g} /\ key' = [key EXCEPT ![g] = k]
  BY DEF GroupsFit
<1>3. GroupsFit'
  BY <1>1, <1>2, MemberAdded
<1>4. Promise!Enter(id, g)
  BY <1>1 DEF Promise!Enter, AddMember
<1> QED BY <1>1, <1>3, <1>4 DEF HandledWell, Promise!Next

LEMMA FoundFits == GroupInv /\ Found => HandledWell
<1> SUFFICES ASSUME GroupInv, Found PROVE HandledWell
  OBVIOUS
<1> DEFINE m == Head(inbox)
           g == GroupFor(m)
<1>1. GroupsFit
  BY FitBefore
<1>2. m \in Messages /\ m.type = "create"
  BY HeadOfInbox DEF GroupInv, Found, Receive
<1>3. m.id \in Ids /\ m.key \in Keys
  BY <1>2, MessageFields
<1>4. /\ g \in GroupIds \ exists
      /\ exists' = exists \cup {g}
      /\ key' = [key EXCEPT ![g] = m.key]
      /\ AddMember(m.id, g)
  BY DEF Found
<1> HIDE DEF m, g
<1>5. GroupsFit'
  BY <1>1, <1>3, <1>4, MemberAdded
<1>6. member[g] = {}
  BY <1>1, <1>4 DEF GroupsFit, MemberKnown
<1>7. member' = [member EXCEPT ![g] = {m.id}]
  BY <1>4, <1>6 DEF AddMember
<1>8. Promise!Found(m.id, g, m.key)
  BY <1>4, <1>6, <1>7 DEF Promise!Found
<1> QED BY <1>3, <1>4, <1>5, <1>8 DEF HandledWell, Promise!Next

LEMMA CreateJoinsFits == GroupInv /\ CreateJoins => HandledWell
<1> SUFFICES ASSUME GroupInv, CreateJoins PROVE HandledWell
  OBVIOUS
<1> DEFINE m == Head(inbox)
           g == GroupFor(m)
<1>1. m \in Messages /\ m.type = "create"
  BY HeadOfInbox DEF GroupInv, CreateJoins, Receive
<1>2. m.id \in Ids /\ m.key \in Keys
  BY <1>1, MessageFields
<1>3. g \in exists /\ key[g] = m.key /\ AddMember(m.id, g) /\ UNCHANGED <<exists, key>>
  BY DEF CreateJoins
<1> HIDE DEF m, g
<1> QED BY <1>2, <1>3, FitBefore, MemberEnters

LEMMA JoinFits == GroupInv /\ Join => HandledWell
<1> SUFFICES ASSUME GroupInv, Join PROVE HandledWell
  OBVIOUS
<1> DEFINE m == Head(inbox)
<1>1. m \in Messages /\ m.type = "join"
  BY HeadOfInbox DEF GroupInv, Join, Receive
<1>2. m.id \in Ids /\ m.key \in Keys
  BY <1>1, MessageFields
<1>3. m.group \in exists /\ key[m.group] = m.key /\ AddMember(m.id, m.group) /\ UNCHANGED <<exists, key>>
  BY DEF Join
<1> HIDE DEF m
<1> QED BY <1>2, <1>3, FitBefore, MemberEnters

LEMMA ExitFits == GroupInv /\ Exit => HandledWell
<1> SUFFICES ASSUME GroupInv, Exit PROVE HandledWell
  OBVIOUS
<1> DEFINE id == Head(inbox).id
           g == Head(inbox).group
<1>1. GroupsFit
  BY FitBefore
<1>2. id \in Ids
  BY HeadOfInbox, MessageFields DEF GroupInv, Exit, Receive
<1>3. /\ g \in exists /\ id \in member[g]
      /\ RemoveMember(id, {g})
      /\ userGroup' = [userGroup EXCEPT ![id] = @ \ {g}]
  BY DEF Exit
<1> HIDE DEF id, g
<1>4. g \in GroupIds
  BY <1>1, <1>3 DEF GroupsFit
<1>5. /\ userGroup' \in [Ids -> SUBSET GroupIds]
      /\ \A c \in Ids : c # id => userGroup'[c] = userGroup[c]
      /\ userGroup[id] \ {g} \subseteq userGroup'[id]
  BY <1>1, <1>2, <1>3 DEF GroupsFit
<1>6. /\ GroupsFit'
      /\ key' = [h \in GroupIds |-> IF member'[h] = {} THEN NoKey ELSE key[h]]
  BY <1>1, <1>2, <1>3, <1>4, <1>5, MemberRemoved
<1>7. Promise!Quit(id, g)
  BY <1>3, <1>6 DEF Promise!Quit, Promise!Remove, RemoveMember
<1> QED BY <1>2, <1>4, <1>6, <1>7 DEF HandledWell, Promise!Next

\* The client's own list names every group it is in, so that it ends up in none.
LEMMA ClientExitFits ==
  ASSUME GroupInv, ClientExit
  PROVE  HandledWell /\ \A g \in GroupIds : member'[g] = member[g] \ {Head(inbox).id}
<1> DEFINE id == Head(inbox).id
           G == {g \in userGroup[id] : g \in exists /\ id \in member[g]}
<1>1. GroupsFit
  BY FitBefore
<1>2. id \in Ids
  BY HeadOfInbox, MessageFields DEF GroupInv, ClientExit, Receive
<1>3. RemoveMember(id, G) /\ userGroup' = userGroup
  BY DEF ClientExit
<1>4. G \in SUBSET GroupIds /\ \A g \in GroupIds : g \in G <=> id \in member[g]
  BY <1>1, <1>2 DEF GroupsFit, MemberKnown
<1> HIDE DEF id, G
<1>5. /\ GroupsFit'
      /\ \A g \in GroupIds : member'[g] = IF g \in G THEN member[g] \ {id} ELSE member[g]
      /\ key' = [g \in GroupIds |-> IF member'[g] = {} THEN NoKey ELSE key[g]]
  BY <1>1, <1>2, <1>3, <1>4, MemberRemoved DEF GroupsFit
<1>6. \A g \in GroupIds : member'[g] = member[g] \ {id}
  BY <1>1, <1>4, <1>5 DEF GroupsFit
<1>7. member' = [g \in GroupIds |-> IF g \in GroupIds THEN member[g] \ {id} ELSE member[g]]
  BY <1>5, <1>6 DEF GroupsFit
<1>8. Promise!Vanish(id)
  BY <1>5, <1>7 DEF Promise!Vanish, Promise!Remove
<1> QED BY <1>2, <1>5, <1>6, <1>8 DEF HandledWell, Promise!Next, id

LEMMA FailuresFit ==
  ASSUME GroupInv, CreateFails \/ JoinFails \/ ExitFails
  PROVE  HandledWell
<1>1. UNCHANGED <<exists, member, key, userGroup>>
  BY DEF CreateFails, JoinFails, ExitFails, groupVars
<1> QED BY <1>1, FitBefore DEF HandledWell, GroupsFit, MemberKnown, KeyWhileMembers

LEMMA StepFits == GroupInv /\ [Next]_vars => HandledWell
<1> SUFFICES ASSUME GroupInv, [Next]_vars PROVE HandledWell
  OBVIOUS
<1>1. CASE Handle
  BY <1>1, FoundFits, CreateJoinsFits, JoinFits, ExitFits, ClientExitFits, FailuresFit DEF Handle
<1>2. CASE UNCHANGED <<groupVars, userGroup>>
  BY <1>2, GroupsUntouched, FitBefore DEF HandledWell, groupVars
<1>3. CASE \E s \in Socks : Arrive(s) \/ Leave(s) \/ \E m \in Requests : Ask(s, m)
  BY <1>2, <1>3 DEF Arrive, Leave, Ask
<1>4. CASE (\E l \in Links : Connect(l)) \/ Registered \/ Break \/ Lose
  BY <1>2, <1>4 DEF Connect, Registered, Break, Lose
<1>5. CASE UNCHANGED vars
  BY <1>2, <1>5 DEF vars
<1> QED BY <1>1, <1>3, <1>4, <1>5 DEF Next
-------------------------------------------------------------------------------
(* The messages and the types                                              *)

LEMMA DepartureMessage == \A id \in Ids : Departure(id) \in Messages
BY DEF Messages

LEMMA GrownInbox ==
  ASSUME NEW q \in Seq(Messages), NEW m \in Messages
  PROVE  /\ Append(q, m) \in Seq(Messages) /\ Len(Append(q, m)) = Len(q) + 1
         /\ \A i \in 1 .. Len(q) : Append(q, m)[i] = q[i]
         /\ Append(q, m)[Len(q) + 1] = m
OBVIOUS

LEMMA CutInbox ==
  ASSUME NEW q \in Seq(Messages), NEW n \in 0 .. Len(q)
  PROVE  /\ SubSeq(q, 1, n) \in Seq(Messages) /\ Len(SubSeq(q, 1, n)) = n
         /\ \A i \in 1 .. n : SubSeq(q, 1, n)[i] = q[i]
OBVIOUS

\* The Link's side of TypeOK, with what it has sent.
SenderTypes ==
  /\ open \subseteq Socks
  /\ link \in {0} \cup Links /\ known \in {0} \cup Links
  /\ inbox \in Seq(Messages)
  /\ index \in Nat
  /\ orphan \subseteq Ids

LEMMA SenderTypesKept == TypeOK /\ [Next]_vars => SenderTypes'
<1> SUFFICES ASSUME TypeOK, [Next]_vars PROVE SenderTypes'
  OBVIOUS
<1> USE DEF TypeOK
<1>1. ASSUME NEW s \in Socks, Arrive(s) PROVE SenderTypes'
  BY <1>1 DEF Arrive, SenderTypes, groupVars
<1>2. ASSUME NEW s \in Socks, Leave(s) PROVE SenderTypes'
  <2>1. <<known, s>> \in Ids /\ <<link, s>> \in Ids
    BY DEF Ids
  <2>2. Departure(<<known, s>>) \in Messages
    BY <2>1, DepartureMessage
  <2>3. inbox' = inbox \/ inbox' = Append(inbox, Departure(<<known, s>>))
    BY <1>2 DEF Leave
  <2>4. orphan' = orphan \/ orphan' = orphan \cup {<<link, s>>}
    BY <1>2 DEF Leave
  <2>5. inbox' \in Seq(Messages)
    BY <2>2, <2>3, GrownInbox, Zenon
  <2>6. orphan' \subseteq Ids
    BY <2>1, <2>4
  <2> QED BY <1>2, <2>5, <2>6 DEF Leave, SenderTypes, groupVars
<1>3. ASSUME NEW s \in Socks, NEW m \in Requests, Ask(s, m) PROVE SenderTypes'
  <2>1. m \in Messages
    BY DEF Messages
  <2>2. inbox' \in Seq(Messages)
    BY <1>3, <2>1 DEF Ask
  <2> QED BY <1>3, <2>2 DEF Ask, SenderTypes, groupVars, linkVars
<1>4. ASSUME NEW l \in Links, Connect(l) PROVE SenderTypes'
  BY <1>4 DEF Connect, SenderTypes, groupVars
<1>5. CASE Registered
  BY <1>5 DEF Registered, SenderTypes, groupVars
<1>6. CASE Break
  <2>1. inbox' \in Seq(Messages)
    BY <1>6, CutInbox DEF Break
  <2>2. IdsOf(link) \subseteq Ids
    BY DEF IdsOf, Ids
  <2> QED BY <1>6, <2>1, <2>2 DEF Break, SenderTypes, groupVars
<1>7. CASE Lose
  <2>1. PICK n \in 0 .. Len(inbox) - 1 :
          /\ inbox' = SubSeq(inbox, 1, n)
          /\ orphan' = orphan \cup
               {id \in Ids : \E i \in n + 1 .. Len(inbox) : inbox[i] = Departure(id)}
    BY <1>7 DEF Lose
  <2>2. inbox' \in Seq(Messages)
    BY <2>1, CutInbox
  <2> QED BY <1>7, <2>1, <2>2 DEF Lose, SenderTypes, groupVars, linkVars
<1>8. CASE Handle
  <2>1. inbox # <<>> /\ inbox' = Tail(inbox) /\ UNCHANGED linkVars
    BY <1>8 DEF Handle, Found, CreateJoins, CreateFails, Join, JoinFails, Exit, ExitFails,
                ClientExit, Receive
  <2>2. index' = index \/ index' = index + 1
    BY <1>8 DEF Handle, Found, CreateJoins, CreateFails, Join, JoinFails, Exit, ExitFails,
                ClientExit, CountId, RemoveMember, groupVars
  <2>3. orphan' \subseteq orphan
    BY <1>8 DEF Handle, Found, CreateJoins, CreateFails, Join, JoinFails, Exit, ExitFails,
                ClientExit, Heard
  <2>4. inbox' \in Seq(Messages)
    BY <2>1, HeadOfInbox
  <2>5. index' \in Nat
    BY <2>2
  <2> QED BY <2>1, <2>3, <2>4, <2>5 DEF SenderTypes, linkVars
<1>9. CASE UNCHANGED vars
  BY <1>9 DEF vars, linkVars, groupVars, SenderTypes
<1> QED BY <1>1, <1>2, <1>3, <1>4, <1>5, <1>6, <1>7, <1>8, <1>9 DEF Next

LEMMA GroupInvariant == Spec => []GroupInv
<1>1. Init => GroupInv
  BY GroupsAssumption DEF Init, GroupInv, TypeOK, MemberKnown, KeyWhileMembers
<1>2. GroupInv /\ [Next]_vars => GroupInv'
  BY StepFits, SenderTypesKept DEF GroupInv, TypeOK, HandledWell, GroupsFit, SenderTypes
<1> QED BY <1>1, <1>2, PTL DEF Spec

\* Every variable of Groups stays in its set, whatever the numbers of clients,
\* links, groups and keys.
THEOREM TypeCorrect == Spec => []TypeOK
<1>1. GroupInv => TypeOK
  BY DEF GroupInv
<1> QED BY <1>1, GroupInvariant, PTL

\* The lists of the groups and of the clients agree although two maps are kept by
\* hand: who is a member of a group has it in its own list, and the map of groups
\* holds exactly those that have members.
THEOREM ListsAgree == Spec => []MemberKnown
<1>1. GroupInv => MemberKnown
  BY DEF GroupInv
<1> QED BY <1>1, GroupInvariant, PTL

\* Groups implements Membership: a key lasts as long as its group, and a client
\* whose departure is heard is in no group afterwards.
THEOREM MembershipImplemented == Spec => GroupsKept
<1>1. Init => Promise!Init
  BY DEF Init, Promise!Init
<1>2. GroupInv /\ [Next]_vars => [Promise!Next]_<<member, key>>
  BY StepFits DEF HandledWell
<1> QED BY <1>1, <1>2, GroupInvariant, PTL DEF Spec, GroupsKept, Promise!Spec
-------------------------------------------------------------------------------
(* Ghosts                                                                  *)

\* The inbox stays, and no trace gets worse.
LEMMA OriginUnmoved ==
  ASSUME OriginInv, UNCHANGED <<member, inbox>>, orphan \subseteq orphan',
         (link' = link /\ open \subseteq open') \/ link = 0
  PROVE  OriginInv'
<1> SUFFICES ASSUME NEW id \in Ids, NEW n \in 0 .. Len(inbox), Trace(id, n)'
             PROVE  (Tracked(id, n) /\ FromLink(id))'
  BY DEF OriginInv
<1>1. Trace(id, n)
  BY DEF Trace
<1>2. Tracked(id, n) /\ FromLink(id)
  BY <1>1 DEF OriginInv
<1> QED BY <1>2 DEF Tracked, FromLink

LEMMA OriginAsk ==
  ASSUME TypeOK, OriginInv, NEW s \in Socks, NEW m \in Requests, Ask(s, m)
  PROVE  OriginInv'
<1>1. m \in Messages /\ inbox \in Seq(Messages)
  BY DEF Messages, TypeOK
<1>2. inbox' = Append(inbox, m) /\ UNCHANGED <<open, link, member, orphan>>
  BY DEF Ask, linkVars, groupVars
<1>3. /\ Len(inbox') = Len(inbox) + 1 /\ DOMAIN inbox' = 1 .. Len(inbox) + 1
      /\ \A i \in 1 .. Len(inbox) : inbox'[i] = inbox[i]
      /\ inbox'[Len(inbox) + 1] = m
      /\ DOMAIN inbox = 1 .. Len(inbox) /\ Len(inbox) \in Nat
  BY <1>1, <1>2, GrownInbox
<1> SUFFICES ASSUME NEW id \in Ids, NEW n \in 0 .. Len(inbox'), Trace(id, n)'
             PROVE  (Tracked(id, n) /\ FromLink(id))'
  BY DEF OriginInv
<1>4. CASE n \in 0 .. Len(inbox)
  <2>1. Trace(id, n)
    BY <1>2, <1>3, <1>4 DEF Trace
  <2>2. Tracked(id, n) /\ FromLink(id)
    BY <1>4, <2>1 DEF OriginInv
  <2> QED BY <1>2, <1>3, <2>2 DEF Tracked, FromLink
<1>5. CASE n = Len(inbox) + 1
  <2>1. id = <<link, s>>
    <3>1. inbox'[n] = m /\ n # 0
      BY <1>3, <1>5
    <3>2. m.id = id
      BY <3>1 DEF Trace
    <3> QED BY <3>2 DEF Ask
  <2>2. s \in open /\ link # 0
    BY DEF Ask
  <2> QED BY <1>2, <2>1, <2>2 DEF Tracked, FromLink
<1> QED BY <1>3, <1>4, <1>5

\* The departure goes to the end of the inbox, behind every trace of the client.
LEMMA OriginLeave ==
  ASSUME TypeOK, OriginInv, NEW s \in Socks, Leave(s)
  PROVE  OriginInv'
<1>1. CASE link = 0
  BY <1>1, OriginUnmoved DEF Leave, groupVars
<1>2. CASE link # 0 /\ inbox' = inbox
  <2> SUFFICES ASSUME NEW id \in Ids, NEW n \in 0 .. Len(inbox), Trace(id, n)'
               PROVE  (Tracked(id, n) /\ FromLink(id))'
    BY <1>2 DEF OriginInv
  <2>1. /\ open' = open \ {s} /\ UNCHANGED <<link, member, inbox>>
        /\ orphan' = orphan \cup {<<link, s>>}
    BY <1>2 DEF Leave, groupVars
  <2>2. Tracked(id, n) /\ FromLink(id)
    BY <2>1 DEF OriginInv, Trace
  <2>3. id[1] = link /\ id[2] = s => id \in orphan'
    BY <2>1 DEF Ids
  <2> QED BY <2>1, <2>2, <2>3 DEF Tracked, FromLink
<1>3. CASE link # 0 /\ inbox' # inbox
  <2> DEFINE d == Departure(<<known, s>>)
  <2>1. d \in Messages /\ inbox \in Seq(Messages) /\ d.type = "client_exit"
    <3>1. <<known, s>> \in Ids
      BY DEF TypeOK, Ids
    <3> QED BY <3>1, DepartureMessage DEF TypeOK, Departure
  <2>2. /\ inbox' = Append(inbox, d) /\ open' = open \ {s} /\ UNCHANGED <<link, member>>
        /\ orphan' = IF known = link THEN orphan ELSE orphan \cup {<<link, s>>}
    BY <1>3 DEF Leave, groupVars
  <2>3. known = link => d = Departure(<<link, s>>)
    OBVIOUS
  <2> HIDE DEF d
  <2>4. /\ Len(inbox') = Len(inbox) + 1 /\ DOMAIN inbox' = 1 .. Len(inbox) + 1
        /\ \A i \in 1 .. Len(inbox) : inbox'[i] = inbox[i]
        /\ inbox'[Len(inbox) + 1] = d
        /\ DOMAIN inbox = 1 .. Len(inbox) /\ Len(inbox) \in Nat
    BY <2>1, <2>2, GrownInbox
  <2> SUFFICES ASSUME NEW id \in Ids, NEW n \in 0 .. Len(inbox'), Trace(id, n)'
               PROVE  (Tracked(id, n) /\ FromLink(id))'
    BY DEF OriginInv
  <2>5. n \in 0 .. Len(inbox) /\ Trace(id, n)
    BY <2>1, <2>2, <2>4 DEF Trace
  <2>6. Tracked(id, n) /\ FromLink(id)
    BY <2>5 DEF OriginInv
  <2>7. FromLink(id)'
    BY <2>2, <2>6 DEF FromLink
  <2>8. CASE id[1] = link /\ id[2] = s
    <3>1. id = <<link, s>>
      BY <2>8 DEF Ids
    <3>2. CASE known = link
      <4>1. Len(inbox) + 1 \in DOMAIN inbox' /\ Len(inbox) + 1 > n
        BY <2>4, <2>5
      <4>2. inbox'[Len(inbox) + 1] = Departure(id)
        BY <2>3, <2>4, <3>1, <3>2
      <4> QED BY <2>7, <4>1, <4>2 DEF Tracked
    <3>3. CASE known # link
      BY <2>2, <2>7, <3>1, <3>3 DEF Tracked
    <3> QED BY <3>2, <3>3
  <2>9. CASE id[1] = link /\ id[2] \in open /\ id[2] # s
    BY <2>2, <2>7, <2>9 DEF Tracked
  <2>10. CASE \E i \in DOMAIN inbox : i > n /\ inbox[i] = Departure(id)
    BY <2>4, <2>7, <2>10 DEF Tracked
  <2>11. CASE id \in orphan
    BY <2>2, <2>7, <2>11 DEF Tracked
  <2> QED BY <2>6, <2>8, <2>9, <2>10, <2>11 DEF Tracked
<1> QED BY <1>1, <1>2, <1>3

\* With the connection every client that left a trace becomes an orphan.
LEMMA OriginBreak ==
  ASSUME TypeOK, OriginInv, Break
  PROVE  OriginInv'
<1>1. PICK n0 \in 0 .. Len(inbox) : inbox' = SubSeq(inbox, 1, n0)
  BY DEF Break
<1>2. member' = member /\ orphan' = orphan \cup IdsOf(link)
  BY DEF Break, groupVars
<1>3. /\ Len(inbox') = n0 /\ DOMAIN inbox' = 1 .. n0
      /\ \A i \in 1 .. n0 : inbox'[i] = inbox[i]
      /\ DOMAIN inbox = 1 .. Len(inbox) /\ Len(inbox) \in Nat
  BY <1>1, CutInbox DEF TypeOK
<1> SUFFICES ASSUME NEW id \in Ids, NEW n \in 0 .. Len(inbox'), Trace(id, n)'
             PROVE  (Tracked(id, n) /\ FromLink(id))'
  BY DEF OriginInv
<1>4. Trace(id, n) /\ n \in 0 .. Len(inbox)
  BY <1>2, <1>3 DEF Trace
<1>5. FromLink(id)
  BY <1>4 DEF OriginInv
<1>6. id \in orphan'
  BY <1>2, <1>5 DEF FromLink, IdsOf, Ids
<1> QED BY <1>5, <1>6 DEF Tracked, FromLink

\* Whose departure is lost becomes an orphan.
LEMMA OriginLose ==
  ASSUME TypeOK, OriginInv, Lose
  PROVE  OriginInv'
<1>1. PICK n0 \in 0 .. Len(inbox) - 1 :
        /\ inbox' = SubSeq(inbox, 1, n0)
        /\ orphan' = orphan \cup
             {id \in Ids : \E i \in n0 + 1 .. Len(inbox) : inbox[i] = Departure(id)}
  BY DEF Lose
<1>2. UNCHANGED <<open, link, member>>
  BY DEF Lose, linkVars, groupVars
<1>3. /\ Len(inbox) \in Nat /\ n0 \in 0 .. Len(inbox)
      /\ Len(inbox') = n0 /\ DOMAIN inbox' = 1 .. n0
      /\ \A i \in 1 .. n0 : inbox'[i] = inbox[i]
      /\ DOMAIN inbox = 1 .. Len(inbox)
  BY <1>1, CutInbox DEF TypeOK
<1> SUFFICES ASSUME NEW id \in Ids, NEW n \in 0 .. Len(inbox'), Trace(id, n)'
             PROVE  (Tracked(id, n) /\ FromLink(id))'
  BY DEF OriginInv
<1>4. Trace(id, n) /\ n \in 0 .. Len(inbox)
  BY <1>2, <1>3 DEF Trace
<1>5. Tracked(id, n) /\ FromLink(id)
  BY <1>4 DEF OriginInv
<1>6. FromLink(id)'
  BY <1>1, <1>2, <1>5 DEF FromLink
<1>7. ASSUME NEW i \in DOMAIN inbox, i > n, inbox[i] = Departure(id) PROVE Tracked(id, n)'
  <2>1. CASE i \in 1 .. n0
    BY <1>3, <1>7, <2>1 DEF Tracked
  <2>2. CASE i \in n0 + 1 .. Len(inbox)
    BY <1>1, <1>7, <2>2 DEF Tracked
  <2> QED BY <1>3, <2>1, <2>2
<1> QED BY <1>1, <1>2, <1>5, <1>6, <1>7 DEF Tracked

\* The first message is handled, and the others move up.
LEMMA OriginShifts ==
  ASSUME TypeOK, inbox # <<>>, inbox' = Tail(inbox), UNCHANGED <<open, link>>,
         NEW id \in Ids, NEW n \in 0 .. Len(inbox'), NEW k \in Nat,
         k = n + 1 \/ (k = 0 /\ n = 0 /\ Head(inbox) # Departure(id)),
         Tracked(id, k), FromLink(id),
         id \in orphan => id \in orphan'
  PROVE  (Tracked(id, n) /\ FromLink(id))'
<1>1. /\ Len(inbox) \in Nat \ {0} /\ DOMAIN inbox = 1 .. Len(inbox)
      /\ DOMAIN inbox' = 1 .. Len(inbox) - 1
      /\ \A i \in 1 .. Len(inbox) - 1 : inbox'[i] = inbox[i + 1]
      /\ Head(inbox) = inbox[1]
  BY DEF TypeOK
<1>2. FromLink(id)'
  BY DEF FromLink
<1>3. ASSUME NEW i \in DOMAIN inbox, i > k, inbox[i] = Departure(id) PROVE Tracked(id, n)'
  <2>1. i # 1
    BY <1>1, <1>3
  <2>2. i - 1 \in 1 .. Len(inbox) - 1 /\ i - 1 > n
    BY <1>1, <1>3, <2>1
  <2>3. inbox'[i - 1] = Departure(id)
    BY <1>1, <1>3, <2>2
  <2> QED BY <1>1, <2>2, <2>3 DEF Tracked
<1> QED BY <1>2, <1>3 DEF Tracked

LEMMA OriginRequest ==
  ASSUME TypeOK, OriginInv, inbox # <<>>, inbox' = Tail(inbox), UNCHANGED <<open, link, orphan>>,
         Head(inbox).type # "client_exit",
         \A g \in GroupIds : member'[g] \subseteq member[g] \cup {Head(inbox).id}
  PROVE  OriginInv'
<1>1. /\ Len(inbox) \in Nat \ {0} /\ DOMAIN inbox = 1 .. Len(inbox)
      /\ DOMAIN inbox' = 1 .. Len(inbox) - 1 /\ Len(inbox') = Len(inbox) - 1
      /\ \A i \in 1 .. Len(inbox) - 1 : inbox'[i] = inbox[i + 1]
      /\ Head(inbox) = inbox[1]
  BY DEF TypeOK
<1> SUFFICES ASSUME NEW id \in Ids, NEW n \in 0 .. Len(inbox'), Trace(id, n)'
             PROVE  (Tracked(id, n) /\ FromLink(id))'
  BY DEF OriginInv
<1>2. Head(inbox) # Departure(id)
  BY DEF Departure
<1>3. Trace(id, n + 1) \/ (n = 0 /\ Trace(id, 0))
  BY <1>1 DEF Trace
<1>4. n + 1 \in 0 .. Len(inbox) /\ 0 \in 0 .. Len(inbox)
  BY <1>1
<1>5. PICK k \in {0, n + 1} : (k = n + 1 \/ (k = 0 /\ n = 0)) /\ Trace(id, k)
  BY <1>3
<1>6. k \in Nat /\ Tracked(id, k) /\ FromLink(id)
  BY <1>4, <1>5 DEF OriginInv
<1> QED BY <1>2, <1>5, <1>6, OriginShifts

LEMMA OriginClientExit ==
  ASSUME GroupInv, OriginInv, ClientExit
  PROVE  OriginInv'
<1> DEFINE c == Head(inbox).id
<1>1. /\ inbox # <<>> /\ inbox' = Tail(inbox) /\ UNCHANGED <<open, link>>
      /\ Head(inbox).type = "client_exit"
  BY DEF ClientExit, Receive, linkVars
<1>2. TypeOK
  BY DEF GroupInv
<1>3. /\ Len(inbox) \in Nat \ {0} /\ DOMAIN inbox = 1 .. Len(inbox)
      /\ DOMAIN inbox' = 1 .. Len(inbox) - 1 /\ Len(inbox') = Len(inbox) - 1
      /\ \A i \in 1 .. Len(inbox) - 1 : inbox'[i] = inbox[i + 1]
  BY <1>1, <1>2 DEF TypeOK
<1>4. \A g \in GroupIds : member'[g] = member[g] \ {c}
  BY ClientExitFits
<1>5. orphan' = IF \E i \in 2 .. Len(inbox) : inbox[i].id = c THEN orphan ELSE orphan \ {c}
  BY DEF ClientExit, Heard
<1> SUFFICES ASSUME NEW id \in Ids, NEW n \in 0 .. Len(inbox'), Trace(id, n)'
             PROVE  (Tracked(id, n) /\ FromLink(id))'
  BY DEF OriginInv
<1>6. CASE n = 0
  <2>1. Trace(id, 0) /\ id # c
    BY <1>3, <1>4, <1>6 DEF Trace
  <2>2. 0 \in 0 .. Len(inbox)
    BY <1>3
  <2>3. Tracked(id, 0) /\ FromLink(id)
    BY <2>1, <2>2 DEF OriginInv
  <2>4. Head(inbox) # Departure(id)
    BY <2>1 DEF Departure
  <2>5. id \in orphan => id \in orphan'
    BY <1>5, <2>1
  <2> QED BY <1>1, <1>2, <1>6, <2>3, <2>4, <2>5, OriginShifts
<1>7. CASE n # 0
  <2>1. n \in 1 .. Len(inbox) - 1
    BY <1>3, <1>7
  <2>2. n + 1 \in 2 .. Len(inbox) /\ n + 1 \in Nat /\ inbox[n + 1].id = id /\ Trace(id, n + 1)
    BY <1>3, <2>1 DEF Trace
  <2>3. Tracked(id, n + 1) /\ FromLink(id)
    <3>1. n + 1 \in 0 .. Len(inbox)
      BY <2>2
    <3> QED BY <2>2, <3>1 DEF OriginInv
  <2>4. id \in orphan => id \in orphan'
    BY <1>5, <2>2
  <2> HIDE DEF c
  <2> QED BY <1>1, <1>2, <2>2, <2>3, <2>4, OriginShifts
<1> QED BY <1>6, <1>7

LEMMA OriginInvariant == Spec => [](GroupInv /\ OriginInv)
<1>1. Init => OriginInv
  <2> SUFFICES ASSUME Init PROVE OriginInv
    OBVIOUS
  <2>1. Len(inbox) = 0 /\ DOMAIN inbox = {} /\ \A g \in GroupIds : member[g] = {}
    BY DEF Init
  <2> QED BY <2>1 DEF OriginInv, Trace
<1>2. GroupInv /\ OriginInv /\ [Next]_vars => OriginInv'
  <2> SUFFICES ASSUME GroupInv, OriginInv, [Next]_vars PROVE OriginInv'
    OBVIOUS
  <2>1. TypeOK
    BY DEF GroupInv
  <2>2. ASSUME NEW s \in Socks, Arrive(s) PROVE OriginInv'
    BY <2>2, OriginUnmoved DEF Arrive, groupVars
  <2>3. ASSUME NEW s \in Socks, Leave(s) PROVE OriginInv'
    BY <2>1, <2>3, OriginLeave
  <2>4. ASSUME NEW s \in Socks, NEW m \in Requests, Ask(s, m) PROVE OriginInv'
    BY <2>1, <2>4, OriginAsk
  <2>5. ASSUME NEW l \in Links, Connect(l) PROVE OriginInv'
    BY <2>5, OriginUnmoved DEF Connect, groupVars
  <2>6. CASE Registered
    BY <2>6, OriginUnmoved DEF Registered, groupVars
  <2>7. CASE Break
    BY <2>1, <2>7, OriginBreak
  <2>8. CASE Lose
    BY <2>1, <2>8, OriginLose
  <2>9. CASE ClientExit
    BY <2>9, OriginClientExit
  <2>10. CASE Handle /\ ~ClientExit
    <3>1. /\ inbox # <<>> /\ inbox' = Tail(inbox) /\ UNCHANGED <<open, link, orphan>>
          /\ Head(inbox).type \in {"create", "join", "exit"}
      BY <2>10 DEF Handle, Found, CreateJoins, CreateFails, Join, JoinFails, Exit, ExitFails,
                   Receive, linkVars
    <3>2. \A g \in GroupIds : member'[g] \subseteq member[g] \cup {Head(inbox).id}
      BY <2>1, <2>10 DEF Handle, Found, CreateJoins, CreateFails, Join, JoinFails, Exit, ExitFails,
                   AddMember, RemoveMember, TypeOK, groupVars
    <3> QED BY <2>1, <3>1, <3>2, OriginRequest
  <2>11. CASE UNCHANGED vars
    BY <2>11, OriginUnmoved DEF vars, linkVars, groupVars
  <2> QED BY <2>2, <2>3, <2>4, <2>5, <2>6, <2>7, <2>8, <2>9, <2>10, <2>11 DEF Next
<1> QED BY <1>1, <1>2, GroupInvariant, PTL DEF Spec

\* A member of a group that is no client of the Link any more is announced as
\* gone, or an orphan, because a client's departure comes after its last request
\* and a connection that breaks leaves orphans only.
THEOREM GhostsAccounted == Spec => []GhostsAreOrphans
<1>1. GroupInv /\ OriginInv => GhostsAreOrphans
  <2> SUFFICES ASSUME GroupInv, OriginInv, NEW g \in GroupIds, NEW id \in member[g]
               PROVE  \/ id[1] = link /\ id[2] \in open
                      \/ \E i \in DOMAIN inbox : inbox[i] = Departure(id)
                      \/ id \in orphan
    BY DEF GhostsAreOrphans
  <2>1. id \in Ids /\ Len(inbox) \in Nat
    BY DEF GroupInv, TypeOK
  <2>2. Trace(id, 0)
    BY DEF Trace
  <2> QED BY <2>1, <2>2 DEF OriginInv, Tracked
<1> QED BY <1>1, OriginInvariant, PTL
===============================================================================
