------------------------------- MODULE Membership -------------------------------
(***************************************************************************)
(* What a GroupServer promises: a group is founded with a key, which stays *)
(* the same until the last member has left; it can be entered only until   *)
(* then, is left by its members one at a time, and a client that has gone  *)
(* is in no group.                                                         *)
(***************************************************************************)
CONSTANTS Ids, GroupIds, Keys, NoKey

VARIABLES roster, key

Init == roster = [g \in GroupIds |-> {}] /\ key = [g \in GroupIds |-> NoKey]

Found(c, g, k) ==
  /\ roster[g] = {}
  /\ roster' = [roster EXCEPT ![g] = {c}]
  /\ key' = [key EXCEPT ![g] = k]

Enter(c, g) ==
  /\ roster[g] # {}
  /\ roster' = [roster EXCEPT ![g] = @ \cup {c}]
  /\ UNCHANGED key

\* The key goes with the last member.
Remove(c, G) ==
  /\ roster' = [g \in GroupIds |-> IF g \in G THEN roster[g] \ {c} ELSE roster[g]]
  /\ key' = [g \in GroupIds |-> IF roster'[g] = {} THEN NoKey ELSE key[g]]

Quit(c, g) == c \in roster[g] /\ Remove(c, {g})

Vanish(c) == Remove(c, GroupIds)

Next ==
  \E c \in Ids :
    \/ \E g \in GroupIds : (\E k \in Keys : Found(c, g, k)) \/ Enter(c, g) \/ Quit(c, g)
    \/ Vanish(c)

Spec == Init /\ [][Next]_<<roster, key>>
===============================================================================
