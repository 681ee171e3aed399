\* Requests and departures in any order, over connections that break.
SPECIFICATION Spec
CONSTANTS
  Socks <- MCSocks
  Links <- MCLinks
  GroupIds <- MCGroupIds
  IndexStart <- MCIndexStart
  Keys <- MCKeys
  Named <- MCNamed
  NoKey = NoKey
  c1 = c1
  c2 = c2
  k1 = k1
  k2 = k2
  MaxInbox = 2
SYMMETRY Symmetry
INVARIANTS
  TypeOK
  MemberKnown
  GhostsAreOrphans
PROPERTIES
  GroupsKept
