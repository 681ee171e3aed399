\* Logins by name and by token, departures and descriptors used again.
SPECIFICATION Spec
CONSTANTS
  Users <- MCUsers
  Clients <- MCClients
  Addr <- MCAddr
  a1 = a1
  a2 = a2
  MaxToken = 3
  MaxUp = 2
  MaxDown = 3
SYMMETRY Symmetry
INVARIANTS
  TypeOK
  MapsAgree
  OneSession
PROPERTIES
  LogoutEndsItsSession
\* The Link and the LoginServer stop when the bounds are used up.
CHECK_DEADLOCK FALSE
