\* Two connections: the first one's pinger and lookup outlive it.
SPECIFICATION Spec
CONSTANTS
  MaxConns = 2
  MaxPosted = 3
  Addresses = {a1}
  NoAddress = noAddress
\* The user may make no more connections, or stop using the window.
CHECK_DEADLOCK FALSE
INVARIANTS
  TypeOK
  AddressShownOnce
PROPERTY
  PingCatchesUp
